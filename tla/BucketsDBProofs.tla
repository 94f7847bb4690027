-------------------------- MODULE BucketsDBProofs --------------------------
(***************************************************************************)
(* BucketsDB for every set of goroutines and keys, every rule and every    *)
(* clock: type correctness, the double-checked insertion, the bound on the *)
(* grants of a window, that the store implements its port, and that it     *)
(* refuses nobody without a reason.                                        *)
(*                                                                         *)
(* WindowBound is not inductive: it says nothing of the timeline the code  *)
(* looks at.  The strengthening is Backed: the timeline of a key is the    *)
(* list of its grants without a prefix, and every grant of that prefix is  *)
(* older than a window NOW.  A grant that is still recent is therefore an  *)
(* entry of the timeline, and a timeline never outgrows the limit.         *)
(***************************************************************************)
EXTENDS BucketsDB, FiniteSetTheorems, SequenceTheorems, TLAPS

\* ts is g without its first off entries, all of them at most b.
BackedFrom(ts, g, b, off) ==
    /\ Len(ts) = Len(g) - off
    /\ \A j \in 1..Len(ts) : ts[j] = g[off + j]
    /\ \A j \in 1..off : g[j] <= b

Backed(ts, g, b) == \E off \in 0..Len(g) : BackedFrom(ts, g, b, off)

\* What a key's timeline has to do with the grants on the key.
KeyInv(k) ==
    /\ \A p \in Procs : p # data[k] => times[k][p] = <<>>
    /\ data[k] = Nil => granted[k] = <<>>
    /\ data[k] # Nil =>
          /\ Backed(times[k][data[k]], granted[k], clock - Window[k])
          /\ times[k][data[k]] = <<>> \/ Len(times[k][data[k]]) <= Limit[k]

\* No goroutine carries a time of the future.
ClockInv == \A p \in Procs : now[p] <= clock

IndInv ==
    /\ TypeOK
    /\ SingleTimeline
    /\ ClockInv
    /\ \A k \in Keys : KeyInv(k)

-----------------------------------------------------------------------------
\* A sequence of times, seen as a function on an interval.
LEMMA TimesAreFunctions ==
    ASSUME NEW s \in Seq(Nat)
    PROVE  Len(s) \in Nat /\ \A j \in 1..Len(s) : s[j] \in Nat
BY LenProperties

\* The entries dropped by the pruning loop only lengthen the old prefix.
LEMMA BackedPrune ==
    ASSUME NEW g \in Seq(Nat), NEW ts \in Seq(Nat), NEW b \in Int, NEW c \in Int,
           c <= b, Backed(ts, g, b),
           NEW i \in 0..Len(ts), Prune(ts, c, i)
    PROVE  /\ SubSeq(ts, i + 1, Len(ts)) \in Seq(Nat)
           /\ Len(SubSeq(ts, i + 1, Len(ts))) = Len(ts) - i
           /\ Backed(SubSeq(ts, i + 1, Len(ts)), g, b)
<1> DEFINE live == SubSeq(ts, i + 1, Len(ts))
<1>1. PICK off \in 0..Len(g) : BackedFrom(ts, g, b, off)
  BY DEF Backed
<1>2. /\ Len(g) \in Nat /\ \A j \in 1..Len(g) : g[j] \in Nat
      /\ Len(ts) \in Nat /\ \A j \in 1..Len(ts) : ts[j] \in Nat
  BY TimesAreFunctions
<1>3. /\ live \in Seq(Nat)
      /\ Len(live) = Len(ts) - i
      /\ \A j \in 1..Len(live) : live[j] = ts[i + j]
  <2>1. \A j \in (i + 1)..Len(ts) : ts[j] \in Nat
    BY <1>2
  <2>2. /\ live \in Seq(Nat)
        /\ Len(live) = IF i + 1 <= Len(ts) THEN Len(ts) - (i + 1) + 1 ELSE 0
        /\ \A j \in 1..(Len(ts) - (i + 1) + 1) : live[j] = ts[i + 1 + j - 1]
    BY <1>2, <2>1, SubSeqProperties
  <2>3. Len(live) = Len(ts) - i
    BY <1>2, <2>2
  <2>4. ASSUME NEW j \in 1..Len(live) PROVE live[j] = ts[i + j]
    <3>1. j \in 1..(Len(ts) - (i + 1) + 1) /\ i + 1 + j - 1 = i + j
      BY <1>2, <2>3
    <3> QED
      BY <2>2, <3>1
  <2> QED
    BY <2>2, <2>3, <2>4
<1> HIDE DEF live
<1>4. off + i \in 0..Len(g) /\ Len(live) = Len(g) - (off + i)
  BY <1>1, <1>2, <1>3 DEF BackedFrom
<1>5. ASSUME NEW j \in 1..Len(live) PROVE live[j] = g[(off + i) + j]
  <2>1. live[j] = ts[i + j] /\ i + j \in 1..Len(ts)
    BY <1>2, <1>3
  <2>2. ts[i + j] = g[off + (i + j)] /\ off + (i + j) = (off + i) + j
    BY <1>1, <1>2, <2>1 DEF BackedFrom
  <2> QED
    BY <2>1, <2>2
<1>6. ASSUME NEW j \in 1..(off + i) PROVE g[j] <= b
  <2>1. CASE j <= off
    BY <1>1, <1>2, <2>1 DEF BackedFrom
  <2>2. CASE j > off
    <3>1. j - off \in 1..i /\ j - off \in 1..Len(ts)
      BY <1>2, <2>2
    <3>2. ts[j - off] <= c /\ ts[j - off] = g[off + (j - off)]
      BY <1>1, <3>1 DEF BackedFrom, Prune
    <3>3. off + (j - off) = j
      BY <1>2
    <3>4. j \in 1..Len(g)
      BY <1>4, <1>2
    <3> QED
      BY <1>2, <3>2, <3>3, <3>4
  <2> QED
    BY <1>2, <2>1, <2>2
<1>7. BackedFrom(live, g, b, off + i)
  BY <1>4, <1>5, <1>6 DEF BackedFrom
<1>8. Backed(live, g, b)
  BY <1>4, <1>7 DEF Backed
<1> QED
  BY <1>3, <1>8 DEF live

\* A grant that is recorded in both lists keeps them related.
LEMMA BackedAppend ==
    ASSUME NEW g \in Seq(Nat), NEW ts \in Seq(Nat), NEW b \in Int,
           NEW x \in Nat, Backed(ts, g, b)
    PROVE  Backed(Append(ts, x), Append(g, x), b)
<1> DEFINE ts2 == Append(ts, x)
           g2 == Append(g, x)
<1>1. PICK off \in 0..Len(g) : BackedFrom(ts, g, b, off)
  BY DEF Backed
<1>2. Len(g) \in Nat /\ Len(ts) \in Nat
  BY TimesAreFunctions
<1>3. /\ Len(ts2) = Len(ts) + 1 /\ ts2[Len(ts) + 1] = x
      /\ \A j \in 1..Len(ts) : ts2[j] = ts[j]
      /\ Len(g2) = Len(g) + 1 /\ g2[Len(g) + 1] = x
      /\ \A j \in 1..Len(g) : g2[j] = g[j]
  BY AppendProperties
<1> HIDE DEF ts2, g2
<1>4. off \in 0..Len(g2) /\ Len(ts2) = Len(g2) - off
  BY <1>1, <1>2, <1>3 DEF BackedFrom
<1>5. ASSUME NEW j \in 1..Len(ts2) PROVE ts2[j] = g2[off + j]
  <2>1. CASE j \in 1..Len(ts)
    <3>1. ts[j] = g[off + j] /\ off + j \in 1..Len(g)
      BY <1>1, <1>2, <2>1 DEF BackedFrom
    <3> QED
      BY <1>3, <2>1, <3>1
  <2>2. CASE j = Len(ts) + 1
    <3>1. off + j = Len(g) + 1
      BY <1>1, <1>2, <2>2 DEF BackedFrom
    <3> QED
      BY <1>3, <2>2, <3>1
  <2> QED
    BY <1>2, <1>3, <2>1, <2>2
<1>6. ASSUME NEW j \in 1..off PROVE g2[j] <= b
  <2>1. j \in 1..Len(g)
    BY <1>2
  <2> QED
    BY <1>1, <1>3, <2>1 DEF BackedFrom
<1>7. BackedFrom(ts2, g2, b, off)
  BY <1>4, <1>5, <1>6 DEF BackedFrom
<1> QED
  BY <1>4, <1>7 DEF Backed, ts2, g2

\* The bound may grow: time passes.
LEMMA BackedLater ==
    ASSUME NEW g \in Seq(Nat), NEW ts \in Seq(Nat), NEW b \in Int, NEW c \in Int,
           b <= c, Backed(ts, g, b)
    PROVE  Backed(ts, g, c)
<1>1. PICK off \in 0..Len(g) : BackedFrom(ts, g, b, off)
  BY DEF Backed
<1>2. ASSUME NEW j \in 1..off PROVE g[j] <= c
  <2>1. g[j] <= b
    BY <1>1 DEF BackedFrom
  <2>2. j \in 1..Len(g) /\ g[j] \in Nat
    BY TimesAreFunctions
  <2> QED
    BY <2>1, <2>2
<1>3. BackedFrom(ts, g, c, off)
  BY <1>1, <1>2 DEF BackedFrom
<1> QED
  BY <1>3 DEF Backed

LEMMA BackedEmpty ==
    ASSUME NEW b \in Int
    PROVE  Backed(<<>>, <<>>, b)
<1>1. BackedFrom(<<>>, <<>>, b, 0) /\ 0 \in 0..Len(<<>>)
  BY DEF BackedFrom
<1> QED
  BY <1>1 DEF Backed

\* What is still recent is on the timeline, so it cannot be more than that.
LEMMA BackedCount ==
    ASSUME NEW g \in Seq(Nat), NEW ts \in Seq(Nat), NEW b \in Int,
           Backed(ts, g, b)
    PROVE  Cardinality({i \in 1..Len(g) : g[i] > b}) <= Len(ts)
<1> DEFINE recent == {i \in 1..Len(g) : g[i] > b}
<1>1. PICK off \in 0..Len(g) : BackedFrom(ts, g, b, off)
  BY DEF Backed
<1>2. Len(g) \in Nat /\ \A j \in 1..Len(g) : g[j] \in Nat
  BY TimesAreFunctions
<1>3. recent \in SUBSET ((off + 1)..Len(g))
  <2> SUFFICES ASSUME NEW i \in recent PROVE i \in (off + 1)..Len(g)
    OBVIOUS
  <2>1. ~ i \in 1..off
    BY <1>1, <1>2 DEF BackedFrom
  <2> QED
    BY <1>2, <2>1
<1>4. off + 1 \in Int /\ Len(g) \in Int
  BY <1>2
<1>5. /\ IsFiniteSet((off + 1)..Len(g))
      /\ Cardinality((off + 1)..Len(g)) =
            IF off + 1 > Len(g) THEN 0 ELSE Len(g) - (off + 1) + 1
  BY <1>4, FS_Interval
<1>6. Cardinality((off + 1)..Len(g)) = Len(ts)
  BY <1>1, <1>2, <1>5 DEF BackedFrom
<1>7. Cardinality(recent) <= Cardinality((off + 1)..Len(g))
  BY <1>3, <1>5, FS_Subset
<1> QED
  BY <1>6, <1>7

-----------------------------------------------------------------------------
LEMMA InitIndInv == Init => IndInv
<1> SUFFICES ASSUME Init PROVE IndInv
  OBVIOUS
<1> USE NilAssumption DEF Init
<1>1. TypeOK
  BY EmptySeq DEF TypeOK, PCs
<1>2. SingleTimeline /\ ClockInv
  BY DEF SingleTimeline, ClockInv
<1>3. \A k \in Keys : KeyInv(k)
  BY DEF KeyInv
<1> QED
  BY <1>1, <1>2, <1>3 DEF IndInv

\* A step that touches neither the buckets nor the clock keeps KeyInv.
LEMMA KeyInvUnchanged ==
    ASSUME NEW k \in Keys, KeyInv(k), UNCHANGED <<clock, data, times, granted>>
    PROVE  KeyInv(k)'
BY DEF KeyInv

\* A call that returns leaves its locals in the initial state.
LEMMA ReturnKeeps ==
    ASSUME TypeOK, SingleTimeline, ClockInv, NEW p \in Procs,
           NEW r \in {"none", "ok", "refused"}, Return(p, r),
           UNCHANGED <<clock, data>>
    PROVE  /\ pc' \in [Procs -> PCs]
           /\ key' \in [Procs -> Keys \cup {Nil}]
           /\ now' \in [Procs -> Nat]
           /\ tl' \in [Procs -> Procs \cup {Nil}]
           /\ reply' \in [Procs -> {"none", "ok", "refused"}]
           /\ \A q \in Procs : (pc[q] # "idle" => key[q] \in Keys)'
           /\ \A q \in Procs : (pc[q] \in {"commit", "reset"} => tl[q] \in Procs)'
           /\ SingleTimeline'
           /\ ClockInv'
<1> USE DEF TypeOK, Return, PCs
<1>1. /\ pc' \in [Procs -> PCs]
      /\ key' \in [Procs -> Keys \cup {Nil}]
      /\ now' \in [Procs -> Nat]
      /\ tl' \in [Procs -> Procs \cup {Nil}]
      /\ reply' \in [Procs -> {"none", "ok", "refused"}]
  OBVIOUS
<1>2. ASSUME NEW q \in Procs
      PROVE  /\ (pc[q] # "idle" => key[q] \in Keys)'
             /\ (pc[q] \in {"commit", "reset"} => tl[q] \in Procs)'
             /\ (pc[q] \in {"commit", "reset"} => tl[q] = data[key[q]])'
             /\ (now[q] <= clock)'
  <2>1. CASE q = p
    BY <2>1
  <2>2. CASE q # p
    <3>1. pc'[q] = pc[q] /\ key'[q] = key[q] /\ tl'[q] = tl[q] /\ now'[q] = now[q]
      BY <2>2
    <3> QED
      BY <3>1 DEF SingleTimeline, ClockInv
  <2> QED
    BY <2>1, <2>2
<1> QED
  BY <1>1, <1>2 DEF SingleTimeline, ClockInv

LEMMA NextIndInv == IndInv /\ [Next]_vars => IndInv'
<1> SUFFICES ASSUME IndInv, [Next]_vars PROVE IndInv'
  OBVIOUS
<1> USE RulesAssumption, NilAssumption
<1>a. TypeOK /\ SingleTimeline /\ ClockInv /\ \A k \in Keys : KeyInv(k)
  BY DEF IndInv
<1>1. ASSUME NEW p \in Procs, NEW k \in Keys, AllowTrivially(p, k)
      PROVE  IndInv'
  <2>1. \E r \in {"none", "ok", "refused"} : Return(p, r)
    BY <1>1 DEF AllowTrivially
  <2>2. TypeOK' /\ SingleTimeline' /\ ClockInv'
    BY <1>1, <1>a, <2>1, ReturnKeeps DEF AllowTrivially, TypeOK
  <2>3. \A m \in Keys : KeyInv(m)'
    BY <1>1, <1>a, KeyInvUnchanged DEF AllowTrivially
  <2> QED
    BY <2>2, <2>3 DEF IndInv
<1>2. ASSUME NEW p \in Procs, NEW k \in Keys, AllowStart(p, k)
      PROVE  IndInv'
  <2>1. TypeOK'
    BY <1>2, <1>a DEF AllowStart, Goto, TypeOK, PCs
  <2>2. SingleTimeline'
    BY <1>2, <1>a DEF AllowStart, Goto, TypeOK, SingleTimeline
  <2>3. ClockInv'
    BY <1>2, <1>a DEF AllowStart, TypeOK, ClockInv
  <2>4. \A m \in Keys : KeyInv(m)'
    BY <1>2, <1>a, KeyInvUnchanged DEF AllowStart
  <2> QED
    BY <2>1, <2>2, <2>3, <2>4 DEF IndInv
<1>3. ASSUME NEW p \in Procs, LookupTimeline(p)
      PROVE  IndInv'
  <2>1. TypeOK'
    BY <1>3, <1>a DEF LookupTimeline, AfterLookup, Goto, TypeOK, PCs
  <2>2. SingleTimeline'
    BY <1>3, <1>a DEF LookupTimeline, AfterLookup, Goto, TypeOK, SingleTimeline
  <2>3. ClockInv'
    BY <1>3, <1>a DEF LookupTimeline, ClockInv
  <2>4. \A m \in Keys : KeyInv(m)'
    BY <1>3, <1>a, KeyInvUnchanged DEF LookupTimeline
  <2> QED
    BY <2>1, <2>2, <2>3, <2>4 DEF IndInv
<1>4. ASSUME NEW p \in Procs, CreateTimeline(p)
      PROVE  IndInv'
  <2>0. key[p] \in Keys /\ Created(p) \in Procs
    BY <1>4, <1>a DEF CreateTimeline, TypeOK, Created
  <2>1. TypeOK'
    BY <1>4, <1>a, <2>0 DEF CreateTimeline, Goto, TypeOK, PCs
  <2>2. SingleTimeline'
    <3> SUFFICES ASSUME NEW q \in Procs, pc'[q] \in {"commit", "reset"}
                 PROVE  tl'[q] = data'[key'[q]]
      BY DEF SingleTimeline
    <3>1. CASE q = p
      BY <1>4, <1>a, <2>0, <3>1 DEF CreateTimeline, TypeOK
    <3>2. CASE q # p
      <4>1. pc[q] \in {"commit", "reset"} /\ tl'[q] = tl[q] /\ key'[q] = key[q]
        BY <1>4, <1>a, <3>2 DEF CreateTimeline, Goto, TypeOK
      <4>2. tl[q] \in Procs /\ key[q] \in Keys /\ tl[q] = data[key[q]]
        BY <1>a, <4>1 DEF TypeOK, SingleTimeline
      <4>3. data'[key[q]] = data[key[q]]
        BY <1>4, <1>a, <2>0, <4>2 DEF CreateTimeline, Created, TypeOK
      <4> QED
        BY <4>1, <4>2, <4>3
    <3> QED
      BY <3>1, <3>2
  <2>3. ClockInv'
    BY <1>4, <1>a DEF CreateTimeline, ClockInv
  <2>4. ASSUME NEW m \in Keys PROVE KeyInv(m)'
    <3>1. CASE data'[m] = data[m]
      BY <1>4, <1>a, <3>1 DEF CreateTimeline, KeyInv
    <3>2. CASE data'[m] # data[m]
      <4>1. m = key[p] /\ data[m] = Nil /\ data'[m] = p
        BY <1>4, <1>a, <2>0, <3>2 DEF CreateTimeline, Created, TypeOK
      <4>2. granted[m] = <<>> /\ \A q \in Procs : times[m][q] = <<>>
        BY <1>a, <4>1 DEF KeyInv
      <4>3. clock - Window[m] \in Int
        BY <1>a DEF TypeOK
      <4>4. Backed(times[m][p], granted[m], clock - Window[m])
        BY <4>2, <4>3, BackedEmpty
      <4>5. UNCHANGED <<clock, times, granted>>
        BY <1>4 DEF CreateTimeline
      <4> QED
        BY <4>1, <4>2, <4>4, <4>5 DEF KeyInv
    <3> QED
      BY <3>1, <3>2
  <2> QED
    BY <2>1, <2>2, <2>3, <2>4 DEF IndInv
<1>5. ASSUME NEW p \in Procs, AllowCommit(p)
      PROVE  IndInv'
  <2> DEFINE k == key[p]
             ts == times[k][tl[p]]
             g == granted[k]
             live(i) == SubSeq(ts, i + 1, Len(ts))
             b == clock - Window[k]
             c == now[p] - Window[k]
  <2>1. /\ k \in Keys /\ tl[p] \in Procs /\ tl[p] = data[k] /\ data[k] # Nil
        /\ UNCHANGED <<clock, data>>
    BY <1>5, <1>a DEF AllowCommit, TypeOK, SingleTimeline
  <2>2. /\ g \in Seq(Nat) /\ ts \in Seq(Nat) /\ b \in Int /\ c \in Int /\ c <= b
        /\ now[p] \in Nat /\ Limit[k] \in Int
    BY <1>a, <2>1 DEF TypeOK, ClockInv
  <2>3. Backed(ts, g, b) /\ (ts = <<>> \/ Len(ts) <= Limit[k])
    BY <1>a, <2>1 DEF KeyInv
  <2>4. PICK i \in 0..Len(ts) :
          /\ Prune(ts, c, i)
          /\ \/ /\ HasRoom(k, Len(live(i)))
                /\ times' = [times EXCEPT ![k][tl[p]] = Append(live(i), now[p])]
                /\ granted' = [granted EXCEPT ![k] = Append(@, now[p])]
                /\ Return(p, "ok")
             \/ /\ ~HasRoom(k, Len(live(i)))
                /\ times' = [times EXCEPT ![k][tl[p]] = live(i)]
                /\ Return(p, "refused")
                /\ UNCHANGED granted
    BY <1>5 DEF AllowCommit
  <2>5. /\ live(i) \in Seq(Nat) /\ Len(live(i)) = Len(ts) - i
        /\ Backed(live(i), g, b)
    <3>1. Prune(ts, c, i)
      BY <2>4
    <3> HIDE DEF k, ts, g, b, c
    <3> QED
      BY <2>2, <2>3, <3>1, BackedPrune
  <2>6. PICK ts2 \in Seq(Nat), g2 \in Seq(Nat) :
          /\ times' = [times EXCEPT ![k][tl[p]] = ts2]
          /\ granted' = [granted EXCEPT ![k] = g2]
          /\ Backed(ts2, g2, b)
          /\ ts2 = <<>> \/ Len(ts2) <= Limit[k]
    <3>1. CASE HasRoom(k, Len(live(i)))
      <4>1. /\ Append(live(i), now[p]) \in Seq(Nat) /\ Append(g, now[p]) \in Seq(Nat)
            /\ Len(Append(live(i), now[p])) = Len(live(i)) + 1
        BY <2>2, <2>5, AppendProperties
      <4>2. Backed(Append(live(i), now[p]), Append(g, now[p]), b)
        BY <2>2, <2>5, BackedAppend
      <4>3. Len(live(i)) \in Nat
        BY <2>5, TimesAreFunctions
      <4>4. Len(Append(live(i), now[p])) <= Limit[k]
        <5>1. Len(live(i)) < Limit[k] /\ Limit[k] \in Int
          BY <2>2, <3>1 DEF HasRoom
        <5> HIDE DEF k, live
        <5> QED
          BY <4>1, <4>3, <5>1
      <4>5. granted' = [granted EXCEPT ![k] = Append(g, now[p])]
        BY <2>4, <3>1
      <4> HIDE DEF k, ts, g, live, b
      <4> QED
        BY <2>4, <3>1, <4>1, <4>2, <4>4, <4>5
    <3>2. CASE ~HasRoom(k, Len(live(i)))
      <4>1. live(i) = <<>> \/ Len(live(i)) <= Limit[k]
        <5>1. CASE ts = <<>>
          <6>1. Len(live(i)) = 0
            BY <2>4, <2>5, <5>1
          <6> QED
            BY <2>5, <6>1, EmptySeq
        <5>2. CASE Len(ts) <= Limit[k]
          <6>1. Len(ts) \in Nat /\ Limit[k] \in Int /\ Len(live(i)) = Len(ts) - i
            BY <2>2, <2>5, TimesAreFunctions
          <6> HIDE DEF k, ts, live
          <6> QED
            BY <5>2, <6>1
        <5> QED
          BY <2>3, <5>1, <5>2
      <4>2. granted' = [granted EXCEPT ![k] = g]
        BY <1>a, <2>1, <2>4, <3>2 DEF TypeOK
      <4>3. times' = [times EXCEPT ![k][tl[p]] = live(i)]
        BY <2>4, <3>2
      <4> HIDE DEF k, ts, g, live, b
      <4> QED
        BY <2>2, <2>5, <4>1, <4>2, <4>3
    <3> QED
      BY <3>1, <3>2
  <2> HIDE DEF k, ts, g, live, b, c
  <2>7. \E r \in {"none", "ok", "refused"} : Return(p, r)
    BY <2>4
  <2>8. times' \in [Keys -> [Procs -> Seq(Nat)]] /\ granted' \in [Keys -> Seq(Nat)]
    BY <1>a, <2>1, <2>6 DEF TypeOK
  <2>9. TypeOK' /\ SingleTimeline' /\ ClockInv'
    <3>1. PICK r \in {"none", "ok", "refused"} : Return(p, r)
      BY <2>7
    <3>2. /\ pc' \in [Procs -> PCs]
          /\ key' \in [Procs -> Keys \cup {Nil}]
          /\ now' \in [Procs -> Nat]
          /\ tl' \in [Procs -> Procs \cup {Nil}]
          /\ reply' \in [Procs -> {"none", "ok", "refused"}]
          /\ \A q \in Procs : (pc[q] # "idle" => key[q] \in Keys)'
          /\ \A q \in Procs : (pc[q] \in {"commit", "reset"} => tl[q] \in Procs)'
          /\ SingleTimeline'
          /\ ClockInv'
      BY <1>a, <2>1, <3>1, ReturnKeeps
    <3> QED
      BY <1>a, <2>1, <2>8, <3>2 DEF TypeOK
  <2>10. ASSUME NEW m \in Keys PROVE KeyInv(m)'
    <3>1. CASE m = k
      <4>1. /\ times'[m][data[m]] = ts2 /\ granted'[m] = g2
            /\ \A q \in Procs : q # data[m] => times'[m][q] = times[m][q]
        BY <1>a, <2>1, <2>6, <3>1 DEF TypeOK
      <4>2. Backed(ts2, g2, clock - Window[m])
        BY <2>6, <3>1 DEF b
      <4> QED
        BY <1>a, <2>1, <2>6, <3>1, <4>1, <4>2 DEF KeyInv
    <3>2. CASE m # k
      <4>1. times'[m] = times[m] /\ granted'[m] = granted[m]
        BY <1>a, <2>6, <3>2 DEF TypeOK
      <4> QED
        BY <1>a, <2>1, <4>1 DEF KeyInv
    <3> QED
      BY <3>1, <3>2
  <2> QED
    BY <2>9, <2>10 DEF IndInv
<1>6. ASSUME NEW p \in Procs, NEW k \in Keys, ResetNothing(p, k)
      PROVE  IndInv'
  <2>1. TypeOK' /\ SingleTimeline' /\ ClockInv'
    BY <1>6, <1>a, ReturnKeeps DEF ResetNothing, TypeOK
  <2>2. \A m \in Keys : KeyInv(m)'
    BY <1>6, <1>a, KeyInvUnchanged DEF ResetNothing
  <2> QED
    BY <2>1, <2>2 DEF IndInv
<1>7. ASSUME NEW p \in Procs, NEW k \in Keys, ResetStart(p, k)
      PROVE  IndInv'
  <2>1. TypeOK'
    BY <1>7, <1>a DEF ResetStart, Goto, TypeOK, PCs
  <2>2. SingleTimeline'
    BY <1>7, <1>a DEF ResetStart, Goto, TypeOK, SingleTimeline
  <2>3. ClockInv'
    BY <1>7, <1>a DEF ResetStart, ClockInv
  <2>4. \A m \in Keys : KeyInv(m)'
    BY <1>7, <1>a, KeyInvUnchanged DEF ResetStart
  <2> QED
    BY <2>1, <2>2, <2>3, <2>4 DEF IndInv
<1>8. ASSUME NEW p \in Procs, ResetCommit(p)
      PROVE  IndInv'
  <2>1. /\ key[p] \in Keys /\ tl[p] \in Procs /\ tl[p] = data[key[p]]
        /\ UNCHANGED <<clock, data>> /\ Return(p, "none")
        /\ times' = [times EXCEPT ![key[p]][tl[p]] = <<>>]
        /\ granted' = [granted EXCEPT ![key[p]] = <<>>]
    BY <1>8, <1>a DEF ResetCommit, TypeOK, SingleTimeline
  <2>2. times' \in [Keys -> [Procs -> Seq(Nat)]] /\ granted' \in [Keys -> Seq(Nat)]
    BY <1>a, <2>1, EmptySeq DEF TypeOK
  <2>3. TypeOK' /\ SingleTimeline' /\ ClockInv'
    BY <1>a, <2>1, <2>2, ReturnKeeps DEF TypeOK
  <2>4. ASSUME NEW m \in Keys PROVE KeyInv(m)'
    <3>1. CASE m = key[p]
      <4>1. /\ times'[m][data[m]] = <<>> /\ granted'[m] = <<>>
            /\ \A q \in Procs : q # data[m] => times'[m][q] = times[m][q]
        BY <1>a, <2>1, <3>1 DEF TypeOK
      <4>2. clock - Window[m] \in Int
        BY <1>a DEF TypeOK
      <4> QED
        BY <1>a, <2>1, <4>1, <4>2, BackedEmpty DEF KeyInv
    <3>2. CASE m # key[p]
      <4>1. times'[m] = times[m] /\ granted'[m] = granted[m]
        BY <1>a, <2>1, <3>2 DEF TypeOK
      <4> QED
        BY <1>a, <2>1, <4>1 DEF KeyInv
    <3> QED
      BY <3>1, <3>2
  <2> QED
    BY <2>3, <2>4 DEF IndInv
<1>9. CASE Tick
  <2>1. /\ clock \in Nat /\ clock' = clock + 1
        /\ UNCHANGED <<data, times, pc, key, now, tl, reply, granted>>
    BY <1>9, <1>a DEF Tick, TypeOK
  <2>2. TypeOK'
    BY <1>a, <2>1 DEF TypeOK
  <2>3. SingleTimeline' /\ ClockInv'
    BY <1>a, <2>1 DEF SingleTimeline, ClockInv, TypeOK
  <2>4. ASSUME NEW m \in Keys PROVE KeyInv(m)'
    <3>1. CASE data[m] = Nil
      BY <1>a, <2>1, <3>1 DEF KeyInv
    <3>2. CASE data[m] # Nil
      <4>1. /\ times[m][data[m]] \in Seq(Nat) /\ granted[m] \in Seq(Nat)
            /\ clock - Window[m] \in Int /\ (clock + 1) - Window[m] \in Int
            /\ clock - Window[m] <= (clock + 1) - Window[m]
        BY <1>a, <2>1, <3>2 DEF TypeOK
      <4>2. Backed(times[m][data[m]], granted[m], (clock + 1) - Window[m])
        BY <1>a, <3>2, <4>1, BackedLater DEF KeyInv
      <4> QED
        BY <1>a, <2>1, <3>2, <4>2 DEF KeyInv
    <3> QED
      BY <3>1, <3>2
  <2> QED
    BY <2>2, <2>3, <2>4 DEF IndInv
<1>10. CASE UNCHANGED vars
  <2>1. TypeOK' /\ SingleTimeline' /\ ClockInv'
    BY <1>a, <1>10 DEF TypeOK, SingleTimeline, ClockInv, vars
  <2>2. \A m \in Keys : KeyInv(m)'
    BY <1>a, <1>10, KeyInvUnchanged DEF vars
  <2> QED
    BY <2>1, <2>2 DEF IndInv
<1> QED
  BY <1>1, <1>2, <1>3, <1>4, <1>5, <1>6, <1>7, <1>8, <1>9, <1>10 DEF Next, Step

LEMMA IndInvHolds == Spec => []IndInv
BY InitIndInv, NextIndInv, PTL DEF Spec

-----------------------------------------------------------------------------
\* Every variable and every goroutine's locals keep their types: in particular
\* no Allow or Reset ever dereferences a nil timeline.
THEOREM TypeCorrect == Spec => []TypeOK
<1>1. IndInv => TypeOK
  BY DEF IndInv
<1> QED
  BY <1>1, IndInvHolds, PTL

\* getTimeline's double check works: all goroutines share one timeline per key.
THEOREM SingleTimelineHolds == Spec => []SingleTimeline
<1>1. IndInv => SingleTimeline
  BY DEF IndInv
<1> QED
  BY <1>1, IndInvHolds, PTL

\* BucketsDB keeps for a key one timeline of at most Limit[k] entries, whatever
\* the number of goroutines and however their calls overlap.
THEOREM TimelineBoundHolds == Spec => []TimelineBound
<1>1. IndInv => TimelineBound
  BY NilAssumption DEF IndInv, KeyInv, TimelineBound, TypeOK
<1> QED
  BY <1>1, IndInvHolds, PTL

\* Never more than Limit[k] grants on k within the last window.
THEOREM WindowBoundHolds == Spec => []WindowBound
<1>1. IndInv => WindowBound
  <2> SUFFICES ASSUME IndInv, NEW k \in Keys, Limit[k] > 0
               PROVE  Cardinality(Recent(k, clock)) <= Limit[k]
    BY DEF WindowBound
  <2>a. TypeOK /\ KeyInv(k) /\ Limit[k] \in Int /\ Window[k] \in Int
    BY RulesAssumption DEF IndInv
  <2>1. CASE data[k] = Nil
    <3>1. Recent(k, clock) = {}
      BY <2>a, <2>1 DEF KeyInv, Recent
    <3> QED
      BY <2>a, <3>1, FS_EmptySet
  <2>2. CASE data[k] # Nil
    <3>1. /\ times[k][data[k]] \in Seq(Nat) /\ granted[k] \in Seq(Nat)
          /\ clock - Window[k] \in Int
      BY <2>a, <2>2 DEF TypeOK
    <3>2. Cardinality(Recent(k, clock)) <= Len(times[k][data[k]])
      BY <2>a, <2>2, <3>1, BackedCount DEF KeyInv, Recent
    <3>3. Len(times[k][data[k]]) \in Nat /\ Len(times[k][data[k]]) <= Limit[k]
      BY <2>a, <2>2, <3>1, TimesAreFunctions DEF KeyInv
    <3>4. IsFiniteSet(Recent(k, clock))
      <4>1. Recent(k, clock) \in SUBSET (1..Len(granted[k])) /\ Len(granted[k]) \in Nat
        BY <3>1, TimesAreFunctions DEF Recent
      <4> QED
        <5>1. IsFiniteSet(1..Len(granted[k]))
          BY <4>1, FS_Interval
        <5> QED
          BY <4>1, <5>1, FS_Subset
    <3>5. Cardinality(Recent(k, clock)) \in Nat
      BY <3>4, FS_CardinalityType
    <3> QED
      BY <2>a, <3>2, <3>3, <3>5
  <2> QED
    BY <2>1, <2>2
<1> QED
  BY <1>1, IndInvHolds, PTL

\* A call that records nothing is invisible at the port.
LEMMA PortStutter ==
    ASSUME UNCHANGED <<clock, granted>>
    PROVE  [Port!Next]_(Port!vars)
BY DEF Port!vars

\* The critical section of Allow is a Grant of the port or invisible there: the
\* live part of the timeline holds every recent grant, so room on the timeline
\* is room in the window.
LEMMA CommitRefines ==
    ASSUME IndInv, NEW p \in Procs, AllowCommit(p)
    PROVE  [Port!Next]_(Port!vars)
<1> DEFINE k == key[p]
           ts == times[k][tl[p]]
           g == granted[k]
           live(i) == SubSeq(ts, i + 1, Len(ts))
           b == clock - Window[k]
           c == now[p] - Window[k]
<1> USE RulesAssumption, NilAssumption
<1>a. TypeOK /\ SingleTimeline /\ ClockInv /\ \A m \in Keys : KeyInv(m)
  BY DEF IndInv
<1>1. /\ k \in Keys /\ tl[p] \in Procs /\ tl[p] = data[k] /\ data[k] # Nil
      /\ UNCHANGED clock
  BY <1>a DEF AllowCommit, TypeOK, SingleTimeline
<1>2. /\ g \in Seq(Nat) /\ ts \in Seq(Nat) /\ b \in Int /\ c \in Int /\ c <= b
      /\ now[p] \in 0..clock /\ Limit[k] \in Int
  BY <1>a, <1>1 DEF TypeOK, ClockInv
<1>3. Backed(ts, g, b)
  BY <1>a, <1>1 DEF KeyInv
<1>4. PICK i \in 0..Len(ts) :
        /\ Prune(ts, c, i)
        /\ \/ /\ HasRoom(k, Len(live(i)))
              /\ granted' = [granted EXCEPT ![k] = Append(@, now[p])]
           \/ UNCHANGED granted
  BY DEF AllowCommit
<1>5. CASE UNCHANGED granted
  BY <1>1, <1>5, PortStutter
<1>6. CASE /\ HasRoom(k, Len(live(i)))
           /\ granted' = [granted EXCEPT ![k] = Append(@, now[p])]
  <2>1. Prune(ts, c, i)
    BY <1>4
  <2>2. live(i) \in Seq(Nat) /\ Backed(live(i), g, b)
    <3> HIDE DEF k, ts, g, b, c
    <3> QED
      BY <1>2, <1>3, <2>1, BackedPrune
  <2>3. Len(live(i)) \in Nat /\ Len(live(i)) < Limit[k]
    BY <2>2, <1>6, TimesAreFunctions DEF HasRoom
  <2>4. Cardinality({j \in 1..Len(g) : g[j] > b}) <= Len(live(i))
    <3> HIDE DEF ts, g, b
    <3> QED
      BY <1>2, <2>2, BackedCount
  <2>5. Cardinality({j \in 1..Len(g) : g[j] > b}) \in Nat
    <3>1. Len(g) \in Nat
      BY <1>2, TimesAreFunctions
    <3>2. IsFiniteSet(1..Len(g))
      BY <3>1, FS_Interval
    <3>3. IsFiniteSet({j \in 1..Len(g) : g[j] > b})
      BY <3>2, FS_Subset
    <3> QED
      BY <3>3, FS_CardinalityType
  <2>6. Cardinality({j \in 1..Len(g) : g[j] > b}) < Limit[k]
    <3> HIDE DEF k, ts, g, b, live
    <3> QED
      BY <1>2, <2>3, <2>4, <2>5
  <2>7. Port!Cardinality(Port!Recent(k, clock)) < Limit[k]
    <3>1. Port!Recent(k, clock) = {j \in 1..Len(g) : g[j] > b}
      BY DEF Port!Recent
    <3>2. ASSUME NEW S PROVE Port!Cardinality(S) = Cardinality(S)
      BY DEF Port!Cardinality, Cardinality
    <3> HIDE DEF k, g, b
    <3> QED
      BY <2>6, <3>1, <3>2
  <2>8. Port!Grant(k)
    BY <1>1, <1>2, <1>6, <2>7 DEF Port!Grant
  <2> HIDE DEF k
  <2> QED
    BY <1>1, <2>8 DEF Port!Next
<1> QED
  BY <1>4, <1>5, <1>6

\* The in-memory store implements ports.LimiterRepo: whatever the interleaving
\* of its goroutines, what callers see is Grant, Reset and the passing of time.
THEOREM StoreImplementsPort == Spec => ImplementsPort
<1>1. Init => Port!Init
  BY DEF Init, Port!Init
<1>2. IndInv /\ [Next]_vars => [Port!Next]_(Port!vars)
  <2> SUFFICES ASSUME IndInv, [Next]_vars PROVE [Port!Next]_(Port!vars)
    OBVIOUS
  <2>a. TypeOK
    BY DEF IndInv
  <2>1. CASE Tick
    BY <2>1 DEF Tick, Port!Next, Port!Tick
  <2>2. ASSUME NEW p \in Procs, NEW k \in Keys,
               AllowTrivially(p, k) \/ AllowStart(p, k)
                 \/ ResetNothing(p, k) \/ ResetStart(p, k)
        PROVE  [Port!Next]_(Port!vars)
    BY <2>2, PortStutter DEF AllowTrivially, AllowStart, ResetNothing, ResetStart
  <2>3. ASSUME NEW p \in Procs, LookupTimeline(p) \/ CreateTimeline(p)
        PROVE  [Port!Next]_(Port!vars)
    BY <2>3, PortStutter DEF LookupTimeline, CreateTimeline
  <2>4. ASSUME NEW p \in Procs, AllowCommit(p)
        PROVE  [Port!Next]_(Port!vars)
    BY <2>4, CommitRefines
  <2>5. ASSUME NEW p \in Procs, ResetCommit(p)
        PROVE  [Port!Next]_(Port!vars)
    <3>1. key[p] \in Keys /\ Port!Reset(key[p])
      BY <2>a, <2>5 DEF ResetCommit, TypeOK, Port!Reset
    <3> QED
      BY <3>1 DEF Port!Next
  <2>6. CASE UNCHANGED vars
    BY <2>6, PortStutter DEF vars
  <2> QED
    BY <2>1, <2>2, <2>3, <2>4, <2>5, <2>6 DEF Next, Step
<1> QED
  BY <1>1, <1>2, IndInvHolds, PTL DEF Spec, ImplementsPort, Port!Spec

-----------------------------------------------------------------------------
\* Only an attempt under a rule with a limit gets as far as a timeline.
RuleInv == \A p \in Procs : pc[p] \in {"lookup", "create", "commit"} => Limit[key[p]] > 0

\* Every way to a timeline leads past the early return of lines 53-55.
LEMMA RuleInvHolds == Spec => []RuleInv
<1>1. Init => RuleInv
  BY DEF Init, RuleInv
<1>2. TypeOK /\ RuleInv /\ [Next]_vars => RuleInv'
  <2> SUFFICES ASSUME TypeOK, RuleInv, [Next]_vars, NEW q \in Procs,
                      pc'[q] \in {"lookup", "create", "commit"}
               PROVE  Limit[key'[q]] > 0
    BY DEF RuleInv
  <2> USE DEF TypeOK, RuleInv
  <2>1. ASSUME NEW p \in Procs, NEW k \in Keys, AllowStart(p, k)
        PROVE  Limit[key'[q]] > 0
    BY <2>1 DEF AllowStart, Goto
  <2>2. ASSUME NEW p \in Procs, LookupTimeline(p) \/ CreateTimeline(p)
        PROVE  Limit[key'[q]] > 0
    BY <2>2 DEF LookupTimeline, CreateTimeline, Goto
  <2>3. ASSUME NEW p \in Procs, NEW r, Return(p, r)
        PROVE  Limit[key'[q]] > 0
    BY <2>3 DEF Return
  <2>4. ASSUME NEW p \in Procs, NEW k \in Keys,
               AllowTrivially(p, k) \/ ResetNothing(p, k)
        PROVE  Limit[key'[q]] > 0
    BY <2>3, <2>4 DEF AllowTrivially, ResetNothing
  <2>5. ASSUME NEW p \in Procs, AllowCommit(p) \/ ResetCommit(p)
        PROVE  Limit[key'[q]] > 0
    BY <2>3, <2>5 DEF AllowCommit, ResetCommit
  <2>6. ASSUME NEW p \in Procs, NEW k \in Keys, ResetStart(p, k)
        PROVE  Limit[key'[q]] > 0
    BY <2>6 DEF ResetStart, Goto
  <2>7. CASE Tick \/ UNCHANGED vars
    BY <2>7 DEF Tick, vars
  <2> QED
    BY <2>1, <2>2, <2>4, <2>5, <2>6, <2>7 DEF Next, Step
<1>3. IndInv => TypeOK
  BY DEF IndInv
<1> QED
  BY <1>1, <1>2, <1>3, IndInvHolds, PTL DEF Spec

\* What stays on a timeline after pruning, counted against the grants of the
\* window: its first entry is one of them, and all its entries are when the
\* grants were recorded in their order.
LEMMA LiveIsRecent ==
    ASSUME NEW g \in Seq(Nat), NEW ts \in Seq(Nat), NEW b \in Int, NEW c \in Int,
           Backed(ts, g, b), NEW i \in 0..Len(ts), Prune(ts, c, i), i < Len(ts)
    PROVE  /\ {j \in 1..Len(g) : g[j] > c} # {}
           /\ (\A m, n \in 1..Len(g) : m <= n => g[m] <= g[n]) =>
                 Cardinality({j \in 1..Len(g) : g[j] > c}) >= Len(ts) - i
<1> DEFINE recent == {j \in 1..Len(g) : g[j] > c}
<1>1. PICK off \in 0..Len(g) : BackedFrom(ts, g, b, off)
  BY DEF Backed
<1>2. /\ Len(g) \in Nat /\ \A j \in 1..Len(g) : g[j] \in Nat
      /\ Len(ts) \in Nat /\ Len(ts) = Len(g) - off
  BY <1>1, TimesAreFunctions DEF BackedFrom
<1> DEFINE first == off + (i + 1)
<1>3. first \in 1..Len(g) /\ i + 1 \in 1..Len(ts)
  BY <1>2
<1>4. g[first] > c
  <2>1. ts[i + 1] > c
    BY DEF Prune
  <2>2. ts[i + 1] = g[off + (i + 1)]
    BY <1>1, <1>3 DEF BackedFrom
  <2> QED
    BY <2>1, <2>2
<1>5. first \in recent
  BY <1>3, <1>4
<1>6. ASSUME \A m, n \in 1..Len(g) : m <= n => g[m] <= g[n]
      PROVE  Cardinality(recent) >= Len(ts) - i
  <2>1. first..Len(g) \subseteq recent
    <3> SUFFICES ASSUME NEW j \in first..Len(g) PROVE j \in recent
      OBVIOUS
    <3>1. j \in 1..Len(g) /\ first <= j
      BY <1>2, <1>3
    <3>2. g[first] <= g[j] /\ g[first] \in Nat /\ g[j] \in Nat
      BY <1>2, <1>3, <1>6, <3>1
    <3> HIDE DEF first
    <3> QED
      BY <1>4, <3>1, <3>2
  <2>2. IsFiniteSet(recent)
    <3>1. IsFiniteSet(1..Len(g))
      BY <1>2, FS_Interval
    <3> QED
      BY <3>1, FS_Subset
  <2> HIDE DEF recent
  <2>3. Cardinality(first..Len(g)) = Len(ts) - i
    <3>1. first \in Int /\ Len(g) \in Int /\ first <= Len(g)
      BY <1>2, <1>3
    <3>2. Cardinality(first..Len(g)) =
            IF first > Len(g) THEN 0 ELSE Len(g) - first + 1
      <4> HIDE DEF first
      <4> QED
        BY <3>1, FS_Interval
    <3> QED
      BY <1>2, <3>1, <3>2
  <2>4. Cardinality(first..Len(g)) <= Cardinality(recent)
    BY <2>1, <2>2, FS_Subset
  <2>5. Cardinality(recent) \in Nat
    BY <2>2, FS_CardinalityType
  <2> QED
    BY <1>2, <2>3, <2>4, <2>5
<1> QED
  BY <1>5, <1>6

\* Only the critical section of p's own Allow refuses p.
LEMMA OnlyCommitRefuses ==
    ASSUME TypeOK, [Next]_vars, NEW p \in Procs, Refuses(p)
    PROVE  AllowCommit(p)
<1> USE DEF TypeOK, Refuses
<1>1. ASSUME NEW q \in Procs, NEW r, Return(q, r) PROVE q = p
  BY <1>1 DEF Return
<1>2. ASSUME NEW q \in Procs, NEW k \in Keys,
             AllowTrivially(q, k) \/ ResetNothing(q, k)
      PROVE  FALSE
  <2>1. pc[q] = "idle" /\ \E r : Return(q, r)
    BY <1>2 DEF AllowTrivially, ResetNothing
  <2> QED
    BY <1>1, <2>1
<1>3. ASSUME NEW q \in Procs, NEW k \in Keys, AllowStart(q, k) \/ ResetStart(q, k)
      PROVE  FALSE
  BY <1>3 DEF AllowStart, ResetStart, Goto
<1>4. ASSUME NEW q \in Procs, LookupTimeline(q) PROVE FALSE
  BY <1>4 DEF LookupTimeline, AfterLookup, Goto
<1>5. ASSUME NEW q \in Procs, CreateTimeline(q) PROVE FALSE
  BY <1>5 DEF CreateTimeline, Goto
<1>6. ASSUME NEW q \in Procs, ResetCommit(q) PROVE FALSE
  BY <1>1, <1>6 DEF ResetCommit
<1>7. CASE Tick \/ UNCHANGED vars
  BY <1>7 DEF Tick, vars
<1>8. ASSUME NEW q \in Procs, AllowCommit(q) PROVE q = p
  BY <1>1, <1>8 DEF AllowCommit
<1> QED
  BY <1>2, <1>3, <1>4, <1>5, <1>6, <1>7, <1>8 DEF Next, Step

\* Allow refuses only while some grant is younger than the window, and without
\* overtaking only while the window is full: a late goroutine costs others no
\* more than that.
THEOREM RefusalJustifiedHolds == Spec => RefusalJustified
<1>1. IndInv /\ RuleInv /\ [Next]_vars =>
        [\A p \in Procs : Refuses(p) =>
            /\ Recent(key[p], now[p]) # {}
            /\ InOrder(key[p]) =>
                  Cardinality(Recent(key[p], now[p])) >= Limit[key[p]]]_vars
  <2> SUFFICES ASSUME IndInv, RuleInv, [Next]_vars, NEW p \in Procs, Refuses(p)
               PROVE  /\ Recent(key[p], now[p]) # {}
                      /\ InOrder(key[p]) =>
                            Cardinality(Recent(key[p], now[p])) >= Limit[key[p]]
    OBVIOUS
  <2> DEFINE k == key[p]
             ts == times[k][tl[p]]
             g == granted[k]
             b == clock - Window[k]
             c == now[p] - Window[k]
  <2>1. TypeOK /\ SingleTimeline /\ \A m \in Keys : KeyInv(m)
    BY DEF IndInv
  <2>2. AllowCommit(p)
    BY <2>1, OnlyCommitRefuses
  <2>3. k \in Keys /\ tl[p] \in Procs /\ tl[p] = data[k] /\ data[k] # Nil
    BY <2>1, <2>2, NilAssumption DEF AllowCommit, TypeOK, SingleTimeline
  <2>4. /\ g \in Seq(Nat) /\ ts \in Seq(Nat) /\ b \in Int /\ c \in Int
        /\ Limit[k] \in Int /\ Limit[k] > 0
    <3>1. g \in Seq(Nat) /\ ts \in Seq(Nat)
      BY <2>1, <2>3 DEF TypeOK
    <3>2. b \in Int /\ c \in Int /\ Limit[k] \in Int
      BY <2>1, <2>3, RulesAssumption DEF TypeOK
    <3>3. Limit[k] > 0
      BY DEF RuleInv, Refuses
    <3> QED
      BY <3>1, <3>2, <3>3
  <2>5. Backed(ts, g, b)
    BY <2>1, <2>3 DEF KeyInv
  <2>6. PICK i \in 0..Len(ts) :
          /\ Prune(ts, c, i)
          /\ \/ Return(p, "ok")
             \/ ~HasRoom(k, Len(SubSeq(ts, i + 1, Len(ts))))
    BY <2>2 DEF AllowCommit
  <2>7. ~HasRoom(k, Len(SubSeq(ts, i + 1, Len(ts))))
    BY <2>1, <2>6 DEF Return, Refuses, TypeOK
  <2>8. Recent(k, now[p]) = {j \in 1..Len(g) : g[j] > c}
    BY DEF Recent
  <2>9. InOrder(k) <=> \A m, n \in 1..Len(g) : m <= n => g[m] <= g[n]
    BY DEF InOrder
  <2>10. Prune(ts, c, i)
    BY <2>6
  <2> HIDE DEF k, ts, g, b, c
  <2>11. Len(ts) \in Nat /\ Len(SubSeq(ts, i + 1, Len(ts))) = Len(ts) - i
    <3>1. Len(ts) \in Nat /\ \A j \in (i + 1)..Len(ts) : ts[j] \in Nat
      BY <2>4, TimesAreFunctions
    <3>2. Len(SubSeq(ts, i + 1, Len(ts))) =
            IF i + 1 <= Len(ts) THEN Len(ts) - (i + 1) + 1 ELSE 0
      BY <3>1, SubSeqProperties
    <3> QED
      BY <3>1, <3>2
  <2>12. Len(ts) - i >= Limit[k] /\ i < Len(ts)
    <3>1. ~(Len(ts) - i < Limit[k])
      BY <2>7, <2>11 DEF HasRoom
    <3> QED
      BY <2>4, <2>11, <3>1
  <2>13. /\ {j \in 1..Len(g) : g[j] > c} # {}
         /\ (\A m, n \in 1..Len(g) : m <= n => g[m] <= g[n]) =>
               Cardinality({j \in 1..Len(g) : g[j] > c}) >= Len(ts) - i
    BY <2>4, <2>5, <2>10, <2>12, LiveIsRecent
  <2>14. InOrder(k) => Cardinality(Recent(k, now[p])) >= Limit[k]
    <3> SUFFICES ASSUME InOrder(k) PROVE Cardinality(Recent(k, now[p])) >= Limit[k]
      OBVIOUS
    <3>1. Cardinality(Recent(k, now[p])) >= Len(ts) - i
      BY <2>8, <2>9, <2>13
    <3>2. Cardinality(Recent(k, now[p])) \in Nat
      <4>1. Len(g) \in Nat
        BY <2>4, TimesAreFunctions
      <4>2. IsFiniteSet(1..Len(g))
        BY <4>1, FS_Interval
      <4>3. IsFiniteSet(Recent(k, now[p]))
        BY <2>8, <4>2, FS_Subset
      <4> QED
        BY <4>3, FS_CardinalityType
    <3> QED
      BY <2>4, <2>11, <2>12, <3>1, <3>2
  <2> QED
    BY <2>8, <2>13, <2>14 DEF k
<1> QED
  BY <1>1, IndInvHolds, RuleInvHolds, PTL DEF Spec, RefusalJustified
=============================================================================
