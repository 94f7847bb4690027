------------------------- MODULE RedisBucketsProofs -------------------------
(***************************************************************************)
(* RedisBuckets for any number of instances, keys and rules, any clocks    *)
(* that differ by at most MaxSkew, and any number of resends: the member   *)
(* of a grant that still counts is in the sorted set, and the store        *)
(* implements its port for the common window.                              *)
(*                                                                         *)
(* RecentStored is not inductive.  A transaction cuts the set at ITS score,*)
(* so the invariant bounds the score of every member that is or will be    *)
(* sent (SentInv) and of every ticket (Stamped); and time drops a key, so  *)
(* it says how long the TTL outlives each grant (Renewed).                 *)
(***************************************************************************)
EXTENDS RedisBuckets, FiniteSetTheorems, SequenceTheorems, TLAPS

\* A transaction on its way carries the time of its begin, at most MaxSkew ahead.
SentInv(p) ==
    pc[p] = "sent" =>
        /\ key[p] \in Keys
        /\ begun[p] <= clock
        /\ begun[p] <= Score(member[p])
        /\ Score(member[p]) <= begun[p] + MaxSkew

\* So does the ticket of a grant, which lies in the past.
Stamped(k) ==
    \A i \in 1..Len(granted[k]) :
        /\ granted[k][i] <= clock
        /\ granted[k][i] <= Score(tickets[k][i])

\* No member is counted twice.
Distinct(k) ==
    \A i, j \in 1..Len(granted[k]) : tickets[k][i] = tickets[k][j] => i = j

\* The key of a grant lives for two windows after its begin, or longer.
Renewed(k) ==
    \A i \in 1..Len(granted[k]) : granted[k][i] + 2 * Window[k] <= expires[k]

Stored(k) ==
    \A i \in Recent(k, CommonWindow(k)) : tickets[k][i] \in zset[k]

KeyInv(k) ==
    /\ IsFiniteSet(zset[k])
    /\ Stamped(k)
    /\ Distinct(k)
    /\ Renewed(k)
    /\ Stored(k)

IndInv ==
    /\ TypeOK
    /\ \A p \in Procs : SentInv(p)
    /\ \A k \in Keys : KeyInv(k)

-----------------------------------------------------------------------------
\* A member's score is the time it was stamped with.
LEMMA ScoreType == \A m \in Members : Score(m) \in Nat
BY DEF Members, Score

\* The histories of a key, seen as functions on one interval.
LEMMA HistoryType ==
    ASSUME TypeOK, NEW k \in Keys
    PROVE  /\ Len(granted[k]) \in Nat /\ Len(tickets[k]) = Len(granted[k])
           /\ \A i \in 1..Len(granted[k]) :
                 /\ granted[k][i] \in Nat /\ granted[k][i] \in 0..MaxTime
                 /\ tickets[k][i] \in Members /\ Score(tickets[k][i]) \in Nat
<1>1. /\ granted[k] \in Seq(0..MaxTime) /\ tickets[k] \in Seq(Members)
      /\ Len(tickets[k]) = Len(granted[k])
  BY DEF TypeOK
<1>2. Len(granted[k]) \in Nat /\ \A i \in 1..Len(granted[k]) : granted[k][i] \in 0..MaxTime
  BY <1>1, LenProperties
<1>3. \A i \in 1..Len(granted[k]) : tickets[k][i] \in Members
  BY <1>1, LenProperties
<1> QED
  BY <1>1, <1>2, <1>3, ScoreType, BoundsAssumption

\* The pruning of lines 54-57 spares a grant that is recent in the common window,
\* whichever instance's clock it goes by; and there is one only if the window is
\* positive.
LEMMA LiveKeepsRecent ==
    ASSUME IndInv, NEW p \in Procs, pc[p] = "sent",
           NEW i \in Recent(key[p], CommonWindow(key[p]))
    PROVE  /\ Window[key[p]] > 0
           /\ tickets[key[p]][i] \in Live(key[p], member[p])
<1> DEFINE k == key[p]
           m == member[p]
<1>1. TypeOK /\ SentInv(p) /\ k \in Keys
  BY DEF IndInv, SentInv
<1>2. KeyInv(k)
  BY <1>1 DEF IndInv
<1>3. /\ clock \in Nat /\ Window[k] \in Int /\ MaxSkew \in Nat
      /\ begun[p] \in Nat /\ m \in Members /\ Score(m) \in Nat
  BY <1>1, RulesAssumption, SkewAssumption, BoundsAssumption, ScoreType DEF TypeOK
<1>4. /\ i \in 1..Len(granted[k]) /\ granted[k][i] > clock - (Window[k] - MaxSkew)
      /\ granted[k][i] \in Nat /\ Score(tickets[k][i]) \in Nat
  BY <1>1, HistoryType DEF Recent, CommonWindow
<1>5. /\ granted[k][i] <= clock /\ granted[k][i] <= Score(tickets[k][i])
      /\ Score(m) <= clock + MaxSkew
  <2>1. granted[k][i] <= clock /\ granted[k][i] <= Score(tickets[k][i])
    BY <1>2, <1>4 DEF KeyInv, Stamped
  <2>2. begun[p] <= clock /\ Score(m) <= begun[p] + MaxSkew
    BY <1>1 DEF SentInv
  <2> HIDE DEF k, m
  <2> QED
    BY <1>3, <2>1, <2>2
<1>6. tickets[k][i] \in zset[k]
  BY <1>2 DEF KeyInv, Stored
<1> HIDE DEF k, m
<1>7. Window[k] > 0 /\ Score(tickets[k][i]) > Score(m) - Window[k]
  <2>1. \A x, y, z, c, u \in Nat : \A w \in Int :
          x > c - (w - u) /\ x <= c /\ x <= y /\ z <= c + u => w > 0 /\ y > z - w
    OBVIOUS
  <2> QED
    BY <1>3, <1>4, <1>5, <2>1
<1>8. Score(tickets[k][i]) \notin 0..(Score(m) - Window[k])
  BY <1>3, <1>4, <1>7
<1>9. tickets[k][i] \in Live(k, m)
  BY <1>6, <1>8 DEF Live
<1> QED
  BY <1>7, <1>9 DEF k, m

\* What a transaction leaves of the set it is executed on.
LEMMA LiveType ==
    ASSUME IndInv, NEW p \in Procs, pc[p] = "sent"
    PROVE  /\ Live(key[p], member[p]) \subseteq Members
           /\ IsFiniteSet(Live(key[p], member[p]))
           /\ Window[key[p]] > 0 => member[p] \in Live(key[p], member[p])
<1> DEFINE k == key[p]
           m == member[p]
<1>1. TypeOK /\ SentInv(p) /\ k \in Keys
  BY DEF IndInv, SentInv
<1>2. /\ zset[k] \subseteq Members /\ m \in Members /\ Score(m) \in Nat
      /\ Window[k] \in Int /\ IsFiniteSet(zset[k])
  BY <1>1, RulesAssumption, ScoreType DEF TypeOK, IndInv, KeyInv
<1> HIDE DEF k, m
<1>3. IsFiniteSet(zset[k] \cup {m})
  BY <1>2, FS_AddElement
<1>4. Live(k, m) \subseteq zset[k] \cup {m}
  BY DEF Live
<1>5. IsFiniteSet(Live(k, m))
  BY <1>3, <1>4, FS_Subset
<1>6. Window[k] > 0 => m \in Live(k, m)
  BY <1>2 DEF Live
<1>7. Live(k, m) \subseteq Members
  BY <1>2, <1>4
<1> QED
  BY <1>5, <1>6, <1>7 DEF k, m

\* The part of KeyInv that speaks of the set and its TTL, for a set z and a TTL e.
Holds(k, z, e) ==
    /\ IsFiniteSet(z)
    /\ \A i \in 1..Len(granted[k]) : granted[k][i] + 2 * Window[k] <= e
    /\ \A i \in Recent(k, CommonWindow(k)) : tickets[k][i] \in z

\* A transaction, first or repeated, answered or lost, loses no recent grant of
\* its key and touches no other key.
LEMMA ExecKeeps ==
    ASSUME IndInv, NEW p \in Procs, pc[p] = "sent",
           Exec(key[p], member[p]) \/ UNCHANGED <<zset, expires>>
    PROVE  /\ zset' \in [Keys -> SUBSET Members]
           /\ expires' \in [Keys -> Int]
           /\ \A k \in Keys : Holds(k, zset'[k], expires'[k])
<1> USE RulesAssumption, BoundsAssumption
<1>1. TypeOK /\ key[p] \in Keys /\ \A k \in Keys : KeyInv(k)
  BY DEF IndInv, SentInv
<1>2. \A k \in Keys : Holds(k, zset[k], expires[k])
  BY <1>1 DEF Holds, KeyInv, Renewed, Stored
<1>3. CASE UNCHANGED <<zset, expires>>
  BY <1>1, <1>2, <1>3 DEF TypeOK
<1>4. CASE Exec(key[p], member[p])
  <2> DEFINE n == key[p]
             z == IF TTL(n) > 0 THEN Live(n, member[p]) ELSE {}
             e == clock + TTL(n)
  <2>1. zset' = [zset EXCEPT ![n] = z] /\ expires' = [expires EXCEPT ![n] = e]
    BY <1>4 DEF Exec
  <2>2. z \subseteq Members /\ IsFiniteSet(z) /\ e \in Int
    <3>1. Live(n, member[p]) \subseteq Members /\ IsFiniteSet(Live(n, member[p]))
      BY LiveType
    <3>2. clock \in Int /\ Window[n] \in Int
      BY <1>1 DEF TypeOK
    <3> QED
      BY <3>1, <3>2, FS_EmptySet DEF TTL
  <2>3. ASSUME NEW i \in 1..Len(granted[n])
        PROVE  granted[n][i] + 2 * Window[n] <= e
    <3>1. n \in Keys /\ KeyInv(n) /\ clock \in Nat /\ Window[n] \in Int
      BY <1>1 DEF TypeOK
    <3> HIDE DEF n
    <3>2. granted[n][i] \in Nat
      BY <1>1, <3>1, HistoryType
    <3>3. granted[n][i] <= clock
      BY <3>1 DEF KeyInv, Stamped
    <3> QED
      BY <3>1, <3>2, <3>3 DEF TTL, e
  <2>4. ASSUME NEW i \in Recent(n, CommonWindow(n)) PROVE tickets[n][i] \in z
    <3>1. Window[n] > 0 /\ Window[n] \in Int /\ tickets[n][i] \in Live(n, member[p])
      BY <1>1, LiveKeepsRecent
    <3>2. TTL(n) > 0
      BY <3>1 DEF TTL
    <3> QED
      BY <3>1, <3>2
  <2> HIDE DEF n, z, e
  <2>5. Holds(n, z, e)
    BY <2>2, <2>3, <2>4 DEF Holds
  <2>6. n \in Keys
    BY <1>1 DEF n
  <2>7. zset' \in [Keys -> SUBSET Members] /\ expires' \in [Keys -> Int]
    BY <1>1, <2>1, <2>2, <2>6 DEF TypeOK
  <2>8. ASSUME NEW k \in Keys PROVE Holds(k, zset'[k], expires'[k])
    <3>1. CASE k = n
      <4>1. zset'[k] = z /\ expires'[k] = e
        BY <1>1, <2>1, <3>1 DEF TypeOK
      <4> QED
        BY <2>5, <3>1, <4>1
    <3>2. CASE k # n
      <4>1. zset'[k] = zset[k] /\ expires'[k] = expires[k]
        BY <1>1, <2>1, <3>2 DEF TypeOK
      <4> QED
        BY <1>2, <4>1
    <3> QED
      BY <3>1, <3>2
  <2> QED
    BY <2>7, <2>8
<1> QED
  BY <1>3, <1>4

\* A call that returns leaves the other calls' members alone.
LEMMA ReturnKeeps ==
    ASSUME TypeOK, \A q \in Procs : SentInv(q), NEW p \in Procs, Return(p), UNCHANGED clock
    PROVE  /\ pc' \in [Procs -> {"idle", "sent"}]
           /\ key' \in [Procs -> Keys \cup {Nil}]
           /\ member' \in [Procs -> Members]
           /\ begun' \in [Procs -> 0..MaxTime]
           /\ sends' \in [Procs -> 0..MaxResends]
           /\ \A q \in Procs : SentInv(q)'
<1> USE BoundsAssumption
<1>1. /\ pc' \in [Procs -> {"idle", "sent"}]
      /\ key' \in [Procs -> Keys \cup {Nil}]
      /\ begun' \in [Procs -> 0..MaxTime]
      /\ sends' \in [Procs -> 0..MaxResends]
  BY DEF TypeOK, Return
<1>2. member' \in [Procs -> Members]
  <2>1. NoMember \in Members
    BY DEF NoMember, Members
  <2> QED
    BY <2>1 DEF TypeOK, Return
<1>3. ASSUME NEW q \in Procs PROVE SentInv(q)'
  <2>1. CASE q = p
    BY <2>1 DEF SentInv, Return, TypeOK
  <2>2. CASE q # p
    <3>1. /\ pc'[q] = pc[q] /\ key'[q] = key[q] /\ member'[q] = member[q]
          /\ begun'[q] = begun[q]
      BY <2>2 DEF Return, TypeOK
    <3> QED
      BY <3>1 DEF SentInv, Score
  <2> QED
    BY <2>1, <2>2
<1> QED
  BY <1>1, <1>2, <1>3

\* A key whose histories do not change keeps its invariant when its set and its
\* TTL do.
LEMMA HoldsKeeps ==
    ASSUME NEW k \in Keys, KeyInv(k), UNCHANGED clock,
           granted'[k] = granted[k], tickets'[k] = tickets[k],
           Holds(k, zset'[k], expires'[k])
    PROVE  KeyInv(k)'
<1>1. IsFiniteSet(zset'[k])
  BY DEF Holds
<1>2. Stamped(k)'
  BY DEF KeyInv, Stamped, Score
<1>3. Distinct(k)'
  BY DEF KeyInv, Distinct
<1>4. Renewed(k)'
  BY DEF Holds, Renewed
<1>5. Stored(k)'
  BY DEF Holds, Stored, Recent, CommonWindow
<1> QED
  BY <1>1, <1>2, <1>3, <1>4, <1>5 DEF KeyInv

\* A grant is stamped, new, outlived by the TTL and stored when it is recorded.
LEMMA GrantKeeps ==
    ASSUME IndInv, NEW p \in Procs, pc[p] = "sent", Exec(key[p], member[p]),
           Counted(key[p], member[p]), UNCHANGED clock,
           granted' = [granted EXCEPT ![key[p]] = Append(@, begun[p])],
           tickets' = [tickets EXCEPT ![key[p]] = Append(@, member[p])]
    PROVE  /\ granted' \in [Keys -> Seq(0..MaxTime)]
           /\ tickets' \in [Keys -> Seq(Members)]
           /\ \A k \in Keys : Len(granted'[k]) = Len(tickets'[k])
           /\ \A k \in Keys : KeyInv(k)'
<1> USE RulesAssumption, BoundsAssumption, SkewAssumption
<1> DEFINE n == key[p]
           m == member[p]
           b == begun[p]
           g == granted[n]
           t == tickets[n]
           g2 == Append(g, b)
           t2 == Append(t, m)
<1>1. TypeOK /\ SentInv(p) /\ n \in Keys /\ \A k \in Keys : KeyInv(k)
  BY DEF IndInv, SentInv
<1>2. /\ b \in 0..MaxTime /\ m \in Members /\ Score(m) \in Nat
      /\ clock \in Nat /\ b <= clock /\ b <= Score(m)
      /\ Window[n] \in Int /\ MaxSkew \in Nat
  BY <1>1, ScoreType DEF SentInv, TypeOK
<1>3. granted' = [granted EXCEPT ![n] = g2] /\ tickets' = [tickets EXCEPT ![n] = t2]
  OBVIOUS
<1>4. g \in Seq(0..MaxTime) /\ t \in Seq(Members) /\ Len(t) = Len(g)
  BY <1>1 DEF TypeOK
<1>5. /\ Len(g) \in Nat
      /\ \A i \in 1..Len(g) : g[i] \in Nat /\ Score(t[i]) \in Nat
  BY <1>1, HistoryType
<1>6. \A i \in 1..Len(g) : t[i] # m
  BY <1>4 DEF Counted
<1>7. \A k \in Keys : Holds(k, zset'[k], expires'[k])
  BY ExecKeeps
<1>8. /\ expires'[n] = clock + 2 * Window[n]
      /\ Window[n] > 0 => m \in zset'[n]
  <2>1. Window[n] > 0 => TTL(n) > 0
    BY <1>2 DEF TTL
  <2>2. Window[n] > 0 => m \in Live(n, m)
    BY LiveType
  <2> QED
    BY <1>1, <2>1, <2>2 DEF Exec, TTL, TypeOK
<1>9. KeyInv(n) /\ Holds(n, zset'[n], expires'[n])
  BY <1>1, <1>7
<1> HIDE DEF n, m, b, g, t
<1>10. /\ g2 \in Seq(0..MaxTime) /\ t2 \in Seq(Members)
       /\ Len(g2) = Len(g) + 1 /\ Len(t2) = Len(g) + 1
       /\ \A i \in 1..Len(g) : g2[i] = g[i] /\ t2[i] = t[i]
       /\ g2[Len(g) + 1] = b /\ t2[Len(g) + 1] = m
  BY <1>2, <1>4, AppendProperties
<1> HIDE DEF g2, t2
<1>11. granted' \in [Keys -> Seq(0..MaxTime)] /\ tickets' \in [Keys -> Seq(Members)]
  <2>1. granted \in [Keys -> Seq(0..MaxTime)] /\ tickets \in [Keys -> Seq(Members)]
    BY <1>1 DEF TypeOK
  <2>2. granted' \in [Keys -> Seq(0..MaxTime)]
    BY <1>3, <1>10, <2>1
  <2>3. tickets' \in [Keys -> Seq(Members)]
    BY <1>3, <1>10, <2>1
  <2> QED
    BY <2>2, <2>3
<1>12. \A k \in Keys : Len(granted'[k]) = Len(tickets'[k])
  BY <1>1, <1>3, <1>10 DEF TypeOK
<1>13. ASSUME NEW k \in Keys PROVE KeyInv(k)'
  <2>1. CASE k # n
    <3>1. granted'[k] = granted[k] /\ tickets'[k] = tickets[k]
      BY <1>1, <1>3, <2>1 DEF TypeOK
    <3>2. Holds(k, zset'[k], expires'[k]) /\ KeyInv(k)
      BY <1>1, <1>7
    <3> QED
      BY <3>1, <3>2, HoldsKeeps
  <2>2. CASE k = n
    <3>1. granted'[k] = g2 /\ tickets'[k] = t2
      BY <1>1, <1>3, <2>2 DEF TypeOK
    <3>2. \A i \in 1..Len(g2) : i \in 1..Len(g) \/ i = Len(g) + 1
      BY <1>5, <1>10
    <3>3. IsFiniteSet(zset'[k])
      BY <1>9, <2>2 DEF Holds
    <3>4. Stamped(k)'
      <4>1. \A i \in 1..Len(g) : g[i] <= clock /\ g[i] <= Score(t[i])
        BY <1>9 DEF KeyInv, Stamped, g, t
      <4>2. ASSUME NEW i \in 1..Len(g2) PROVE g2[i] <= clock /\ g2[i] <= Score(t2[i])
        BY <1>2, <1>10, <3>2, <4>1
      <4> QED
        BY <3>1, <4>2 DEF Stamped, Score
    <3>5. Distinct(k)'
      <4>1. \A i, j \in 1..Len(g) : t[i] = t[j] => i = j
        BY <1>9 DEF KeyInv, Distinct, g, t
      <4>2. ASSUME NEW i \in 1..Len(g2), NEW j \in 1..Len(g2), t2[i] = t2[j] PROVE i = j
        BY <1>6, <1>10, <3>2, <4>1, <4>2
      <4> SUFFICES ASSUME NEW i \in 1..Len(granted'[k]), NEW j \in 1..Len(granted'[k]),
                          tickets'[k][i] = tickets'[k][j]
                   PROVE  i = j
        BY DEF Distinct
      <4>3. i \in 1..Len(g2) /\ j \in 1..Len(g2) /\ t2[i] = t2[j]
        BY <3>1
      <4> QED
        BY <4>2, <4>3
    <3>6. Renewed(k)'
      <4>1. \A i \in 1..Len(g) : g[i] + 2 * Window[n] <= expires'[n]
        BY <1>9 DEF Holds, g
      <4>2. b + 2 * Window[n] <= expires'[n]
        BY <1>2, <1>8
      <4>3. ASSUME NEW i \in 1..Len(g2) PROVE g2[i] + 2 * Window[n] <= expires'[n]
        BY <1>10, <3>2, <4>1, <4>2
      <4> QED
        BY <2>2, <3>1, <4>3 DEF Renewed
    <3>7. Stored(k)'
      <4> DEFINE c == clock - CommonWindow(n)
      <4>1. \A i \in 1..Len(g) : g[i] > c => t[i] \in zset'[n]
        BY <1>9 DEF Holds, Recent, g, t
      <4>2. b > c => m \in zset'[n]
        <5>1. \A x, y, u \in Nat : \A w \in Int : x <= y /\ x > y - (w - u) => w > 0
          OBVIOUS
        <5>2. b \in Nat
          BY <1>2
        <5>3. b > c => Window[n] > 0
          BY <1>2, <5>1, <5>2 DEF CommonWindow
        <5> QED
          BY <1>8, <5>3
      <4> HIDE DEF c
      <4>3. \A i \in 1..Len(g2) : g2[i] > c => t2[i] \in zset'[n]
        BY <1>10, <3>2, <4>1, <4>2
      <4> QED
        BY <2>2, <3>1, <4>3 DEF Stored, Recent, CommonWindow, c
    <3> QED
      BY <3>3, <3>4, <3>5, <3>6, <3>7 DEF KeyInv
  <2> QED
    BY <2>1, <2>2
<1> QED
  BY <1>11, <1>12, <1>13

-----------------------------------------------------------------------------
\* The service starts with an empty store.
LEMMA InitIndInv == Init => IndInv
<1> SUFFICES ASSUME Init PROVE IndInv
  OBVIOUS
<1> USE BoundsAssumption
<1>1. /\ \A k \in Keys : zset[k] = {} /\ granted[k] = <<>> /\ tickets[k] = <<>>
      /\ \A p \in Procs : pc[p] = "idle"
  BY DEF Init
<1>2. TypeOK
  <2>1. NoMember \in Members
    BY DEF NoMember, Members
  <2> QED
    BY <2>1 DEF Init, TypeOK
<1>3. \A k \in Keys : KeyInv(k)
  <2>1. \A k \in Keys : Len(granted[k]) = 0
    BY <1>1
  <2>2. \A k \in Keys : IsFiniteSet(zset[k])
    BY <1>1, FS_EmptySet
  <2>3. \A k \in Keys : 1..Len(granted[k]) = {}
    BY <2>1
  <2> QED
    BY <2>2, <2>3 DEF KeyInv, Stamped, Distinct, Renewed, Stored, Recent
<1>4. \A p \in Procs : SentInv(p)
  BY <1>1 DEF SentInv
<1> QED
  BY <1>2, <1>3, <1>4 DEF IndInv

\* Every step of every instance, of Redis and of time keeps the invariant.
LEMMA NextIndInv == IndInv /\ [Next]_vars => IndInv'
<1> SUFFICES ASSUME IndInv, [Next]_vars PROVE IndInv'
  OBVIOUS
<1> USE RulesAssumption, BoundsAssumption, SkewAssumption
<1>a. TypeOK /\ (\A q \in Procs : SentInv(q)) /\ \A k \in Keys : KeyInv(k)
  BY DEF IndInv
<1>1. CASE Tick
  <2>1. /\ clock \in Nat /\ clock' = clock + 1 /\ clock' \in 0..MaxTime
        /\ zset' = [k \in Keys |-> IF expires[k] <= clock + 1 THEN {} ELSE zset[k]]
        /\ UNCHANGED <<expires, pc, key, member, begun, sends, granted, tickets>>
    BY <1>1, <1>a DEF Tick, TypeOK
  <2>2. TypeOK'
    <3>1. zset' \in [Keys -> SUBSET Members]
      BY <1>a, <2>1 DEF TypeOK
    <3> QED
      BY <1>a, <2>1, <3>1 DEF TypeOK
  <2>3. ASSUME NEW q \in Procs PROVE SentInv(q)'
    BY <1>a, <2>1 DEF SentInv, TypeOK, Score
  <2>4. ASSUME NEW k \in Keys PROVE KeyInv(k)'
    <3>1. KeyInv(k) /\ Window[k] \in Int /\ MaxSkew \in Nat /\ expires[k] \in Int
      BY <1>a DEF TypeOK
    <3>2. /\ Len(granted[k]) \in Nat
          /\ \A i \in 1..Len(granted[k]) :
                granted[k][i] \in Nat /\ Score(tickets[k][i]) \in Nat
      BY <1>a, HistoryType
    <3>3. zset'[k] = IF expires[k] <= clock + 1 THEN {} ELSE zset[k]
      BY <2>1
    <3>4. IsFiniteSet(zset'[k])
      BY <3>1, <3>3, FS_EmptySet DEF KeyInv
    <3>5. Stamped(k)'
      BY <2>1, <3>1, <3>2 DEF KeyInv, Stamped, Score
    <3>6. Distinct(k)' /\ Renewed(k)'
      BY <2>1, <3>1 DEF KeyInv, Distinct, Renewed
    <3>7. Stored(k)'
      <4>1. ASSUME NEW i \in 1..Len(granted[k]),
                   granted[k][i] > (clock + 1) - (Window[k] - MaxSkew)
            PROVE  tickets[k][i] \in zset'[k]
        <5>1. /\ granted[k][i] <= clock /\ granted[k][i] \in Nat
              /\ granted[k][i] + 2 * Window[k] <= expires[k]
          BY <3>1, <3>2 DEF KeyInv, Stamped, Renewed
        <5>2. \A x, c, u \in Nat : \A w, e \in Int :
                x > (c + 1) - (w - u) /\ x <= c /\ x + 2 * w <= e =>
                    ~(e <= c + 1) /\ x > c - (w - u)
          OBVIOUS
        <5>3. ~(expires[k] <= clock + 1) /\ granted[k][i] > clock - (Window[k] - MaxSkew)
          BY <2>1, <3>1, <4>1, <5>1, <5>2
        <5>4. i \in Recent(k, CommonWindow(k))
          BY <5>3 DEF Recent, CommonWindow
        <5> QED
          BY <3>1, <3>3, <5>3, <5>4 DEF KeyInv, Stored
      <4> QED
        BY <2>1, <4>1 DEF Stored, Recent, CommonWindow
    <3> QED
      BY <3>4, <3>5, <3>6, <3>7 DEF KeyInv
  <2> QED
    BY <2>2, <2>3, <2>4 DEF IndInv
<1>2. ASSUME NEW p \in Procs, NEW k \in Keys, AllowStart(p, k)
      PROVE  IndInv'
  <2>1. PICK sfx \in Suffixes : member' = [member EXCEPT ![p] = <<Now(p), sfx>>]
    BY <1>2 DEF AllowStart, Member
  <2>2. Now(p) \in Nat /\ clock <= Now(p) /\ Now(p) <= clock + MaxSkew
    BY <1>a DEF Now, TypeOK
  <2>3. <<Now(p), sfx>> \in Members /\ Score(<<Now(p), sfx>>) = Now(p)
    BY <2>2 DEF Members, Score
  <2>4. /\ pc' = [pc EXCEPT ![p] = "sent"] /\ key' = [key EXCEPT ![p] = k]
        /\ begun' = [begun EXCEPT ![p] = clock]
        /\ UNCHANGED <<clock, zset, expires, sends, granted, tickets>>
    BY <1>2 DEF AllowStart
  <2>5. TypeOK'
    BY <1>a, <2>1, <2>3, <2>4 DEF TypeOK
  <2>6. ASSUME NEW q \in Procs PROVE SentInv(q)'
    <3>1. CASE q = p
      <4>1. /\ key'[q] = k /\ begun'[q] = clock /\ clock' = clock
            /\ member'[q] = <<Now(p), sfx>>
        BY <1>a, <2>1, <2>4, <3>1 DEF TypeOK
      <4>2. Score(member'[q]) = Now(p)
        BY <2>3, <4>1
      <4>3. clock \in Nat
        BY <1>a DEF TypeOK
      <4> QED
        BY <2>2, <4>1, <4>2, <4>3 DEF SentInv, Score
    <3>2. CASE q # p
      <4>1. /\ pc'[q] = pc[q] /\ key'[q] = key[q] /\ begun'[q] = begun[q]
            /\ member'[q] = member[q]
        BY <1>a, <2>1, <2>4, <3>2 DEF TypeOK
      <4> QED
        BY <1>a, <2>4, <4>1 DEF SentInv, Score
    <3> QED
      BY <3>1, <3>2
  <2>7. \A n \in Keys : KeyInv(n)'
    BY <1>a, <2>4 DEF KeyInv, Stamped, Distinct, Renewed, Stored, Recent
  <2> QED
    BY <2>5, <2>6, <2>7 DEF IndInv
<1>3. ASSUME NEW p \in Procs, AllowAnswered(p)
      PROVE  IndInv'
  <2>1. /\ pc[p] = "sent" /\ Exec(key[p], member[p]) /\ Return(p) /\ UNCHANGED clock
        /\ \/ /\ Counted(key[p], member[p])
              /\ granted' = [granted EXCEPT ![key[p]] = Append(@, begun[p])]
              /\ tickets' = [tickets EXCEPT ![key[p]] = Append(@, member[p])]
           \/ UNCHANGED <<granted, tickets>>
    BY <1>3 DEF AllowAnswered
  <2>2. /\ zset' \in [Keys -> SUBSET Members] /\ expires' \in [Keys -> Int]
        /\ \A k \in Keys : Holds(k, zset'[k], expires'[k])
    BY <2>1, ExecKeeps
  <2>3. /\ granted' \in [Keys -> Seq(0..MaxTime)]
        /\ tickets' \in [Keys -> Seq(Members)]
        /\ \A k \in Keys : Len(granted'[k]) = Len(tickets'[k])
        /\ \A k \in Keys : KeyInv(k)'
    <3>1. CASE UNCHANGED <<granted, tickets>>
      <4>1. \A k \in Keys : KeyInv(k)'
        BY <1>a, <2>1, <2>2, <3>1, HoldsKeeps
      <4> QED
        BY <1>a, <3>1, <4>1 DEF TypeOK
    <3>2. CASE /\ Counted(key[p], member[p])
               /\ granted' = [granted EXCEPT ![key[p]] = Append(@, begun[p])]
               /\ tickets' = [tickets EXCEPT ![key[p]] = Append(@, member[p])]
      BY <2>1, <3>2, GrantKeeps
    <3> QED
      BY <2>1, <3>1, <3>2
  <2>4. /\ pc' \in [Procs -> {"idle", "sent"}]
        /\ key' \in [Procs -> Keys \cup {Nil}]
        /\ member' \in [Procs -> Members]
        /\ begun' \in [Procs -> 0..MaxTime]
        /\ sends' \in [Procs -> 0..MaxResends]
        /\ \A q \in Procs : SentInv(q)'
    BY <1>a, <2>1, ReturnKeeps
  <2>5. TypeOK'
    BY <1>a, <2>1, <2>2, <2>3, <2>4 DEF TypeOK
  <2> QED
    BY <2>3, <2>4, <2>5 DEF IndInv
<1>4. ASSUME NEW p \in Procs, AllowResend(p)
      PROVE  IndInv'
  <2>1. /\ pc[p] = "sent" /\ sends[p] < MaxResends
        /\ sends' = [sends EXCEPT ![p] = @ + 1]
        /\ Exec(key[p], member[p]) \/ UNCHANGED <<zset, expires>>
        /\ UNCHANGED <<clock, pc, key, member, begun, granted, tickets>>
    BY <1>4 DEF AllowResend
  <2>2. /\ zset' \in [Keys -> SUBSET Members] /\ expires' \in [Keys -> Int]
        /\ \A k \in Keys : Holds(k, zset'[k], expires'[k])
    BY <2>1, ExecKeeps
  <2>3. \A k \in Keys : KeyInv(k)'
    BY <1>a, <2>1, <2>2, HoldsKeeps
  <2>4. sends' \in [Procs -> 0..MaxResends]
    BY <1>a, <2>1 DEF TypeOK
  <2>5. TypeOK'
    BY <1>a, <2>1, <2>2, <2>4 DEF TypeOK
  <2>6. \A q \in Procs : SentInv(q)'
    BY <1>a, <2>1 DEF SentInv, Score
  <2> QED
    BY <2>3, <2>5, <2>6 DEF IndInv
<1>5. ASSUME NEW p \in Procs, AllowError(p)
      PROVE  IndInv'
  <2>1. /\ pc[p] = "sent" /\ Return(p)
        /\ Exec(key[p], member[p]) \/ UNCHANGED <<zset, expires>>
        /\ UNCHANGED <<clock, granted, tickets>>
    BY <1>5 DEF AllowError
  <2>2. /\ zset' \in [Keys -> SUBSET Members] /\ expires' \in [Keys -> Int]
        /\ \A k \in Keys : Holds(k, zset'[k], expires'[k])
    BY <2>1, ExecKeeps
  <2>3. \A k \in Keys : KeyInv(k)'
    BY <1>a, <2>1, <2>2, HoldsKeeps
  <2>4. /\ pc' \in [Procs -> {"idle", "sent"}]
        /\ key' \in [Procs -> Keys \cup {Nil}]
        /\ member' \in [Procs -> Members]
        /\ begun' \in [Procs -> 0..MaxTime]
        /\ sends' \in [Procs -> 0..MaxResends]
        /\ \A q \in Procs : SentInv(q)'
    BY <1>a, <2>1, ReturnKeeps
  <2>5. TypeOK'
    BY <1>a, <2>1, <2>2, <2>4 DEF TypeOK
  <2> QED
    BY <2>3, <2>4, <2>5 DEF IndInv
<1>6. ASSUME NEW p \in Procs, NEW k \in Keys, Reset(p, k)
      PROVE  IndInv'
  <2>1. /\ zset' = [zset EXCEPT ![k] = {}]
        /\ granted' = [granted EXCEPT ![k] = <<>>]
        /\ tickets' = [tickets EXCEPT ![k] = <<>>]
        /\ UNCHANGED <<clock, expires, pc, key, member, begun, sends>>
    BY <1>6 DEF Reset
  <2>2. TypeOK'
    <3>1. zset' \in [Keys -> SUBSET Members]
      BY <1>a, <2>1 DEF TypeOK
    <3>2. granted' \in [Keys -> Seq(0..MaxTime)] /\ tickets' \in [Keys -> Seq(Members)]
      BY <1>a, <2>1, EmptySeq DEF TypeOK
    <3>3. \A n \in Keys : Len(granted'[n]) = Len(tickets'[n])
      BY <1>a, <2>1 DEF TypeOK
    <3> QED
      BY <1>a, <2>1, <3>1, <3>2, <3>3 DEF TypeOK
  <2>3. \A q \in Procs : SentInv(q)'
    BY <1>a, <2>1 DEF SentInv, Score
  <2>4. ASSUME NEW n \in Keys PROVE KeyInv(n)'
    <3>1. CASE n = k
      <4>1. zset'[n] = {} /\ granted'[n] = <<>>
        BY <1>a, <2>1, <3>1 DEF TypeOK
      <4>2. Len(granted'[n]) = 0
        BY <4>1
      <4> QED
        BY <4>1, <4>2, FS_EmptySet DEF KeyInv, Stamped, Distinct, Renewed, Stored, Recent
    <3>2. CASE n # k
      <4>1. /\ zset'[n] = zset[n] /\ granted'[n] = granted[n] /\ tickets'[n] = tickets[n]
        BY <1>a, <2>1, <3>2 DEF TypeOK
      <4>2. KeyInv(n) /\ UNCHANGED clock /\ expires'[n] = expires[n]
        BY <1>a, <2>1
      <4>3. Holds(n, zset'[n], expires'[n])
        BY <4>1, <4>2 DEF Holds, KeyInv, Renewed, Stored
      <4> QED
        BY <4>1, <4>2, <4>3, HoldsKeeps
    <3> QED
      BY <3>1, <3>2
  <2> QED
    BY <2>2, <2>3, <2>4 DEF IndInv
<1>7. CASE UNCHANGED vars
  <2>1. TypeOK'
    BY <1>a, <1>7 DEF TypeOK, vars
  <2>2. \A q \in Procs : SentInv(q)'
    BY <1>a, <1>7 DEF SentInv, Score, vars
  <2>3. \A n \in Keys : KeyInv(n)'
    BY <1>a, <1>7 DEF KeyInv, Stamped, Distinct, Renewed, Stored, Recent, vars
  <2> QED
    BY <2>1, <2>2, <2>3 DEF IndInv
<1> QED
  BY <1>1, <1>2, <1>3, <1>4, <1>5, <1>6, <1>7 DEF Next, Call

LEMMA IndInvHolds == Spec => []IndInv
BY InitIndInv, NextIndInv, PTL DEF Spec

-----------------------------------------------------------------------------
\* Every variable and every call's locals keep their types.
THEOREM TypeCorrect == Spec => []TypeOK
<1>1. IndInv => TypeOK
  BY DEF IndInv
<1> QED
  BY <1>1, IndInvHolds, PTL

\* Neither the pruning by another instance's clock, nor the TTL, nor a repeated
\* transaction forgets a grant that was begun during the last common window.
THEOREM RecentStoredHolds == Spec => []RecentStored
<1>1. IndInv => RecentStored
  BY DEF IndInv, KeyInv, Stored, RecentStored
<1> QED
  BY <1>1, IndInvHolds, PTL

\* The grants on a key that are recent in the common window all have a member of
\* their own in the set that the transaction counts, and so has the attempt: when
\* the count admits it, there was room for it.
LEMMA CountIsEnough ==
    ASSUME IndInv, NEW p \in Procs, pc[p] = "sent",
           Counted(key[p], member[p]),
           Admits(key[p], Cardinality(Live(key[p], member[p]))),
           Limit[key[p]] # 0 \/ Window[key[p]] > 0
    PROVE  Cardinality(Recent(key[p], CommonWindow(key[p]))) < Limit[key[p]]
<1> DEFINE k == key[p]
           m == member[p]
           R == Recent(k, CommonWindow(k))
           L == Live(k, m)
           f == [i \in R |-> tickets[k][i]]
<1>1. TypeOK /\ k \in Keys /\ KeyInv(k) /\ Limit[k] \in Int
  BY RulesAssumption DEF IndInv, SentInv
<1>2. L \subseteq Members /\ IsFiniteSet(L) /\ (Window[k] > 0 => m \in L)
  BY LiveType
<1>3. \A i \in R : tickets[k][i] \in L /\ Window[k] > 0
  BY LiveKeepsRecent
<1>4. \A i \in R : i \in 1..Len(granted[k]) /\ tickets[k][i] # m
  BY <1>1 DEF Recent, Counted, TypeOK
<1>5. \A i, j \in R : tickets[k][i] = tickets[k][j] => i = j
  BY <1>1, <1>4 DEF KeyInv, Distinct
<1>6. Cardinality(L) <= Limit[k]
  BY DEF Admits
<1> HIDE DEF k, m, R, L
<1>7. f \in Injection(R, L \ {m})
  <2>1. f \in [R -> L \ {m}]
    BY <1>3, <1>4
  <2>2. \A i, j \in R : f[i] = f[j] => i = j
    BY <1>5
  <2> HIDE DEF f
  <2> QED
    BY <2>1, <2>2 DEF Injection, IsInjective
<1> HIDE DEF f
<1>8. Cardinality(L) \in Nat
  BY <1>2, FS_CardinalityType
<1>9. /\ IsFiniteSet(L \ {m})
      /\ Cardinality(L \ {m}) = IF m \in L THEN Cardinality(L) - 1 ELSE Cardinality(L)
  BY <1>2, FS_RemoveElement
<1>10. IsFiniteSet(R) /\ Cardinality(R) <= Cardinality(L \ {m})
  BY <1>7, <1>9, FS_Injection
<1>11. Cardinality(R) \in Nat
  BY <1>10, FS_CardinalityType
<1>12. Cardinality(R) < Limit[k]
  <2>1. CASE Window[k] > 0
    BY <1>1, <1>2, <1>6, <1>8, <1>9, <1>10, <1>11, <2>1
  <2>2. CASE ~(Window[k] > 0)
    <3>1. R = {}
      BY <1>3, <2>2
    <3>2. Cardinality(R) = 0
      BY <3>1, FS_EmptySet
    <3>3. Limit[k] # 0
      BY <2>2 DEF k
    <3> QED
      BY <1>1, <1>6, <1>8, <3>2, <3>3
  <2> QED
    BY <2>1, <2>2
<1> QED
  BY <1>12 DEF R, k

\* A call that records nothing is invisible at the port.
LEMMA PortStutter ==
    ASSUME UNCHANGED <<clock, granted>>
    PROVE  [Port!Next]_(Port!vars)
BY DEF Port!vars

\* The rules for which Allow keeps its promise: line 71 admits an attempt that
\* line 57 has just removed, so a limit of zero needs a window to be one.
RulesCount == \A k \in Keys : Limit[k] # 0 \/ Window[k] > 0

\* An answered call is a Grant of the port or invisible there.
LEMMA AnswerRefines ==
    ASSUME RulesCount, IndInv, NEW p \in Procs, AllowAnswered(p)
    PROVE  [Port!Next]_(Port!vars)
<1>1. /\ pc[p] = "sent" /\ UNCHANGED clock
      /\ \/ /\ Admits(key[p], Cardinality(Live(key[p], member[p])))
            /\ Counted(key[p], member[p])
            /\ granted' = [granted EXCEPT ![key[p]] = Append(@, begun[p])]
         \/ UNCHANGED granted
  BY DEF AllowAnswered
<1>2. CASE UNCHANGED granted
  BY <1>1, <1>2, PortStutter
<1>3. CASE /\ Admits(key[p], Cardinality(Live(key[p], member[p])))
           /\ Counted(key[p], member[p])
           /\ granted' = [granted EXCEPT ![key[p]] = Append(@, begun[p])]
  <2> DEFINE k == key[p]
  <2>1. k \in Keys /\ begun[p] \in 0..clock
    BY <1>1, BoundsAssumption DEF IndInv, SentInv, TypeOK
  <2>2. Limit[k] # 0 \/ Window[k] > 0
    BY <2>1 DEF RulesCount
  <2>3. Cardinality(Recent(k, CommonWindow(k))) < Limit[k]
    BY <1>1, <1>3, <2>2, CountIsEnough
  <2> HIDE DEF k
  <2>4. Port!Cardinality(Port!Recent(k, clock)) < Limit[k]
    <3>1. Port!Recent(k, clock) = Recent(k, CommonWindow(k))
      BY <2>1 DEF Port!Recent, Recent
    <3>2. ASSUME NEW S PROVE Port!Cardinality(S) = Cardinality(S)
      BY DEF Port!Cardinality, Cardinality
    <3> QED
      BY <2>3, <3>1, <3>2
  <2>5. Port!Grant(k)
    BY <1>1, <1>3, <2>1, <2>4 DEF Port!Grant, k
  <2> QED
    BY <2>1, <2>5 DEF Port!Next
<1> QED
  BY <1>1, <1>2, <1>3

\* The Redis store implements ports.LimiterRepo for the window that its instances'
\* clocks have in common, however many of them share it and whatever becomes of
\* their connections: what callers see is Grant, Reset and the passing of time.
THEOREM StoreImplementsPort ==
    ASSUME RulesCount
    PROVE  Spec => ImplementsPort
<1>1. Init => Port!Init
  BY DEF Init, Port!Init
<1>2. IndInv /\ [Next]_vars => [Port!Next]_(Port!vars)
  <2> SUFFICES ASSUME IndInv, [Next]_vars PROVE [Port!Next]_(Port!vars)
    OBVIOUS
  <2>1. CASE Tick
    BY <2>1 DEF Tick, Port!Next, Port!Tick
  <2>2. ASSUME NEW p \in Procs, NEW k \in Keys, AllowStart(p, k)
        PROVE  [Port!Next]_(Port!vars)
    BY <2>2, PortStutter DEF AllowStart
  <2>3. ASSUME NEW p \in Procs, AllowAnswered(p)
        PROVE  [Port!Next]_(Port!vars)
    BY <2>3, AnswerRefines
  <2>4. ASSUME NEW p \in Procs, AllowResend(p) \/ AllowError(p)
        PROVE  [Port!Next]_(Port!vars)
    BY <2>4, PortStutter DEF AllowResend, AllowError
  <2>5. ASSUME NEW p \in Procs, NEW k \in Keys, Reset(p, k)
        PROVE  [Port!Next]_(Port!vars)
    <3>1. Port!Reset(k)
      BY <2>5 DEF Reset, Port!Reset
    <3> QED
      BY <3>1 DEF Port!Next
  <2>6. CASE UNCHANGED vars
    BY <2>6, PortStutter DEF vars
  <2> QED
    BY <2>1, <2>2, <2>3, <2>4, <2>5, <2>6 DEF Next, Call
<1> QED
  BY <1>1, <1>2, IndInvHolds, PTL DEF Spec, ImplementsPort, Port!Spec
=============================================================================
