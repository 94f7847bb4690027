------------------------- MODULE RateLimiterProofs -------------------------
(***************************************************************************)
(* RateLimiter for any number of goroutines, logins, passwords and         *)
(* addresses, any limits and any window: no interleaving of checks, resets *)
(* and failures of the store lets more checks pass than a limit allows.    *)
(*                                                                         *)
(* What the store promises is about grants of ONE key at the time they are *)
(* charged; what is to be shown is about checks, which are charged on      *)
(* three keys at three times and pass with the last one.  The invariant    *)
(* counts: for every key and every time c, the passed checks begun after c *)
(* and the running checks begun after c that have been charged for the key *)
(* are no more than the grants on the key after c.  It holds because the   *)
(* store stamps a charge no earlier than its check began, even if it       *)
(* counts the attempt much later.                                          *)
(***************************************************************************)
EXTENDS RateLimiter, FiniteSetTheorems, SequenceTheorems, TLAPS

\* The entries of a list of times that are later than c.
After(s, c) == {n \in 1..Len(s) : s[n] > c}

\* The check of q has been charged for k and has not passed yet, and k was not
\* reset since then.
Charged(q, k) ==
    /\ op[q] = "check"
    /\ k \in KeySet(req[q])
    /\ k \notin Pending(q)
    /\ k \notin amnesty[q]

Late(k, c) == {q \in Procs : Charged(q, k) /\ begun[q] > c}

\* Every check that has passed k's limit, or may still pass it, is paid for.
Covered(k) ==
    \A c \in Int :
        /\ IsFiniteSet(Late(k, c))
        /\ Cardinality(After(passed[k], c)) + Cardinality(Late(k, c))
              <= Cardinality(After(granted[k], c))

\* What the store's promise means for the grants of the last window.
WithinLimit(k) == Cardinality(After(granted[k], clock - Window[k])) <= Limit[k]

IndInv ==
    /\ TypeOK
    /\ \A k \in Keys : Covered(k) /\ WithinLimit(k)

-----------------------------------------------------------------------------
\* Each key has the rule of its limit type.
LEMMA RuleTypes == \A k \in Keys : Limit[k] \in Nat /\ Window[k] \in Nat
<1> SUFFICES ASSUME NEW k \in Keys PROVE Limit[k] \in Nat /\ Window[k] \in Nat
  OBVIOUS
<1>1. k[1] \in LimitTypes
  BY DEF Keys, LimitTypes
<1> QED
  BY <1>1, RulesAssumption DEF Limit, Window

\* The late entries of a list can be counted.
LEMMA AfterFinite ==
    ASSUME NEW s \in Seq(Nat), NEW c \in Int
    PROVE  /\ IsFiniteSet(After(s, c))
           /\ Cardinality(After(s, c)) \in Nat
<1>1. Len(s) \in Nat
  BY LenProperties
<1>2. IsFiniteSet(1..Len(s))
  BY <1>1, FS_Interval
<1>3. IsFiniteSet(After(s, c))
  BY <1>2, FS_Subset DEF After
<1> QED
  BY <1>3, FS_CardinalityType

\* One more entry counts once, if it is late.
LEMMA AfterAppend ==
    ASSUME NEW s \in Seq(Nat), NEW x \in Nat, NEW c \in Int
    PROVE  Cardinality(After(Append(s, x), c)) =
              Cardinality(After(s, c)) + IF x > c THEN 1 ELSE 0
<1> DEFINE t == Append(s, x)
           n == Len(s) + 1
<1>1. Len(s) \in Nat /\ n \in Nat
  BY LenProperties
<1>2. /\ Len(t) = n
      /\ \A i \in 1..Len(s) : t[i] = s[i]
      /\ t[n] = x
  BY AppendProperties
<1> HIDE DEF t
<1>3. n \notin After(s, c) /\ IsFiniteSet(After(s, c)) /\ Cardinality(After(s, c)) \in Nat
  <2>1. IsFiniteSet(After(s, c)) /\ Cardinality(After(s, c)) \in Nat
    BY AfterFinite
  <2>2. n \notin 1..Len(s)
    BY <1>1
  <2> QED
    BY <2>1, <2>2 DEF After
<1>4. \A i \in 1..Len(t) : i \in 1..Len(s) \/ i = n
  BY <1>1, <1>2
<1>5. \A i \in 1..Len(s) : i \in 1..Len(t)
  BY <1>1, <1>2
<1>6. n \in 1..Len(t)
  BY <1>1, <1>2
<1> HIDE DEF n
<1>7. CASE x > c
  <2>1. After(t, c) = After(s, c) \cup {n}
    BY <1>2, <1>4, <1>5, <1>6, <1>7 DEF After
  <2>2. Cardinality(After(t, c)) = Cardinality(After(s, c)) + 1
    BY <1>3, <2>1, FS_AddElement
  <2> QED
    BY <1>7, <2>2 DEF t
<1>8. CASE ~(x > c)
  <2>1. After(t, c) = After(s, c)
    BY <1>2, <1>4, <1>5, <1>6, <1>8 DEF After
  <2> QED
    BY <1>3, <1>8, <2>1 DEF t
<1> QED
  BY <1>7, <1>8

\* Later times have fewer entries behind them.
LEMMA AfterShrinks ==
    ASSUME NEW s \in Seq(Nat), NEW c \in Int, NEW d \in Int, c <= d
    PROVE  Cardinality(After(s, d)) <= Cardinality(After(s, c))
<1>1. Len(s) \in Nat /\ \A n \in 1..Len(s) : s[n] \in Nat
  BY LenProperties
<1>2. After(s, d) \subseteq After(s, c)
  BY <1>1 DEF After
<1>3. IsFiniteSet(After(s, c))
  BY AfterFinite
<1> QED
  BY <1>2, <1>3, FS_Subset

\* The lists of a key are lists of times.
LEMMA ListTypes ==
    ASSUME TypeOK, NEW k \in Keys
    PROVE  granted[k] \in Seq(Nat) /\ passed[k] \in Seq(Nat)
<1>1. 0..MaxTime \subseteq Nat
  BY BoundsAssumption
<1>2. granted[k] \in Seq(0..MaxTime) /\ passed[k] \in Seq(0..MaxTime)
  BY DEF TypeOK
<1> QED
  BY <1>1, <1>2, SeqMonotonic

\* The set of late checks shrinks when no check is charged.
LEMMA LateShrinks ==
    ASSUME NEW k \in Keys, NEW c \in Int, IsFiniteSet(Late(k, c)),
           \A q \in Procs : Charged(q, k)' => Charged(q, k) /\ begun'[q] = begun[q]
    PROVE  /\ IsFiniteSet(Late(k, c)')
           /\ Cardinality(Late(k, c)') \in Nat
           /\ Cardinality(Late(k, c)) \in Nat
           /\ Cardinality(Late(k, c)') <= Cardinality(Late(k, c))
<1>1. Late(k, c)' \subseteq Late(k, c)
  BY DEF Late
<1>2. IsFiniteSet(Late(k, c)') /\ Cardinality(Late(k, c)') <= Cardinality(Late(k, c))
  BY <1>1, FS_Subset
<1> QED
  BY <1>2, FS_CardinalityType

\* A step that records nothing for k and charges no check for it.
LEMMA CoveredIdle ==
    ASSUME TypeOK, NEW k \in Keys, Covered(k),
           granted'[k] = granted[k], passed'[k] = passed[k],
           \A q \in Procs : Charged(q, k)' => Charged(q, k) /\ begun'[q] = begun[q]
    PROVE  Covered(k)'
<1> SUFFICES ASSUME NEW c \in Int
             PROVE  /\ IsFiniteSet(Late(k, c)')
                    /\ Cardinality(After(passed'[k], c)) + Cardinality(Late(k, c)')
                          <= Cardinality(After(granted'[k], c))
  BY DEF Covered, After, Late
<1>1. /\ IsFiniteSet(Late(k, c))
      /\ Cardinality(After(passed[k], c)) + Cardinality(Late(k, c))
            <= Cardinality(After(granted[k], c))
  BY DEF Covered
<1>2. /\ IsFiniteSet(Late(k, c)')
      /\ Cardinality(Late(k, c)') \in Nat /\ Cardinality(Late(k, c)) \in Nat
      /\ Cardinality(Late(k, c)') <= Cardinality(Late(k, c))
  BY <1>1, LateShrinks
<1>3. Cardinality(After(passed[k], c)) \in Nat /\ Cardinality(After(granted[k], c)) \in Nat
  BY ListTypes, AfterFinite
<1> QED
  BY <1>1, <1>2, <1>3

\* The store forgets k: every check charged for it has an amnesty.
LEMMA CoveredForgotten ==
    ASSUME NEW k \in Keys, granted'[k] = <<>>, passed'[k] = <<>>,
           \A q \in Procs : ~Charged(q, k)'
    PROVE  Covered(k)'
<1> SUFFICES ASSUME NEW c \in Int
             PROVE  /\ IsFiniteSet(Late(k, c)')
                    /\ Cardinality(After(passed'[k], c)) + Cardinality(Late(k, c)')
                          <= Cardinality(After(granted'[k], c))
  BY DEF Covered, After, Late
<1>1. Late(k, c)' = {}
  BY DEF Late
<1>2. <<>> \in Seq(Nat)
  OBVIOUS
<1>3. Cardinality(After(<<>>, c)) \in Nat
  BY <1>2, AfterFinite
<1> QED
  BY <1>1, <1>3, FS_EmptySet

\* The store charges an attempt on k under the time x; the check that made it,
\* begun no later, is the only one that may become charged.
LEMMA CoveredCharge ==
    ASSUME TypeOK, NEW k \in Keys, Covered(k), NEW p \in Procs,
           NEW x \in Nat, begun[p] <= x,
           granted'[k] = Append(granted[k], x), passed'[k] = passed[k],
           \A q \in Procs : Charged(q, k)' =>
              begun'[q] = begun[q] /\ (Charged(q, k) \/ q = p)
    PROVE  Covered(k)'
<1> SUFFICES ASSUME NEW c \in Int
             PROVE  /\ IsFiniteSet(Late(k, c)')
                    /\ Cardinality(After(passed'[k], c)) + Cardinality(Late(k, c)')
                          <= Cardinality(After(granted'[k], c))
  BY DEF Covered, After, Late
<1> DEFINE L == Late(k, c)
           M == Late(k, c)'
           P == Cardinality(After(passed[k], c))
           G == Cardinality(After(granted[k], c))
<1>1. IsFiniteSet(L) /\ P + Cardinality(L) <= G
  BY DEF Covered
<1>2. x \in Nat /\ begun[p] \in Nat
  BY BoundsAssumption DEF TypeOK
<1>3. P \in Nat /\ G \in Nat
  BY ListTypes, AfterFinite
<1>4. Cardinality(After(granted'[k], c)) = G + IF x > c THEN 1 ELSE 0
  BY <1>2, ListTypes, AfterAppend
<1>5. M \subseteq (IF x > c THEN L \cup {p} ELSE L)
  <2> SUFFICES ASSUME NEW q \in M PROVE q \in (IF x > c THEN L \cup {p} ELSE L)
    OBVIOUS
  <2>1. q \in Procs /\ Charged(q, k)' /\ begun'[q] > c
    BY DEF Late
  <2>2. begun[q] > c /\ (Charged(q, k) \/ q = p)
    BY <2>1
  <2>3. CASE Charged(q, k)
    BY <2>1, <2>2, <2>3 DEF Late
  <2>4. CASE q = p
    BY <1>2, <2>2, <2>4
  <2> QED
    BY <2>2, <2>3, <2>4
<1>6. passed'[k] = passed[k]
  OBVIOUS
<1> HIDE DEF L, M
<1>7. /\ IsFiniteSet(L \cup {p}) /\ Cardinality(L) \in Nat
      /\ Cardinality(L \cup {p}) <= Cardinality(L) + 1
  <2>1. Cardinality(L) \in Nat
    BY <1>1, FS_CardinalityType
  <2>2. /\ IsFiniteSet(L \cup {p})
        /\ Cardinality(L \cup {p}) = IF p \in L THEN Cardinality(L) ELSE Cardinality(L) + 1
    BY <1>1, FS_AddElement
  <2> QED
    BY <2>1, <2>2
<1>8. Cardinality(L \cup {p}) \in Nat
  BY <1>7, FS_CardinalityType
<1>9. CASE x > c
  <2>1. IsFiniteSet(M) /\ Cardinality(M) <= Cardinality(L \cup {p})
    BY <1>5, <1>7, <1>9, FS_Subset
  <2>2. Cardinality(M) \in Nat
    BY <2>1, FS_CardinalityType
  <2>3. P + Cardinality(M) <= G + 1
    BY <1>1, <1>3, <1>7, <1>8, <2>1, <2>2
  <2> QED
    BY <1>4, <1>6, <1>9, <2>1, <2>3 DEF M
<1>10. CASE ~(x > c)
  <2>1. IsFiniteSet(M) /\ Cardinality(M) <= Cardinality(L)
    BY <1>1, <1>5, <1>10, FS_Subset
  <2>2. Cardinality(M) \in Nat
    BY <2>1, FS_CardinalityType
  <2>3. P + Cardinality(M) <= G
    BY <1>1, <1>3, <1>7, <2>1, <2>2
  <2> QED
    BY <1>3, <1>4, <1>6, <1>10, <2>1, <2>3 DEF M
<1> QED
  BY <1>9, <1>10

\* The store charges the last attempt of a check, which passes k's limit with it.
LEMMA CoveredPass ==
    ASSUME TypeOK, NEW k \in Keys, Covered(k), NEW b \in Nat,
           NEW x \in Nat, b <= x,
           granted'[k] = Append(granted[k], x), passed'[k] = Append(passed[k], b),
           \A q \in Procs : Charged(q, k)' => Charged(q, k) /\ begun'[q] = begun[q]
    PROVE  Covered(k)'
<1> SUFFICES ASSUME NEW c \in Int
             PROVE  /\ IsFiniteSet(Late(k, c)')
                    /\ Cardinality(After(passed'[k], c)) + Cardinality(Late(k, c)')
                          <= Cardinality(After(granted'[k], c))
  BY DEF Covered, After, Late
<1> DEFINE P == Cardinality(After(passed[k], c))
           G == Cardinality(After(granted[k], c))
<1>1. IsFiniteSet(Late(k, c)) /\ P + Cardinality(Late(k, c)) <= G
  BY DEF Covered
<1>2. /\ IsFiniteSet(Late(k, c)')
      /\ Cardinality(Late(k, c)') \in Nat /\ Cardinality(Late(k, c)) \in Nat
      /\ Cardinality(Late(k, c)') <= Cardinality(Late(k, c))
  BY <1>1, LateShrinks
<1>3. x \in Nat /\ b \in Nat
  OBVIOUS
<1>4. P \in Nat /\ G \in Nat
  BY ListTypes, AfterFinite
<1>5. Cardinality(After(granted'[k], c)) = G + IF x > c THEN 1 ELSE 0
  BY <1>3, ListTypes, AfterAppend
<1>6. Cardinality(After(passed'[k], c)) = P + IF b > c THEN 1 ELSE 0
  BY ListTypes, AfterAppend
<1> HIDE DEF P, G
<1>7. b > c => x > c
  BY <1>3
<1> QED
  BY <1>1, <1>2, <1>4, <1>5, <1>6, <1>7

\* A check passes the limit of a key for which it was charged earlier.
LEMMA CoveredHandOver ==
    ASSUME TypeOK, NEW k \in Keys, Covered(k), NEW p \in Procs,
           granted'[k] = granted[k], passed'[k] = Append(passed[k], begun[p]),
           Charged(p, k), ~Charged(p, k)',
           \A q \in Procs : Charged(q, k)' => Charged(q, k) /\ begun'[q] = begun[q]
    PROVE  Covered(k)'
<1> SUFFICES ASSUME NEW c \in Int
             PROVE  /\ IsFiniteSet(Late(k, c)')
                    /\ Cardinality(After(passed'[k], c)) + Cardinality(Late(k, c)')
                          <= Cardinality(After(granted'[k], c))
  BY DEF Covered, After, Late
<1> DEFINE L == Late(k, c)
           M == Late(k, c)'
           P == Cardinality(After(passed[k], c))
           G == Cardinality(After(granted[k], c))
<1>1. IsFiniteSet(L) /\ P + Cardinality(L) <= G
  BY DEF Covered
<1>2. begun[p] \in Nat
  BY BoundsAssumption DEF TypeOK
<1>3. P \in Nat /\ G \in Nat
  BY ListTypes, AfterFinite
<1>4. Cardinality(After(passed'[k], c)) = P + IF begun[p] > c THEN 1 ELSE 0
  BY <1>2, ListTypes, AfterAppend
<1>5. M \subseteq L \ {p}
  BY DEF Late
<1>6. begun[p] > c => p \in L
  BY DEF Late
<1>7. Cardinality(After(granted'[k], c)) = G
  OBVIOUS
<1> HIDE DEF L, M, P, G
<1>8. /\ IsFiniteSet(L \ {p}) /\ Cardinality(L) \in Nat
      /\ Cardinality(L \ {p}) = IF p \in L THEN Cardinality(L) - 1 ELSE Cardinality(L)
  BY <1>1, FS_RemoveElement, FS_CardinalityType
<1>9. IsFiniteSet(M) /\ Cardinality(M) <= Cardinality(L \ {p})
  BY <1>5, <1>8, FS_Subset
<1>10. Cardinality(M) \in Nat
  BY <1>9, FS_CardinalityType
<1>11. Cardinality(After(passed'[k], c)) + Cardinality(M) <= G
  BY <1>1, <1>3, <1>4, <1>6, <1>8, <1>9, <1>10
<1> QED
  BY <1>7, <1>9, <1>11 DEF M

-----------------------------------------------------------------------------
\* The part of TypeOK that is about the calls.
CallsOK ==
    /\ op \in [Procs -> {"idle", "check", "reset"}]
    /\ req \in [Procs -> Requests \cup {Nil}]
    /\ todo \in [Procs -> Seq(Keys)]
    /\ \A p \in Procs : Len(todo[p]) <= 3
    /\ reply \in [Procs -> {"none", "ok", "refused", "error"}]
    /\ begun \in [Procs -> 0..MaxTime]
    /\ \A p \in Procs : (op[p] = "idle") <=> (todo[p] = <<>>)

\* A step leaves the call of q as it is.
Same(q) ==
    /\ op'[q] = op[q]
    /\ req'[q] = req[q]
    /\ todo'[q] = todo[q]
    /\ begun'[q] = begun[q]

\* A call that returns leaves the others alone.
LEMMA ReturnKeeps ==
    ASSUME TypeOK, NEW p \in Procs, NEW answer \in {"none", "ok", "refused", "error"},
           Return(p, answer)
    PROVE  /\ CallsOK'
           /\ op'[p] = "idle" /\ begun'[p] = 0
           /\ \A q \in Procs : q # p => Same(q)
<1> USE BoundsAssumption
<1>1. /\ op' = [op EXCEPT ![p] = "idle"] /\ req' = [req EXCEPT ![p] = Nil]
      /\ todo' = [todo EXCEPT ![p] = <<>>] /\ reply' = [reply EXCEPT ![p] = answer]
      /\ begun' = [begun EXCEPT ![p] = 0]
  BY DEF Return
<1>2. /\ op'[p] = "idle" /\ begun'[p] = 0 /\ todo'[p] = <<>>
      /\ \A q \in Procs : q # p => Same(q)
  BY <1>1 DEF TypeOK, Same
<1>3. todo' \in [Procs -> Seq(Keys)]
  BY <1>1 DEF TypeOK
<1>4. \A q \in Procs : Len(todo'[q]) <= 3 /\ ((op'[q] = "idle") <=> (todo'[q] = <<>>))
  <2> SUFFICES ASSUME NEW q \in Procs
               PROVE  Len(todo'[q]) <= 3 /\ ((op'[q] = "idle") <=> (todo'[q] = <<>>))
    OBVIOUS
  <2>1. CASE q = p
    <3>1. Len(<<>>) = 0
      OBVIOUS
    <3> QED
      BY <1>2, <2>1, <3>1
  <2>2. CASE q # p
    BY <1>2, <2>2 DEF Same, TypeOK
  <2> QED
    BY <2>1, <2>2
<1>5. CallsOK'
  BY <1>1, <1>3, <1>4 DEF TypeOK, CallsOK
<1> QED
  BY <1>2, <1>5

\* A call has a key to ask for.
LEMMA HasTodo ==
    ASSUME TypeOK, NEW p \in Procs, op[p] # "idle"
    PROVE  /\ todo[p] \in Seq(Keys) /\ todo[p] # <<>>
           /\ Head(todo[p]) \in Keys
           /\ Tail(todo[p]) \in Seq(Keys)
           /\ Len(Tail(todo[p])) = Len(todo[p]) - 1
           /\ Len(todo[p]) \in Nat /\ Len(todo[p]) <= 3 /\ Len(todo[p]) > 0
           /\ \A j \in Keys : j # Head(todo[p]) =>
                (j \in Pending(p) <=> \E n \in 1..Len(Tail(todo[p])) : Tail(todo[p])[n] = j)
<1> DEFINE s == todo[p]
<1>1. s \in Seq(Keys) /\ s # <<>> /\ Len(s) <= 3
  BY DEF TypeOK
<1>2. Pending(p) = {s[n] : n \in 1..Len(s)}
  BY DEF Pending
<1> HIDE DEF s
<1>3. Len(s) \in Nat /\ Len(s) > 0
  BY <1>1, EmptySeq, LenProperties
<1>4. /\ Head(s) \in Keys /\ Tail(s) \in Seq(Keys) /\ Len(Tail(s)) = Len(s) - 1
      /\ \A i \in 1..Len(Tail(s)) : Tail(s)[i] = s[i + 1]
  BY <1>1, HeadTailProperties
<1>5. Head(s) = s[1]
  BY <1>1
<1>6. ASSUME NEW j \in Keys, j # Head(s)
      PROVE  j \in Pending(p) <=> \E n \in 1..Len(Tail(s)) : Tail(s)[n] = j
  <2>1. ASSUME NEW n \in 1..Len(s), s[n] = j
        PROVE  \E i \in 1..Len(Tail(s)) : Tail(s)[i] = j
    <3>1. n # 1
      BY <1>5, <1>6, <2>1
    <3>2. n - 1 \in 1..Len(Tail(s)) /\ (n - 1) + 1 = n
      BY <1>3, <1>4, <3>1
    <3> QED
      BY <1>4, <2>1, <3>2
  <2>2. ASSUME NEW n \in 1..Len(Tail(s)), Tail(s)[n] = j
        PROVE  \E i \in 1..Len(s) : s[i] = j
    <3>1. n + 1 \in 1..Len(s)
      BY <1>3, <1>4
    <3> QED
      BY <1>4, <2>2, <3>1
  <2> QED
    BY <1>2, <2>1, <2>2
<1> QED
  BY <1>1, <1>3, <1>4, <1>6 DEF s

\* After the answer for one key the call goes on to the next, or is over.
LEMMA ContinueKeeps ==
    ASSUME TypeOK, NEW p \in Procs, op[p] # "idle", Continue(p)
    PROVE  /\ CallsOK'
           /\ \A q \in Procs : q # p => Same(q)
           /\ \/ Tail(todo[p]) = <<>> /\ op'[p] = "idle" /\ begun'[p] = 0
              \/ /\ op'[p] = op[p] /\ req'[p] = req[p] /\ begun'[p] = begun[p]
                 /\ todo'[p] = Tail(todo[p])
<1>1. CASE Remaining(todo[p]) = <<>>
  <2>1. Return(p, "ok")
    BY <1>1 DEF Continue
  <2> QED
    BY <1>1, <2>1, ReturnKeeps DEF Remaining
<1>2. CASE Remaining(todo[p]) # <<>>
  <2>1. /\ todo' = [todo EXCEPT ![p] = Tail(todo[p])]
        /\ UNCHANGED <<op, req, reply, begun>>
    BY <1>2 DEF Continue, Remaining
  <2>2. /\ Tail(todo[p]) \in Seq(Keys) /\ Len(Tail(todo[p])) = Len(todo[p]) - 1
        /\ Len(todo[p]) \in Nat /\ Len(todo[p]) <= 3 /\ Tail(todo[p]) # <<>>
    BY <1>2, HasTodo DEF Remaining
  <2>3. todo' \in [Procs -> Seq(Keys)]
    BY <2>1, <2>2 DEF TypeOK
  <2>4. todo'[p] = Tail(todo[p]) /\ \A q \in Procs : q # p => Same(q)
    BY <2>1 DEF TypeOK, Same
  <2>5. \A q \in Procs : Len(todo'[q]) <= 3 /\ ((op'[q] = "idle") <=> (todo'[q] = <<>>))
    <3> SUFFICES ASSUME NEW q \in Procs
                 PROVE  Len(todo'[q]) <= 3 /\ ((op'[q] = "idle") <=> (todo'[q] = <<>>))
      OBVIOUS
    <3>1. CASE q = p
      <4>1. Len(Tail(todo[p])) <= 3
        BY <2>2
      <4> QED
        BY <2>1, <2>2, <2>4, <3>1, <4>1
    <3>2. CASE q # p
      BY <2>4, <3>2 DEF Same, TypeOK
    <3> QED
      BY <3>1, <3>2
  <2>6. CallsOK'
    BY <2>1, <2>3, <2>5 DEF TypeOK, CallsOK
  <2> QED
    BY <2>1, <2>4, <2>6
<1> QED
  BY <1>1, <1>2

\* No step charges a check that it leaves as it is; an amnesty only grows.
LEMMA SameCharged ==
    ASSUME NEW q \in Procs, NEW k \in Keys, Same(q), amnesty[q] \subseteq amnesty'[q]
    PROVE  Charged(q, k)' => Charged(q, k) /\ begun'[q] = begun[q]
BY DEF Same, Charged, Pending

\* What a charge means for the list of grants.
LEMMA ChargeMeans ==
    ASSUME TypeOK, NEW p \in Procs, NEW k \in Keys, Charge(p, k)
    PROVE  /\ clock' = clock
           /\ \E x \in Nat :
                 /\ begun[p] <= x
                 /\ granted' = [granted EXCEPT ![k] = Append(granted[k], x)]
           /\ granted' \in [Keys -> Seq(0..MaxTime)]
           /\ Cardinality(After(granted[k], clock - Window[k])) < Limit[k]
<1>1. /\ Store!Cardinality(Store!Recent(k, clock)) < Limit[k] /\ clock' = clock
      /\ granted'[k][Len(granted'[k])] >= begun[p]
  BY DEF Charge, Store!Grant
<1>2. PICK b \in 0..clock : granted' = [granted EXCEPT ![k] = Append(granted[k], b)]
  BY DEF Charge, Store!Grant
<1>3. clock \in 0..MaxTime /\ granted \in [Keys -> Seq(0..MaxTime)] /\ b \in 0..MaxTime
      /\ b \in Nat /\ begun[p] \in Nat
  BY BoundsAssumption DEF TypeOK
<1>4. granted[k] \in Seq(0..MaxTime) /\ granted'[k] = Append(granted[k], b)
  BY <1>2, <1>3
<1>5. Append(granted[k], b)[Len(Append(granted[k], b))] = b
  BY <1>3, <1>4, AppendProperties
<1>6. begun[p] <= b
  BY <1>1, <1>3, <1>4, <1>5
<1>7. Append(granted[k], b) \in Seq(0..MaxTime)
  BY <1>3, <1>4, AppendProperties
<1>8. granted' \in [Keys -> Seq(0..MaxTime)]
  BY <1>2, <1>3, <1>7
<1>9. Store!Recent(k, clock) = After(granted[k], clock - Window[k])
  BY DEF Store!Recent, After
<1>10. ASSUME NEW S PROVE Store!Cardinality(S) = Cardinality(S)
  BY DEF Store!Cardinality, Cardinality
<1> QED
  BY <1>1, <1>2, <1>3, <1>6, <1>8, <1>9, <1>10

\* The bound on the grants of a window outlives a charge on any key.
LEMMA ChargeWithin ==
    ASSUME IndInv, NEW p \in Procs, NEW k \in Keys, Charge(p, k), NEW j \in Keys
    PROVE  WithinLimit(j)'
<1>1. TypeOK /\ WithinLimit(j)
  BY DEF IndInv
<1>2. /\ clock' = clock
      /\ Cardinality(After(granted[k], clock - Window[k])) < Limit[k]
  BY <1>1, ChargeMeans
<1>x. PICK x \in Nat : granted' = [granted EXCEPT ![k] = Append(granted[k], x)]
  BY <1>1, ChargeMeans
<1>3. /\ clock \in Nat /\ granted[k] \in Seq(Nat) /\ clock - Window[k] \in Int
      /\ Limit[k] \in Nat
  BY <1>1, ListTypes, RuleTypes, BoundsAssumption DEF TypeOK
<1>4. CASE j = k
  <2>1. granted'[j] = Append(granted[k], x)
    BY <1>1, <1>x, <1>4 DEF TypeOK
  <2>2. Cardinality(After(granted[k], clock - Window[k])) \in Nat
    BY <1>3, AfterFinite
  <2>3. Cardinality(After(Append(granted[k], x), clock - Window[k])) <=
          Cardinality(After(granted[k], clock - Window[k])) + 1
    <3>1. Cardinality(After(Append(granted[k], x), clock - Window[k])) =
            Cardinality(After(granted[k], clock - Window[k]))
              + IF x > clock - Window[k] THEN 1 ELSE 0
      BY <1>3, AfterAppend
    <3> QED
      BY <2>2, <3>1
  <2>4. Cardinality(After(Append(granted[k], x), clock - Window[k])) \in Nat
    BY <1>3, AppendProperties, AfterFinite
  <2>5. Cardinality(After(Append(granted[k], x), clock - Window[k])) <= Limit[k]
    BY <1>2, <1>3, <2>2, <2>3, <2>4
  <2> QED
    BY <1>2, <1>4, <2>1, <2>5 DEF WithinLimit, After
<1>5. CASE j # k
  <2>1. granted'[j] = granted[j]
    BY <1>1, <1>x, <1>5 DEF TypeOK
  <2> QED
    BY <1>1, <1>2, <2>1 DEF WithinLimit, After
<1> QED
  BY <1>4, <1>5

\* A step that records no grant keeps the bound, also when time passes.
LEMMA IdleWithin ==
    ASSUME TypeOK, NEW k \in Keys, WithinLimit(k), granted'[k] = granted[k],
           clock' \in Nat, clock <= clock'
    PROVE  WithinLimit(k)'
<1>1. /\ granted[k] \in Seq(Nat) /\ clock \in Nat
      /\ Window[k] \in Nat /\ Limit[k] \in Nat
  BY ListTypes, RuleTypes, BoundsAssumption DEF TypeOK
<1> DEFINE c == clock - Window[k]
           d == clock' - Window[k]
<1>2. c \in Int /\ d \in Int /\ c <= d
  BY <1>1
<1>3. Cardinality(After(granted[k], c)) <= Limit[k]
  BY DEF WithinLimit
<1> HIDE DEF c, d
<1>4. /\ Cardinality(After(granted[k], d)) <= Cardinality(After(granted[k], c))
      /\ Cardinality(After(granted[k], d)) \in Nat /\ Cardinality(After(granted[k], c)) \in Nat
  BY <1>1, <1>2, AfterShrinks, AfterFinite
<1>5. Cardinality(After(granted[k], d)) <= Limit[k]
  BY <1>1, <1>3, <1>4
<1> QED
  BY <1>5 DEF WithinLimit, After, d, Window

\* A forgotten key is within its limit.
LEMMA ForgottenWithin ==
    ASSUME NEW k \in Keys, granted'[k] = <<>>
    PROVE  WithinLimit(k)'
<1>1. Len(granted'[k]) = 0
  OBVIOUS
<1>2. After(granted'[k], clock' - Window[k]) = {}
  BY <1>1 DEF After
<1>3. Cardinality(After(granted'[k], clock' - Window[k])) <= Limit[k]
  <2>1. Limit[k] \in Nat
    BY RuleTypes
  <2>2. Cardinality(After(granted'[k], clock' - Window[k])) = 0
    BY <1>2, FS_EmptySet
  <2> QED
    BY <2>1, <2>2
<1> QED
  BY <1>3 DEF WithinLimit, After, Window, Limit

\* A step in which p's call goes on or ends, nothing is charged and nothing
\* recorded keeps what is known of a key.
LEMMA NothingCharged ==
    ASSUME IndInv, NEW k \in Keys, granted'[k] = granted[k], passed'[k] = passed[k],
           UNCHANGED clock,
           \A q \in Procs : Charged(q, k)' => Charged(q, k) /\ begun'[q] = begun[q]
    PROVE  Covered(k)' /\ WithinLimit(k)'
<1>1. TypeOK /\ Covered(k) /\ WithinLimit(k) /\ clock \in Nat
  BY BoundsAssumption DEF IndInv, TypeOK
<1>2. Covered(k)'
  BY <1>1, CoveredIdle
<1>3. WithinLimit(k)'
  BY <1>1, IdleWithin
<1> QED
  BY <1>2, <1>3

\* A reset empties a key and gives every check charged for it an amnesty; the
\* caller is no check.
LEMMA ForgetKeeps ==
    ASSUME IndInv, NEW p \in Procs, op[p] = "reset",
           Forget(p, Head(todo[p])) \/ UNCHANGED <<clock, granted, amnesty, passed>>,
           \A q \in Procs : q # p => Same(q), op'[p] # "check"
    PROVE  /\ UNCHANGED clock
           /\ granted' \in [Keys -> Seq(0..MaxTime)]
           /\ passed' \in [Keys -> Seq(0..MaxTime)]
           /\ amnesty' \in [Procs -> SUBSET Keys]
           /\ \A k \in Keys : Covered(k)' /\ WithinLimit(k)'
<1> DEFINE h == Head(todo[p])
<1>1. TypeOK /\ h \in Keys
  BY HasTodo DEF IndInv
<1>2. \A q \in Procs : amnesty[q] \subseteq amnesty'[q]
  <2>1. CASE UNCHANGED amnesty
    BY <2>1
  <2>2. CASE Forget(p, h)
    BY <2>2 DEF Forget
  <2> QED
    BY <2>1, <2>2
<1>3. ASSUME NEW k \in Keys, NEW q \in Procs
      PROVE  Charged(q, k)' => Charged(q, k) /\ begun'[q] = begun[q]
  <2>1. CASE q = p
    BY <2>1 DEF Charged
  <2>2. CASE q # p
    BY <1>2, <2>2, SameCharged
  <2> QED
    BY <2>1, <2>2
<1>4. CASE UNCHANGED <<clock, granted, amnesty, passed>>
  <2>1. \A k \in Keys : Covered(k)' /\ WithinLimit(k)'
    BY <1>3, <1>4, NothingCharged
  <2> QED
    BY <1>1, <1>4, <2>1 DEF TypeOK
<1>5. CASE Forget(p, h)
  <2>1. /\ granted' = [granted EXCEPT ![h] = <<>>] /\ UNCHANGED clock
        /\ passed' = [passed EXCEPT ![h] = <<>>]
        /\ amnesty' = [q \in Procs |->
                         IF op[q] = "check" /\ h \in KeySet(req[q]) \ Pending(q)
                         THEN amnesty[q] \cup {h} ELSE amnesty[q]]
    BY <1>5 DEF Forget, Store!Reset
  <2> HIDE DEF h
  <2>2. /\ granted' \in [Keys -> Seq(0..MaxTime)] /\ passed' \in [Keys -> Seq(0..MaxTime)]
    BY <1>1, <2>1, EmptySeq DEF TypeOK
  <2>3. amnesty' \in [Procs -> SUBSET Keys]
    BY <1>1, <2>1 DEF TypeOK
  <2>4. ASSUME NEW k \in Keys PROVE Covered(k)' /\ WithinLimit(k)'
    <3>1. CASE k = h
      <4>1. granted'[k] = <<>> /\ passed'[k] = <<>>
        BY <1>1, <2>1, <3>1 DEF TypeOK
      <4>2. ASSUME NEW q \in Procs PROVE ~Charged(q, k)'
        <5>1. CASE q = p
          BY <5>1 DEF Charged
        <5>2. CASE q # p
          BY <2>1, <3>1, <5>2 DEF Charged, Same, Pending
        <5> QED
          BY <5>1, <5>2
      <4>3. Covered(k)'
        BY <4>1, <4>2, CoveredForgotten
      <4> QED
        BY <4>1, <4>3, ForgottenWithin
    <3>2. CASE k # h
      <4>1. granted'[k] = granted[k] /\ passed'[k] = passed[k]
        BY <1>1, <2>1, <3>2 DEF TypeOK
      <4> QED
        BY <1>3, <2>1, <4>1, NothingCharged
    <3> QED
      BY <3>1, <3>2
  <2> QED
    BY <2>1, <2>2, <2>3, <2>4
<1> QED
  BY <1>4, <1>5

\* The handler's validation: only a request whose address parses goes to the
\* store, and its keys are three keys of their own.
LEMMA KeysOfType ==
    ASSUME NEW r \in Requests, r.ip \in Ips
    PROVE  /\ KeysOf(r) \in Seq(Keys) /\ Len(KeysOf(r)) = 3 /\ KeysOf(r) # <<>>
           /\ \A k \in KeySet(r) : \E n \in 1..Len(KeysOf(r)) : KeysOf(r)[n] = k
<1>1. /\ <<"login", r.login>> \in Keys /\ <<"password", r.password>> \in Keys
      /\ <<"ip", r.ip>> \in Keys
  BY DEF Requests, Keys
<1>2. KeysOf(r) \in Seq(Keys) /\ Len(KeysOf(r)) = 3 /\ KeysOf(r) # <<>>
  BY <1>1 DEF KeysOf
<1> QED
  BY <1>2 DEF KeySet

\* The store says yes for one key of a check.  Midway the check becomes charged
\* for that key; at the end it passes the limit of that key, just charged, and
\* of the other two, charged before.
LEMMA YesKeeps ==
    ASSUME IndInv, NEW p \in Procs, AllowYes(p)
    PROVE  IndInv'
<1> DEFINE h == Head(todo[p])
<1>1. TypeOK /\ op[p] = "check"
  BY DEF IndInv, AllowYes
<1>2. h \in Keys
  BY <1>1, HasTodo
<1>3. Charge(p, h) /\ Continue(p)
  BY DEF AllowYes
<1>4. clock' = clock /\ granted' \in [Keys -> Seq(0..MaxTime)]
  BY <1>1, <1>2, <1>3, ChargeMeans
<1>x. PICK x \in Nat : /\ begun[p] <= x
                       /\ granted' = [granted EXCEPT ![h] = Append(granted[h], x)]
  BY <1>1, <1>2, <1>3, ChargeMeans
<1>5. /\ CallsOK'
      /\ \A q \in Procs : q # p => Same(q)
      /\ \/ Tail(todo[p]) = <<>> /\ op'[p] = "idle" /\ begun'[p] = 0
         \/ /\ op'[p] = op[p] /\ req'[p] = req[p] /\ begun'[p] = begun[p]
            /\ todo'[p] = Tail(todo[p])
  BY <1>1, <1>3, ContinueKeeps
<1>6. /\ amnesty' = [amnesty EXCEPT ![p] = IF op'[p] = "check" THEN amnesty[p] ELSE {}]
      /\ passed' = IF op'[p] = "check" THEN passed
                   ELSE [j \in Keys |->
                           IF j \in KeySet(req[p]) \ amnesty[p]
                           THEN Append(passed[j], begun[p]) ELSE passed[j]]
  BY DEF AllowYes
<1>7. \A j \in Keys : WithinLimit(j)'
  BY <1>2, <1>3, ChargeWithin
<1>9. amnesty' \in [Procs -> SUBSET Keys]
  BY <1>1, <1>6 DEF TypeOK
<1>10. passed' \in [Keys -> Seq(0..MaxTime)]
  <2>1. \A j \in Keys : passed[j] \in Seq(0..MaxTime) /\ begun[p] \in 0..MaxTime
    BY <1>1 DEF TypeOK
  <2>2. \A j \in Keys : Append(passed[j], begun[p]) \in Seq(0..MaxTime)
    BY <2>1, AppendProperties
  <2>3. passed \in [Keys -> Seq(0..MaxTime)]
    BY <1>1 DEF TypeOK
  <2> QED
    BY <1>6, <2>1, <2>2, <2>3
<1>11. TypeOK'
  BY <1>1, <1>4, <1>5, <1>9, <1>10 DEF TypeOK, CallsOK
<1>12. ASSUME NEW j \in Keys, NEW q \in Procs, q # p
       PROVE  Charged(q, j)' => Charged(q, j) /\ begun'[q] = begun[q]
  <2>1. amnesty'[q] = amnesty[q]
    BY <1>1, <1>6, <1>12 DEF TypeOK
  <2> QED
    BY <1>5, <1>12, <2>1, SameCharged
<1>13. ASSUME NEW j \in Keys PROVE Covered(j)'
  <2>1. Covered(j) /\ begun[p] <= x /\ begun[p] \in Nat
    BY <1>1, <1>x, BoundsAssumption DEF IndInv, TypeOK
  <2>2. j = h => granted'[j] = Append(granted[j], x)
    BY <1>1, <1>2, <1>x DEF TypeOK
  <2>3. j # h => granted'[j] = granted[j]
    BY <1>1, <1>2, <1>x DEF TypeOK
  <2>4. CASE op'[p] = "check"
    <3>1. /\ passed'[j] = passed[j] /\ amnesty'[p] = amnesty[p]
          /\ req'[p] = req[p] /\ begun'[p] = begun[p] /\ todo'[p] = Tail(todo[p])
      BY <1>1, <1>5, <1>6, <2>4 DEF TypeOK
    <3>2. CASE j = h
      BY <1>1, <1>12, <2>1, <2>2, <3>1, <3>2, CoveredCharge
    <3>3. CASE j # h
      <4>1. Charged(p, j)' => Charged(p, j)
        <5>1. j \in Pending(p) <=> \E n \in 1..Len(Tail(todo[p])) : Tail(todo[p])[n] = j
          BY <1>1, <3>3, HasTodo
        <5>2. Pending(p)' = {Tail(todo[p])[n] : n \in 1..Len(Tail(todo[p]))}
          BY <3>1 DEF Pending
        <5>3. j \in Pending(p) => j \in Pending(p)'
          BY <5>1, <5>2
        <5> QED
          BY <1>1, <3>1, <5>3 DEF Charged
      <4> QED
        BY <1>1, <1>12, <2>1, <2>3, <3>1, <3>3, <4>1, CoveredIdle
    <3> QED
      BY <3>2, <3>3
  <2>5. CASE op'[p] # "check"
    <3>1. Tail(todo[p]) = <<>> /\ op'[p] = "idle" /\ ~Charged(p, j)'
      BY <1>1, <1>5, <2>5 DEF Charged
    <3>2. \A q \in Procs : Charged(q, j)' => Charged(q, j) /\ begun'[q] = begun[q]
      BY <1>12, <3>1
    <3>3. CASE j \in KeySet(req[p]) \ amnesty[p]
      <4>1. passed'[j] = Append(passed[j], begun[p])
        BY <1>6, <2>5, <3>3
      <4>2. CASE j = h
        BY <1>1, <2>1, <2>2, <3>2, <4>1, <4>2, CoveredPass
      <4>3. CASE j # h
        <5> DEFINE t == Tail(todo[p])
        <5>1. t = <<>> /\ (j \in Pending(p) <=> \E n \in 1..Len(t) : t[n] = j)
          BY <1>1, <3>1, <4>3, HasTodo
        <5> HIDE DEF t
        <5>2. j \notin Pending(p)
          <6>1. Len(t) = 0
            BY <5>1
          <6>2. 1..Len(t) = {}
            BY <6>1
          <6> QED
            BY <5>1, <6>2
        <5>3. Charged(p, j)
          BY <1>1, <3>3, <5>2 DEF Charged
        <5> QED
          BY <1>1, <2>1, <2>3, <3>1, <3>2, <4>1, <4>3, <5>3, CoveredHandOver
      <4> QED
        BY <4>2, <4>3
    <3>4. CASE j \notin KeySet(req[p]) \ amnesty[p]
      <4>1. passed'[j] = passed[j]
        BY <1>6, <2>5, <3>4
      <4>2. CASE j = h
        BY <1>1, <2>1, <2>2, <3>2, <4>1, <4>2, CoveredCharge
      <4>3. CASE j # h
        BY <1>1, <2>1, <2>3, <3>2, <4>1, <4>3, CoveredIdle
      <4> QED
        BY <4>2, <4>3
    <3> QED
      BY <3>3, <3>4
  <2> QED
    BY <2>4, <2>5
<1> QED
  BY <1>7, <1>11, <1>13 DEF IndInv

\* A check that is refused or fails passes nothing; what it was charged is lost.
LEMMA EndKeeps ==
    ASSUME IndInv, NEW p \in Procs, op[p] = "check",
           NEW answer \in {"refused", "error"}, Return(p, answer),
           Charge(p, Head(todo[p])) \/ UNCHANGED <<clock, granted>>,
           amnesty' = [amnesty EXCEPT ![p] = {}], UNCHANGED passed
    PROVE  IndInv'
<1> DEFINE h == Head(todo[p])
<1>1. TypeOK /\ h \in Keys
  BY HasTodo DEF IndInv
<1>2. CallsOK' /\ op'[p] = "idle" /\ begun'[p] = 0 /\ \A q \in Procs : q # p => Same(q)
  BY <1>1, ReturnKeeps
<1>3. amnesty' \in [Procs -> SUBSET Keys] /\ \A q \in Procs : q # p => amnesty'[q] = amnesty[q]
  BY <1>1 DEF TypeOK
<1>4. ASSUME NEW j \in Keys, NEW q \in Procs
      PROVE  Charged(q, j)' => Charged(q, j) /\ begun'[q] = begun[q]
  <2>1. CASE q = p
    BY <1>2, <2>1 DEF Charged
  <2>2. CASE q # p
    BY <1>2, <1>3, <2>2, SameCharged
  <2> QED
    BY <2>1, <2>2
<1>5. /\ clock' = clock /\ granted' \in [Keys -> Seq(0..MaxTime)]
      /\ \A j \in Keys : Covered(j)' /\ WithinLimit(j)'
  <2>1. CASE UNCHANGED <<clock, granted>>
    <3>1. \A j \in Keys : Covered(j)' /\ WithinLimit(j)'
      BY <1>4, <2>1, NothingCharged
    <3> QED
      BY <1>1, <2>1, <3>1 DEF TypeOK
  <2>2. CASE Charge(p, h)
    <3>1. clock' = clock /\ granted' \in [Keys -> Seq(0..MaxTime)]
      BY <1>1, <2>2, ChargeMeans
    <3>x. PICK x \in Nat : /\ begun[p] <= x
                           /\ granted' = [granted EXCEPT ![h] = Append(granted[h], x)]
      BY <1>1, <2>2, ChargeMeans
    <3>2. \A j \in Keys : WithinLimit(j)'
      BY <1>1, <2>2, ChargeWithin
    <3>3. ASSUME NEW j \in Keys PROVE Covered(j)'
      <4>1. Covered(j)
        BY DEF IndInv
      <4>2. CASE j = h
        <5>1. granted'[j] = Append(granted[j], x)
          BY <1>1, <3>x, <4>2 DEF TypeOK
        <5> QED
          BY <1>1, <1>4, <3>x, <4>1, <5>1, CoveredCharge
      <4>3. CASE j # h
        <5>1. granted'[j] = granted[j]
          BY <1>1, <3>x, <4>3 DEF TypeOK
        <5> QED
          BY <1>1, <1>4, <4>1, <5>1, CoveredIdle
      <4> QED
        BY <4>2, <4>3
    <3> QED
      BY <3>1, <3>2, <3>3
  <2> QED
    BY <2>1, <2>2
<1>6. TypeOK'
  BY <1>1, <1>2, <1>3, <1>5 DEF TypeOK, CallsOK
<1> QED
  BY <1>5, <1>6 DEF IndInv

\* A call goes to the store with all of its keys still to ask for.
LEMMA BeginKeeps ==
    ASSUME IndInv, NEW p \in Procs, NEW r \in Requests, r.ip \in Ips,
           NEW what \in {"check", "reset"}, Begin(p, r, what)
    PROVE  IndInv'
<1>1. TypeOK /\ clock \in 0..MaxTime /\ clock \in Nat
  BY BoundsAssumption DEF IndInv, TypeOK
<1>2. /\ op' = [op EXCEPT ![p] = what] /\ req' = [req EXCEPT ![p] = r]
      /\ todo' = [todo EXCEPT ![p] = KeysOf(r)] /\ reply' = [reply EXCEPT ![p] = "none"]
      /\ begun' = [begun EXCEPT ![p] = clock] /\ amnesty' = [amnesty EXCEPT ![p] = {}]
      /\ UNCHANGED <<clock, granted, passed>>
  BY DEF Begin
<1>3. /\ KeysOf(r) \in Seq(Keys) /\ Len(KeysOf(r)) = 3 /\ KeysOf(r) # <<>>
      /\ \A k \in KeySet(r) : \E n \in 1..Len(KeysOf(r)) : KeysOf(r)[n] = k
  BY KeysOfType
<1>4. /\ op'[p] = what /\ req'[p] = r /\ todo'[p] = KeysOf(r) /\ begun'[p] = clock
      /\ \A q \in Procs : q # p => Same(q) /\ amnesty'[q] = amnesty[q]
  BY <1>1, <1>2 DEF TypeOK, Same
<1>5. todo' \in [Procs -> Seq(Keys)]
  BY <1>1, <1>2, <1>3 DEF TypeOK
<1>6. \A q \in Procs : Len(todo'[q]) <= 3 /\ ((op'[q] = "idle") <=> (todo'[q] = <<>>))
  <2> SUFFICES ASSUME NEW q \in Procs
               PROVE  Len(todo'[q]) <= 3 /\ ((op'[q] = "idle") <=> (todo'[q] = <<>>))
    OBVIOUS
  <2>1. CASE q = p
    <3>1. op'[q] # "idle" /\ todo'[q] = KeysOf(r)
      BY <1>4, <2>1
    <3>2. todo'[q] # <<>>
      BY <1>3, <3>1, Zenon
    <3>3. Len(todo'[q]) = 3
      BY <1>3, <3>1, Zenon
    <3> QED
      BY <3>1, <3>2, <3>3
  <2>2. CASE q # p
    BY <1>1, <1>4, <2>2 DEF Same, TypeOK
  <2> QED
    BY <2>1, <2>2
<1>7. TypeOK'
  BY <1>1, <1>2, <1>5, <1>6 DEF TypeOK
<1>9. ASSUME NEW k \in Keys, NEW q \in Procs
      PROVE  Charged(q, k)' => Charged(q, k) /\ begun'[q] = begun[q]
  <2>1. CASE q = p
    <3>1. k \in KeySet(r) => k \in Pending(p)'
      <4>1. Pending(p)' = {KeysOf(r)[n] : n \in 1..Len(KeysOf(r))}
        BY <1>4, Zenon DEF Pending
      <4> QED
        BY <1>3, <4>1, Zenon
    <3> QED
      BY <1>4, <2>1, <3>1 DEF Charged, KeySet, KeysOf
  <2>2. CASE q # p
    BY <1>4, <2>2, SameCharged
  <2> QED
    BY <2>1, <2>2
<1>10. \A k \in Keys : Covered(k)' /\ WithinLimit(k)'
  BY <1>2, <1>9, NothingCharged
<1> QED
  BY <1>7, <1>10 DEF IndInv

\* A reset step, done or failed, ends or goes on.
LEMMA ResetKeeps ==
    ASSUME IndInv, NEW p \in Procs, op[p] = "reset",
           Forget(p, Head(todo[p])) \/ UNCHANGED <<clock, granted, amnesty, passed>>,
           CallsOK', \A q \in Procs : q # p => Same(q),
           op'[p] # "check"
    PROVE  IndInv'
<1>1. TypeOK
  BY DEF IndInv
<1>2. /\ UNCHANGED clock
      /\ granted' \in [Keys -> Seq(0..MaxTime)]
      /\ passed' \in [Keys -> Seq(0..MaxTime)]
      /\ amnesty' \in [Procs -> SUBSET Keys]
      /\ \A k \in Keys : Covered(k)' /\ WithinLimit(k)'
  BY ForgetKeeps
<1>3. TypeOK'
  BY <1>1, <1>2 DEF TypeOK, CallsOK
<1> QED
  BY <1>2, <1>3 DEF IndInv

-----------------------------------------------------------------------------
\* The service starts with an empty store and no call.
LEMMA InitIndInv == Init => IndInv
<1> SUFFICES ASSUME Init PROVE IndInv
  OBVIOUS
<1>1. /\ clock = 0 /\ granted = [k \in Keys |-> <<>>] /\ passed = [k \in Keys |-> <<>>]
      /\ op = [p \in Procs |-> "idle"] /\ begun = [p \in Procs |-> 0]
  BY DEF Init, Store!Init
<1>2. TypeOK
  <2>1. Len(<<>>) = 0
    OBVIOUS
  <2>2. \A p \in Procs : Len(todo[p]) <= 3
    BY <2>1 DEF Init
  <2> QED
    BY <1>1, <2>2, BoundsAssumption DEF Init, TypeOK
<1>4. ASSUME NEW k \in Keys PROVE Covered(k) /\ WithinLimit(k)
  <2>1. granted[k] = <<>> /\ passed[k] = <<>>
    BY <1>1
  <2>2. ASSUME NEW c \in Int PROVE Late(k, c) = {}
    BY <1>1 DEF Late, Charged
  <2>3. Len(<<>>) = 0
    OBVIOUS
  <2>4. ASSUME NEW c PROVE After(<<>>, c) = {}
    BY <2>3 DEF After
  <2>5. Limit[k] \in Nat
    BY RuleTypes
  <2>6. WithinLimit(k)
    <3>1. Cardinality(After(granted[k], clock - Window[k])) = 0
      BY <2>1, <2>4, FS_EmptySet
    <3> QED
      BY <2>5, <3>1 DEF WithinLimit
  <2>7. Covered(k)
    <3> SUFFICES ASSUME NEW c \in Int
                 PROVE  /\ IsFiniteSet(Late(k, c))
                        /\ Cardinality(After(passed[k], c)) + Cardinality(Late(k, c))
                              <= Cardinality(After(granted[k], c))
      BY DEF Covered
    <3>1. IsFiniteSet(Late(k, c)) /\ Cardinality(Late(k, c)) = 0
      BY <2>2, FS_EmptySet
    <3>2. Cardinality(After(passed[k], c)) = 0 /\ Cardinality(After(granted[k], c)) = 0
      BY <2>1, <2>4, FS_EmptySet
    <3> QED
      BY <3>1, <3>2
  <2> QED
    BY <2>6, <2>7
<1> QED
  BY <1>2, <1>4 DEF IndInv

\* Every step of every call, of the store and of time keeps the invariant.
LEMMA NextIndInv == IndInv /\ [Next]_vars => IndInv'
<1> SUFFICES ASSUME IndInv, [Next]_vars PROVE IndInv'
  OBVIOUS
<1>a. TypeOK /\ clock \in Nat /\ \A k \in Keys : Covered(k) /\ WithinLimit(k)
  BY BoundsAssumption DEF IndInv, TypeOK
<1>1. CASE Tick
  <2>1. /\ clock' = clock + 1 /\ clock' \in 0..MaxTime
        /\ UNCHANGED <<granted, op, req, todo, reply, begun, amnesty, passed>>
    BY <1>1, <1>a, BoundsAssumption DEF Tick, Store!Tick, calls
  <2>2. TypeOK'
    BY <1>a, <2>1 DEF TypeOK
  <2>4. ASSUME NEW k \in Keys PROVE Covered(k)' /\ WithinLimit(k)'
    <3>1. clock' \in Nat /\ clock <= clock'
      BY <1>a, <2>1
    <3>2. WithinLimit(k)'
      BY <1>a, <2>1, <3>1, IdleWithin
    <3>3. \A q \in Procs : Charged(q, k)' => Charged(q, k) /\ begun'[q] = begun[q]
      BY <2>1 DEF Charged, Pending
    <3>4. Covered(k)'
      BY <1>a, <2>1, <3>3, CoveredIdle
    <3> QED
      BY <3>2, <3>4
  <2> QED
    BY <2>2, <2>4 DEF IndInv
<1>2. ASSUME NEW p \in Procs, NEW answer \in {"ok", "refused", "error"},
             ReplyAtOnce(p, answer)
      PROVE  IndInv'
  <2>1. /\ reply' = [reply EXCEPT ![p] = answer]
        /\ UNCHANGED <<clock, granted, op, req, todo, begun, amnesty, passed>>
    BY <1>2 DEF ReplyAtOnce
  <2>2. TypeOK'
    BY <1>a, <2>1 DEF TypeOK
  <2>4. \A k \in Keys, q \in Procs :
          Charged(q, k)' => Charged(q, k) /\ begun'[q] = begun[q]
    BY <2>1 DEF Charged, Pending
  <2>5. \A k \in Keys : Covered(k)' /\ WithinLimit(k)'
    BY <2>1, <2>4, NothingCharged
  <2> QED
    BY <2>2, <2>5 DEF IndInv
<1>3. ASSUME NEW p \in Procs, NEW r \in Requests, CheckAttempt(p, r) \/ ResetBucket(p, r)
      PROVE  IndInv'
  <2>1. \/ \E answer \in {"ok", "refused", "error"} : ReplyAtOnce(p, answer)
        \/ r.ip \in Ips /\ \E what \in {"check", "reset"} : Begin(p, r, what)
    BY <1>3 DEF CheckAttempt, ResetBucket, Parses
  <2> QED
    BY <1>2, <2>1, BeginKeeps
<1>4. ASSUME NEW p \in Procs, AllowYes(p)
      PROVE  IndInv'
  BY <1>4, YesKeeps
<1>5. ASSUME NEW p \in Procs, AllowNo(p) \/ AllowFails(p)
      PROVE  IndInv'
  <2>1. /\ op[p] = "check" /\ UNCHANGED passed
        /\ \E answer \in {"refused", "error"} : Return(p, answer)
        /\ Charge(p, Head(todo[p])) \/ UNCHANGED <<clock, granted>>
        /\ amnesty' = [amnesty EXCEPT ![p] = {}]
    BY <1>5 DEF AllowNo, AllowFails
  <2> QED
    BY <2>1, EndKeeps
<1>6. ASSUME NEW p \in Procs, ResetOne(p)
      PROVE  IndInv'
  <2>1. op[p] = "reset" /\ Forget(p, Head(todo[p])) /\ Continue(p)
    BY <1>6 DEF ResetOne
  <2>2. /\ CallsOK' /\ \A q \in Procs : q # p => Same(q)
        /\ op'[p] # "check"
    BY <1>a, <2>1, ContinueKeeps
  <2> QED
    BY <2>1, <2>2, ResetKeeps
<1>7. ASSUME NEW p \in Procs, ResetFails(p)
      PROVE  IndInv'
  <2>1. /\ op[p] = "reset" /\ Return(p, "error")
        /\ Forget(p, Head(todo[p])) \/ UNCHANGED <<clock, granted, amnesty, passed>>
    BY <1>7 DEF ResetFails
  <2>2. CallsOK' /\ op'[p] = "idle" /\ begun'[p] = 0 /\ \A q \in Procs : q # p => Same(q)
    BY <1>a, <2>1, ReturnKeeps
  <2> QED
    BY <2>1, <2>2, ResetKeeps
<1>8. CASE UNCHANGED vars
  <2>1. UNCHANGED <<clock, granted, op, req, todo, reply, begun, amnesty, passed>>
    BY <1>8 DEF vars, calls
  <2>2. TypeOK'
    BY <1>a, <2>1 DEF TypeOK
  <2>3. \A k \in Keys, q \in Procs :
          Charged(q, k)' => Charged(q, k) /\ begun'[q] = begun[q]
    BY <2>1 DEF Charged, Pending
  <2>4. \A k \in Keys : Covered(k)' /\ WithinLimit(k)'
    BY <2>1, <2>3, NothingCharged
  <2> QED
    BY <2>2, <2>4 DEF IndInv
<1> QED
  BY <1>1, <1>3, <1>4, <1>5, <1>6, <1>7, <1>8 DEF Next, Serve

LEMMA IndInvHolds == Spec => []IndInv
BY InitIndInv, NextIndInv, PTL DEF Spec

-----------------------------------------------------------------------------
\* Every variable and every call's locals keep their types: a call under way
\* always has a key to ask for, an idle goroutine none.
THEOREM TypeCorrect == Spec => []TypeOK
<1>1. IndInv => TypeOK
  BY DEF IndInv
<1> QED
  BY <1>1, IndInvHolds, PTL

\* RateLimiterService.Check on top of any store that keeps the port's promise and
\* counts an attempt under a time that it read during Allow, however late: of the
\* checks begun during the last window, no more pass a bucket's limit than
\* the limit says, however the calls interleave and whichever of them fail.
THEOREM PassedWithinLimitsHolds == Spec => []PassedWithinLimits
<1>1. IndInv => PassedWithinLimits
  <2> SUFFICES ASSUME IndInv, NEW k \in Keys
               PROVE  Cardinality(After(passed[k], clock - Window[k])) <= Limit[k]
    BY DEF PassedWithinLimits, After
  <2> DEFINE c == clock - Window[k]
  <2>1. TypeOK /\ Covered(k) /\ WithinLimit(k) /\ c \in Int /\ Limit[k] \in Nat
    BY RuleTypes, BoundsAssumption DEF IndInv, TypeOK
  <2>2. Cardinality(After(granted[k], c)) <= Limit[k]
    BY <2>1 DEF WithinLimit
  <2> HIDE DEF c
  <2>3. /\ IsFiniteSet(Late(k, c))
        /\ Cardinality(After(passed[k], c)) + Cardinality(Late(k, c))
              <= Cardinality(After(granted[k], c))
    BY <2>1 DEF Covered
  <2>4. Cardinality(Late(k, c)) \in Nat
    BY <2>3, FS_CardinalityType
  <2>5. Cardinality(After(passed[k], c)) \in Nat /\ Cardinality(After(granted[k], c)) \in Nat
    BY <2>1, ListTypes, AfterFinite
  <2>6. Cardinality(After(passed[k], c)) <= Limit[k]
    BY <2>1, <2>2, <2>3, <2>4, <2>5
  <2> QED
    BY <2>6 DEF c
<1> QED
  BY <1>1, IndInvHolds, PTL
=============================================================================
