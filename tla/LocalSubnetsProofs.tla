------------------------- MODULE LocalSubnetsProofs -------------------------
(***************************************************************************)
(* LocalSubnets, for any number of admins and checks, any strings and any  *)
(* addresses: what an admin call that overlaps no other leaves behind and  *)
(* reports, what a check decides that no admin call disturbs, and what is  *)
(* left of the lists after calls that did overlap.                         *)
(*                                                                         *)
(* The properties speak of moments at which all is quiet.  The invariant   *)
(* follows the reload of the call that is alone step by step (Reload), a   *)
(* check from its begin to its verdict (CheckInv), and for overlapping     *)
(* reloads says which of them will still make a list good (ListInv).       *)
(***************************************************************************)
EXTENDS LocalSubnets, TLAPS

\* Nobody but the last caller is at work.
Alone(a) == \A b \in Admins \ {a} : pc[b] = "idle"

\* The list that a is loading: what has been added and what is left to add make
\* up the repository's list.
Loading(a, l) ==
    /\ pc[a] \in {"clear", "add"} => rest[a] \subseteq repo[l]
    /\ pc[a] = "clear" => rest[a] = repo[l]
    /\ pc[a] = "add" => nets[l] \cup rest[a] = repo[l]

\* How a reload ended: with both lists loaded, or broken off at an invalid string
\* of the whitelist, or of the blacklist.
Finished(a) ==
    \/ reply[a] = "ok" /\ nets = repo
    \/ /\ reply[a] = "error"
       /\ nets[White] \subseteq repo[White] /\ ~(repo[White] \subseteq Valid)
    \/ /\ reply[a] = "error"
       /\ nets[White] = repo[White]
       /\ nets[Black] \subseteq repo[Black] /\ ~(repo[Black] \subseteq Valid)

Reload(a) ==
    /\ Alone(a)
    /\ pc[a] # "idle" => Loading(a, list[a])
    /\ pc[a] # "idle" /\ list[a] = Black => nets[White] = repo[White]
    /\ pc[a] = "idle" => Finished(a)

SoloInv == solo # None => solo \in Admins /\ Reload(solo)

\* A check that is still calm will find the repository's lists in the policer.
CheckInv(q) ==
    /\ at[q] # "idle" => verdict[q] = "none" /\ ip[q] \in Ips
    /\ calm[q] /\ at[q] # "idle" =>
          /\ Quiet /\ solo # None /\ Loadable(repo)
          /\ Decision(repo, ip[q]) \in due[q]
          /\ at[q] = "black" => ~Contains(repo[White], ip[q])
    /\ calm[q] /\ at[q] = "idle" /\ verdict[q] # "none" => verdict[q] \in due[q]

\* The reload of a has still to clear list l.
ToClear(a, l) ==
    \/ pc[a] \in {"read", "clear"} /\ list[a] = l
    \/ pc[a] # "idle" /\ list[a] = White /\ l = Black

\* The reload of a is filling list l and has all that is missing.
Filling(a, l) == pc[a] = "add" /\ list[a] = l /\ kept[l] \subseteq nets[l] \cup rest[a]

\* A reload has read a list of the repository as it was during these calls.
CopyInv(a) ==
    /\ pc[a] \in {"clear", "add"} => rest[a] \subseteq seen[list[a]]
    /\ pc[a] = "clear" => kept[list[a]] \subseteq rest[a]

\* Whatever a list lacks or has too much, some reload will put right.  An invalid
\* string may break that reload off.
ListInv(l) ==
    Loadable(seen) =>
        /\ nets[l] \subseteq seen[l] \/ \E a \in Admins : ToClear(a, l)
        /\ kept[l] \subseteq nets[l] \/ \E a \in Admins : ToClear(a, l) \/ Filling(a, l)

OverlapInv ==
    /\ \A a \in Admins : CopyInv(a)
    /\ \A l \in Lists : kept[l] \subseteq repo[l] /\ repo[l] \subseteq seen[l]
    /\ \A l \in Lists : ListInv(l)

IInv == TypeOK /\ SoloInv /\ OverlapInv /\ \A q \in Checkers : CheckInv(q)

\* The steps of a reload.
Reloading(a) == ReadList(a) \/ ClearList(a) \/ AddOne(a) \/ LoadDone(a)

-----------------------------------------------------------------------------
\* SubnetPolicer.Check has three outcomes.
LEMMA DecisionType == \A r, x : Decision(r, x) \in Decisions
BY DEF Decision, Decisions

\* When the call that was alone has returned and nothing in the repository is
\* invalid, the policer has the repository's lists.
LEMMA FreshAfterSolo ==
    ASSUME TypeOK, SoloInv, Quiet, solo # None, Loadable(repo)
    PROVE  nets = repo
<1>1. solo \in Admins /\ pc[solo] = "idle" /\ Finished(solo)
  BY DEF SoloInv, Reload, Quiet
<1>2. repo[White] \subseteq Valid /\ repo[Black] \subseteq Valid
  BY DEF Loadable, Lists
<1> QED
  BY <1>1, <1>2 DEF Finished

\* Two functions on the lists are equal when they agree on both.
LEMMA BothLists ==
    ASSUME TypeOK, nets[White] = repo[White], nets[Black] = repo[Black]
    PROVE  nets = repo
BY DEF TypeOK, Lists

-----------------------------------------------------------------------------
\* What Return does to the call that returns, and that it does nothing else.
LEMMA ReturnKeeps ==
    ASSUME TypeOK, NEW a \in Admins, NEW r \in {"ok", "error"}, Return(a, r)
    PROVE  /\ pc' \in [Admins -> PCs] /\ list' \in [Admins -> Lists]
           /\ rest' \in [Admins -> SUBSET Cidrs]
           /\ reply' \in [Admins -> {"none", "ok", "error"}]
           /\ inForce' \in [Ips -> SUBSET Decisions]
           /\ pc'[a] = "idle" /\ reply'[a] = r
           /\ \A b \in Admins \ {a} : pc'[b] = pc[b]
BY DEF TypeOK, Return, PCs, Lists

\* The admin calls keep the types.
LEMMA AdminTypes ==
    ASSUME TypeOK, NEW a \in Admins, AdminStep(a)
    PROVE  TypeOK'
<1> USE DEF TypeOK
<1>1. ASSUME NEW r \in [Lists -> SUBSET Cidrs], WriteAndReload(a, r)
      PROVE  TypeOK'
  <2>1. /\ inForce' = [x \in Ips |-> InForce(x) \cup {Decision(r, x)}]
        /\ due' = [q \in Checkers |->
                     IF at[q] = "idle" THEN due[q] ELSE due[q] \cup {Decision(r, ip[q])}]
        /\ calm' = [q \in Checkers |-> IF at[q] = "idle" THEN calm[q] ELSE FALSE]
    BY <1>1 DEF WriteAndReload, Witness
  <2>a. kept' \in [Lists -> SUBSET Cidrs] /\ seen' \in [Lists -> SUBSET Cidrs]
    BY <1>1 DEF WriteAndReload, Witness
  <2>2. inForce' \in [Ips -> SUBSET Decisions]
    BY <2>1, DecisionType DEF InForce
  <2>3. due' \in [Checkers -> SUBSET Decisions]
    BY <2>1, DecisionType
  <2>4. calm' \in [Checkers -> BOOLEAN]
    BY <2>1
  <2>5. solo' \in Admins \cup {None}
    BY <1>1 DEF WriteAndReload
  <2> QED
    BY <1>1, <2>a, <2>2, <2>3, <2>4, <2>5 DEF WriteAndReload, PublishSubnetUpdated, PCs, Lists
<1>2. ASSUME NEW l \in Lists, NEW c \in Cidrs, AddTo(a, l, c) \/ RemoveFrom(a, l, c)
      PROVE  TypeOK'
  <2>1. /\ [repo EXCEPT ![l] = @ \cup {c}] \in [Lists -> SUBSET Cidrs]
        /\ [repo EXCEPT ![l] = @ \ {c}] \in [Lists -> SUBSET Cidrs]
    OBVIOUS
  <2> QED
    BY <1>1, <1>2, <2>1 DEF AddTo, RemoveFrom
<1>3. CASE ReadList(a)
  BY <1>3 DEF ReadList, checkVars, PCs
<1>4. CASE ClearList(a)
  BY <1>4 DEF ClearList, Cleared, checkVars, PCs
<1>5. CASE AddOne(a)
  BY <1>5, ReturnKeeps DEF AddOne, Accepts, checkVars
<1>6. CASE LoadDone(a)
  BY <1>6, ReturnKeeps DEF LoadDone, AfterLoad, checkVars, PCs, Lists, White, Black
<1> QED
  BY <1>2, <1>3, <1>4, <1>5, <1>6 DEF AdminStep

\* So do the checks, and the end of the process.
LEMMA OtherTypes ==
    ASSUME TypeOK, Throw \/ \E q \in Checkers : CheckStep(q)
    PROVE  TypeOK'
<1> USE DEF TypeOK
<1>1. CASE Throw
  BY <1>1 DEF Throw, adminVars, checkVars
<1>2. ASSUME NEW q \in Checkers, NEW x \in Ips, CheckStart(q, x)
      PROVE  TypeOK'
  <2>1. InForce(x) \in SUBSET Decisions
    BY DecisionType DEF InForce
  <2>2. (Quiet /\ solo # None /\ Loadable(repo)) \in BOOLEAN
    BY DEF Quiet, Loadable
  <2>3. calm' \in [Checkers -> BOOLEAN]
    BY <1>2, <2>2 DEF CheckStart
  <2> QED
    BY <1>2, <2>1, <2>3 DEF CheckStart, adminVars
<1>3. ASSUME NEW q \in Checkers, CheckWhite(q) \/ CheckBlack(q)
      PROVE  TypeOK'
  BY <1>3 DEF CheckWhite, CheckBlack, Decide, Decisions, adminVars
<1> QED
  BY <1>1, <1>2, <1>3 DEF CheckStep

-----------------------------------------------------------------------------
\* A call that begins is alone, or makes every call that is under way not alone.
LEMMA WriteKeepsSolo ==
    ASSUME TypeOK, SoloInv, NEW a \in Admins, NEW r, WriteAndReload(a, r)
    PROVE  SoloInv'
<1>1. CASE Quiet
  <2>1. solo' = a /\ pc'[a] = "read" /\ list'[a] = White /\ \A b \in Admins \ {a} : pc'[b] = "idle"
    BY <1>1 DEF TypeOK, WriteAndReload, PublishSubnetUpdated, Quiet
  <2> QED
    BY <2>1 DEF SoloInv, Reload, Alone, Loading, White, Black
<1>2. CASE ~Quiet
  BY <1>2 DEF SoloInv, WriteAndReload
<1> QED
  BY <1>1, <1>2

\* The reload of the call that is alone, step by step.
LEMMA ReloadKeepsSolo ==
    ASSUME TypeOK, SoloInv, NEW a \in Admins, Reloading(a)
    PROVE  SoloInv'
<1> SUFFICES ASSUME solo # None PROVE solo' \in Admins /\ Reload(solo)'
  BY DEF SoloInv, Reloading, ReadList, ClearList, AddOne, LoadDone
<1>1. /\ solo = a /\ solo' = a /\ pc[a] # "idle" /\ UNCHANGED repo
      /\ Alone(a) /\ Loading(a, list[a]) /\ list[a] \in Lists
      /\ list[a] = Black => nets[White] = repo[White]
  BY DEF SoloInv, Reload, Alone, Reloading, ReadList, ClearList, AddOne, LoadDone, TypeOK
<1>2. CASE ReadList(a)
  BY <1>1, <1>2 DEF TypeOK, ReadList, Reload, Alone, Loading
<1>3. CASE ClearList(a)
  BY <1>1, <1>3 DEF TypeOK, ClearList, Cleared, Reload, Alone, Loading, Lists, White, Black
<1>4. CASE AddOne(a)
  <2>1. PICK c \in rest[a] :
          \/ /\ Accepts(c)
             /\ nets' = [nets EXCEPT ![list[a]] = @ \cup {c}]
             /\ rest' = [rest EXCEPT ![a] = @ \ {c}]
             /\ UNCHANGED <<pc, list, reply, inForce>>
          \/ /\ ~Accepts(c)
             /\ Return(a, "error")
             /\ UNCHANGED nets
    BY <1>4 DEF AddOne
  <2>2. pc[a] = "add" /\ nets[list[a]] \cup rest[a] = repo[list[a]]
    BY <1>1, <1>4 DEF AddOne, Loading
  <2>3. CASE Accepts(c)
    <3>1. /\ nets' = [nets EXCEPT ![list[a]] = @ \cup {c}]
          /\ rest' = [rest EXCEPT ![a] = @ \ {c}]
          /\ UNCHANGED <<pc, list, reply>>
      BY <2>1, <2>3
    <3>2. nets'[list[a]] \cup rest'[a] = repo[list[a]] /\ rest'[a] \subseteq repo[list[a]]
      BY <1>1, <2>2, <3>1 DEF TypeOK
    <3>3. list[a] = Black => nets'[White] = repo[White]
      BY <1>1, <3>1 DEF TypeOK, White, Black, Lists
    <3> QED
      BY <1>1, <2>2, <3>1, <3>2, <3>3 DEF Reload, Alone, Loading
  <2>4. CASE ~Accepts(c)
    <3>1. /\ pc'[a] = "idle" /\ reply'[a] = "error" /\ UNCHANGED nets
          /\ \A b \in Admins \ {a} : pc'[b] = pc[b]
      BY <2>1, <2>4, ReturnKeeps
    <3>2. ~(repo[list[a]] \subseteq Valid) /\ nets[list[a]] \subseteq repo[list[a]]
      BY <2>2, <2>4 DEF Accepts
    <3>3. Finished(a)'
      BY <1>1, <3>1, <3>2 DEF Finished, Lists
    <3> QED
      BY <1>1, <3>1, <3>3 DEF Reload, Alone
  <2> QED
    BY <2>3, <2>4
<1>5. CASE LoadDone(a)
  <2>1. nets[list[a]] = repo[list[a]] /\ UNCHANGED nets /\ AfterLoad(a)
    BY <1>1, <1>5 DEF LoadDone, Loading
  <2>2. CASE list[a] = White
    <3>1. list'[a] = Black /\ pc'[a] = "read" /\ \A b \in Admins \ {a} : pc'[b] = pc[b]
      BY <2>1, <2>2 DEF TypeOK, AfterLoad, White, Black
    <3> QED
      BY <1>1, <2>1, <2>2, <3>1 DEF Reload, Alone, Loading
  <2>3. CASE list[a] = Black
    <3>1. Return(a, "ok")
      BY <2>1, <2>3 DEF AfterLoad, White, Black
    <3>2. /\ pc'[a] = "idle" /\ reply'[a] = "ok"
          /\ \A b \in Admins \ {a} : pc'[b] = pc[b]
      BY <3>1, ReturnKeeps
    <3>3. nets' = repo'
      BY <1>1, <2>1, <2>3, BothLists
    <3> QED
      BY <1>1, <3>2, <3>3 DEF Reload, Alone, Finished
  <2> QED
    BY <1>1, <2>2, <2>3 DEF Lists
<1> QED
  BY <1>2, <1>3, <1>4, <1>5 DEF Reloading

-----------------------------------------------------------------------------
\* A call that begins when all is quiet is to clear both lists; one that joins
\* others leaves their reloads as they are and only widens what is allowed.
LEMMA WriteKeepsOverlap ==
    ASSUME TypeOK, OverlapInv, NEW a \in Admins, NEW r \in [Lists -> SUBSET Cidrs],
           WriteAndReload(a, r)
    PROVE  OverlapInv'
<1>1. /\ repo' = r /\ UNCHANGED <<nets, rest>> /\ pc[a] = "idle"
      /\ pc'[a] = "read" /\ list'[a] = White
      /\ \A b \in Admins \ {a} : pc'[b] = pc[b] /\ list'[b] = list[b]
  BY DEF TypeOK, WriteAndReload, PublishSubnetUpdated
<1>2. \A l \in Lists : /\ kept'[l] = IF Quiet THEN r[l] ELSE kept[l] \cap r[l]
                       /\ seen'[l] = IF Quiet THEN r[l] ELSE seen[l] \cup r[l]
  BY DEF WriteAndReload, Witness
<1>3. \A l \in Lists : kept'[l] \subseteq repo'[l] /\ repo'[l] \subseteq seen'[l]
  BY <1>1, <1>2
<1>4. \A b \in Admins : CopyInv(b)'
  <2> SUFFICES ASSUME NEW b \in Admins PROVE CopyInv(b)'
    OBVIOUS
  <2>1. CASE b = a
    BY <1>1, <2>1 DEF CopyInv
  <2>2. CASE b # a /\ Quiet
    BY <1>1, <2>2 DEF CopyInv, Quiet
  <2>3. CASE b # a /\ ~Quiet
    <3>1. list[b] \in Lists /\ CopyInv(b)
      BY DEF TypeOK, OverlapInv
    <3>2. kept'[list[b]] \subseteq kept[list[b]] /\ seen[list[b]] \subseteq seen'[list[b]]
      BY <1>2, <2>3, <3>1
    <3> QED
      BY <1>1, <2>3, <3>1, <3>2 DEF CopyInv
  <2> QED
    BY <2>1, <2>2, <2>3
<1>5. \A l \in Lists : ToClear(a, l)'
  BY <1>1 DEF ToClear, Lists
<1>6. \A l \in Lists : ListInv(l)'
  BY <1>5 DEF ListInv
<1> QED
  BY <1>3, <1>4, <1>6 DEF OverlapInv

\* A step of a reload moves its own list towards the good, and disturbs no other
\* reload's: who clears a list has read all that must be in it.
LEMMA ReloadKeepsOverlap ==
    ASSUME TypeOK, OverlapInv, NEW a \in Admins, Reloading(a)
    PROVE  OverlapInv'
<1>1. PICK m \in Lists : m = list[a] /\ m \in {White, Black} /\ CopyInv(a)
  BY DEF TypeOK, OverlapInv, Lists
<1>2. UNCHANGED <<repo, kept, seen>>
  BY DEF Reloading, ReadList, ClearList, AddOne, LoadDone
<1>3. \A l \in Lists : kept'[l] \subseteq repo'[l] /\ repo'[l] \subseteq seen'[l]
  BY <1>2 DEF OverlapInv
<1>4. \A b \in Admins \ {a} : pc'[b] = pc[b] /\ list'[b] = list[b] /\ rest'[b] = rest[b]
  BY DEF TypeOK, Reloading, ReadList, ClearList, AddOne, LoadDone, AfterLoad, Return
<1>5. \A b \in Admins \ {a} : CopyInv(b)'
  BY <1>2, <1>4 DEF OverlapInv, CopyInv
<1>6. \A b \in Admins \ {a} : \A l \in Lists : ToClear(b, l) => ToClear(b, l)'
  BY <1>4 DEF ToClear
<1>7. CASE ReadList(a)
  <2>1. /\ pc[a] = "read" /\ pc'[a] = "clear" /\ list'[a] = m /\ rest'[a] = repo[m]
        /\ UNCHANGED nets
    BY <1>1, <1>7 DEF TypeOK, ReadList
  <2>2. CopyInv(a)'
    BY <1>1, <1>2, <2>1 DEF CopyInv, OverlapInv
  <2>3. ASSUME NEW l \in Lists PROVE ListInv(l)'
    <3>1. \A b \in Admins : (ToClear(b, l) => ToClear(b, l)') /\ (Filling(b, l) => Filling(b, l)')
      BY <1>1, <1>2, <1>4, <1>6, <2>1 DEF ToClear, Filling
    <3> QED
      BY <1>1, <1>2, <2>1, <3>1 DEF OverlapInv, ListInv, Loadable
  <2> QED
    BY <1>3, <1>5, <2>2, <2>3 DEF OverlapInv
<1>8. CASE ClearList(a)
  <2>1. /\ pc[a] = "clear" /\ pc'[a] = "add" /\ list'[a] = m /\ rest'[a] = rest[a]
        /\ nets'[m] = {} /\ \A l \in Lists \ {m} : nets'[l] = nets[l]
    BY <1>1, <1>8 DEF TypeOK, ClearList, Cleared
  <2>2. CopyInv(a)'
    BY <1>1, <1>2, <2>1 DEF CopyInv
  <2>3. ListInv(m)'
    <3>1. Filling(a, m)'
      BY <1>1, <1>2, <2>1 DEF CopyInv, Filling
    <3> QED
      BY <1>1, <2>1, <3>1 DEF ListInv
  <2>4. ASSUME NEW l \in Lists \ {m} PROVE ListInv(l)'
    <3>1. \A b \in Admins : (ToClear(b, l) => ToClear(b, l)') /\ (Filling(b, l) => Filling(b, l)')
      BY <1>1, <1>2, <1>4, <1>6, <2>1 DEF ToClear, Filling
    <3> QED
      BY <1>1, <1>2, <2>1, <3>1 DEF OverlapInv, ListInv, Loadable
  <2> QED
    BY <1>3, <1>5, <2>2, <2>3, <2>4 DEF OverlapInv
<1>9. CASE AddOne(a)
  <2>1. PICK c \in rest[a] :
          \/ /\ Accepts(c)
             /\ nets' = [nets EXCEPT ![list[a]] = @ \cup {c}]
             /\ rest' = [rest EXCEPT ![a] = @ \ {c}]
             /\ UNCHANGED <<pc, list, reply, inForce>>
          \/ /\ ~Accepts(c)
             /\ Return(a, "error")
             /\ UNCHANGED nets
    BY <1>1, <1>9 DEF AddOne
  <2>2. pc[a] = "add" /\ c \in seen[m]
    BY <1>1, <1>9 DEF AddOne, CopyInv
  <2>3. CASE Accepts(c)
    <3>1. /\ pc'[a] = "add" /\ list'[a] = m /\ rest'[a] = rest[a] \ {c}
          /\ nets'[m] = nets[m] \cup {c} /\ \A l \in Lists \ {m} : nets'[l] = nets[l]
      BY <1>1, <2>1, <2>2, <2>3 DEF TypeOK
    <3>2. CopyInv(a)'
      BY <1>1, <1>2, <2>2, <3>1 DEF CopyInv
    <3>3. ASSUME NEW l \in Lists PROVE ListInv(l)'
      <4>1. \A b \in Admins : ToClear(b, l) => ToClear(b, l)'
        BY <1>1, <1>6, <2>2, <3>1 DEF ToClear
      <4>2. nets[l] \subseteq nets'[l]
        BY <1>1, <3>1
      <4>3. \A b \in Admins : Filling(b, l) => Filling(b, l)'
        BY <1>1, <1>2, <1>4, <3>1, <4>2 DEF Filling
      <4>4. nets[l] \subseteq seen[l] => nets'[l] \subseteq seen[l]
        BY <1>1, <2>2, <3>1
      <4> QED
        BY <1>1, <1>2, <4>1, <4>2, <4>3, <4>4 DEF OverlapInv, ListInv, Loadable
    <3> QED
      BY <1>3, <1>5, <3>2, <3>3 DEF OverlapInv
  <2>4. CASE ~Accepts(c)
    <3>1. pc'[a] = "idle"
      BY <1>1, <2>1, <2>4, ReturnKeeps
    <3>2. ~Loadable(seen)'
      BY <1>1, <1>2, <2>2, <2>4 DEF Loadable, Accepts
    <3> QED
      BY <1>3, <1>5, <3>1, <3>2 DEF OverlapInv, CopyInv, ListInv
  <2> QED
    BY <1>1, <2>3, <2>4
<1>10. CASE LoadDone(a)
  <2>1. pc[a] = "add" /\ rest[a] = {} /\ UNCHANGED nets /\ AfterLoad(a)
    BY <1>1, <1>10 DEF LoadDone
  <2>2. pc'[a] \in {"read", "idle"} /\ (m = White => pc'[a] = "read" /\ list'[a] = Black)
    BY <1>1, <2>1, ReturnKeeps DEF TypeOK, AfterLoad, White, Black
  <2>3. CopyInv(a)'
    BY <1>1, <2>2 DEF CopyInv
  <2>4. ASSUME NEW l \in Lists PROVE ListInv(l)'
    <3>1. \A b \in Admins : ToClear(b, l) => ToClear(b, l)'
      BY <1>1, <1>6, <2>1, <2>2 DEF ToClear
    <3>2. \A b \in Admins \ {a} : Filling(b, l) => Filling(b, l)'
      BY <1>1, <1>2, <1>4, <2>1 DEF Filling
    <3>3. Filling(a, l) => kept[l] \subseteq nets[l]
      BY <1>1, <2>1 DEF Filling
    <3> QED
      BY <1>1, <1>2, <2>1, <3>1, <3>2, <3>3 DEF OverlapInv, ListInv, Loadable
  <2> QED
    BY <1>3, <1>5, <2>3, <2>4 DEF OverlapInv
<1> QED
  BY <1>7, <1>8, <1>9, <1>10 DEF Reloading

\* A step that leaves the lists and the reloads alone.
LEMMA IdleKeepsOverlap ==
    ASSUME OverlapInv, UNCHANGED <<repo, nets, pc, list, rest, kept, seen>>
    PROVE  OverlapInv'
BY DEF OverlapInv, CopyInv, ListInv, ToClear, Filling, Loadable

-----------------------------------------------------------------------------
\* A write of the repository ends the calm of every check under way.
LEMMA WriteKeepsChecks ==
    ASSUME TypeOK, NEW q \in Checkers, CheckInv(q),
           NEW a \in Admins, NEW r, WriteAndReload(a, r)
    PROVE  CheckInv(q)'
<1>1. /\ at'[q] = at[q] /\ ip'[q] = ip[q] /\ verdict'[q] = verdict[q]
      /\ at[q] # "idle" => calm'[q] = FALSE
      /\ at[q] = "idle" => calm'[q] = calm[q] /\ due'[q] = due[q]
  BY DEF TypeOK, WriteAndReload, Witness
<1> QED
  BY <1>1 DEF CheckInv

\* No check is calm while an admin reloads, so a reload disturbs none that is.
LEMMA ReloadKeepsChecks ==
    ASSUME TypeOK, NEW q \in Checkers, CheckInv(q), NEW a \in Admins, Reloading(a)
    PROVE  CheckInv(q)'
<1>1. ~Quiet /\ UNCHANGED <<at, ip, verdict, due, calm>>
  BY DEF Quiet, Reloading, ReadList, ClearList, AddOne, LoadDone, checkVars
<1> QED
  BY <1>1 DEF CheckInv

\* The steps of a check itself: with the policer's lists being the repository's,
\* the two questions of SubnetPolicer.Check give what the repository says.
LEMMA CheckKeepsOwn ==
    ASSUME TypeOK, SoloInv, NEW q \in Checkers, CheckInv(q), CheckStep(q)
    PROVE  CheckInv(q)'
<1>1. UNCHANGED <<repo, nets, pc, solo>> /\ (Quiet' <=> Quiet) /\ (Loadable(repo)' <=> Loadable(repo))
  BY DEF CheckStep, CheckStart, CheckWhite, CheckBlack, adminVars, Quiet, Loadable
<1>2. ASSUME NEW x \in Ips, CheckStart(q, x) PROVE CheckInv(q)'
  <2>1. /\ at'[q] = "white" /\ ip'[q] = x /\ verdict'[q] = "none" /\ due'[q] = InForce(x)
        /\ calm'[q] = (Quiet /\ solo # None /\ Loadable(repo))
    BY <1>2 DEF TypeOK, CheckStart
  <2>2. Decision(repo, x) \in InForce(x)
    BY DEF InForce
  <2> QED
    BY <1>1, <2>1, <2>2 DEF CheckInv
<1>3. CASE CheckWhite(q)
  <2>1. calm'[q] = calm[q] /\ at[q] = "white"
    BY <1>3 DEF CheckWhite
  <2>2. CASE ~calm[q]
    BY <1>3, <2>1, <2>2 DEF TypeOK, CheckInv, CheckWhite, Decide
  <2>3. CASE calm[q]
    <3>1. nets = repo /\ Decision(repo, ip[q]) \in due[q]
      BY <2>1, <2>3, FreshAfterSolo DEF CheckInv
    <3>2. CASE Contains(repo[White], ip[q])
      <4>1. at'[q] = "idle" /\ verdict'[q] = "allow" /\ due'[q] = due[q] \cap {"allow"}
        BY <1>3, <3>1, <3>2 DEF TypeOK, CheckWhite, Decide
      <4>2. Decision(repo, ip[q]) = "allow"
        BY <3>2 DEF Decision
      <4> QED
        BY <2>1, <3>1, <4>1, <4>2 DEF CheckInv
    <3>3. CASE ~Contains(repo[White], ip[q])
      <4>1. at'[q] = "black" /\ UNCHANGED <<ip, verdict, due>>
        BY <1>3, <3>1, <3>3 DEF TypeOK, CheckWhite
      <4> QED
        BY <1>1, <2>1, <2>3, <3>1, <3>3, <4>1 DEF CheckInv
    <3> QED
      BY <3>2, <3>3
  <2> QED
    BY <2>2, <2>3
<1>4. CASE CheckBlack(q)
  <2> DEFINE d == IF Contains(nets[Black], ip[q]) THEN "deny" ELSE "continue"
  <2>1. /\ calm'[q] = calm[q] /\ at[q] = "black"
        /\ at'[q] = "idle" /\ verdict'[q] = d /\ due'[q] = due[q] \cap {d}
    BY <1>4 DEF TypeOK, CheckBlack, Decide
  <2>2. CASE calm[q]
    <3>1. nets = repo /\ Decision(repo, ip[q]) \in due[q] /\ ~Contains(repo[White], ip[q])
      BY <2>1, <2>2, FreshAfterSolo DEF CheckInv
    <3>2. Decision(repo, ip[q]) = d
      BY <3>1 DEF Decision
    <3> QED
      BY <2>1, <3>1, <3>2 DEF CheckInv
  <2> QED
    BY <2>1, <2>2 DEF CheckInv
<1> QED
  BY <1>2, <1>3, <1>4 DEF CheckStep

\* Checks do not disturb each other.
LEMMA CheckKeepsOthers ==
    ASSUME TypeOK, NEW q \in Checkers, NEW s \in Checkers \ {q}, CheckInv(s), CheckStep(q)
    PROVE  CheckInv(s)'
<1>1. /\ UNCHANGED <<repo, pc, solo>>
      /\ at'[s] = at[s] /\ ip'[s] = ip[s] /\ verdict'[s] = verdict[s]
      /\ due'[s] = due[s] /\ calm'[s] = calm[s]
  BY DEF TypeOK, CheckStep, CheckStart, CheckWhite, CheckBlack, Decide, adminVars
<1>2. (Quiet' <=> Quiet) /\ (Loadable(repo)' <=> Loadable(repo))
  BY <1>1 DEF Quiet, Loadable
<1> QED
  BY <1>1, <1>2 DEF CheckInv

-----------------------------------------------------------------------------
\* The invariant holds in a fresh process and every goroutine keeps it.
LEMMA Invariance == Spec => []IInv
<1>1. Init => IInv
  <2> SUFFICES ASSUME Init PROVE IInv
    OBVIOUS
  <2>1. TypeOK
    BY DEF Init, TypeOK, PCs, Lists, White, Black
  <2> QED
    BY <2>1 DEF Init, IInv, SoloInv, CheckInv, OverlapInv, CopyInv, ListInv
<1>2. IInv /\ [Next]_vars => IInv'
  <2> SUFFICES ASSUME IInv, [Next]_vars PROVE IInv'
    OBVIOUS
  <2> USE DEF IInv
  <2>1. ASSUME NEW a \in Admins, AdminStep(a) PROVE IInv'
    <3>1. (\E r \in [Lists -> SUBSET Cidrs] : WriteAndReload(a, r)) \/ Reloading(a)
      BY <2>1 DEF AdminStep, AddTo, RemoveFrom, Reloading, TypeOK
    <3>2. CASE \E r \in [Lists -> SUBSET Cidrs] : WriteAndReload(a, r)
      BY <2>1, <3>2, AdminTypes, WriteKeepsSolo, WriteKeepsOverlap, WriteKeepsChecks
    <3>3. CASE Reloading(a)
      BY <2>1, <3>3, AdminTypes, ReloadKeepsSolo, ReloadKeepsOverlap, ReloadKeepsChecks
    <3> QED
      BY <3>1, <3>2, <3>3
  <2>2. ASSUME NEW q \in Checkers, CheckStep(q) PROVE IInv'
    <3>1. UNCHANGED <<repo, nets, pc, list, rest, reply, solo, kept, seen>>
      BY <2>2 DEF CheckStep, CheckStart, CheckWhite, CheckBlack, adminVars
    <3>2. SoloInv'
      BY <3>1 DEF SoloInv, Reload, Alone, Loading, Finished
    <3>3. ASSUME NEW s \in Checkers PROVE CheckInv(s)'
      BY <2>2, CheckKeepsOwn, CheckKeepsOthers
    <3> QED
      BY <2>2, <3>1, <3>2, <3>3, OtherTypes, IdleKeepsOverlap
  <2>3. CASE Throw
    <3>1. UNCHANGED <<repo, nets, adminVars, checkVars>>
      BY <2>3 DEF Throw
    <3>2. SoloInv'
      BY <3>1 DEF SoloInv, Reload, Alone, Loading, Finished, adminVars
    <3>3. ASSUME NEW s \in Checkers PROVE CheckInv(s)'
      BY <3>1 DEF CheckInv, Quiet, Loadable, adminVars, checkVars
    <3> QED
      BY <2>3, <3>1, <3>2, <3>3, OtherTypes, IdleKeepsOverlap DEF adminVars
  <2>4. CASE UNCHANGED vars
    <3>1. UNCHANGED <<up, repo, nets, adminVars, checkVars>>
      BY <2>4 DEF vars
    <3>2. SoloInv'
      BY <3>1 DEF SoloInv, Reload, Alone, Loading, Finished, adminVars
    <3>3. ASSUME NEW s \in Checkers PROVE CheckInv(s)'
      BY <3>1 DEF CheckInv, Quiet, Loadable, adminVars, checkVars
    <3>4. TypeOK'
      BY <3>1 DEF TypeOK, adminVars, checkVars
    <3> QED
      BY <3>1, <3>2, <3>3, <3>4, IdleKeepsOverlap DEF adminVars
  <2> QED
    BY <2>1, <2>2, <2>3, <2>4 DEF Next
<1> QED
  BY <1>1, <1>2, PTL DEF Spec

-----------------------------------------------------------------------------
\* Every variable keeps its type: in particular the policer never holds a string
\* that SubnetList.Add refused, whatever the repository holds.
THEOREM TypeCorrect == Spec => []TypeOK
<1>1. IInv => TypeOK
  BY DEF IInv
<1> QED
  BY <1>1, Invariance, PTL

\* An admin call that overlapped no other leaves the repository's lists in the
\* policer, or a part of them when its reload was broken off.
THEOREM SoloFreshHolds == Spec => []SoloFresh
<1>1. IInv => SoloFresh
  <2> SUFFICES ASSUME IInv, up, Quiet, solo # None PROVE
        /\ nets[White] \subseteq repo[White]
        /\ repo[White] \subseteq Valid =>
              /\ nets[White] = repo[White]
              /\ nets[Black] \subseteq repo[Black]
        /\ Loadable(repo) => nets[Black] = repo[Black]
    BY DEF SoloFresh
  <2>1. Finished(solo)
    BY DEF IInv, SoloInv, Reload, Quiet
  <2>2. Loadable(repo) => nets = repo
    BY FreshAfterSolo DEF IInv
  <2> QED
    BY <2>1, <2>2 DEF Finished
<1> QED
  BY <1>1, Invariance, PTL

\* Such a call answers with an error exactly when some string in the repository
\* is invalid.
THEOREM ReplyHonestHolds == Spec => []ReplyHonest
<1>1. IInv => ReplyHonest
  <2> SUFFICES ASSUME IInv, up, Quiet, solo # None
               PROVE  reply[solo] = "ok" <=> Loadable(repo)
    BY DEF ReplyHonest
  <2>1. Finished(solo)
    BY DEF IInv, SoloInv, Reload, Quiet
  <2>2. nets = repo => Loadable(repo)
    BY DEF IInv, TypeOK, Loadable
  <2> QED
    BY <2>1, <2>2 DEF Finished, Loadable, Lists
<1> QED
  BY <1>1, Invariance, PTL

\* A check that no admin call disturbs decides by the repository's lists, the
\* whitelist first.
THEOREM CalmCheckRightHolds == Spec => []CalmCheckRight
<1>1. IInv => CalmCheckRight
  BY DEF IInv, CheckInv, CalmCheckRight
<1> QED
  BY <1>1, Invariance, PTL

\* However many admin calls overlap, when all have returned and none read an
\* invalid string the policer has every subnet that was listed all the time, and
\* none that was listed at no time, of these calls.
THEOREM OverlapBoundedHolds == Spec => []OverlapBounded
<1>1. IInv => OverlapBounded
  <2> SUFFICES ASSUME IInv, Quiet, Loadable(seen), NEW l \in Lists
               PROVE  kept[l] \subseteq nets[l] /\ nets[l] \subseteq seen[l]
    BY DEF OverlapBounded
  <2>1. \A a \in Admins : ~ToClear(a, l) /\ ~Filling(a, l)
    BY DEF Quiet, ToClear, Filling
  <2> QED
    BY <2>1 DEF IInv, OverlapInv, ListInv
<1> QED
  BY <1>1, Invariance, PTL
=============================================================================
