-------------------------- MODULE SubnetSyncProofs --------------------------
(***************************************************************************)
(* SubnetSync for any number of instances, subnets, admin calls and        *)
(* failures: type correctness, and that no update is lost between a reload *)
(* and the messages that arrive while it runs.                             *)
(*                                                                         *)
(* StaleExplained speaks of instances at rest.  The strengthening FreshSoFar*)
(* says what a reload under way has already right when nothing is left to  *)
(* tell the instance: the rows it selected, and the lists it installed,    *)
(* are those of the table.                                                 *)
(***************************************************************************)
EXTENDS SubnetSync, TLAPS

\* Nothing will make instance i reload again, and nothing should.
Told(i) == queue[i] = 0 /\ ~owed[i] /\ ~Pending

FreshSoFar(i) ==
    Told(i) =>
        /\ Serving(i) /\ load[i] = Idle => nets[i] = repo
        /\ load[i] = Step(White, "install") => rows[i] = repo[White]
        /\ load[i] = Step(Black, "select") => nets[i][White] = repo[White]
        /\ load[i] = Step(Black, "install") =>
              nets[i][White] = repo[White] /\ rows[i] = repo[Black]

IndInv == TypeOK /\ \A i \in Instances : FreshSoFar(i)

-----------------------------------------------------------------------------
LEMMA InitInv == Init => IndInv
<1> SUFFICES ASSUME Init PROVE IndInv
  OBVIOUS
<1> USE ValidAssumption, BoundsAssumption DEF Init
<1>1. NoNets \in [Lists -> SUBSET Valid]
  BY DEF NoNets
<1>2. TypeOK
  BY <1>1 DEF TypeOK, Statuses, Loads
<1>3. \A i \in Instances : FreshSoFar(i)
  BY DEF FreshSoFar, Serving, Idle, Step, White, Black
<1> QED
  BY <1>2, <1>3 DEF IndInv

\* Every step keeps the types.
LEMMA NextType == TypeOK /\ [Next]_vars => TypeOK'
<1> SUFFICES ASSUME TypeOK, [Next]_vars PROVE TypeOK'
  OBVIOUS
<1> USE ValidAssumption, BoundsAssumption DEF TypeOK
<1>0. /\ NoNets \in [Lists -> SUBSET Valid] /\ Idle \in Loads
      /\ \A l \in Lists : Step(l, "select") \in Loads /\ Step(l, "install") \in Loads
      /\ White \in Lists /\ Black \in Lists
  BY DEF NoNets, Loads, Step, Lists
<1>1. ASSUME NEW i \in Instances, Start(i) PROVE TypeOK'
  BY <1>0, <1>1 DEF Start, Statuses
<1>2. ASSUME NEW i \in Instances, Subscribe(i) PROVE TypeOK'
  BY <1>2 DEF Subscribe, Statuses
<1>3. ASSUME NEW i \in Instances, Disconnect(i) PROVE TypeOK'
  <2>1. PICK n \in 0..queue[i] :
           /\ queue' = [queue EXCEPT ![i] = @ - n]
           /\ owed' = [owed EXCEPT ![i] = @ \/ n > 0]
    BY <1>3 DEF Disconnect
  <2>2. queue[i] - n \in Nat
    BY <2>1
  <2>3. queue' \in [Instances -> Nat] /\ owed' \in [Instances -> BOOLEAN]
    BY <2>1, <2>2
  <2> QED
    BY <1>3, <2>3 DEF Disconnect, Fault, Statuses
<1>4. ASSUME NEW i \in Instances, Crash(i) PROVE TypeOK'
  <2>1. owed' \in [Instances -> BOOLEAN]
    BY <1>4 DEF Crash, Unpublished
  <2>2. status' \in [Instances -> Statuses] /\ queue' \in [Instances -> Nat]
    BY <1>4 DEF Crash, Gone, Statuses
  <2>3. nets' \in [Instances -> [Lists -> SUBSET Valid]]
    BY <1>0, <1>4 DEF Crash, Gone
  <2>4. load' \in [Instances -> Loads] /\ rows' \in [Instances -> SUBSET Cidrs]
    BY <1>0, <1>4 DEF Crash, Gone
  <2>5. admin' \in [Instances -> {"idle", "publish"}] /\ faults' \in 0..MaxFaults
    BY <1>4 DEF Crash, Gone, Fault
  <2> QED
    BY <1>4, <2>1, <2>2, <2>3, <2>4, <2>5 DEF Crash
<1>5. ASSUME NEW i \in Instances, Terminate(i) PROVE TypeOK'
  BY <1>0, <1>5 DEF Terminate, Fault, Statuses
<1>6. ASSUME NEW i \in Instances, Exit(i) PROVE TypeOK'
  BY <1>0, <1>6 DEF Exit, Gone, Statuses
<1>7. ASSUME NEW i \in Instances, TakeMessage(i) PROVE TypeOK'
  BY <1>0, <1>7 DEF TakeMessage
<1>8. ASSUME NEW i \in Instances, Publish(i) PROVE TypeOK'
  <2>1. queue' \in [Instances -> Nat] /\ owed' \in [Instances -> BOOLEAN]
    BY <1>8 DEF Publish
  <2> QED
    BY <1>8, <2>1 DEF Publish
<1>9. ASSUME NEW i \in Instances, PublishFails(i) PROVE TypeOK'
  BY <1>9 DEF PublishFails, Fault, Unpublished
<1>10. ASSUME NEW i \in Instances, NEW l \in Lists, Select(i, l) PROVE TypeOK'
  BY <1>0, <1>10 DEF Select
<1>11. ASSUME NEW i \in Instances, NEW l \in Lists, SelectFails(i, l) PROVE TypeOK'
  BY <1>0, <1>11 DEF SelectFails, ReloadFails, Fault, Statuses
<1>12. ASSUME NEW i \in Instances, NEW l \in Lists, Install(i, l) PROVE TypeOK'
  <2>1. status' \in [Instances -> Statuses] /\ load' \in [Instances -> Loads]
    <3>1. CASE Loaded(i, l) /\ l = White
      BY <1>0, <3>1 DEF Loaded, White, Black
    <3>2. CASE Loaded(i, l) /\ l = Black
      <4>1. (IF status[i] = "init" THEN "starting" ELSE status[i]) \in Statuses
        BY DEF Statuses
      <4> QED
        BY <1>0, <3>2, <4>1 DEF Loaded, White, Black
    <3>3. CASE ReloadFails(i)
      BY <1>0, <3>3 DEF ReloadFails, Statuses
    <3> QED
      BY <1>12, <3>1, <3>2, <3>3 DEF Install, Loaded
  <2>2. \E part \in SUBSET Valid : nets' = [nets EXCEPT ![i][l] = part]
    BY <1>12 DEF Install, Accepts
  <2>3. nets' \in [Instances -> [Lists -> SUBSET Valid]]
    BY <2>2
  <2> QED
    BY <1>12, <2>1, <2>3 DEF Install
<1>13. ASSUME NEW i \in Instances, NEW l \in Lists, NEW c \in Cidrs,
              Add(i, l, c) \/ Remove(i, l, c)
       PROVE  TypeOK'
  <2>1. \E r \in [Lists -> SUBSET Cidrs] : Write(i, r)
    BY <1>13 DEF Add, Remove
  <2>2. owed' \in [Instances -> BOOLEAN]
    BY <2>1 DEF Write, Unpublished
  <2> QED
    BY <2>1, <2>2 DEF Write, Fault
<1>14. CASE UNCHANGED vars
  BY <1>14 DEF vars
<1>15. ASSUME NEW i \in Instances, NEW l \in Lists, SelectMissing(i, l) PROVE TypeOK'
  BY <1>0, <1>15 DEF SelectMissing, ReloadFails, Statuses
<1>16. CASE MigrateUp
  BY <1>16 DEF MigrateUp
<1>17. CASE MigrateDown
  <2>1. repo' \in [Lists -> SUBSET Cidrs] /\ migrated' \in BOOLEAN
    BY <1>17 DEF MigrateDown, NoNets
  <2>2. owed' \in [Instances -> BOOLEAN] /\ faults' \in 0..MaxFaults
    BY <1>17 DEF MigrateDown, Fault, Unpublished
  <2> QED
    BY <1>17, <2>1, <2>2 DEF MigrateDown
<1> QED
  BY <1>1, <1>2, <1>3, <1>4, <1>5, <1>6, <1>7, <1>8, <1>9, <1>10, <1>11, <1>12,
     <1>13, <1>14, <1>15, <1>16, <1>17 DEF Next, Act

-----------------------------------------------------------------------------
\* The steps of a reload are different, and none of them is the state of rest.
LEMMA StepsDiffer ==
    /\ White # Black
    /\ \A l \in Lists : /\ Step(l, "select") # Idle /\ Step(l, "install") # Idle
                       /\ \A m \in Lists : Step(l, "select") # Step(m, "install")
    /\ \A x \in {"select", "install"} : Step(White, x) # Step(Black, x)
  BY DEF Step, Idle, Lists, White, Black

\* An instance that a step leaves alone stays as fresh as it was, if the step
\* neither writes the table nor settles what was still owed to the instance.
LEMMA LeftAlone ==
    ASSUME NEW j \in Instances, FreshSoFar(j), Told(j)' => Told(j), repo' = repo,
           nets'[j] = nets[j], load'[j] = load[j], rows'[j] = rows[j],
           Serving(j)' => Serving(j)
    PROVE  FreshSoFar(j)'
  BY DEF FreshSoFar

\* Every step keeps what is fresh.
LEMMA NextFresh == IndInv /\ [Next]_vars => \A j \in Instances : FreshSoFar(j)'
<1> SUFFICES ASSUME IndInv, [Next]_vars, NEW j \in Instances
             PROVE  FreshSoFar(j)'
  OBVIOUS
<1>0. TypeOK /\ FreshSoFar(j)
  BY DEF IndInv
<1>1. ASSUME NEW i \in Instances, Start(i) PROVE FreshSoFar(j)'
  <2>1. CASE j = i
    BY <1>0, <1>1, <2>1, StepsDiffer DEF FreshSoFar, Start, TypeOK, Lists
  <2>2. CASE j # i
    <3>1. Told(j)' => Told(j)
      BY <1>0, <1>1, <2>2 DEF Told, Pending, Start, TypeOK
    <3>2. load'[j] = load[j] /\ (Serving(j)' => Serving(j))
      BY <1>0, <1>1, <2>2 DEF Start, TypeOK, Serving
    <3> QED
      BY <1>0, <1>1, <3>1, <3>2, LeftAlone DEF Start
  <2> QED
    BY <2>1, <2>2
<1>2. ASSUME NEW i \in Instances, Subscribe(i) PROVE FreshSoFar(j)'
  <2>1. (Told(j)' => Told(j)) /\ (Serving(j)' => Serving(j))
    BY <1>0, <1>2 DEF Told, Pending, Subscribe, Serving, TypeOK
  <2> QED
    BY <1>0, <1>2, <2>1, LeftAlone DEF Subscribe
<1>3. ASSUME NEW i \in Instances, Disconnect(i) PROVE FreshSoFar(j)'
  <2>1. PICK n \in 0..queue[i] :
           /\ queue' = [queue EXCEPT ![i] = @ - n]
           /\ owed' = [owed EXCEPT ![i] = @ \/ n > 0]
    BY <1>3 DEF Disconnect
  <2>2. n = 0 \/ j # i \/ owed'[j]
    <3>1. queue[i] \in Nat
      BY <1>0 DEF TypeOK
    <3>2. n = 0 \/ n > 0
      BY <3>1
    <3>3. owed'[i] = (owed[i] \/ n > 0)
      BY <1>0, <2>1, Zenon DEF TypeOK
    <3> QED
      BY <3>2, <3>3, Zenon
  <2>3. Told(j)' => Told(j)
    BY <1>0, <1>3, <2>1, <2>2 DEF Told, Pending, Disconnect, TypeOK
  <2>4. Serving(j)' => Serving(j)
    BY <1>0, <1>3 DEF Disconnect, Serving, TypeOK
  <2> QED
    BY <1>0, <1>3, <2>3, <2>4, LeftAlone DEF Disconnect
<1>4. ASSUME NEW i \in Instances, Gone(i), repo' = repo,
             (owed' = owed /\ admin[i] = "idle") \/ Unpublished
      PROVE  FreshSoFar(j)'
  <2>1. CASE Unpublished
    BY <2>1 DEF Unpublished, FreshSoFar, Told
  <2>2. CASE j = i
    BY <1>0, <1>4, <2>2, StepsDiffer DEF Gone, FreshSoFar, Serving, TypeOK, Lists
  <2>3. CASE j # i /\ owed' = owed /\ admin[i] = "idle"
    <3>1. admin' = admin
      BY <1>0, <1>4, <2>3 DEF Gone, TypeOK
    <3>2. Told(j)' => Told(j)
      BY <1>0, <1>4, <2>3, <3>1 DEF Told, Pending, Gone, TypeOK
    <3>3. /\ nets'[j] = nets[j] /\ load'[j] = load[j] /\ rows'[j] = rows[j]
          /\ Serving(j)' => Serving(j)
      BY <1>0, <1>4, <2>3 DEF Gone, Serving, TypeOK
    <3> QED
      BY <1>0, <1>4, <3>2, <3>3, LeftAlone
  <2> QED
    BY <1>4, <2>1, <2>2, <2>3
<1>5. ASSUME NEW i \in Instances, Crash(i) PROVE FreshSoFar(j)'
  <2>1. admin[i] = "idle" \/ admin[i] = "publish"
    BY <1>0 DEF TypeOK
  <2> QED
    BY <1>4, <1>5, <2>1 DEF Crash
<1>6. ASSUME NEW i \in Instances, Exit(i) PROVE FreshSoFar(j)'
  BY <1>4, <1>6 DEF Exit
<1>7. ASSUME NEW i \in Instances, load' = [load EXCEPT ![i] = Idle],
             status' = [status EXCEPT ![i] = "stopping"],
             UNCHANGED <<repo, rows, queue, admin, owed>>,
             \A k \in Instances \ {i} : nets'[k] = nets[k]
      PROVE  FreshSoFar(j)'
  <2>1. CASE j = i
    BY <1>0, <1>7, <2>1, StepsDiffer DEF FreshSoFar, Serving, TypeOK, Lists
  <2>2. CASE j # i
    <3>1. Told(j)' => Told(j)
      BY <1>7 DEF Told, Pending
    <3>2. /\ nets'[j] = nets[j] /\ load'[j] = load[j] /\ rows'[j] = rows[j]
          /\ Serving(j)' => Serving(j)
      BY <1>0, <1>7, <2>2 DEF Serving, TypeOK
    <3> QED
      BY <1>0, <1>7, <3>1, <3>2, LeftAlone
  <2> QED
    BY <2>1, <2>2
<1>8. ASSUME NEW i \in Instances, Terminate(i) PROVE FreshSoFar(j)'
  BY <1>7, <1>8 DEF Terminate
<1>9. ASSUME NEW i \in Instances, TakeMessage(i) PROVE FreshSoFar(j)'
  <2>1. CASE j = i
    BY <1>0, <1>9, <2>1, StepsDiffer DEF FreshSoFar, TakeMessage, TypeOK, Lists
  <2>2. CASE j # i
    <3>1. Told(j)' => Told(j)
      BY <1>0, <1>9, <2>2 DEF Told, Pending, TakeMessage, TypeOK
    <3>2. load'[j] = load[j] /\ (Serving(j)' => Serving(j))
      BY <1>0, <1>9, <2>2 DEF TakeMessage, TypeOK, Serving
    <3> QED
      BY <1>0, <1>9, <3>1, <3>2, LeftAlone DEF TakeMessage
  <2> QED
    BY <2>1, <2>2
<1>10. ASSUME NEW i \in Instances, Publish(i) PROVE FreshSoFar(j)'
  \* Who is subscribed has a message to come, who is not is owed one.
  <2>1. ~Told(j)'
    <3>1. CASE status[j] = "listening"
      BY <1>0, <1>10, <3>1 DEF Publish, Receivers, Told, TypeOK
    <3>2. CASE status[j] # "listening"
      BY <1>0, <1>10, <3>2 DEF Publish, Told, TypeOK
    <3> QED
      BY <3>1, <3>2
  <2> QED
    BY <2>1 DEF FreshSoFar
<1>11. ASSUME NEW i \in Instances, PublishFails(i) PROVE FreshSoFar(j)'
  BY <1>11 DEF PublishFails, Unpublished, FreshSoFar, Told
<1>12. ASSUME NEW i \in Instances, NEW l \in Lists, Select(i, l) PROVE FreshSoFar(j)'
  <2>0. (Told(j)' => Told(j)) /\ (Serving(j)' => Serving(j))
    BY <1>12 DEF Told, Pending, Serving, Select
  <2>1. CASE j # i
    <3>1. load'[j] = load[j] /\ rows'[j] = rows[j]
      BY <1>0, <1>12, <2>1 DEF Select, TypeOK
    <3> QED
      BY <1>0, <1>12, <2>0, <3>1, LeftAlone DEF Select
  <2>2. CASE j = i
    <3>1. load'[j] = Step(l, "install") /\ rows'[j] = repo[l]
      BY <1>0, <1>12, <2>2 DEF Select, TypeOK
    <3>2. l = Black => (Told(j)' => nets[j][White] = repo[White])
      BY <1>0, <1>12, <2>0, <2>2 DEF FreshSoFar, Select
    <3> QED
      BY <1>12, <3>1, <3>2, StepsDiffer DEF FreshSoFar, Select, Lists
  <2> QED
    BY <2>1, <2>2
<1>13. ASSUME NEW i \in Instances, NEW l \in Lists, SelectFails(i, l)
       PROVE  FreshSoFar(j)'
  BY <1>7, <1>13 DEF SelectFails, ReloadFails
<1>14. ASSUME NEW i \in Instances, NEW l \in Lists, Install(i, l) PROVE FreshSoFar(j)'
  <2>1. CASE ReloadFails(i)
    <3>1. \A k \in Instances \ {i} : nets'[k] = nets[k]
      BY <1>0, <1>14 DEF Install, TypeOK
    <3> QED
      BY <1>7, <1>14, <2>1, <3>1 DEF Install, ReloadFails
  <2>2. CASE nets' = [nets EXCEPT ![i][l] = rows[i]] /\ Loaded(i, l)
    <3>0. Told(j)' => Told(j)
      BY <1>14 DEF Told, Pending, Install
    <3>1. CASE j # i
      <4>1. nets'[j] = nets[j] /\ load'[j] = load[j] /\ (Serving(j)' => Serving(j))
        BY <1>0, <2>2, <3>1 DEF Loaded, Serving, TypeOK
      <4> QED
        BY <1>0, <1>14, <3>0, <3>1, <4>1, LeftAlone DEF Install
    <3>2. CASE j = i /\ l = White
      <4>1. load'[j] = Step(Black, "select") /\ nets'[j][White] = rows[j]
        BY <1>0, <2>2, <3>2, StepsDiffer DEF Loaded, TypeOK, Lists
      <4>2. Told(j)' => rows[j] = repo[White]
        BY <1>0, <1>14, <3>0, <3>2 DEF FreshSoFar, Install
      <4> QED
        BY <1>14, <4>1, <4>2, StepsDiffer DEF FreshSoFar, Install, Lists
    <3>3. CASE j = i /\ l = Black
      <4>1. /\ load'[j] = Idle
            /\ nets'[j] \in [Lists -> SUBSET Cidrs]
            /\ nets'[j][Black] = rows[j] /\ nets'[j][White] = nets[j][White]
        BY <1>0, <2>2, <3>3, StepsDiffer, ValidAssumption DEF Loaded, TypeOK, Lists
      <4>2. Told(j)' => nets[j][White] = repo[White] /\ rows[j] = repo[Black]
        BY <1>0, <1>14, <3>0, <3>3 DEF FreshSoFar, Install
      <4>0. repo \in [Lists -> SUBSET Cidrs]
        BY <1>0 DEF TypeOK
      <4>3. Told(j)' => nets'[j] = repo
        BY <4>0, <4>1, <4>2 DEF Lists
      <4> QED
        BY <1>14, <4>1, <4>3, StepsDiffer DEF FreshSoFar, Install, Lists
    <3> QED
      BY <3>1, <3>2, <3>3 DEF Lists
  <2> QED
    BY <1>14, <2>1, <2>2 DEF Install
<1>15. ASSUME NEW i \in Instances, NEW l \in Lists, NEW c \in Cidrs,
              Add(i, l, c) \/ Remove(i, l, c)
       PROVE  FreshSoFar(j)'
  \* The change is about to be published, or will never be.
  <2>1. PICK r : Write(i, r)
    BY <1>15 DEF Add, Remove
  <2>2. ~Told(j)'
    BY <1>0, <2>1 DEF Write, Unpublished, Told, Pending, TypeOK
  <2> QED
    BY <2>2 DEF FreshSoFar
<1>16. CASE UNCHANGED vars
  BY <1>0, <1>16 DEF vars, FreshSoFar, Told, Pending, Serving
<1>17. ASSUME NEW i \in Instances, NEW l \in Lists, SelectMissing(i, l)
       PROVE  FreshSoFar(j)'
  BY <1>7, <1>17 DEF SelectMissing, ReloadFails
<1>18. CASE MigrateUp
  BY <1>0, <1>18 DEF MigrateUp, FreshSoFar, Told, Pending, Serving
<1>19. CASE MigrateDown
  \* The rows are gone, and every instance is owed a message.
  BY <1>19 DEF MigrateDown, Unpublished, FreshSoFar, Told
<1> QED
  BY <1>1, <1>2, <1>3, <1>5, <1>6, <1>8, <1>9, <1>10, <1>11, <1>12, <1>13, <1>14,
     <1>15, <1>16, <1>17, <1>18, <1>19 DEF Next, Act

LEMMA InvHolds == Spec => []IndInv
<1>1. IndInv /\ [Next]_vars => IndInv'
  BY NextType, NextFresh DEF IndInv
<1> QED
  BY <1>1, InitInv, PTL DEF Spec

-----------------------------------------------------------------------------
\* The table, the policers' lists, the reloads and the messages under way keep
\* their types; above all, an instance's lists only ever hold subnets that
\* SubnetList.Add accepts, whatever was written to the table.
THEOREM TypeCorrect == Spec => []TypeOK
<1>1. IndInv => TypeOK
  BY DEF IndInv
<1> QED
  BY <1>1, InvHolds, PTL

\* An instance at rest that was told of every change has the table's lists: a
\* write between the two SELECTs of a ReloadSubnets, or during one, is made up
\* for by the message that follows it.
THEOREM NoUpdateLost == Spec => []StaleExplained
<1>1. IndInv => StaleExplained
  BY DEF IndInv, FreshSoFar, StaleExplained, Settled, Told
<1> QED
  BY <1>1, InvHolds, PTL
=============================================================================
