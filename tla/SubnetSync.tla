----------------------------- MODULE SubnetSync -----------------------------
(***************************************************************************)
(* The subnet lists in the external work mode: several instances of the    *)
(* service share the Postgres table (storage/postgresdb/subnetlistdb.go);  *)
(* an admin call on one of them writes the table and publishes "reload" on *)
(* a Redis channel (subnetupdatepublisher/redis_publiser.go); every        *)
(* instance has a subscriber goroutine that answers each message with      *)
(* ReloadSubnets (redissubscriber/subscriber.go).                          *)
(*                                                                         *)
(* A Load of one list is two steps: the SELECT, and what its result does   *)
(* to the policer's map (Clear, then Add one by one, up to an invalid      *)
(* CIDR).  The states in between are visible to checks only, and are the   *)
(* subject of LocalSubnets.                                                *)
(*                                                                         *)
(* Redis Pub/Sub keeps no message for a client that is not subscribed.     *)
(*                                                                         *)
(* The migrator (cmd/migrator) creates the table, or drops it with all     *)
(* that is in it, and nothing keeps it from doing so beside the instances. *)
(***************************************************************************)
EXTENDS SubnetRules

CONSTANTS
    Instances, \* the instances of the service
    MaxWrites, \* bound of the model: admin calls
    MaxFaults, \* bound of the model: crashes, disconnections, failed calls, dropped tables
    Empty      \* the empty string, rejected by the repository as a CIDR

ASSUME BoundsAssumption == MaxWrites \in Nat /\ MaxFaults \in Nat

VARIABLES
    repo,      \* the rows of the table subnets
    migrated,  \* the table exists
    status,    \* the life of each instance
    nets,      \* its policer's two lists
    load,      \* where its ReloadSubnets is: idle, or the list and the step
    rows,      \* what its last SELECT returned
    queue,     \* messages that reached its subscriber and were not taken yet
    admin,     \* the admin call it serves: idle, or written and not published
    writes,    \* admin calls so far
    faults,    \* failures so far
    owed       \* history: the table changed and nothing will tell the instance

vars == <<repo, migrated, status, nets, load, rows, queue, admin, writes, faults, owed>>

\* down      no process
\* init      RateLimiterService.Init is loading the lists
\* starting  serving, the subscriber has not subscribed yet
\* listening serving and subscribed
\* deaf      serving, the subscriber's connection is being re-established
\* stopping  the errgroup's context is cancelled: calls in flight finish
Statuses == {"down", "init", "starting", "listening", "deaf", "stopping"}
Serving(i) == status[i] \in {"starting", "listening", "deaf"}

Idle == <<"none", "idle">>
Step(l, what) == <<l, what>>
Loads == {Idle} \cup (Lists \X {"select", "install"})

NoNets == [l \in Lists |-> {}]

TypeOK ==
    /\ repo \in [Lists -> SUBSET Cidrs]
    /\ migrated \in BOOLEAN
    /\ status \in [Instances -> Statuses]
    /\ nets \in [Instances -> [Lists -> SUBSET Valid]]
    /\ load \in [Instances -> Loads]
    /\ rows \in [Instances -> SUBSET Cidrs]
    /\ queue \in [Instances -> Nat]
    /\ admin \in [Instances -> {"idle", "publish"}]
    /\ writes \in 0..MaxWrites
    /\ faults \in 0..MaxFaults
    /\ owed \in [Instances -> BOOLEAN]

\* The table outlives the instances: it need not be empty when the first starts.
Init ==
    /\ repo \in [Lists -> SUBSET Valid]
    /\ migrated \in BOOLEAN
    /\ ~migrated => repo = NoNets
    /\ status = [i \in Instances |-> "down"]
    /\ nets = [i \in Instances |-> NoNets]
    /\ load = [i \in Instances |-> Idle]
    /\ rows = [i \in Instances |-> {}]
    /\ queue = [i \in Instances |-> 0]
    /\ admin = [i \in Instances |-> "idle"]
    /\ writes = 0
    /\ faults = 0
    /\ owed = [i \in Instances |-> FALSE]

Fault ==
    /\ faults < MaxFaults
    /\ faults' = faults + 1

-----------------------------------------------------------------------------
(***************************************************************************)
(* The life of an instance, run() in cmd/anti-bruteforce/main.go.          *)
(***************************************************************************)
\* A process starts, and loads the lists before anything else.
Start(i) ==
    /\ status[i] = "down"
    /\ status' = [status EXCEPT ![i] = "init"]
    /\ load' = [load EXCEPT ![i] = Step(White, "select")]
    /\ owed' = [owed EXCEPT ![i] = FALSE]
    /\ UNCHANGED <<repo, migrated, nets, rows, queue, admin, writes, faults>>

\* SUBSCRIBE reaches Redis, the first time or after a lost connection.
Subscribe(i) ==
    /\ status[i] \in {"starting", "deaf"}
    /\ status' = [status EXCEPT ![i] = "listening"]
    /\ UNCHANGED <<repo, migrated, nets, load, rows, queue, admin, writes, faults, owed>>

\* The subscriber's connection breaks; n messages on their way are gone.  The
\* client library reconnects by itself and tells the code nothing.
Disconnect(i) ==
    /\ status[i] = "listening"
    /\ Fault
    /\ status' = [status EXCEPT ![i] = "deaf"]
    /\ \E n \in 0..queue[i] :
          /\ queue' = [queue EXCEPT ![i] = @ - n]
          /\ owed' = [owed EXCEPT ![i] = @ \/ n > 0]
    /\ UNCHANGED <<repo, migrated, nets, load, rows, admin, writes>>

\* The process is gone, and with it all it had in memory.
Gone(i) ==
    /\ status' = [status EXCEPT ![i] = "down"]
    /\ nets' = [nets EXCEPT ![i] = NoNets]
    /\ load' = [load EXCEPT ![i] = Idle]
    /\ rows' = [rows EXCEPT ![i] = {}]
    /\ queue' = [queue EXCEPT ![i] = 0]
    /\ admin' = [admin EXCEPT ![i] = "idle"]

\* A change of the table by the call on i will not be published.
Unpublished == owed' = [j \in Instances |-> TRUE]

\* The process is killed, perhaps between the write and the publication.
Crash(i) ==
    /\ status[i] # "down"
    /\ Fault
    /\ Gone(i)
    /\ IF admin[i] = "publish" THEN Unpublished ELSE UNCHANGED owed
    /\ UNCHANGED <<repo, migrated, writes>>

\* SIGTERM: the errgroup's context is cancelled and the server stops gracefully.
Terminate(i) ==
    /\ Serving(i)
    /\ Fault
    /\ status' = [status EXCEPT ![i] = "stopping"]
    /\ load' = [load EXCEPT ![i] = Idle]
    /\ UNCHANGED <<repo, migrated, nets, rows, queue, admin, writes, owed>>

\* The calls in flight are done: run() returns.
Exit(i) ==
    /\ status[i] = "stopping"
    /\ admin[i] = "idle"
    /\ Gone(i)
    /\ UNCHANGED <<repo, migrated, writes, faults, owed>>

-----------------------------------------------------------------------------
(***************************************************************************)
(* ReloadSubnets, called by Init and by the subscriber.                    *)
(***************************************************************************)
\* subscriber.Start: any message makes the subscriber reload both lists.
TakeMessage(i) ==
    /\ status[i] \in {"listening", "deaf"}
    /\ load[i] = Idle /\ queue[i] > 0
    /\ queue' = [queue EXCEPT ![i] = @ - 1]
    /\ load' = [load EXCEPT ![i] = Step(White, "select")]
    /\ owed' = [owed EXCEPT ![i] = FALSE]
    /\ UNCHANGED <<repo, migrated, status, nets, rows, admin, writes, faults>>

\* Load: SELECT cidr FROM subnets WHERE list_type = $1.
Select(i, l) ==
    /\ load[i] = Step(l, "select") /\ migrated
    /\ rows' = [rows EXCEPT ![i] = repo[l]]
    /\ load' = [load EXCEPT ![i] = Step(l, "install")]
    /\ UNCHANGED <<repo, migrated, status, nets, queue, admin, writes, faults, owed>>

\* ReloadSubnets returns an error: Init makes run() return, the subscriber
\* returns it to the errgroup, which stops the server.
ReloadFails(i) ==
    /\ load' = [load EXCEPT ![i] = Idle]
    /\ status' = [status EXCEPT ![i] = "stopping"]

SelectFails(i, l) ==
    /\ load[i] = Step(l, "select")
    /\ Fault
    /\ ReloadFails(i)
    /\ UNCHANGED <<repo, migrated, nets, rows, queue, admin, writes, owed>>

\* There is no table to select from.
SelectMissing(i, l) ==
    /\ load[i] = Step(l, "select") /\ ~migrated
    /\ ReloadFails(i)
    /\ UNCHANGED <<repo, migrated, nets, rows, queue, admin, writes, faults, owed>>

\* ReloadSubnets: the list is loaded, the blacklist is next, or ReloadSubnets is done.
LoadedWhiteOnly(i, l) ==
    /\ load' = [load EXCEPT ![i] = Idle]
    /\ status' = [status EXCEPT ![i] = IF @ = "init" THEN "starting" ELSE @]
Loaded(i, l) ==
    \/ /\ l = White
       /\ load' = [load EXCEPT ![i] = Step(Black, "select")]
       /\ UNCHANGED status
    \/ /\ l = Black
       /\ load' = [load EXCEPT ![i] = Idle]
       /\ status' = [status EXCEPT ![i] = IF @ = "init" THEN "starting" ELSE @]

\* Load: Clear, then Add every row.  An invalid one ends it, the list being
\* left with those that came before.
Install(i, l) ==
    /\ load[i] = Step(l, "install")
    /\ \/ /\ \A c \in rows[i] : Accepts(c)
          /\ nets' = [nets EXCEPT ![i][l] = rows[i]]
          /\ Loaded(i, l)
       \/ /\ \E c \in rows[i] : ~Accepts(c)
          /\ \E part \in SUBSET (rows[i] \cap Valid) :
                nets' = [nets EXCEPT ![i][l] = part]
          /\ ReloadFails(i)
    /\ UNCHANGED <<repo, migrated, rows, queue, admin, writes, faults, owed>>

-----------------------------------------------------------------------------
(***************************************************************************)
(* The admin calls, SubnetListService on top of the two repositories.      *)
(***************************************************************************)
\* The table becomes r; the call goes on to publish, unless the database's
\* answer is lost: then it returns the error without publishing.  Without a
\* table it returns an error, and nothing has changed.
Write(i, r) ==
    /\ Serving(i) /\ admin[i] = "idle" /\ migrated
    /\ writes < MaxWrites
    /\ writes' = writes + 1
    /\ repo' = r
    /\ \/ /\ admin' = [admin EXCEPT ![i] = "publish"]
          /\ UNCHANGED <<faults, owed>>
       \/ /\ Fault
          /\ Unpublished
          /\ UNCHANGED admin
    /\ UNCHANGED <<migrated, status, nets, load, rows, queue>>

Add(i, l, c) ==
    /\ c # Empty
    /\ Write(i, [repo EXCEPT ![l] = @ \cup {c}])

Remove(i, l, c) ==
    /\ c # Empty
    /\ Write(i, [repo EXCEPT ![l] = @ \ {c}])

\* PUBLISH hands the message to those who are subscribed at this moment, the
\* publisher's own instance among them.
OtherReceivers(i) == {j \in Instances \ {i} : status[j] = "listening"}
Receivers(i) == {j \in Instances : status[j] = "listening"}
Publish(i) ==
    /\ admin[i] = "publish"
    /\ admin' = [admin EXCEPT ![i] = "idle"]
    /\ queue' = [j \in Instances |->
                   IF j \in Receivers(i) THEN queue[j] + 1 ELSE queue[j]]
    /\ owed' = [j \in Instances |-> owed[j] \/ status[j] # "listening"]
    /\ UNCHANGED <<repo, migrated, status, nets, load, rows, writes, faults>>

\* PUBLISH fails: the call returns an error, the table stays changed.
PublishFails(i) ==
    /\ admin[i] = "publish"
    /\ Fault
    /\ admin' = [admin EXCEPT ![i] = "idle"]
    /\ Unpublished
    /\ UNCHANGED <<repo, migrated, status, nets, load, rows, queue, writes>>

-----------------------------------------------------------------------------
(***************************************************************************)
(* The migrator: there is one migration, which creates the table.          *)
(***************************************************************************)
\* up, up-to; on a migrated database they do nothing.
MigrateUp ==
    /\ ~migrated
    /\ migrated' = TRUE
    /\ UNCHANGED <<repo, status, nets, load, rows, queue, admin, writes, faults, owed>>

\* down, reset, down-to, and the first half of redo, whose second half is
\* MigrateUp: the table goes with its rows, and no instance is told.
MigrateDown ==
    /\ migrated
    /\ Fault
    /\ migrated' = FALSE
    /\ repo' = NoNets
    /\ Unpublished
    /\ UNCHANGED <<status, nets, load, rows, queue, admin, writes>>

-----------------------------------------------------------------------------
Act(i) ==
    \/ Start(i) \/ Subscribe(i) \/ Disconnect(i) \/ Crash(i) \/ Terminate(i)
    \/ Exit(i) \/ TakeMessage(i) \/ Publish(i) \/ PublishFails(i)
    \/ \E l \in Lists : \/ Select(i, l) \/ SelectFails(i, l) \/ SelectMissing(i, l)
                       \/ Install(i, l)
    \/ \E l \in Lists, c \in Cidrs : Add(i, l, c) \/ Remove(i, l, c)

Next == (\E i \in Instances : Act(i)) \/ MigrateUp \/ MigrateDown

Spec == Init /\ [][Next]_vars

\* What goes on by itself: the subscriber goroutine and the client library's
\* reconnection, and the rest of an admin call.  Nobody has to start a process
\* or to change the lists.
Progress(i) ==
    \/ Subscribe(i) \/ TakeMessage(i) \/ Publish(i) \/ Exit(i)
    \/ \E l \in Lists : Select(i, l) \/ SelectMissing(i, l) \/ Install(i, l)

FairSpec == Spec /\ \A i \in Instances : WF_vars(Progress(i))

-----------------------------------------------------------------------------
(***************************************************************************)
(* Properties.                                                             *)
(***************************************************************************)
Pending == \E j \in Instances : admin[j] = "publish"
Settled(i) == load[i] = Idle /\ queue[i] = 0 /\ ~owed[i] /\ ~Pending

\* No update slips through between the reads of a reload and the messages that
\* arrive meanwhile: a serving instance whose subscriber is at rest has the
\* lists of the table, unless a change is about to be published or was lost.
StaleExplained ==
    \A i \in Instances : Serving(i) /\ Settled(i) => nets[i] = repo

\* The instances converge: in the end each serving one has the table's lists,
\* or it is one that the publication of a change never reached.
Converges ==
    <>[](\A i \in Instances : Serving(i) => nets[i] = repo \/ owed[i])

\* "Work of several instances of the service is supported", "we tell all
\* subscribers": when nothing has failed and nothing is under way, every
\* instance decides by the same lists.
InstancesAgree ==
    (faults = 0 /\ \A i \in Instances :
        admin[i] = "idle" /\ load[i] = Idle /\ queue[i] = 0
            /\ status[i] \in {"down", "listening"}) =>
        \A i \in Instances : status[i] = "listening" => nets[i] = repo

\* "Subnets: IPv4, CIDR notation": what the table holds can be loaded.
TableLoadable == Loadable(repo)
=============================================================================
