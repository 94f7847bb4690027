---------------------------- MODULE LocalSubnets ----------------------------
(***************************************************************************)
(* The subnet lists of one instance in the "local" work mode: the memory   *)
(* repository (storage/memory/subnetlistdb.go), the admin calls that write *)
(* it and then reload the policer inline (app/subnetlist_service.go with   *)
(* LocalSubnetUpdatesPublisher), and the checks that read the policer      *)
(* (domain/subnetlist).                                                    *)
(*                                                                         *)
(* The repository has a lock; the maps inside the policer have none.  Go   *)
(* leaves a map that is written while another goroutine writes or ranges   *)
(* over it undefined: either the accesses happen in some order, as in the  *)
(* actions below, or the runtime notices and stops the process (Throw).    *)
(* A range over a map that nobody clears sees what was there when it began *)
(* and may see what is added meanwhile, so Contains is one step.           *)
(***************************************************************************)
EXTENDS SubnetRules

CONSTANTS
    Admins,    \* goroutines serving Add/Remove calls
    Checkers,  \* goroutines serving CheckAttempt calls
    None       \* no address, no admin

ASSUME NoneAssumption == None \notin Ips /\ None \notin Admins

VARIABLES
    up,        \* the process runs
    repo,      \* SubnetListDB.data
    nets,      \* SubnetList.nets of the policer's two lists
    pc,        \* where each admin call is: idle, or a step of Load
    list,      \* local: the list being loaded
    rest,      \* local of Load: CIDRs read and not added yet
    reply,     \* what the admin's last call returned
    at,        \* where each check is
    ip,        \* its address
    verdict,   \* what the checker's last check decided
    solo,      \* history: the admin of the last call if it overlapped no other
    kept,      \* history: what was in a repository list all through the calls
               \* under way, or through the last ones that overlapped
    seen,      \* history: what was in it at some moment of them
    inForce,   \* history: what the repository said of an address since all was quiet
    due,       \* history: what was in force at some moment of the check
    calm       \* history: the check began on fresh lists, and no admin stirred

adminVars == <<pc, list, rest, reply, solo, kept, seen, inForce>>
checkVars == <<at, ip, verdict, due, calm>>
vars == <<up, repo, nets, adminVars, checkVars>>

PCs == {"idle", "read", "clear", "add"}
Decisions == {"allow", "deny", "continue"}

TypeOK ==
    /\ up \in BOOLEAN
    /\ repo \in [Lists -> SUBSET Cidrs]
    /\ nets \in [Lists -> SUBSET Valid]
    /\ pc \in [Admins -> PCs]
    /\ list \in [Admins -> Lists]
    /\ rest \in [Admins -> SUBSET Cidrs]
    /\ reply \in [Admins -> {"none", "ok", "error"}]
    /\ at \in [Checkers -> {"idle", "white", "black"}]
    /\ ip \in [Checkers -> Ips \cup {None}]
    /\ verdict \in [Checkers -> Decisions \cup {"none"}]
    /\ solo \in Admins \cup {None}
    /\ kept \in [Lists -> SUBSET Cidrs]
    /\ seen \in [Lists -> SUBSET Cidrs]
    /\ inForce \in [Ips -> SUBSET Decisions]
    /\ due \in [Checkers -> SUBSET Decisions]
    /\ calm \in [Checkers -> BOOLEAN]

\* A fresh process: an empty memory repository, loaded by Init.
Init ==
    /\ up = TRUE
    /\ repo = [l \in Lists |-> {}]
    /\ nets = [l \in Lists |-> {}]
    /\ pc = [a \in Admins |-> "idle"]
    /\ list = [a \in Admins |-> White]
    /\ rest = [a \in Admins |-> {}]
    /\ reply = [a \in Admins |-> "none"]
    /\ at = [q \in Checkers |-> "idle"]
    /\ ip = [q \in Checkers |-> None]
    /\ verdict = [q \in Checkers |-> "none"]
    /\ solo = None
    /\ kept = [l \in Lists |-> {}]
    /\ seen = [l \in Lists |-> {}]
    /\ inForce = [x \in Ips |-> {}]
    /\ due = [q \in Checkers |-> {}]
    /\ calm = [q \in Checkers |-> FALSE]

Quiet == \A a \in Admins : pc[a] = "idle"

-----------------------------------------------------------------------------
(***************************************************************************)
(* The admin calls: write the repository, then publish, which reloads.     *)
(***************************************************************************)
\* What a check of x may decide: what the repository says, and while an update
\* is under way also what it said before.
InForce(x) == inForce[x] \cup {Decision(repo, x)}

\* The histories when the repository becomes r.
Witness(r) ==
    /\ kept' = [l \in Lists |-> IF Quiet THEN r[l] ELSE kept[l] \cap r[l]]
    /\ seen' = [l \in Lists |-> IF Quiet THEN r[l] ELSE seen[l] \cup r[l]]
    /\ inForce' = [x \in Ips |-> InForce(x) \cup {Decision(r, x)}]
    /\ due' = [q \in Checkers |->
                 IF at[q] = "idle" THEN due[q] ELSE due[q] \cup {Decision(r, ip[q])}]
    /\ calm' = [q \in Checkers |-> IF at[q] = "idle" THEN calm[q] ELSE FALSE]

\* The local publisher calls ReloadSubnets at once, on the caller's goroutine.
PublishSubnetUpdated(a) ==
    /\ pc' = [pc EXCEPT ![a] = "read"]
    /\ list' = [list EXCEPT ![a] = White]

\* The repository becomes r, and the change is published.
WriteAndReload(a, r) ==
    /\ up /\ pc[a] = "idle"
    /\ repo' = r
    /\ PublishSubnetUpdated(a)
    /\ reply' = [reply EXCEPT ![a] = "none"]
    /\ solo' = IF Quiet THEN a ELSE None
    /\ Witness(r)
    /\ UNCHANGED <<up, nets, rest, at, ip, verdict>>

AddTo(a, l, c) == WriteAndReload(a, [repo EXCEPT ![l] = @ \cup {c}])

RemoveFrom(a, l, c) == WriteAndReload(a, [repo EXCEPT ![l] = @ \ {c}])

Return(a, r) ==
    /\ inForce' = IF \A b \in Admins \ {a} : pc[b] = "idle"
                  THEN [x \in Ips |-> {}] ELSE inForce
    /\ pc' = [pc EXCEPT ![a] = "idle"]
    /\ list' = [list EXCEPT ![a] = White]
    /\ rest' = [rest EXCEPT ![a] = {}]
    /\ reply' = [reply EXCEPT ![a] = r]

\* SubnetList.Load, first statement: read the repository under its lock.
ReadList(a) ==
    /\ up /\ pc[a] = "read"
    /\ rest' = [rest EXCEPT ![a] = repo[list[a]]]
    /\ pc' = [pc EXCEPT ![a] = "clear"]
    /\ UNCHANGED <<up, repo, nets, list, reply, solo, kept, seen, inForce, checkVars>>

\* SubnetList.Clear: Load replaces the map by an empty one.
ClearNothing(l) == nets[l]
Cleared(l) == {}
ClearList(a) ==
    /\ up /\ pc[a] = "clear"
    /\ nets' = [nets EXCEPT ![list[a]] = Cleared(list[a])]
    /\ pc' = [pc EXCEPT ![a] = "add"]
    /\ UNCHANGED <<up, repo, list, rest, reply, solo, kept, seen, inForce, checkVars>>

\* SubnetList.Add inside the loop of Load: an invalid string ends the reload
\* with an error and leaves the list as far as it got; the order of the loop
\* is that of a map.
AddOne(a) ==
    /\ up /\ pc[a] = "add"
    /\ \E c \in rest[a] :
          \/ /\ Accepts(c)
             /\ nets' = [nets EXCEPT ![list[a]] = @ \cup {c}]
             /\ rest' = [rest EXCEPT ![a] = @ \ {c}]
             /\ UNCHANGED <<pc, list, reply, inForce>>
          \/ /\ ~Accepts(c)
             /\ Return(a, "error")
             /\ UNCHANGED nets
    /\ UNCHANGED <<up, repo, solo, kept, seen, checkVars>>

\* SubnetPolicer.ReloadSubnets: the blacklist is loaded after the whitelist.
AfterLoadWhiteOnly(a) == Return(a, "ok")
AfterLoad(a) ==
    \/ /\ list[a] = White
       /\ list' = [list EXCEPT ![a] = Black]
       /\ pc' = [pc EXCEPT ![a] = "read"]
       /\ UNCHANGED <<rest, reply, inForce>>
    \/ /\ list[a] = Black
       /\ Return(a, "ok")

LoadDone(a) ==
    /\ up /\ pc[a] = "add"
    /\ rest[a] = {}
    /\ AfterLoad(a)
    /\ UNCHANGED <<up, repo, nets, solo, kept, seen, checkVars>>

-----------------------------------------------------------------------------
(***************************************************************************)
(* SubnetPolicer.Check.                                                    *)
(***************************************************************************)
CheckStart(q, x) ==
    /\ up /\ at[q] = "idle"
    /\ at' = [at EXCEPT ![q] = "white"]
    /\ ip' = [ip EXCEPT ![q] = x]
    /\ verdict' = [verdict EXCEPT ![q] = "none"]
    /\ due' = [due EXCEPT ![q] = InForce(x)]
    /\ calm' = [calm EXCEPT ![q] = Quiet /\ solo # None /\ Loadable(repo)]
    /\ UNCHANGED <<up, repo, nets, adminVars>>

\* The check returns d; of the history, whether that was due is kept.
Decide(q, d) ==
    /\ at' = [at EXCEPT ![q] = "idle"]
    /\ ip' = [ip EXCEPT ![q] = None]
    /\ verdict' = [verdict EXCEPT ![q] = d]
    /\ due' = [due EXCEPT ![q] = @ \cap {d}]

CheckWhiteIgnored(q) ==
    /\ up /\ at[q] = "white"
    /\ at' = [at EXCEPT ![q] = "black"]
    /\ UNCHANGED <<up, repo, nets, adminVars, ip, verdict, due, calm>>
CheckWhite(q) ==
    /\ up /\ at[q] = "white"
    /\ \/ /\ Contains(nets[White], ip[q])
          /\ Decide(q, "allow")
       \/ /\ ~Contains(nets[White], ip[q])
          /\ at' = [at EXCEPT ![q] = "black"]
          /\ UNCHANGED <<ip, verdict, due>>
    /\ UNCHANGED <<up, repo, nets, adminVars, calm>>

CheckBlack(q) ==
    /\ up /\ at[q] = "black"
    /\ Decide(q, IF Contains(nets[Black], ip[q]) THEN "deny" ELSE "continue")
    /\ UNCHANGED <<up, repo, nets, adminVars, calm>>

-----------------------------------------------------------------------------
(***************************************************************************)
(* The data race.                                                          *)
(***************************************************************************)
Reads(q, l) == at[q] = IF l = White THEN "white" ELSE "black"
Writes(a, l) == pc[a] = "add" /\ list[a] = l /\ rest[a] \cap Valid # {}

\* Two goroutines are about to use the map of list l, one of them writing.
Racing(l) ==
    \E a \in Admins : Writes(a, l)
        /\ \/ \E q \in Checkers : Reads(q, l)
           \/ \E b \in Admins \ {a} : Writes(b, l)

\* "fatal error: concurrent map iteration and map write", "concurrent map
\* writes": not a panic, the whole process ends.
Throw ==
    /\ up /\ \E l \in Lists : Racing(l)
    /\ up' = FALSE
    /\ UNCHANGED <<repo, nets, adminVars, checkVars>>

AdminStep(a) ==
    \/ \E l \in Lists, c \in Cidrs : AddTo(a, l, c)
    \/ \E l \in Lists, c \in Cidrs : RemoveFrom(a, l, c)
    \/ ReadList(a)
    \/ ClearList(a)
    \/ AddOne(a)
    \/ LoadDone(a)

CheckStep(q) ==
    \/ \E x \in Ips : CheckStart(q, x)
    \/ CheckWhite(q)
    \/ CheckBlack(q)

Next ==
    \/ \E a \in Admins : AdminStep(a)
    \/ \E q \in Checkers : CheckStep(q)
    \/ Throw

Spec == Init /\ [][Next]_vars

-----------------------------------------------------------------------------
(***************************************************************************)
(* Properties.                                                             *)
(***************************************************************************)
\* What an admin call that overlapped no other leaves behind: a whitelist that
\* loads is the repository's; so is the blacklist when both load; and a list
\* that was broken off at an invalid CIDR never holds a subnet that is not in
\* the repository (a removed one would otherwise live on in the policer).
SoloFresh ==
    (up /\ Quiet /\ solo # None) =>
        /\ nets[White] \subseteq repo[White]
        /\ repo[White] \subseteq Valid =>
              /\ nets[White] = repo[White]
              /\ nets[Black] \subseteq repo[Black]
        /\ Loadable(repo) => nets[Black] = repo[Black]

\* Such a call reports success exactly when the lists it leaves behind are the
\* repository's: an error means that some CIDR in the repository is invalid,
\* were it an old one that this call had nothing to do with.
ReplyHonest ==
    (up /\ Quiet /\ solo # None) => (reply[solo] = "ok" <=> Loadable(repo))

\* A check that no admin call disturbs decides by the repository's lists: an
\* address on the whitelist is allowed, else one on the blacklist is denied.
CalmCheckRight ==
    \A q \in Checkers : (calm[q] /\ verdict[q] # "none") => verdict[q] \in due[q]

\* What overlapping admin calls leave behind when all of them have returned and
\* none read an invalid string.  The reloads clear and fill the same maps, one
\* may install an old copy last, but they lose nothing and bring nothing back:
\* what was listed in the repository all through the calls is in the policer,
\* and what was listed at no moment of them is not.
OverlapBounded ==
    (up /\ Quiet /\ Loadable(seen)) =>
        \A l \in Lists : kept[l] \subseteq nets[l] /\ nets[l] \subseteq seen[l]

\* After the last admin call has returned, "the publisher has updated the lists
\* at once": with nothing invalid in the repository, the policer has its lists.
FreshWhenQuiet == (up /\ Quiet /\ Loadable(repo)) => nets = repo

\* "If the incoming IP is in the whitelist, it is allowed, if in the blacklist,
\* rejected", at any time: a check decides by lists that were in force at some
\* moment between its begin and its end, an update under way excusing the old.
EveryCheckRight ==
    \A q \in Checkers : verdict[q] # "none" => verdict[q] \in due[q]

\* The code passes its race tests: no goroutine writes a policer's map while
\* another is at it.
RaceFree == \A l \in Lists : ~Racing(l)
=============================================================================
