----------------------------- MODULE BucketsDB -----------------------------
(***************************************************************************)
(* The in-memory bucket store (internal/storage/memory/bucketsdb.go), used *)
(* in the "local" work mode: one timeline of attempt times per key, shared *)
(* by the goroutines that serve the gRPC calls.                            *)
(*                                                                         *)
(* A step is what a goroutine does between two points where another one    *)
(* can be seen: a critical section of the map's RWMutex or of a timeline's *)
(* Mutex is one step, the clock is read in a step of its own, BEFORE any   *)
(* lock is taken (line 60).  A timeline is named by the goroutine that     *)
(* allocated it, so that two timelines for one key are distinguishable.    *)
(***************************************************************************)
EXTENDS Integers, Sequences, FiniteSets

CONSTANTS
    Procs,     \* goroutines that call the store
    Keys,      \* bucket keys, prefixed with their limit type
    Limit,     \* Limit[k], the rule the Limiter of k's type passes
    Window,    \* Window[k], likewise, in clock ticks
    MaxTime,   \* bound of the model on the clock
    Nil        \* the nil *timeline

ASSUME RulesAssumption == Limit \in [Keys -> Int] /\ Window \in [Keys -> Int]
ASSUME NilAssumption == Nil \notin Procs /\ Nil \notin Keys
ASSUME MaxTimeAssumption == MaxTime \in Nat

VARIABLES
    clock,     \* wall clock in milliseconds, assumed not to step back
    data,      \* BucketsDB.data: key -> its timeline or Nil
    times,     \* times[k][t]: timeline.times of the timeline t allocated for k
    pc,        \* where each goroutine is
    key,       \* local: the key of the call
    now,       \* local of Allow: time.Now().UnixMilli()
    tl,        \* local: the timeline that was looked up
    reply,     \* what the goroutine's last Allow returned
    granted    \* history: begin times of the grants on a key since its Reset

vars == <<clock, data, times, pc, key, now, tl, reply, granted>>

PCs == {"idle", "lookup", "create", "commit", "reset"}

TypeOK ==
    /\ clock \in Nat
    /\ data \in [Keys -> Procs \cup {Nil}]
    /\ times \in [Keys -> [Procs -> Seq(Nat)]]
    /\ pc \in [Procs -> PCs]
    /\ key \in [Procs -> Keys \cup {Nil}]
    /\ now \in [Procs -> Nat]
    /\ tl \in [Procs -> Procs \cup {Nil}]
    /\ reply \in [Procs -> {"none", "ok", "refused"}]
    /\ granted \in [Keys -> Seq(Nat)]
    /\ \A p \in Procs : pc[p] # "idle" => key[p] \in Keys
    /\ \A p \in Procs : pc[p] \in {"commit", "reset"} => tl[p] \in Procs

Init ==
    /\ clock = 0
    /\ data = [k \in Keys |-> Nil]
    /\ times = [k \in Keys |-> [p \in Procs |-> <<>>]]
    /\ pc = [p \in Procs |-> "idle"]
    /\ key = [p \in Procs |-> Nil]
    /\ now = [p \in Procs |-> 0]
    /\ tl = [p \in Procs |-> Nil]
    /\ reply = [p \in Procs |-> "none"]
    /\ granted = [k \in Keys |-> <<>>]

-----------------------------------------------------------------------------
\* The call returns r to its caller; its locals die.
Return(p, r) ==
    /\ pc' = [pc EXCEPT ![p] = "idle"]
    /\ key' = [key EXCEPT ![p] = Nil]
    /\ now' = [now EXCEPT ![p] = 0]
    /\ tl' = [tl EXCEPT ![p] = Nil]
    /\ reply' = [reply EXCEPT ![p] = r]

Goto(p, label) == pc' = [pc EXCEPT ![p] = label]

(***************************************************************************)
(* Allow, lines 52-85.                                                     *)
(***************************************************************************)
\* Lines 53-58: a rule with no limit refuses, one with no window allows.
AllowTrivially(p, k) ==
    /\ pc[p] = "idle"
    /\ \/ Limit[k] <= 0 /\ Return(p, "refused")
       \/ Limit[k] > 0 /\ Window[k] <= 0 /\ Return(p, "ok")
    /\ UNCHANGED <<clock, data, times, granted>>

\* Line 60: the time of the attempt is read before anything is locked.
AllowStart(p, k) ==
    /\ pc[p] = "idle"
    /\ Limit[k] > 0 /\ Window[k] > 0
    /\ Goto(p, "lookup")
    /\ key' = [key EXCEPT ![p] = k]
    /\ now' = [now EXCEPT ![p] = clock]
    /\ reply' = [reply EXCEPT ![p] = "none"]
    /\ UNCHANGED <<clock, data, times, tl, granted>>

\* getTimeline, lines 37-39: only a timeline that exists is returned at once.
AfterLookupUnchecked(p) == "commit"
AfterLookup(p) == IF data[key[p]] = Nil THEN "create" ELSE "commit"

\* getTimeline, lines 34-39: look the key up under the read lock.
LookupTimeline(p) ==
    /\ pc[p] = "lookup"
    /\ tl' = [tl EXCEPT ![p] = data[key[p]]]
    /\ Goto(p, AfterLookup(p))
    /\ UNCHANGED <<clock, data, times, key, now, reply, granted>>

\* getTimeline, lines 44-48: the timeline to install, after looking again.
CreatedUnchecked(p) == p
Created(p) == IF data[key[p]] = Nil THEN p ELSE data[key[p]]

\* getTimeline, lines 41-48: allocate the timeline under the write lock.
CreateTimeline(p) ==
    /\ pc[p] = "create"
    /\ data' = [data EXCEPT ![key[p]] = Created(p)]
    /\ tl' = [tl EXCEPT ![p] = Created(p)]
    /\ Goto(p, "commit")
    /\ UNCHANGED <<clock, times, key, now, reply, granted>>

\* Lines 69-75: the loop over a timeline ts stops after i entries.
PruneTooMuch(ts, cut, i) ==
    /\ \A j \in 1..i : ts[j] <= cut + 1
    /\ i < Len(ts) => ts[i + 1] > cut + 1
PruneBlindly(ts, cut, i) == i = 0
Prune(ts, cut, i) ==
    /\ \A j \in 1..i : ts[j] <= cut
    /\ i < Len(ts) => ts[i + 1] > cut

\* Line 78: whether a timeline with n live entries has room for one more.
OneTooMany(k, n) == n <= Limit[k]
HasRoom(k, n) == n < Limit[k]

\* Lines 63-84, one critical section of the timeline's mutex: drop the expired
\* entries, then record the attempt if there is room for it.
AllowCommit(p) ==
    LET k == key[p]
        ts == times[k][tl[p]]
    IN  /\ pc[p] = "commit"
        /\ \E i \in 0..Len(ts) :
              LET live == SubSeq(ts, i + 1, Len(ts))
              IN  /\ Prune(ts, now[p] - Window[k], i)
                  /\ \/ /\ HasRoom(k, Len(live))
                        /\ times' = [times EXCEPT ![k][tl[p]] = Append(live, now[p])]
                        /\ granted' = [granted EXCEPT ![k] = Append(@, now[p])]
                        /\ Return(p, "ok")
                     \/ /\ ~HasRoom(k, Len(live))
                        /\ times' = [times EXCEPT ![k][tl[p]] = live]
                        /\ Return(p, "refused")
                        /\ UNCHANGED granted
        /\ UNCHANGED <<clock, data>>

(***************************************************************************)
(* Reset, lines 88-100.                                                    *)
(***************************************************************************)
\* Lines 89-94: a key without a timeline has nothing to reset.
ResetNothing(p, k) ==
    /\ pc[p] = "idle"
    /\ data[k] = Nil
    /\ Return(p, "none")
    /\ UNCHANGED <<clock, data, times, granted>>

\* Lines 89-91: look the timeline up under the read lock.
ResetStart(p, k) ==
    /\ pc[p] = "idle"
    /\ data[k] # Nil
    /\ Goto(p, "reset")
    /\ key' = [key EXCEPT ![p] = k]
    /\ tl' = [tl EXCEPT ![p] = data[k]]
    /\ reply' = [reply EXCEPT ![p] = "none"]
    /\ UNCHANGED <<clock, data, times, now, granted>>

\* Lines 96-98: empty it under its own mutex.
ResetCommit(p) ==
    /\ pc[p] = "reset"
    /\ times' = [times EXCEPT ![key[p]][tl[p]] = <<>>]
    /\ granted' = [granted EXCEPT ![key[p]] = <<>>]
    /\ Return(p, "none")
    /\ UNCHANGED <<clock, data>>

-----------------------------------------------------------------------------
Tick ==
    /\ clock < MaxTime
    /\ clock' = clock + 1
    /\ UNCHANGED <<data, times, pc, key, now, tl, reply, granted>>

Step(p) ==
    \/ \E k \in Keys : AllowTrivially(p, k)
    \/ \E k \in Keys : AllowStart(p, k)
    \/ LookupTimeline(p)
    \/ CreateTimeline(p)
    \/ AllowCommit(p)
    \/ \E k \in Keys : ResetNothing(p, k)
    \/ \E k \in Keys : ResetStart(p, k)
    \/ ResetCommit(p)

Next == Tick \/ \E p \in Procs : Step(p)

Spec == Init /\ [][Next]_vars

-----------------------------------------------------------------------------
(***************************************************************************)
(* Properties.                                                             *)
(***************************************************************************)
\* The grants on k that were begun less than Window[k] before time t.
Recent(k, t) == {i \in 1..Len(granted[k]) : granted[k][i] > t - Window[k]}

\* The double check in getTimeline: every goroutine that is about to touch the
\* timeline of a key holds THE timeline of that key, never one that another
\* goroutine's insertion has replaced (its grants would not be counted).
SingleTimeline ==
    \A p \in Procs : pc[p] \in {"commit", "reset"} => tl[p] = data[key[p]]

\* The limiter's purpose: at every moment, at most Limit[k] of the attempts on
\* k begun during the last window have been granted, however the goroutines
\* that read their clock early are delayed before they get the lock.
WindowBound ==
    \A k \in Keys : Limit[k] > 0 =>
        Cardinality(Recent(k, clock)) <= Limit[k]

\* What is kept in memory for a key, after any sequence of calls: one timeline,
\* never longer than the limit although an old entry that stands behind a younger
\* one is not pruned; a timeline that lost the insertion holds nothing.
TimelineBound ==
    \A k \in Keys, p \in Procs : times[k][p] # <<>> =>
        p = data[k] /\ Len(times[k][p]) <= Limit[k]

\* The grants on k were recorded in the order in which they were begun.
InOrder(k) ==
    \A i, j \in 1..Len(granted[k]) : i <= j => granted[k][i] <= granted[k][j]

Refuses(p) == pc[p] = "commit" /\ pc'[p] = "idle" /\ reply'[p] = "refused"

\* Nobody is refused for what is long over: Allow refuses only while some grant
\* is younger than the window; and when no goroutine overtook another on that
\* key, only while the window really is full.
RefusalJustified ==
    [][\A p \in Procs : Refuses(p) =>
          /\ Recent(key[p], now[p]) # {}
          /\ InOrder(key[p]) =>
                Cardinality(Recent(key[p], now[p])) >= Limit[key[p]]]_vars

\* The store keeps the promise of its port: every step is a step of
\* LimiterRepo (a grant within the limit, a reset, a tick) or invisible there.
Port == INSTANCE LimiterRepo
ImplementsPort == Port!Spec
=============================================================================
