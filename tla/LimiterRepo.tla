---------------------------- MODULE LimiterRepo ----------------------------
(***************************************************************************)
(* The promise of the port ports.LimiterRepo (internal/ports/limit_repo.go *)
(* lines 8-14) to its callers, whatever storage stands behind it: Allow    *)
(* applies a sliding window to ONE key, Reset clears the window of a key.  *)
(*                                                                         *)
(* granted[k] lists the times at which the granted attempts on key k were  *)
(* begun, in the order the store granted them, since the last Reset of k.  *)
(* A refused attempt leaves no trace here: which attempts are refused is   *)
(* left to the storage, that too many are never granted is not.            *)
(***************************************************************************)
EXTENDS Integers, Sequences, FiniteSets

CONSTANTS
    Keys,      \* bucket keys: "login:<l>", "password:<hash>", "ip:<addr>"
    Limit,     \* Limit[k]: attempts allowed per window, Rule.Limit
    Window     \* Window[k]: length of the window, Rule.Window

VARIABLES
    clock,     \* the current time, in milliseconds
    granted

vars == <<clock, granted>>

\* The grants on k that were begun less than Window[k] before time t.
Recent(k, t) == {i \in 1..Len(granted[k]) : granted[k][i] > t - Window[k]}

Init ==
    /\ clock = 0
    /\ granted = [k \in Keys |-> <<>>]

\* Allow returns true for an attempt on k that was begun at some earlier time.
Grant(k) ==
    /\ Cardinality(Recent(k, clock)) < Limit[k]
    /\ \E begun \in 0..clock :
          granted' = [granted EXCEPT ![k] = Append(@, begun)]
    /\ UNCHANGED clock

\* Reset clears the window of k.
Reset(k) ==
    /\ granted' = [granted EXCEPT ![k] = <<>>]
    /\ UNCHANGED clock

Tick ==
    /\ clock' = clock + 1
    /\ UNCHANGED granted

Next == Tick \/ \E k \in Keys : Grant(k) \/ Reset(k)

Spec == Init /\ [][Next]_vars
=============================================================================
