---------------------------- MODULE RedisBuckets ----------------------------
(***************************************************************************)
(* The Redis bucket store of the external work mode                        *)
(* (internal/storage/redisdb/buckets_repo.go): one sorted set per key,     *)
(* shared by all instances of the service.  An attempt is a member         *)
(* "<now>:<random>" with score <now>; the transaction adds it, drops what  *)
(* is a window older than it, counts the rest and renews the key's TTL.    *)
(*                                                                         *)
(* <now> is the clock of the instance, Skew[p] ahead of the slowest one    *)
(* (whose time is the variable clock).  The connection may fail before or  *)
(* after the transaction took effect, and the client library may send it   *)
(* again, with the same member.                                            *)
(***************************************************************************)
EXTENDS Integers, Sequences, FiniteSets

CONSTANTS
    Procs,      \* goroutines of all instances that call the store
    Keys,       \* bucket keys, prefixed with their limit type
    Limit,      \* Limit[k], Window[k]: the rule for k's type
    Window,
    Suffixes,   \* the random numbers
    Skew,       \* Skew[p]: how far the clock of p's instance is ahead
    MaxSkew,    \* the largest of these
    MaxResends, \* bound of the model: how often a transaction is sent again
    MaxGrants,  \* bound of the model: no call begins when a key has more grants
    MaxTime,    \* bound of the model on the clock
    Nil         \* no key

ASSUME RulesAssumption == Limit \in [Keys -> Int] /\ Window \in [Keys -> Int]
ASSUME SkewAssumption == MaxSkew \in Nat /\ Skew \in [Procs -> 0..MaxSkew]
ASSUME BoundsAssumption == {MaxResends, MaxGrants, MaxTime} \subseteq Nat
ASSUME NilAssumption == Nil \notin Keys

VARIABLES
    clock,     \* the slowest instance's clock, in milliseconds
    zset,      \* the sorted set of each key: its members <<score, suffix>>
    expires,   \* when the key's TTL ends
    pc,        \* where each call is
    key,       \* local: the key of the call
    member,    \* local: the member it adds, its score is the local now
    begun,     \* history: clock when the call began
    sends,     \* how often its transaction has been sent in vain
    granted,   \* history: begin times of the grants on a key since its Reset;
               \* of attempts that got the same member, the one answered first
    tickets    \* history: the members of these grants

vars == <<clock, zset, expires, pc, key, member, begun, sends, granted, tickets>>

NoMember == <<0, 0>>
Score(m) == m[1]
Members == Nat \X (Suffixes \cup {0})

TypeOK ==
    /\ clock \in 0..MaxTime
    /\ zset \in [Keys -> SUBSET Members]
    /\ expires \in [Keys -> Int]
    /\ pc \in [Procs -> {"idle", "sent"}]
    /\ key \in [Procs -> Keys \cup {Nil}]
    /\ member \in [Procs -> Members]
    /\ begun \in [Procs -> 0..MaxTime]
    /\ sends \in [Procs -> 0..MaxResends]
    /\ granted \in [Keys -> Seq(0..MaxTime)]
    /\ tickets \in [Keys -> Seq(Members)]
    /\ \A k \in Keys : Len(granted[k]) = Len(tickets[k])

Init ==
    /\ clock = 0
    /\ zset = [k \in Keys |-> {}]
    /\ expires = [k \in Keys |-> 0]
    /\ pc = [p \in Procs |-> "idle"]
    /\ key = [p \in Procs |-> Nil]
    /\ member = [p \in Procs |-> NoMember]
    /\ begun = [p \in Procs |-> 0]
    /\ sends = [p \in Procs |-> 0]
    /\ granted = [k \in Keys |-> <<>>]
    /\ tickets = [k \in Keys |-> <<>>]

-----------------------------------------------------------------------------
\* The grants on k that were begun less than w before now.
Recent(k, w) == {i \in 1..Len(granted[k]) : granted[k][i] > clock - w}

\* A grant of an attempt that shares its member with one already granted is not
\* counted: the set cannot tell the two apart.
Counted(k, m) == \A i \in 1..Len(tickets[k]) : tickets[k][i] # m

\* Line 43: time.Now() of the instance.
Now(p) == clock + Skew[p]

\* Lines 53-54: the member and its score carry the time of the attempt, not that
\* of the cut of line 57, which may be negative and is then below its range.
MemberOfCut(p, k, sfx) == <<Now(p) - Window[k], sfx>>
Member(p, k, sfx) == <<Now(p), sfx>>

\* Allow, lines 43-54: read the clock, draw the suffix, build the member.
AllowStart(p, k) ==
    /\ pc[p] = "idle"
    /\ Len(granted[k]) < MaxGrants
    /\ pc' = [pc EXCEPT ![p] = "sent"]
    /\ key' = [key EXCEPT ![p] = k]
    /\ \E sfx \in Suffixes : member' = [member EXCEPT ![p] = Member(p, k, sfx)]
    /\ begun' = [begun EXCEPT ![p] = clock]
    /\ UNCHANGED <<clock, zset, expires, sends, granted, tickets>>

\* Lines 54-57: ZADD, then ZREMRANGEBYSCORE key 0 now-window.
Live(k, m) == {e \in zset[k] \cup {m} : Score(e) \notin 0..(Score(m) - Window[k])}

\* Line 63: EXPIRE key 2*window, in Redis's own time; a TTL that is not positive
\* deletes the key at once.
TTLTooShort(k) == Window[k] \div 2
TTL(k) == 2 * Window[k]

\* Lines 54-65: the transaction takes effect in Redis.
Exec(k, m) ==
    /\ zset' = [zset EXCEPT ![k] = IF TTL(k) > 0 THEN Live(k, m) ELSE {}]
    /\ expires' = [expires EXCEPT ![k] = clock + TTL(k)]

\* The call returns; its locals die.
Return(p) ==
    /\ pc' = [pc EXCEPT ![p] = "idle"]
    /\ key' = [key EXCEPT ![p] = Nil]
    /\ member' = [member EXCEPT ![p] = NoMember]
    /\ begun' = [begun EXCEPT ![p] = 0]
    /\ sends' = [sends EXCEPT ![p] = 0]

\* Line 71: the count includes the attempt itself.
CountOffByOne(k, n) == n <= Limit[k] + 1
Admits(k, n) == n <= Limit[k]

\* Lines 65-71: the transaction is done and its answer arrives.
AllowAnswered(p) ==
    LET k == key[p]
        m == member[p]
    IN  /\ pc[p] = "sent"
        /\ Exec(k, m)
        /\ Return(p)
        /\ \/ /\ Admits(k, Cardinality(Live(k, m))) /\ Counted(k, m)
              /\ granted' = [granted EXCEPT ![k] = Append(@, begun[p])]
              /\ tickets' = [tickets EXCEPT ![k] = Append(@, m)]
           \/ /\ Admits(k, Cardinality(Live(k, m))) => ~Counted(k, m)
              /\ UNCHANGED <<granted, tickets>>
        /\ UNCHANGED clock

\* The connection breaks after the transaction took effect, or before, and the
\* client library sends it again.
AllowResend(p) ==
    /\ pc[p] = "sent"
    /\ sends[p] < MaxResends
    /\ sends' = [sends EXCEPT ![p] = @ + 1]
    /\ Exec(key[p], member[p]) \/ UNCHANGED <<zset, expires>>
    /\ UNCHANGED <<clock, pc, key, member, begun, granted, tickets>>

\* Lines 66-68: the client library gives up, or the call's context ends; the
\* transaction may have taken effect.
AllowError(p) ==
    /\ pc[p] = "sent"
    /\ Exec(key[p], member[p]) \/ UNCHANGED <<zset, expires>>
    /\ Return(p)
    /\ UNCHANGED <<clock, granted, tickets>>

\* Reset, lines 74-76: DEL key.
Reset(p, k) ==
    /\ pc[p] = "idle"
    /\ zset' = [zset EXCEPT ![k] = {}]
    /\ granted' = [granted EXCEPT ![k] = <<>>]
    /\ tickets' = [tickets EXCEPT ![k] = <<>>]
    /\ UNCHANGED <<clock, expires, pc, key, member, begun, sends>>

\* Time passes; Redis drops the keys whose TTL has ended.
Tick ==
    /\ clock < MaxTime
    /\ clock' = clock + 1
    /\ zset' = [k \in Keys |-> IF expires[k] <= clock + 1 THEN {} ELSE zset[k]]
    /\ UNCHANGED <<expires, pc, key, member, begun, sends, granted, tickets>>

Call(p) ==
    \/ \E k \in Keys : AllowStart(p, k)
    \/ AllowAnswered(p)
    \/ AllowResend(p)
    \/ AllowError(p)
    \/ \E k \in Keys : Reset(p, k)

Next == Tick \/ \E p \in Procs : Call(p)

Spec == Init /\ [][Next]_vars

-----------------------------------------------------------------------------
(***************************************************************************)
(* Properties.                                                             *)
(***************************************************************************)
\* The window that is left when the instances' clocks disagree.
CommonWindow(k) == Window[k] - MaxSkew

\* Nothing that still counts is forgotten: the member of a grant begun during
\* the last common window is in the sorted set, whatever the TTL, a slow or
\* repeated transaction and the clock of another instance did meanwhile.
RecentStored ==
    \A k \in Keys : \A i \in Recent(k, CommonWindow(k)) : tickets[k][i] \in zset[k]

\* The store keeps the promise of its port for the common window: grants within
\* the limit, resets, and time.  Attempts that share a member count once: that,
\* and the clocks' difference, is all by which it falls short of the port.
Port == INSTANCE LimiterRepo WITH Window <- [k \in Keys |-> CommonWindow(k)]
ImplementsPort == Port!Spec
=============================================================================
