---------------------------- MODULE RateLimiter ----------------------------
(***************************************************************************)
(* A CheckAttempt and a ResetBucket call from the gRPC handler down to the *)
(* bucket store: Server (delivery/grpc/server.go), RateLimiterService      *)
(* (app/ratelimit_service.go), LimitChecker and Limiter (domain/ratelimit),*)
(* on top of any store that keeps the promise of ports.LimiterRepo         *)
(* (module LimiterRepo); what it refuses is its own affair.                *)
(*                                                                         *)
(* A call asks the store three times, for the login, the password and the  *)
(* address, and other calls come in between; the store may fail each time. *)
(* What the policer decides for an address is given by Policy.             *)
(***************************************************************************)
EXTENDS Integers, Sequences, FiniteSets

CONSTANTS
    Procs,       \* goroutines serving calls
    Logins,
    Passwords,   \* stand for their hashes as well: SHA-256 is one-to-one here;
                 \* the empty string is one like any other to the code
    Ips,         \* addresses that net.ParseIP accepts
    BadIps,      \* strings it does not accept
    Policy,      \* Policy[ip]: SubnetPolicer.Check, see SubnetRules; what does
                 \* not parse is a nil address, which is on no list
    LimitOf,     \* LimitOf[lt]: the configured limit of a limit type
    CfgWindow,   \* the configured window, one for all limit types
    MaxTime,     \* bound of the model on the clock
    MaxGrants,   \* bound of the model: no check begins on a key with more grants
    Nil          \* no request

LimitTypes == {"login", "password", "ip"}
Keys == ({"login"} \X Logins) \cup ({"password"} \X Passwords) \cup ({"ip"} \X Ips)
Requests == [login : Logins, password : Passwords, ip : Ips \cup BadIps]

ASSUME RulesAssumption ==
    LimitOf \in [LimitTypes -> Nat] /\ CfgWindow \in Nat
ASSUME PolicyAssumption ==
    Policy \in [Ips \cup BadIps -> {"allow", "deny", "continue"}]
ASSUME BoundsAssumption == MaxTime \in Nat /\ MaxGrants \in Nat

VARIABLES
    clock,     \* the store's clock
    granted,   \* the store's grants, see LimiterRepo
    op,        \* what each goroutine is doing
    req,       \* the request it is serving
    todo,      \* the keys it has not asked the store for yet
    reply,     \* what its last call returned
    begun,     \* history: when the check began
    amnesty,   \* history: keys reset after the check was charged for them
    passed     \* history: begin times of the checks that a key's limit let pass

calls == <<op, req, todo, reply, begun, amnesty>>
vars == <<clock, granted, calls, passed>>

Limit == [k \in Keys |-> LimitOf[k[1]]]
Window == [k \in Keys |-> CfgWindow]

Store == INSTANCE LimiterRepo

\* Limiter.key and hashPassword: the keys of a request, in the order of Check
\* and Reset.  Login, password and address never share a bucket.
KeysOf(r) == <<<<"login", r.login>>, <<"password", r.password>>, <<"ip", r.ip>>>>
KeySet(r) == {KeysOf(r)[n] : n \in 1..3}

\* The keys a call has still to ask for.
Pending(q) == {todo[q][n] : n \in 1..Len(todo[q])}

TypeOK ==
    /\ clock \in 0..MaxTime
    /\ granted \in [Keys -> Seq(0..MaxTime)]
    /\ op \in [Procs -> {"idle", "check", "reset"}]
    /\ req \in [Procs -> Requests \cup {Nil}]
    /\ todo \in [Procs -> Seq(Keys)]
    /\ \A p \in Procs : Len(todo[p]) <= 3
    /\ reply \in [Procs -> {"none", "ok", "refused", "error"}]
    /\ begun \in [Procs -> 0..MaxTime]
    /\ amnesty \in [Procs -> SUBSET Keys]
    /\ passed \in [Keys -> Seq(0..MaxTime)]
    /\ \A p \in Procs : (op[p] = "idle") <=> (todo[p] = <<>>)

Init ==
    /\ Store!Init
    /\ op = [p \in Procs |-> "idle"]
    /\ req = [p \in Procs |-> Nil]
    /\ todo = [p \in Procs |-> <<>>]
    /\ reply = [p \in Procs |-> "none"]
    /\ begun = [p \in Procs |-> 0]
    /\ amnesty = [p \in Procs |-> {}]
    /\ passed = [k \in Keys |-> <<>>]

-----------------------------------------------------------------------------
\* A call that never reaches the store.
ReplyAtOnce(p, answer) ==
    /\ op[p] = "idle"
    /\ reply' = [reply EXCEPT ![p] = answer]
    /\ UNCHANGED <<clock, granted, op, req, todo, begun, amnesty, passed>>

\* A call goes to the store for the keys of r.
Begin(p, r, what) ==
    /\ op[p] = "idle"
    /\ op' = [op EXCEPT ![p] = what]
    /\ req' = [req EXCEPT ![p] = r]
    /\ todo' = [todo EXCEPT ![p] = KeysOf(r)]
    /\ reply' = [reply EXCEPT ![p] = "none"]
    /\ begun' = [begun EXCEPT ![p] = clock]
    /\ amnesty' = [amnesty EXCEPT ![p] = {}]
    /\ UNCHANGED <<clock, granted, passed>>

Return(p, answer) ==
    /\ op' = [op EXCEPT ![p] = "idle"]
    /\ todo' = [todo EXCEPT ![p] = <<>>]
    /\ reply' = [reply EXCEPT ![p] = answer]
    /\ req' = [req EXCEPT ![p] = Nil]
    /\ begun' = [begun EXCEPT ![p] = 0]

\* The keys left after the first one has been dealt with.
SkipSecond(ks) == IF Len(ks) = 3 THEN <<ks[3]>> ELSE Tail(ks)
Remaining(ks) == Tail(ks)

\* The step for the first key went well: the next one, or the answer ok.
Continue(p) ==
    IF Remaining(todo[p]) = <<>> THEN Return(p, "ok")
    ELSE /\ todo' = [todo EXCEPT ![p] = Remaining(@)]
         /\ UNCHANGED <<op, req, reply, begun>>

\* The handlers' net.ParseIP.
ParsesAnything(ip) == TRUE
Parses(ip) == ip \in Ips

(***************************************************************************)
(* CheckAttempt: the handler, RateLimiterService.Check.                    *)
(***************************************************************************)
CheckAttempt(p, r) ==
    \/ ~Parses(r.ip) /\ ReplyAtOnce(p, "error")
    \/ Parses(r.ip) /\ Policy[r.ip] = "deny" /\ ReplyAtOnce(p, "refused")
    \/ Parses(r.ip) /\ Policy[r.ip] = "allow" /\ ReplyAtOnce(p, "ok")
    \/ /\ Parses(r.ip) /\ Policy[r.ip] = "continue"
       /\ \A k \in KeySet(r) \cap Keys : Len(granted[k]) < MaxGrants
       /\ Begin(p, r, "check")

\* The store counts an attempt on k, under the time it read at some moment of its
\* Allow: at the start of it in both stores, so after the check began and, when
\* other calls come in between, before the attempt is counted.
Charge(p, k) ==
    /\ Store!Grant(k)
    /\ granted'[k][Len(granted'[k])] >= begun[p]

\* LimitChecker.Allow says yes; after the third one the check has passed.
AllowYes(p) ==
    LET k == Head(todo[p])
    IN  /\ op[p] = "check"
        /\ Charge(p, k)
        /\ Continue(p)
        /\ amnesty' = [amnesty EXCEPT ![p] = IF op'[p] = "check" THEN @ ELSE {}]
        /\ passed' = IF op'[p] = "check" THEN passed
                     ELSE [j \in Keys |->
                             IF j \in KeySet(req[p]) \ amnesty[p]
                             THEN Append(passed[j], begun[p]) ELSE passed[j]]

\* It says no: the check is refused, the remaining keys are not asked.
AllowNo(p) ==
    /\ op[p] = "check"
    /\ Return(p, "refused")
    /\ amnesty' = [amnesty EXCEPT ![p] = {}]
    /\ UNCHANGED <<clock, granted, passed>>

\* The store fails, before or after it counted the attempt.
AllowFails(p) ==
    /\ op[p] = "check"
    /\ Charge(p, Head(todo[p])) \/ UNCHANGED <<clock, granted>>
    /\ Return(p, "error")
    /\ amnesty' = [amnesty EXCEPT ![p] = {}]
    /\ UNCHANGED passed

(***************************************************************************)
(* ResetBucket: the handler, RateLimiterService.Reset.  The client  *)
(* library leaves the password empty, abfclient.ResetBucket.               *)
(***************************************************************************)
ResetBucket(p, r) ==
    \/ ~Parses(r.ip) /\ ReplyAtOnce(p, "error")
    \/ Parses(r.ip) /\ Begin(p, r, "reset")

\* The store forgets the grants on k, the one it gave a running check included.
Forget(p, k) ==
    /\ Store!Reset(k)
    /\ passed' = [passed EXCEPT ![k] = <<>>]
    /\ amnesty' = [q \in Procs |->
                     IF op[q] = "check" /\ k \in KeySet(req[q]) \ Pending(q)
                     THEN amnesty[q] \cup {k} ELSE amnesty[q]]

ResetOne(p) ==
    /\ op[p] = "reset"
    /\ Forget(p, Head(todo[p]))
    /\ Continue(p)

\* The store fails: the remaining keys are left as they are.
ResetFails(p) ==
    /\ op[p] = "reset"
    /\ \/ Forget(p, Head(todo[p]))
       \/ UNCHANGED <<clock, granted, amnesty, passed>>
    /\ Return(p, "error")

Tick ==
    /\ clock < MaxTime
    /\ Store!Tick
    /\ UNCHANGED <<calls, passed>>

Serve(p) ==
    \/ \E r \in Requests : CheckAttempt(p, r) \/ ResetBucket(p, r)
    \/ AllowYes(p) \/ AllowNo(p) \/ AllowFails(p)
    \/ ResetOne(p) \/ ResetFails(p)

Next == Tick \/ \E p \in Procs : Serve(p)

Spec == Init /\ [][Next]_vars

-----------------------------------------------------------------------------
(***************************************************************************)
(* Properties.                                                             *)
(***************************************************************************)
\* No way around a limit: of the checks that were let through by the limits
\* and begun during the last window, at most N name the same login, M the same
\* password, K the same address, unless that bucket was reset after the check
\* was charged for it.
PassedWithinLimits ==
    \A k \in Keys :
        Cardinality({n \in 1..Len(passed[k]) : passed[k][n] > clock - Window[k]})
            <= Limit[k]
=============================================================================
