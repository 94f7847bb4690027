-------------------------- MODULE AdminCallProofs --------------------------
(***************************************************************************)
(* AdminCall, for any callers, ids, log levels and number of resends: what *)
(* a command did when its exit code is there, and what the log says of it. *)
(***************************************************************************)
EXTENDS AdminCall, TLAPS

\* What the server did for a call follows from where the call is.
Effect(c) ==
    /\ rpc[c] \in {"none", "flying", "received", "tagged"} => carried[c] = <<>>
    /\ rpc[c] \in {"handled", "over"} =>
          /\ carried[c] \in {<<>>, <<cmd[c]>>}
          /\ result[c] \in Codes
          /\ result[c] = "ok" => carried[c] = <<cmd[c]>>
    /\ rpc[c] = "rejected" => carried[c] = <<>> /\ result[c] = "error"

\* What abfctl knows follows from where the command is.
Known(c) ==
    /\ pc[c] \in {"new", "dialled"} => rpc[c] = "none" /\ carried[c] = <<>>
    /\ pc[c] # "over" => exit[c] = "none"
    /\ exit[c] = "0" => rpc[c] = "over" /\ result[c] = "ok"

Written(c) ==
    rpc[c] = "over" =>
        \/ [id |-> rid[c], code |-> result[c]] \in log
        \/ result[c] = "ok" /\ level \in {"warn", "warning", "error"}

CallInv(c) == Effect(c) /\ Known(c) /\ Written(c)

IInv == TypeOK /\ \A c \in Callers : CallInv(c)

-----------------------------------------------------------------------------
\* Each command of abfctl reaches, through the functions of root.go, the client
\* library and the service description, the handler that carries out that command.
LEMMA RightHandler == \A k \in Commands : Serves[Method(k)] = k
<1>1. ASSUME NEW k \in Commands PROVE Serves[Method(k)] = k
  <2>1. CASE k = Check
    BY <2>1 DEF Method, Serves
  <2>2. CASE k = Reset
    BY <2>2 DEF Method, Serves, Check, Reset
  <2>3. CASE k = <<"whitelist", "add">>
    BY <2>3 DEF Method, ListMethod, Serves, Check, Reset
  <2>4. CASE k = <<"whitelist", "remove">>
    BY <2>4 DEF Method, ListMethod, Serves, Check, Reset
  <2>5. CASE k = <<"blacklist", "add">>
    BY <2>5 DEF Method, ListMethod, Serves, Check, Reset
  <2>6. CASE k = <<"blacklist", "remove">>
    BY <2>6 DEF Method, ListMethod, Serves, Check, Reset
  <2>7. QED
    BY <1>1, <2>1, <2>2, <2>3, <2>4, <2>5, <2>6 DEF Commands
<1>2. QED
  BY <1>1

\* A code that is not logged is a success, and the level is above info.
LEMMA NotLogged ==
    ASSUME NEW code \in Codes, ~Logged(code)
    PROVE code = "ok" /\ level \in {"warn", "warning", "error"}
  BY DEF Logged, ParseLevel, Codes

\* Every step of the server leaves an id and a code of the right kind.
LEMMA IdType == ASSUME NEW c \in Callers, TypeOK PROVE RequestID(c) \in Ids /\ RequestID(c) # NoId
  BY IdsAssumption DEF TypeOK, RequestID, Ids

-----------------------------------------------------------------------------
(***************************************************************************)
(* What a step of one caller's call leaves alone of the others.            *)
(***************************************************************************)
Same(d) ==
    /\ pc'[d] = pc[d] /\ cmd'[d] = cmd[d] /\ rpc'[d] = rpc[d] /\ rid'[d] = rid[d]
    /\ carried'[d] = carried[d] /\ result'[d] = result[d] /\ exit'[d] = exit[d]

Step(c) == Command(c) \/ Serve(c) \/ Resend(c) \/ ConnectionLost(c)

\* A step of one command does nothing to another, but adds lines to the log.
LEMMA OthersSame ==
    ASSUME NEW c \in Callers, TypeOK, Step(c)
    PROVE /\ \A d \in Callers \ {c} : Same(d)
          /\ log \subseteq log' /\ level' = level
<1>1. CASE Command(c)
  BY <1>1 DEF TypeOK, Command, PreRun, FlagMissing, RunE, Invoke, Unreachable, Replied, Over,
     Same, server
<1>2. CASE Serve(c)
  BY <1>2 DEF TypeOK, Serve, Receive, Tag, Handle, Log, Same
<1>3. CASE Resend(c) \/ ConnectionLost(c)
  BY <1>3 DEF TypeOK, Resend, ConnectionLost, Over, Same
<1>4. QED
  BY <1>1, <1>2, <1>3 DEF Step

\* What is untouched keeps its part of the invariant.
LEMMA SameKeeps ==
    ASSUME NEW d \in Callers, CallInv(d), Same(d), log \subseteq log', level' = level
    PROVE CallInv(d)'
  BY DEF CallInv, Effect, Known, Written, Same

\* The step of a command keeps its own part of the invariant.
LEMMA OwnStep ==
    ASSUME NEW c \in Callers, TypeOK, CallInv(c), Step(c)
    PROVE CallInv(c)'
<1>1. CASE PreRun(c) \/ FlagMissing(c)
  BY <1>1 DEF TypeOK, CallInv, Effect, Known, Written, PreRun, FlagMissing, Over, server
<1>2. CASE RunE(c)
  BY <1>2 DEF TypeOK, CallInv, Effect, Known, Written, RunE, Invoke
<1>3. CASE Unreachable(c) \/ ConnectionLost(c)
  BY <1>3 DEF TypeOK, CallInv, Effect, Known, Written, Unreachable, ConnectionLost, Unseen, Over
<1>4. CASE Resend(c)
  BY <1>4 DEF TypeOK, CallInv, Effect, Known, Written, Resend, Unseen
<1>5. CASE Replied(c)
  BY <1>5 DEF TypeOK, CallInv, Effect, Known, Written, Replied, Over, server
<1>6. CASE Receive(c) \/ Tag(c)
  BY <1>6 DEF TypeOK, CallInv, Effect, Known, Written, Receive, Tag
<1>7. CASE Handle(c)
  <2>1. cmd[c] \in Commands /\ carried[c] = <<>>
    BY <1>7 DEF TypeOK, CallInv, Effect, Handle
  <2>2. Append(carried[c], Serves[Method(cmd[c])]) = <<cmd[c]>>
    BY <2>1, RightHandler
  <2>3. /\ rpc'[c] = "handled" /\ pc'[c] = pc[c] /\ exit'[c] = exit[c] /\ cmd'[c] = cmd[c]
        /\ \/ carried'[c] = <<cmd[c]>> /\ result'[c] \in Codes
           \/ carried'[c] = <<>> /\ result'[c] = "error"
    BY <1>7, <2>1, <2>2 DEF TypeOK, Handle, Codes
  <2>4. rpc[c] = "tagged" /\ exit[c] # "0" /\ pc[c] \notin {"new", "dialled"}
    BY <1>7 DEF Handle, CallInv, Known
  <2>5. QED
    BY <2>3, <2>4 DEF CallInv, Effect, Known, Written, Codes
<1>8. CASE Log(c)
  <2>1. /\ rpc[c] = "handled" /\ rpc'[c] = "over" /\ result[c] \in Codes
        /\ pc'[c] = pc[c] /\ exit'[c] = exit[c] /\ cmd'[c] = cmd[c] /\ carried'[c] = carried[c]
        /\ result'[c] = result[c] /\ rid'[c] = rid[c] /\ level' = level
    BY <1>8 DEF TypeOK, Log, CallInv, Effect
  <2>2. LogId(c) = rid[c]
    BY DEF LogId, Chain
  <2>3. Written(c)'
    <3>1. CASE Logged(result[c])
      BY <1>8, <2>1, <2>2, <3>1 DEF Log, Written
    <3>2. CASE ~Logged(result[c])
      BY <2>1, <3>2, NotLogged DEF Written
    <3>3. QED
      BY <3>1, <3>2
  <2>4. QED
    BY <2>1, <2>3 DEF CallInv, Effect, Known
<1>9. QED
  BY <1>1, <1>2, <1>3, <1>4, <1>5, <1>6, <1>7, <1>8 DEF Step, Command, Serve

\* The types are kept; a call that has passed the first interceptor has an id.
LEMMA TypeStep ==
    ASSUME NEW c \in Callers, TypeOK, CallInv(c), Step(c)
    PROVE TypeOK'
<1>1. CASE PreRun(c) \/ FlagMissing(c) \/ RunE(c)
  <2>1. CASE PreRun(c)
    BY <2>1 DEF TypeOK, CallInv, Known, PreRun, Over, server
  <2>2. CASE FlagMissing(c)
    BY <2>2 DEF TypeOK, CallInv, Known, FlagMissing, Over, server
  <2>3. CASE RunE(c)
    BY <2>3 DEF TypeOK, CallInv, Known, RunE, Invoke, Over, server
  <2> QED
    BY <1>1, <2>1, <2>2, <2>3
<1>2. CASE Unreachable(c) \/ ConnectionLost(c) \/ Replied(c)
  <2>1. CASE Unreachable(c)
    BY <2>1 DEF TypeOK, Unreachable, Unseen, Over, server
  <2>2. CASE ConnectionLost(c)
    BY <2>2 DEF TypeOK, ConnectionLost, Unseen, Over, server
  <2>3. CASE Replied(c)
    BY <2>3 DEF TypeOK, Replied, Over, server
  <2> QED
    BY <1>2, <2>1, <2>2, <2>3
<1>3. CASE Resend(c)
  BY <1>3, ResendsAssumption DEF TypeOK, Resend
<1>4. CASE Receive(c)
  <2>1. /\ rpc' = [rpc EXCEPT ![c] = "received"] \/ rpc' = [rpc EXCEPT ![c] = "rejected"]
        /\ result' = result \/ result' = [result EXCEPT ![c] = "error"]
        /\ UNCHANGED <<level, reachable, pc, cmd, xid, resends, rid, carried, log, exit>>
    BY <1>4 DEF Receive
  <2>2. result' \in [Callers -> Codes \cup {"none"}]
    BY <2>1 DEF TypeOK, Codes
  <2>3. /\ rpc' \in [Callers ->
               {"none", "flying", "received", "tagged", "handled", "over", "rejected"}]
        /\ \A d \in Callers : rpc'[d] \in {"tagged", "handled", "over"} => rid'[d] # NoId
    BY <2>1 DEF TypeOK
  <2> QED
    BY <2>1, <2>2, <2>3 DEF TypeOK
<1>5. CASE Tag(c)
  BY <1>5, IdType DEF TypeOK, Tag
<1>6. CASE Handle(c)
  <2>1. Append(carried[c], Serves[Method(cmd[c])]) \in Seq(Commands)
    BY RightHandler DEF TypeOK
  <2>2. QED
    BY <1>6, <2>1 DEF TypeOK, Handle, Codes
<1>7. CASE Log(c)
  <2>1. result[c] \in Codes /\ LogId(c) \in Ids
    BY <1>7 DEF TypeOK, Log, CallInv, Effect, LogId, Ids
  <2>2. [id |-> LogId(c), code |-> result[c]] \in [id : Ids, code : Codes]
    BY <2>1
  <2>3. log' \subseteq [id : Ids, code : Codes]
    BY <1>7, <2>2 DEF TypeOK, Log
  <2>4. QED
    BY <1>7, <2>3 DEF TypeOK, Log
<1>8. QED
  BY <1>1, <1>2, <1>3, <1>4, <1>5, <1>6, <1>7 DEF Step, Command, Serve

-----------------------------------------------------------------------------
\* The invariant holds at the start and is kept by every step of every caller.
LEMMA Invariance == Spec => []IInv
<1>1. Init => IInv
  <2>1. Check \in Commands
    BY DEF Commands
  <2>2. <<>> \in Seq(Commands)
    OBVIOUS
  <2>3. Init => TypeOK
    BY <2>1, <2>2, ResendsAssumption DEF Init, TypeOK, Ids
  <2>4. Init => \A c \in Callers : CallInv(c)
    BY DEF Init, CallInv, Effect, Known, Written
  <2>5. QED
    BY <2>3, <2>4 DEF IInv
<1>2. IInv /\ [Next]_vars => IInv'
  <2>1. SUFFICES ASSUME IInv, [Next]_vars PROVE IInv'
    OBVIOUS
  <2>2. CASE UNCHANGED vars
    BY <2>1, <2>2 DEF vars, server, IInv, TypeOK, CallInv, Effect, Known, Written
  <2>3. CASE Next
    <3>1. PICK c \in Callers : Step(c)
      BY <2>3 DEF Next, Step
    <3>2. TypeOK'
      BY <2>1, <3>1, TypeStep DEF IInv
    <3>3. ASSUME NEW d \in Callers PROVE CallInv(d)'
      BY <2>1, <3>1, <3>3, OwnStep, OthersSame, SameKeeps DEF IInv
    <3>4. QED
      BY <3>2, <3>3 DEF IInv
  <2>4. QED
    BY <2>1, <2>2, <2>3
<1>3. QED
  BY <1>1, <1>2, PTL DEF Spec

\* Exit code 0 means that exactly the command that was typed was carried out; with
\* any other outcome it was carried out or not, and never another one.
THEOREM CommandEffectHolds == Spec => []CommandEffect
<1>1. IInv => CommandEffect
  BY DEF IInv, TypeOK, CallInv, Effect, Known, CommandEffect
<1>2. QED
  BY <1>1, Invariance, PTL

\* The server's log names every call that reached the interceptors by the id of its
\* reply, with its code, but for successes at a level above info.
THEOREM TraceableHolds == Spec => []Traceable
<1>1. IInv => Traceable
  BY DEF IInv, CallInv, Written, Traceable
<1>2. QED
  BY <1>1, Invariance, PTL

\* The types are kept; from the first interceptor on, a call has an id that is
\* not empty, whatever the caller sent.
THEOREM TypeCorrect == Spec => []TypeOK
<1>1. IInv => TypeOK
  BY DEF IInv
<1>2. QED
  BY <1>1, Invariance, PTL
=============================================================================
