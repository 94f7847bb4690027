----------------------------- MODULE AdminCall -----------------------------
(***************************************************************************)
(* One command of abfctl (cmd/abfctl) from its start to its exit code: the *)
(* client library (internal/abfclient) and the generated stubs, the        *)
(* network, the two interceptors of the server                             *)
(* (delivery/grpc/interceptors), the handler, the line in the server's log *)
(* (internal/logger), the reply.                                           *)
(*                                                                         *)
(* Several callers run at once, one command each.  What a handler does to  *)
(* the lists and buckets is the subject of the other modules; here it is   *)
(* the command that it carries out.  A generated request id is never used  *)
(* twice: it is the caller itself.                                         *)
(***************************************************************************)
EXTENDS Naturals, Sequences

CONSTANTS
    Callers,
    ClientIds,  \* ids a caller may send as x-request-id; abfctl sends none
    NoId,       \* no id, or the empty one
    Levels,     \* values of logger.level
    MaxResends  \* bound of the model: how often a call is sent again

ASSUME IdsAssumption == NoId \notin ClientIds \cup Callers
ASSUME ResendsAssumption == MaxResends \in Nat

VARIABLES
    level,      \* logger.level of the server
    reachable,  \* whether the address leads to the server
    pc,         \* where the command is
    cmd,        \* which one it is: a word and its subcommand
    xid,        \* the x-request-id sent with it
    resends,    \* how often its call was sent again
    rpc,        \* where its call is on the server
    rid,        \* the id in the call's context and in the reply's header
    carried,    \* history: what the handler carried out for it
    result,     \* how the handler ended
    log,        \* the lines of the server's log: id and code
    exit        \* the exit code of abfctl

server == <<rpc, rid, carried, result, log>>
vars == <<level, reachable, pc, cmd, xid, resends, server, exit>>

Check == <<"bucket", "check">>
Reset == <<"bucket", "reset">>
Commands == {Check, Reset} \cup ({"whitelist", "blacklist"} \X {"add", "remove"})

Codes == {"ok", "error"}
Ids == ClientIds \cup Callers \cup {NoId}

TypeOK ==
    /\ level \in Levels
    /\ reachable \in BOOLEAN
    /\ pc \in [Callers -> {"new", "dialled", "waiting", "over"}]
    /\ cmd \in [Callers -> Commands]
    /\ xid \in [Callers -> ClientIds \cup {NoId}]
    /\ resends \in [Callers -> 0..MaxResends]
    /\ rpc \in [Callers ->
                  {"none", "flying", "received", "tagged", "handled", "over", "rejected"}]
    /\ rid \in [Callers -> Ids]
    /\ \A c \in Callers : rpc[c] \in {"tagged", "handled", "over"} => rid[c] # NoId
    /\ carried \in [Callers -> Seq(Commands)]
    /\ result \in [Callers -> Codes \cup {"none"}]
    /\ log \subseteq [id : Ids, code : Codes]
    /\ exit \in [Callers -> {"none", "0", "1"}]

Init ==
    /\ level \in Levels
    /\ reachable \in BOOLEAN
    /\ pc = [c \in Callers |-> "new"]
    /\ cmd = [c \in Callers |-> Check]
    /\ xid = [c \in Callers |-> NoId]
    /\ resends = [c \in Callers |-> 0]
    /\ rpc = [c \in Callers |-> "none"]
    /\ rid = [c \in Callers |-> NoId]
    /\ carried = [c \in Callers |-> <<>>]
    /\ result = [c \in Callers |-> "none"]
    /\ log = {}
    /\ exit = [c \in Callers |-> "none"]

-----------------------------------------------------------------------------
(***************************************************************************)
(* abfctl and the client library.                                          *)
(***************************************************************************)
Over(c, code) ==
    /\ pc' = [pc EXCEPT ![c] = "over"]
    /\ exit' = [exit EXCEPT ![c] = code]

\* PersistentPreRunE: New makes the client, without connecting; only an address
\* it cannot parse is refused.
PreRun(c) ==
    /\ pc[c] = "new"
    /\ \/ /\ pc' = [pc EXCEPT ![c] = "dialled"]
          /\ \E k \in Commands : cmd' = [cmd EXCEPT ![c] = k]
          /\ UNCHANGED exit
       \/ /\ Over(c, "1")
          /\ UNCHANGED cmd
    /\ UNCHANGED <<level, reachable, xid, resends, server>>

\* cobra looks for the required flags after PersistentPreRunE.
FlagMissing(c) ==
    /\ pc[c] = "dialled"
    /\ Over(c, "1")
    /\ UNCHANGED <<level, reachable, cmd, xid, resends, server>>

\* The functions that root.go gives each of the two list commands.
ListMethodMixedUp(k) ==
    [whitelist |-> [add |-> "AddToWhitelist", remove |-> "RemoveFromWhitelist"],
     blacklist |-> [add |-> "AddToBlacklist", remove |-> "RemoveFromWhitelist"]][k[1]][k[2]]
ListMethod(k) ==
    [whitelist |-> [add |-> "AddToWhitelist", remove |-> "RemoveFromWhitelist"],
     blacklist |-> [add |-> "AddToBlacklist", remove |-> "RemoveFromBlacklist"]][k[1]][k[2]]

\* The call that RunE makes through the client library.
Method(k) ==
    CASE k = Check -> "CheckAttempt"
      [] k = Reset -> "ResetBucket"
      [] OTHER -> ListMethod(k)

\* The generated stub hands the call to the connection, without a deadline.
Invoke(c) ==
    /\ rpc' = [rpc EXCEPT ![c] = "flying"]
    /\ \E x \in ClientIds \cup {NoId} : xid' = [xid EXCEPT ![c] = x]

\* RunE makes the call and waits for its end.
RunE(c) ==
    /\ pc[c] = "dialled"
    /\ pc' = [pc EXCEPT ![c] = "waiting"]
    /\ Invoke(c)
    /\ UNCHANGED <<level, reachable, cmd, resends, rid, carried, result, log, exit>>

\* The address does not answer: a call that is not told to wait fails at once.
Unreachable(c) ==
    /\ pc[c] = "waiting" /\ rpc[c] = "flying" /\ ~reachable
    /\ Over(c, "1")
    /\ rpc' = [rpc EXCEPT ![c] = "none"]
    /\ UNCHANGED <<level, reachable, cmd, xid, resends, rid, carried, result, log>>

\* The connection breaks.  That grpc-go sends a call again by itself only when the
\* server has not seen it (transparent retry; the code configures no other) is an
\* assumption of this module; any other call ends with an error, and the server
\* goes on with it.
Unseen(c) == rpc[c] = "flying"

Resend(c) ==
    /\ pc[c] = "waiting" /\ reachable
    /\ Unseen(c)
    /\ resends[c] < MaxResends
    /\ resends' = [resends EXCEPT ![c] = @ + 1]
    /\ rpc' = [rpc EXCEPT ![c] = "flying"]
    /\ UNCHANGED <<level, reachable, pc, cmd, xid, rid, carried, result, log, exit>>

ConnectionLost(c) ==
    /\ pc[c] = "waiting" /\ reachable
    /\ Over(c, "1")
    /\ rpc' = [rpc EXCEPT ![c] = IF Unseen(c) THEN "none" ELSE @]
    /\ UNCHANGED <<level, reachable, cmd, xid, resends, rid, carried, result, log>>

\* The reply: RunE returns its error, or PersistentPostRunE closes the client.
Replied(c) ==
    /\ pc[c] = "waiting" /\ rpc[c] \in {"over", "rejected"}
    /\ Over(c, IF result[c] = "ok" THEN "0" ELSE "1")
    /\ UNCHANGED <<level, reachable, cmd, xid, resends, server>>

-----------------------------------------------------------------------------
(***************************************************************************)
(* The server.                                                             *)
(***************************************************************************)
\* The generated handler decodes the message and calls the interceptors; what it
\* cannot decode it answers with an error itself, past interceptors and log.
Receive(c) ==
    /\ rpc[c] = "flying" /\ reachable
    /\ \/ /\ rpc' = [rpc EXCEPT ![c] = "received"]
          /\ UNCHANGED result
       \/ /\ rpc' = [rpc EXCEPT ![c] = "rejected"]
          /\ result' = [result EXCEPT ![c] = "error"]
    /\ UNCHANGED <<level, reachable, pc, cmd, xid, resends, rid, carried, log, exit>>

\* UnaryRequestIDInterceptor: the caller's id or a new one, into the context
\* and the reply's header.
RequestIDAsSent(c) == xid[c]
RequestID(c) == IF xid[c] # NoId THEN xid[c] ELSE c
Tag(c) ==
    /\ rpc[c] = "received"
    /\ rpc' = [rpc EXCEPT ![c] = "tagged"]
    /\ rid' = [rid EXCEPT ![c] = RequestID(c)]
    /\ UNCHANGED <<level, reachable, pc, cmd, xid, resends, carried, result, log, exit>>

\* What each method of the service stands for.
Serves ==
    [CheckAttempt |-> Check, ResetBucket |-> Reset,
     AddToWhitelist |-> <<"whitelist", "add">>,
     RemoveFromWhitelist |-> <<"whitelist", "remove">>,
     AddToBlacklist |-> <<"blacklist", "add">>,
     RemoveFromBlacklist |-> <<"blacklist", "remove">>]

\* The handler carries it out, or fails before it did, or after.
Handle(c) ==
    /\ rpc[c] = "tagged"
    /\ rpc' = [rpc EXCEPT ![c] = "handled"]
    /\ \/ /\ carried' = [carried EXCEPT ![c] = Append(@, Serves[Method(cmd[c])])]
          /\ \E r \in Codes : result' = [result EXCEPT ![c] = r]
       \/ /\ result' = [result EXCEPT ![c] = "error"]
          /\ UNCHANGED carried
    /\ UNCHANGED <<level, reachable, pc, cmd, xid, resends, rid, log, exit>>

\* parseLevel: what is not known is info.
ParseLevel(s) ==
    CASE s = "debug" -> 0 [] s \in {"warn", "warning"} -> 2 [] s = "error" -> 3
      [] OTHER -> 1

\* UnaryLoggingInterceptor: a failed call is logged as an error, any other as info.
Logged(code) == ParseLevel(level) <= IF code = "error" THEN 3 ELSE 1

\* ChainUnaryInterceptor: the first one is the outermost, and only what it wraps
\* sees the context it makes.
ChainSwapped == <<"logging", "requestid">>
Chain == <<"requestid", "logging">>

\* withCtx: the line has the id that the logging interceptor's context holds.
LogId(c) == IF Chain[1] = "requestid" THEN rid[c] ELSE NoId

Log(c) ==
    /\ rpc[c] = "handled"
    /\ rpc' = [rpc EXCEPT ![c] = "over"]
    /\ log' = IF Logged(result[c])
              THEN log \cup {[id |-> LogId(c), code |-> result[c]]} ELSE log
    /\ UNCHANGED <<level, reachable, pc, cmd, xid, resends, rid, carried, result, exit>>

-----------------------------------------------------------------------------
Command(c) == PreRun(c) \/ FlagMissing(c) \/ RunE(c) \/ Unreachable(c) \/ Replied(c)

Serve(c) == Receive(c) \/ Tag(c) \/ Handle(c) \/ Log(c)

Next == \E c \in Callers : Command(c) \/ Serve(c) \/ Resend(c) \/ ConnectionLost(c)

Spec == Init /\ [][Next]_vars

-----------------------------------------------------------------------------
(***************************************************************************)
(* Properties.                                                             *)
(***************************************************************************)
\* Exit code 0 means that the server carried out exactly the command that was
\* typed; any other outcome leaves it carried out or not, and never something
\* else (a whitelist command on the blacklist).  That no call is carried out
\* twice is what Unseen assumes of grpc-go.
CommandEffect ==
    \A c \in Callers :
        /\ exit[c] = "0" => carried[c] = <<cmd[c]>>
        /\ carried[c] \in {<<>>, <<cmd[c]>>}

\* A call that reached the interceptors can be found in the server's log by the id
\* in its reply, with the same code, also when the reply was lost; only successes
\* are missing, and only at a level above info.
Traceable ==
    \A c \in Callers : rpc[c] = "over" =>
        \/ [id |-> rid[c], code |-> result[c]] \in log
        \/ result[c] = "ok" /\ level \in {"warn", "warning", "error"}
=============================================================================
