------------------------------ MODULE Process ------------------------------
(***************************************************************************)
(* The life of one process of the service, main() and run() in             *)
(* cmd/anti-bruteforce/main.go: the configuration is loaded, the stores    *)
(* are opened, SIGTERM is caught from a certain point on, the lists are    *)
(* loaded, and then an errgroup runs three goroutines:                     *)
(*   shut   waits for the group's context, then stops the gRPC server,     *)
(*          gracefully for five seconds and by force after that;           *)
(*   sub    the subscriber of the external work mode;                      *)
(*   srv    grpc.Server.Serve.                                             *)
(* The group keeps the first error and cancels its context on it; the exit *)
(* code of the process comes from that error.                              *)
(***************************************************************************)
EXTENDS Naturals

CONSTANT Calls    \* gRPC calls that may arrive

VARIABLES
    stage,     \* where run() is
    mode,      \* cfg.Database.Workmode
    asked,     \* a caught SIGTERM: no, early (before Serve), or serving
    shut,      \* the three goroutines
    sub,
    srv,
    server,    \* the grpc.Server: open, draining, stopped
    err,       \* the errgroup's first error
    calls,     \* what became of each call
    code,      \* the exit code
    failed     \* history: something failed before, or only after, the signal

group == <<shut, sub, srv, server, err, calls>>
vars == <<stage, mode, asked, group, code, failed>>

Modes == {"local", "external"}
Stages == {"config", "log", "repo", "policer", "notify", "init", "subscriber",
           "listen", "group", "wait", "over"}
Errors == {"none", "canceled", "stopped", "accept", "reload"}

TypeOK ==
    /\ stage \in Stages
    /\ mode \in Modes
    /\ asked \in {"no", "early", "serving"}
    /\ shut \in {"off", "wait", "stop", "done"}
    /\ sub \in {"off", "run", "done"}
    /\ srv \in {"off", "begin", "refused", "serve", "done"}
    /\ server \in {"open", "draining", "stopped"}
    /\ err \in Errors
    /\ calls \in [Calls -> {"none", "running", "answered", "cut"}]
    /\ code \in {"none", "0", "1", "killed"}
    /\ failed \in {"no", "first", "later"}

Init ==
    /\ stage = "config"
    /\ mode = "local"
    /\ asked = "no"
    /\ shut = "off" /\ sub = "off" /\ srv = "off"
    /\ server = "open"
    /\ err = "none"
    /\ calls = [c \in Calls |-> "none"]
    /\ code = "none"
    /\ failed = "no"

-----------------------------------------------------------------------------
(***************************************************************************)
(* From main() to the errgroup, step by step; a step that fails makes      *)
(* run() return its error and main() exit with 1.                          *)
(***************************************************************************)
Failure == failed' = IF failed # "no" THEN failed
                     ELSE IF asked = "no" THEN "first" ELSE "later"

Exit(c) == stage' = "over" /\ code' = c

Advance(from, to) ==
    /\ stage = from
    /\ stage' = to
    /\ UNCHANGED <<mode, asked, group, code, failed>>

StartFails(from) ==
    /\ stage = from
    /\ Exit("1")
    /\ Failure
    /\ UNCHANGED <<mode, asked, group>>

\* A variable of the environment, else the file, else the default of
\* setDefaults; any word but "local" means external.
WorkmodeNoDefault(env, file) == IF env # "unset" THEN env ELSE file
Workmode(env, file) ==
    IF env # "unset" THEN env ELSE IF file # "unset" THEN file ELSE "local"

\* LoadConfig: the file is required, and may be missing or malformed.
LoadConfig ==
    \/ /\ stage = "config"
       /\ stage' = "log"
       /\ \E env, file \in Modes \cup {"unset"} : mode' = Workmode(env, file)
       /\ UNCHANGED <<asked, group, code, failed>>
    \/ StartFails("config")

\* The log goes to a file, which may not open, or to stdout.
OpenLog == Advance("log", "repo") \/ StartFails("log")

\* postgresdb.NewSubnetListDB opens and pings the database.
NewSubnetListDB ==
    \/ Advance("repo", "policer")
    \/ mode = "external" /\ StartFails("repo")

\* factory.NewClientPolicer pings Redis, for two seconds at most.
NewClientPolicer ==
    \/ Advance("policer", "notify")
    \/ mode = "external" /\ StartFails("policer")

\* signal.NotifyContext: from now on SIGTERM cancels the context.
NotifyContext == Advance("notify", "init")

\* RateLimiterService.Init loads the lists: the database refuses a context that
\* is cancelled, the memory repository never looks at it.
InitLists ==
    \/ /\ mode = "local" \/ asked = "no"
       /\ Advance("init", "subscriber")
    \/ mode = "external" /\ StartFails("init")

\* factory.NewClientSubscriber, with its own ping and its own context.
NewClientSubscriber ==
    \/ Advance("subscriber", "listen")
    \/ mode = "external" /\ StartFails("subscriber")

Listen == Advance("listen", "group") \/ StartFails("listen")

\* errgroup.WithContext and the calls of g.Go.
StartGroup ==
    /\ stage = "group"
    /\ stage' = "wait"
    /\ shut' = "wait"
    /\ sub' = IF mode = "external" THEN "run" ELSE "off"
    /\ srv' = "begin"
    /\ UNCHANGED <<mode, asked, server, err, calls, code, failed>>

\* SIGTERM or SIGINT.  Before NotifyContext the process dies of it; after it
\* only the first one means anything.
Signal ==
    /\ code = "none" /\ asked = "no"
    /\ \/ /\ stage \in {"config", "log", "repo", "policer", "notify"}
          /\ Exit("killed")
          /\ UNCHANGED asked
       \/ /\ stage \notin {"config", "log", "repo", "policer", "notify"}
          /\ asked' = IF srv \in {"off", "begin"} THEN "early" ELSE "serving"
          /\ UNCHANGED <<stage, code>>
    /\ UNCHANGED <<mode, group, failed>>

-----------------------------------------------------------------------------
(***************************************************************************)
(* The errgroup.                                                           *)
(***************************************************************************)
Running == stage = "wait"

\* The group's context: cancelled with its parent, or by the first error.
Cancelled == asked # "no" \/ err # "none"

\* A goroutine of the group returns e.
Report(e) == err' = IF err = "none" THEN e ELSE err

\* Serve on a server that has been told to stop returns ErrServerStopped.
ServeBegins ==
    /\ Running /\ srv = "begin"
    /\ \/ /\ server = "open"
          /\ srv' = "serve"
          /\ UNCHANGED err
       \/ /\ server # "open"
          /\ srv' = "refused"
          /\ Report("stopped")
    /\ UNCHANGED <<stage, mode, asked, shut, sub, server, calls, code, failed>>

\* Serve returns nil when GracefulStop or Stop is through.
ServeEnds ==
    /\ Running /\ srv = "serve" /\ server = "stopped"
    /\ srv' = "done"
    /\ UNCHANGED <<stage, mode, asked, shut, sub, server, err, calls, code, failed>>

\* The listener fails under Serve; connections it accepted live on.
AcceptFails ==
    /\ Running /\ srv = "serve" /\ server = "open"
    /\ srv' = "done"
    /\ Report("accept")
    /\ Failure
    /\ UNCHANGED <<stage, mode, asked, shut, sub, server, calls, code>>

\* The subscriber's select sees the context, which its error then is.
SubscriberStops ==
    /\ Running /\ sub = "run" /\ Cancelled
    /\ sub' = "done"
    /\ Report("canceled")
    /\ UNCHANGED <<stage, mode, asked, shut, srv, server, calls, code, failed>>

\* A message comes and its reload fails.
ReloadFails ==
    /\ Running /\ sub = "run"
    /\ sub' = "done"
    /\ Report("reload")
    /\ Failure
    /\ UNCHANGED <<stage, mode, asked, shut, srv, server, calls, code>>

\* <-ctx.Done(), then GracefulStop in a goroutine of its own.
ShutdownBegins ==
    /\ Running /\ shut = "wait" /\ Cancelled
    /\ shut' = "stop"
    /\ server' = "draining"
    /\ UNCHANGED <<stage, mode, asked, sub, srv, err, calls, code, failed>>

\* GracefulStop returns when the last call has been answered; none can come then.
Drained ==
    /\ Running /\ server = "draining"
    /\ \A c \in Calls : calls[c] # "running"
    /\ server' = "stopped"
    /\ UNCHANGED <<stage, mode, asked, shut, sub, srv, err, calls, code, failed>>

ShutdownEnds ==
    /\ Running /\ shut = "stop" /\ server = "stopped"
    /\ shut' = "done"
    /\ Report("canceled")
    /\ UNCHANGED <<stage, mode, asked, sub, srv, server, calls, code, failed>>

\* Five seconds have passed: Stop closes the connections of the calls that are
\* still running.  That it returns beside a GracefulStop that waits for them, and
\* without waiting for their handlers, is grpc-go's affair.
ForceStopNever == FALSE
ForceStop ==
    /\ Running /\ shut = "stop"
    /\ server' = "stopped"
    /\ calls' = [c \in Calls |-> IF calls[c] = "running" THEN "cut" ELSE calls[c]]
    /\ shut' = "done"
    /\ Report("canceled")
    /\ UNCHANGED <<stage, mode, asked, sub, srv, code, failed>>

\* g.Wait: the goroutines it waits for, and the code run()'s result leads to.
ServeReturned == srv \in {"refused", "done"}
ServeIsOver == ServeReturned /\ sub # "run"
AllDone == shut = "done" /\ ServeReturned /\ sub # "run"

CodeByContext == IF Cancelled THEN "0" ELSE "1"
ExitCode == IF err \in {"none", "canceled"} THEN "0" ELSE "1"

WaitReturns ==
    /\ Running /\ AllDone
    /\ Exit(ExitCode)
    /\ UNCHANGED <<mode, asked, group, failed>>

-----------------------------------------------------------------------------
(***************************************************************************)
(* The calls; a handler may take any time.  A call that is "cut" has lost  *)
(* its connection and will not be answered; its handler may still be at    *)
(* work when the process exits.                                            *)
(***************************************************************************)
\* A call arrives on a connection that Serve has accepted; a graceful stop still
\* serves what comes before the client has heard of it.
Arrive(c) ==
    /\ Running /\ server # "stopped" /\ srv \in {"serve", "done"}
    /\ calls[c] = "none"
    /\ calls' = [calls EXCEPT ![c] = "running"]
    /\ UNCHANGED <<stage, mode, asked, shut, sub, srv, server, err, code, failed>>

Answer(c) ==
    /\ Running /\ calls[c] = "running"
    /\ calls' = [calls EXCEPT ![c] = "answered"]
    /\ UNCHANGED <<stage, mode, asked, shut, sub, srv, server, err, code, failed>>

-----------------------------------------------------------------------------
Start ==
    \/ LoadConfig \/ OpenLog \/ NewSubnetListDB \/ NewClientPolicer
    \/ NotifyContext \/ InitLists \/ NewClientSubscriber \/ Listen \/ StartGroup

Shutdown == ShutdownBegins \/ ShutdownEnds \/ ForceStop

Next ==
    \/ Start \/ Signal
    \/ ServeBegins \/ ServeEnds \/ AcceptFails
    \/ SubscriberStops \/ ReloadFails
    \/ Shutdown \/ Drained \/ WaitReturns
    \/ \E c \in Calls : Arrive(c) \/ Answer(c)

Spec == Init /\ [][Next]_vars

\* Every goroutine runs on, and the timer fires; no handler need ever return,
\* nobody need send a signal, nothing need fail.
FairSpec ==
    /\ Spec
    /\ WF_vars(Start) /\ WF_vars(WaitReturns)
    /\ WF_vars(ServeBegins \/ ServeEnds)
    /\ WF_vars(SubscriberStops)
    /\ WF_vars(Shutdown)

-----------------------------------------------------------------------------
(***************************************************************************)
(* Properties.                                                             *)
(***************************************************************************)
\* The exit code tells the truth, whichever goroutine of the group reports
\* first: 0 only if the process was asked to stop and nothing had failed before;
\* 1 only if something failed, or the signal came before Serve was called (the
\* one race in which a requested stop looks like a failure).
ExitExplained ==
    /\ code = "0" => asked # "no" /\ failed # "first"
    /\ code = "1" => failed # "no" \/ asked = "early"

\* run() does not return under a call: each has been answered, or cut off from its
\* client by the forced stop, also when Serve ended long before by itself.
NoneLeftRunning == code \in {"0", "1"} => \A c \in Calls : calls[c] # "running"

\* No half-dead process: once the signal is there, or the server or the
\* subscriber has ended for whatever reason, the process ends, even if a handler
\* never returns.
Stops == (asked # "no" \/ ServeReturned \/ sub = "done") ~> (code # "none")
=============================================================================
