--------------------------- MODULE ProcessProofs ---------------------------
(***************************************************************************)
(* Process, for any set of calls: what the exit code says, and that run()  *)
(* leaves no call running.  The invariant relates the three goroutines to  *)
(* the server and to the first error of the errgroup.                      *)
(***************************************************************************)
EXTENDS Process, TLAPS

NoneRunning == \A c \in Calls : calls[c] # "running"

\* Before the errgroup nothing has happened but, perhaps, the signal.
BeforeGroup ==
    stage \notin {"wait", "over"} =>
        /\ shut = "off" /\ sub = "off" /\ srv = "off"
        /\ server = "open" /\ err = "none"
        /\ calls = [c \in Calls |-> "none"]
        /\ failed = "no"

\* The server is told to stop by the goroutine that waits for the context, and
\* has stopped when that goroutine ends.
Stopping ==
    /\ code # "none" => stage = "over"
    /\ server = "open" <=> shut \in {"off", "wait"}
    /\ shut = "done" => server = "stopped"
    /\ server = "stopped" => NoneRunning
    /\ server # "open" => Cancelled

\* What the first error of the group says about the signal and the failures.
FirstError ==
    /\ srv \in {"off", "begin"} => asked # "serving"
    /\ err = "none" => shut # "done"
    /\ stage = "wait" /\ err = "none" => failed = "no"
    /\ err = "canceled" => asked # "no" /\ failed # "first"
    /\ err = "stopped" => asked = "early"
    /\ err \in {"accept", "reload"} => failed # "no"

IInv == TypeOK /\ BeforeGroup /\ Stopping /\ FirstError /\ ExitExplained /\ NoneLeftRunning

-----------------------------------------------------------------------------
\* Every variable of the process keeps its type, whatever the order in which the
\* goroutines of run() take their steps.
LEMMA TypeStep == TypeOK /\ [Next]_vars => TypeOK'
<1>1. SUFFICES ASSUME TypeOK, [Next]_vars PROVE TypeOK'
  OBVIOUS
<1>2. CASE Start
  BY <1>1, <1>2 DEF TypeOK, Start, LoadConfig, OpenLog, NewSubnetListDB, NewClientPolicer,
     NotifyContext, InitLists, NewClientSubscriber, Listen, StartGroup, Advance,
     StartFails, Exit, Failure, Workmode, Modes, Stages, group
<1>3. CASE Signal
  BY <1>1, <1>3 DEF TypeOK, Signal, Exit, group, Stages
<1>4. CASE ServeBegins \/ ServeEnds \/ AcceptFails \/ SubscriberStops \/ ReloadFails
  BY <1>1, <1>4 DEF TypeOK, ServeBegins, ServeEnds, AcceptFails, SubscriberStops,
     ReloadFails, Report, Failure, Errors
<1>5. CASE Shutdown \/ Drained \/ WaitReturns
  BY <1>1, <1>5 DEF TypeOK, Shutdown, ShutdownBegins, ShutdownEnds, ForceStop, Drained,
     WaitReturns, Report, Exit, ExitCode, Errors, Stages, group
<1>6. CASE \E c \in Calls : Arrive(c) \/ Answer(c)
  BY <1>1, <1>6 DEF TypeOK, Arrive, Answer
<1>7. CASE UNCHANGED vars
  BY <1>1, <1>7 DEF TypeOK, vars, group
<1>8. QED
  BY <1>1, <1>2, <1>3, <1>4, <1>5, <1>6, <1>7 DEF Next

\* The steps of main() and run() before the errgroup, their failures and the
\* start of the goroutines, keep the invariant.
LEMMA StartStep == IInv /\ Start => BeforeGroup' /\ Stopping' /\ FirstError' /\ ExitExplained' /\ NoneLeftRunning'
<1>1. SUFFICES ASSUME IInv, Start
               PROVE BeforeGroup' /\ Stopping' /\ FirstError' /\ ExitExplained' /\ NoneLeftRunning'
  OBVIOUS
<1>2. /\ stage \notin {"wait", "over"} /\ NoneRunning
      /\ UNCHANGED <<asked, server, err, calls>>
  BY <1>1 DEF Start, LoadConfig, OpenLog, NewSubnetListDB, NewClientPolicer, NotifyContext,
     InitLists, NewClientSubscriber, Listen, StartGroup, Advance, StartFails, Exit, group,
     IInv, BeforeGroup, NoneRunning
<1>3. NoneRunning'
  BY <1>2 DEF NoneRunning
<1>4. \/ stage' \notin {"wait", "over"} /\ UNCHANGED <<shut, sub, srv, code, failed>>
      \/ stage' = "wait" /\ shut' = "wait" /\ srv' = "begin" /\ UNCHANGED <<code, failed>>
      \/ stage' = "over" /\ code' = "1" /\ failed' # "no" /\ UNCHANGED <<shut, sub, srv>>
  BY <1>1 DEF Start, LoadConfig, OpenLog, NewSubnetListDB, NewClientPolicer, NotifyContext,
     InitLists, NewClientSubscriber, Listen, StartGroup, Advance, StartFails, Exit, group,
     Failure
<1>5. BeforeGroup' /\ Stopping'
  BY <1>1, <1>2, <1>3, <1>4 DEF IInv, BeforeGroup, Stopping, Cancelled
<1>6. FirstError' /\ ExitExplained' /\ NoneLeftRunning'
  BY <1>1, <1>2, <1>3, <1>4
     DEF IInv, BeforeGroup, Stopping, FirstError, ExitExplained, NoneLeftRunning, NoneRunning
<1>7. QED
  BY <1>5, <1>6

\* A signal, at whatever moment of the start or of the service, keeps it.
LEMMA SignalStep == IInv /\ Signal => BeforeGroup' /\ Stopping' /\ FirstError' /\ ExitExplained' /\ NoneLeftRunning'
  BY DEF IInv, Signal, Exit, group, BeforeGroup, Stopping, FirstError, ExitExplained,
     NoneLeftRunning, NoneRunning, Cancelled

\* The goroutines of the server and of the subscriber keep it.
LEMMA WorkerStep ==
    IInv /\ (ServeBegins \/ ServeEnds \/ AcceptFails \/ SubscriberStops \/ ReloadFails)
    => BeforeGroup' /\ Stopping' /\ FirstError' /\ ExitExplained' /\ NoneLeftRunning'
<1>1. SUFFICES ASSUME IInv,
                      ServeBegins \/ ServeEnds \/ AcceptFails \/ SubscriberStops \/ ReloadFails
               PROVE BeforeGroup' /\ Stopping' /\ FirstError' /\ ExitExplained' /\ NoneLeftRunning'
  OBVIOUS
<1>2. /\ stage = "wait" /\ stage' = "wait"
      /\ UNCHANGED <<asked, shut, server, calls, code>>
      /\ err # "none" => err' = err
  BY <1>1 DEF ServeBegins, ServeEnds, AcceptFails, SubscriberStops, ReloadFails, Running, Report
<1>3. BeforeGroup' /\ Stopping' /\ NoneLeftRunning'
  BY <1>1, <1>2 DEF IInv, BeforeGroup, Stopping, NoneLeftRunning, NoneRunning, Cancelled
<1>4. code = "none"
  BY <1>1, <1>2 DEF IInv, Stopping
<1>5. FirstError' /\ ExitExplained'
  BY <1>1, <1>2, <1>4 DEF IInv, TypeOK, Stopping, FirstError, ExitExplained, Cancelled, Errors,
     ServeBegins, ServeEnds, AcceptFails, SubscriberStops, ReloadFails, Running, Report, Failure
<1>6. QED
  BY <1>3, <1>5

\* The goroutine that stops the server, gracefully or by force, keeps it.
LEMMA ShutdownStep ==
    IInv /\ (Shutdown \/ Drained)
    => BeforeGroup' /\ Stopping' /\ FirstError' /\ ExitExplained' /\ NoneLeftRunning'
<1>1. SUFFICES ASSUME IInv, Shutdown \/ Drained
               PROVE BeforeGroup' /\ Stopping' /\ FirstError' /\ ExitExplained' /\ NoneLeftRunning'
  OBVIOUS
<1>2. /\ stage = "wait" /\ stage' = "wait"
      /\ UNCHANGED <<asked, srv, code, failed>>
      /\ err # "none" => err' = err
  BY <1>1 DEF Shutdown, ShutdownBegins, ShutdownEnds, ForceStop, Drained, Running, Report
<1>3. code = "none"
  BY <1>1, <1>2 DEF IInv, Stopping
<1>4. server' = "stopped" => NoneRunning'
  BY <1>1 DEF IInv, TypeOK, Stopping, NoneRunning, Shutdown, ShutdownBegins, ShutdownEnds,
     ForceStop, Drained
<1>5. BeforeGroup' /\ Stopping'
  BY <1>1, <1>2, <1>3, <1>4 DEF IInv, TypeOK, BeforeGroup, Stopping, Cancelled, Shutdown, ShutdownBegins,
     ShutdownEnds, ForceStop, Drained, Report, Errors
<1>6. FirstError'
  BY <1>1, <1>2 DEF IInv, TypeOK, Stopping, FirstError, Cancelled, Shutdown, ShutdownBegins,
     ShutdownEnds, ForceStop, Drained, Report, Errors
<1>7. ExitExplained' /\ NoneLeftRunning'
  BY <1>2, <1>3 DEF ExitExplained, NoneLeftRunning
<1>8. QED
  BY <1>5, <1>6, <1>7

\* The return of g.Wait, which decides the exit code, keeps it.
LEMMA WaitStep == IInv /\ WaitReturns => BeforeGroup' /\ Stopping' /\ FirstError' /\ ExitExplained' /\ NoneLeftRunning'
<1>1. SUFFICES ASSUME IInv, WaitReturns
               PROVE BeforeGroup' /\ Stopping' /\ FirstError' /\ ExitExplained' /\ NoneLeftRunning'
  OBVIOUS
<1>2. /\ stage = "wait" /\ stage' = "over" /\ shut = "done"
      /\ code' = IF err \in {"none", "canceled"} THEN "0" ELSE "1"
      /\ UNCHANGED <<asked, shut, sub, srv, server, err, calls, failed>>
  BY <1>1 DEF WaitReturns, Running, AllDone, ServeReturned, Exit, ExitCode, group
<1>3. BeforeGroup' /\ Stopping' /\ FirstError'
  BY <1>1, <1>2 DEF IInv, BeforeGroup, Stopping, FirstError, Cancelled, NoneRunning
<1>4. ExitExplained'
  BY <1>1, <1>2 DEF IInv, TypeOK, Errors, Stopping, FirstError, ExitExplained
<1>5. NoneLeftRunning'
  BY <1>1, <1>2 DEF IInv, Stopping, NoneRunning, NoneLeftRunning
<1>6. QED
  BY <1>3, <1>4, <1>5

\* Calls that arrive and that are answered keep it.
LEMMA CallStep ==
    ASSUME NEW c \in Calls, IInv, Arrive(c) \/ Answer(c)
    PROVE BeforeGroup' /\ Stopping' /\ FirstError' /\ ExitExplained' /\ NoneLeftRunning'
<1>1. /\ stage = "wait" /\ stage' = "wait"
      /\ UNCHANGED <<asked, shut, sub, srv, server, err, code, failed>>
  BY DEF Arrive, Answer, Running
<1>2. code = "none"
  BY <1>1 DEF IInv, Stopping
<1>3. server' = "stopped" => NoneRunning'
  BY DEF IInv, TypeOK, Stopping, NoneRunning, Arrive, Answer
<1>4. QED
  BY <1>1, <1>2, <1>3
     DEF IInv, BeforeGroup, Stopping, FirstError, ExitExplained, NoneLeftRunning, Cancelled

\* The invariant holds at the start and is kept by every step of the process.
LEMMA Invariance == Spec => []IInv
<1>1. Init => IInv
  BY DEF Init, IInv, TypeOK, BeforeGroup, Stopping, FirstError, ExitExplained,
     NoneLeftRunning, NoneRunning, Cancelled, Stages, Modes, Errors
<1>2. IInv /\ [Next]_vars => IInv'
  <2>1. SUFFICES ASSUME IInv, [Next]_vars PROVE IInv'
    OBVIOUS
  <2>2. TypeOK'
    BY <2>1, TypeStep DEF IInv
  <2>3. BeforeGroup' /\ Stopping' /\ FirstError' /\ ExitExplained' /\ NoneLeftRunning'
    <3>1. CASE UNCHANGED vars
      BY <2>1, <3>1 DEF vars, group, IInv, BeforeGroup, Stopping, FirstError, ExitExplained,
         NoneLeftRunning, NoneRunning, Cancelled
    <3>2. CASE Next
      BY <2>1, <3>2, StartStep, SignalStep, WorkerStep, ShutdownStep, WaitStep, CallStep DEF Next
    <3>3. QED
      BY <2>1, <3>1, <3>2
  <2>4. QED
    BY <2>2, <2>3 DEF IInv
<1>3. QED
  BY <1>1, <1>2, PTL DEF Spec

-----------------------------------------------------------------------------
\* run() never returns under a call, for any number of calls and however late the
\* handlers are: the goroutine that stops the server ends only when every call
\* has been answered or cut off.
THEOREM NoneLeftRunningHolds == Spec => []NoneLeftRunning
<1>1. IInv => NoneLeftRunning
  BY DEF IInv
<1>2. QED
  BY <1>1, Invariance, PTL

\* The exit code of the service tells a requested stop from a failure, in every
\* order in which the goroutines may report to the errgroup.
THEOREM ExitExplainedHolds == Spec => []ExitExplained
<1>1. IInv => ExitExplained
  BY DEF IInv
<1>2. QED
  BY <1>1, Invariance, PTL

\* The variables of the process keep their types; in particular the work mode is
\* always one of the two, whatever the environment and the file leave unset.
THEOREM TypeCorrect == Spec => []TypeOK
<1>1. IInv => TypeOK
  BY DEF IInv
<1>2. QED
  BY <1>1, Invariance, PTL
=============================================================================
