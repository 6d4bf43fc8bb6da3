-------------------------- MODULE ServiceLib_proofs --------------------------
(***************************************************************************)
(* Proofs about ServiceLib, for any clients and any failing calls.  The    *)
(* service drives the LPC server as LpcServLib allows, so that everything  *)
(* proved of that module holds in the service, too.                        *)
(***************************************************************************)
EXTENDS ServiceLib, LpcServLib_proofs

(***************************************************************************)
(* Every step of the service is a step of LpcServLib or none of its        *)
(* business.                                                               *)
(***************************************************************************)
LEMMA ServiceStepIsServerStep == [ServiceNext]_allVars => [Next]_vars
<1>1. CASE StopControl \/ MainThread
  BY <1>1 DEF StopControl, MainThread, LibStart, RunServiceLogic, HandlerWrites, HandlerTells,
     HandlerSets, RunReturns, LibStop
<1>2. CASE ServiceThread
  BY <1>2 DEF ServiceThread, Entry, Tells, SetAllowStop, ServerStart, ServerStartGoesOn,
     InitReturns, LoopEnds, ServerStop, ExitReturns, Next, App
<1>3. CASE ServerWorks
  BY <1>3 DEF ServerWorks, Next
<1>4. CASE UNCHANGED allVars
  BY <1>4 DEF allVars
<1> QED
  BY <1>1, <1>2, <1>3, <1>4 DEF ServiceNext

(***************************************************************************)
(* The service uses the LPC server as its specification allows.            *)
(***************************************************************************)
THEOREM ServiceUsesServer == ServiceSpec => Spec
<1>1. ServiceInit => Init
  BY DEF ServiceInit
<1> QED
  BY <1>1, ServiceStepIsServerStep, PTL DEF ServiceSpec, Spec

(***************************************************************************)
(* The client table is sound in the service: slots point to live contexts  *)
(* with open ports, and Stop and LPC_PORT_CLOSED free nothing twice.       *)
(***************************************************************************)
THEOREM ServiceTableIsSound == ServiceSpec => []TableSound
  BY ServiceUsesServer, TableIsSound, PTL

(***************************************************************************)
(* What the LPC library's own steps leave alone.                           *)
(***************************************************************************)
LEMMA ServerKeepsApp == (Clients \/ Loop) => app' = app
  BY DEF Clients, Loop, Connect, Request, Disconnect, LoopTop, ReceiveNothing, Receive,
     HandleConnectionRequest, CompleteConnect, HandlePortClosed, HandleRequest

LEMMA ServiceInvInit == ServiceInit => ServiceInv
<1> SUFFICES ASSUME ServiceInit PROVE ServiceInv
  OBVIOUS
<1>1. TypeOK
  BY TypeInit DEF ServiceInit
<1> QED
  BY <1>1 DEF ServiceInit, Init, ServiceInv, ServiceTypeOK, ServerPhase, StatusPhase, MainPhase,
     Status, States

(***************************************************************************)
(* Each thread preserves the invariant.                                    *)
(***************************************************************************)
LEMMA MainThreadKeeps ==
    ASSUME ServiceInv, TypeOK', StopControl \/ MainThread
    PROVE  ServiceInv'
<1> USE DEF ServiceInv, ServiceTypeOK, ServerPhase, StatusPhase, MainPhase, vars
<1>1. CASE StopControl \/ LibStart
  BY <1>1 DEF StopControl, LibStart, scmVars
<1>2. CASE RunServiceLogic
  BY <1>2 DEF RunServiceLogic, scmVars
<1>3. CASE HandlerWrites
  BY <1>3 DEF HandlerWrites, BeginStopPending, Write, Status, States
<1>4. CASE HandlerTells
  BY <1>4 DEF HandlerTells, SetServiceStatus
<1>5. CASE HandlerSets
  BY <1>5 DEF HandlerSets, SetStopEvent, scmVars
<1>6. CASE RunReturns
  BY <1>6 DEF RunReturns, scmVars
<1>7. CASE LibStop
  BY <1>7 DEF LibStop, scmVars
<1> QED
  BY <1>1, <1>2, <1>3, <1>4, <1>5, <1>6, <1>7 DEF MainThread

LEMMA ServiceThreadKeeps ==
    ASSUME ServiceInv, TypeOK', ServiceThread
    PROVE  ServiceInv'
<1> USE DEF ServiceInv, ServiceTypeOK, ServerPhase, StatusPhase, MainPhase
<1>1. CASE Entry
  BY <1>1 DEF Entry, RegisterHandler, Write, Status, States, vars
<1>2. ASSUME NEW from \in {"entryTells", "allowTells"}, NEW to \in {"allow", "init"}, Tells(from, to)
      PROVE  ServiceInv'
  BY <1>2 DEF Tells, SetServiceStatus, vars
<1>3. CASE Tells("runTells", "loop")
  BY <1>3 DEF Tells, SetServiceStatus, vars
<1>4. CASE Tells("stopTells", "ended")
  BY <1>4 DEF Tells, SetServiceStatus, vars
<1>5. CASE SetAllowStop
  BY <1>5 DEF SetAllowStop, Status, States, vars
<1>6. CASE ServerStart
  BY <1>6 DEF ServerStart, StartInitPort, vars, scmVars
<1>7. CASE ServerStartGoesOn \/ ServerStop
  BY <1>7 DEF ServerStartGoesOn, ServerStop, StartThread, StopSignal, StopFinish, ownVars, scmVars
<1>8. CASE InitReturns
  BY <1>8 DEF InitReturns, StartSucceeded, Write, Status, States, vars
<1>9. CASE LoopEnds
  BY <1>9 DEF LoopEnds, scmVars, vars
<1>10. CASE ExitReturns
  <2>1. /\ lib' = FALSE
        /\ app' = "stopped"
        /\ UNCHANGED <<main, isService, handler, event, told>>
    BY <1>10 DEF ExitReturns, ServerStopped, vars
  <2>2. sv = "exit" /\ sv' \in {"stopTells", "ended"}
    BY <1>10 DEF ExitReturns
  <2>3. status' \in Status
    BY <1>10 DEF ExitReturns, Write, Status, States
  <2> QED
    BY <2>1, <2>2, <2>3
<1> QED
  BY <1>1, <1>2, <1>3, <1>4, <1>5, <1>6, <1>7, <1>8, <1>9, <1>10 DEF ServiceThread

LEMMA ServiceInvStep ==
    ServiceInv /\ TypeOK' /\ [ServiceNext]_allVars => ServiceInv'
<1> SUFFICES ASSUME ServiceInv, TypeOK', [ServiceNext]_allVars PROVE ServiceInv'
  OBVIOUS
<1>1. ASSUME app' = app, UNCHANGED ownVars PROVE ServiceInv'
  BY <1>1 DEF ServiceInv, ServiceTypeOK, ServerPhase, StatusPhase, MainPhase, ownVars, scmVars
<1>2. CASE ServerWorks
  BY <1>1, <1>2, ServerKeepsApp DEF ServerWorks
<1>3. CASE UNCHANGED allVars
  BY <1>1, <1>3 DEF allVars, vars
<1> QED
  BY <1>2, <1>3, MainThreadKeeps, ServiceThreadKeeps DEF ServiceNext

(***************************************************************************)
(* The inductive invariant of the service.                                 *)
(***************************************************************************)
THEOREM ServiceInvariant == ServiceSpec => [](ServiceInv /\ IInv)
<1>1. IInv => TypeOK
  BY DEF IInv
<1> QED
  BY <1>1, ServiceUsesServer, InductiveInvariant, ServiceInvInit, ServiceInvStep, PTL
     DEF ServiceSpec

(***************************************************************************)
(* When the service manager hears of STOPPED, or WinMain has returned, the *)
(* LPC server has released everything and no client is blocked.            *)
(***************************************************************************)
THEOREM StoppedMeansReleased == ServiceSpec => []StoppedIsReleased
<1>1. ServiceInv /\ IInv /\ StopLeavesNothing => StoppedIsReleased
  BY DEF ServiceInv, ServerPhase, StatusPhase, MainPhase, IInv, PhaseSound, StoppedIsReleased,
     Released
<1> QED
  BY <1>1, ServiceInvariant, ServiceUsesServer, StopIsComplete, PTL

(***************************************************************************)
(* The LPC server's loop thread never runs on a freed instance.            *)
(***************************************************************************)
THEOREM LoopHasInstance == ServiceSpec => []InstanceOutlivesLoop
<1>1. ServiceInv /\ IInv => InstanceOutlivesLoop
  BY DEF ServiceInv, ServerPhase, IInv, PhaseSound, LoopEnded, InstanceOutlivesLoop
<1> QED
  BY <1>1, ServiceInvariant, PTL


-----------------------------------------------------------------------------
(***************************************************************************)
(* ServiceTypeOK: the types of the service's variables, with those of the  *)
(* LPC server's.                                                           *)
(***************************************************************************)
THEOREM ServiceTypeCorrect == ServiceSpec => []ServiceTypeOK
<1>1. ServiceInv => ServiceTypeOK
  BY DEF ServiceInv
<1> QED
  BY <1>1, ServiceInvariant, PTL

-----------------------------------------------------------------------------
(***************************************************************************)
(* What is reported.  A server that Start has started serves until it is   *)
(* told to stop, if there is memory for each message: without it the loop  *)
(* ends and nobody notices, which is why the proofs below assume it.       *)
(***************************************************************************)
StartedServes ==
    /\ app = "starting" => portOpen
    /\ app = "running" => portOpen /\ ~LoopEnded /\ ~exitFlag

\* The status that is written, and the one that is told, are ...
Statuses(written, heard) == status.state = written /\ told.state = heard

(***************************************************************************)
(* ... the ones that go with the place of ServiceMain, and in its loop     *)
(* with the place of the control handler: the handler runs only while      *)
(* ServiceMain waits, so that the two never write m_ServiceStatus at once. *)
(***************************************************************************)
InHandler == {"handler", "handlerTells", "handlerSets"}

LoopStatuses ==
    CASE main = "handlerTells" -> Statuses("stopPending", "running")
      [] main = "handlerSets" \/ event = "set" -> Statuses("stopPending", "stopPending")
      [] OTHER -> Statuses("running", "running")

ReportsFit ==
    /\ sv \in {"none", "entry"} => Statuses("none", "none")
    /\ sv = "entryTells" => Statuses("startPending", "none")
    /\ sv \in {"allow", "allowTells", "init", "starting"} => Statuses("startPending", "startPending")
    /\ sv = "runTells" => Statuses("running", "startPending")
    /\ sv = "loop" => LoopStatuses
    /\ sv = "exit" => told.state = status.state /\ status.state \in {"startPending", "stopPending"}
    /\ sv = "stopTells" => status.state = "stopped" /\ told.state \in {"startPending", "stopPending"}
    /\ sv = "ended" => Statuses("stopped", "stopped")

\* The service manager hears of a service until its handler is not registered.
Heard == isService /\ (handler \/ sv \in {"none", "entry"})

\* Nothing of a process, or of a service without a handler, is heard.
NothingReported ==
    /\ told.state = "none"
    /\ sv # "entry"
    /\ main \notin InHandler

ReportInv ==
    /\ StartedServes
    /\ IF Heard THEN ReportsFit ELSE NothingReported
    /\ main \in InHandler => sv = "loop" /\ event # "set"
    /\ event = "set" => sv \in {"loop", "exit", "stopTells", "ended"}
    /\ sv \in {"runTells", "loop"} => app = "running"


(***************************************************************************)
(* The server's own steps: only Stop ends a server that serves.            *)
(***************************************************************************)
LEMMA ServerKeepsServing ==
    ASSUME StartedServes, IInv, "memory" \notin Faults, Clients \/ Loop
    PROVE  StartedServes'
<1> USE DEF StartedServes, LoopEnded
<1>1. CASE Clients
  <2>1. UNCHANGED <<app, portOpen, exitFlag, pc>>
    BY <1>1 DEF Clients, Connect, Request, Disconnect, loopVars
  <2> QED
    BY <2>1
<1>2. CASE LoopTop
  <2>1. ~exitFlag => pc' = "receive" /\ portOpen' = portOpen
    BY <1>2 DEF LoopTop, LeaveRequested
  <2>2. UNCHANGED <<app, exitFlag>> /\ app # "starting"
    BY <1>2 DEF LoopTop, IInv, PhaseSound
  <2> QED
    BY <2>1, <2>2
<1>3. CASE ReceiveNothing
  BY <1>3 DEF ReceiveNothing, portVars
<1>4. CASE Receive
  <2>1. Head(queue) \in Message
    BY <1>4 DEF Receive, IInv, TypeOK
  <2>2. Head(queue).kind \in {"connect", "request", "closed"}
    BY <2>1 DEF Message
  <2> QED
    BY <1>4, <2>2 DEF Receive
<1>5. CASE HandleConnectionRequest
  BY <1>5 DEF HandleConnectionRequest, Back
<1>6. CASE CompleteConnect \/ HandlePortClosed \/ HandleRequest
  BY <1>6 DEF CompleteConnect, HandlePortClosed, HandleRequest, Back
<1> QED
  BY <1>1, <1>2, <1>3, <1>4, <1>5, <1>6 DEF Loop

LEMMA AppKeepsServing ==
    ASSUME StartedServes, App
    PROVE  StartedServes'
<1> USE DEF StartedServes, LoopEnded
<1>1. CASE StartInitPort
  BY <1>1 DEF StartInitPort
<1>2. CASE StartThread
  BY <1>2 DEF StartThread, portVars
<1>3. CASE StopSignal \/ StopFinish
  BY <1>3 DEF StopSignal, StopFinish
<1> QED
  BY <1>1, <1>2, <1>3 DEF App

LEMMA ReportInvInit == ServiceInit => ReportInv
  BY DEF ServiceInit, Init, ReportInv, StartedServes, ReportsFit, Heard, NothingReported, Statuses, InHandler


(***************************************************************************)
(* Each thread preserves the invariant, and StatusOrder holds of its step. *)
(***************************************************************************)
LEMMA MainReports ==
    ASSUME ServiceInv, ReportInv, StopControl \/ MainThread
    PROVE  ReportInv' /\ StatusOrder
<1> USE DEF ServiceInv, ServiceTypeOK, MainPhase, ReportInv, StartedServes, LoopEnded, ReportsFit, Heard, NothingReported,
        LoopStatuses, Statuses, InHandler, StatusOrder, vars, portVars, loopVars
<1>1. CASE StopControl
  BY <1>1 DEF StopControl, scmVars
<1>2. CASE LibStart
  BY <1>2 DEF LibStart, scmVars
<1>3. CASE RunServiceLogic
  BY <1>3 DEF RunServiceLogic, scmVars
<1>4. CASE HandlerWrites
  BY <1>4 DEF HandlerWrites, BeginStopPending, Write
<1>5. CASE HandlerTells
  BY <1>5 DEF HandlerTells, SetServiceStatus
<1>6. CASE HandlerSets
  BY <1>6 DEF HandlerSets, SetStopEvent, scmVars
<1>7. CASE RunReturns
  BY <1>7 DEF RunReturns, scmVars
<1>8. CASE LibStop
  BY <1>8 DEF LibStop, scmVars
<1> QED
  BY <1>1, <1>2, <1>3, <1>4, <1>5, <1>6, <1>7, <1>8 DEF MainThread

LEMMA ServiceMainReports ==
    ASSUME ServiceInv, ReportInv, ServiceThread
    PROVE  ReportInv' /\ StatusOrder
<1> USE DEF ServiceInv, ServiceTypeOK, MainPhase, ReportInv, ReportsFit, Heard, NothingReported,
        LoopStatuses, Statuses, InHandler, StatusOrder
<1>1. CASE StartedServes'
  <2>1. CASE Entry
    BY <1>1, <2>1 DEF Entry, RegisterHandler, Write, vars
  <2>2. CASE SetAllowStop
    <3>1. status'.state = status.state /\ told' = told
      BY <2>2 DEF SetAllowStop, Status
    <3> QED
      BY <1>1, <2>2, <3>1 DEF SetAllowStop, vars
  <2>3. CASE ServerStart
    BY <1>1, <2>3 DEF ServerStart, scmVars
  <2>4. CASE ServerStartGoesOn \/ ServerStop
    BY <1>1, <2>4 DEF ServerStartGoesOn, ServerStop, ownVars, scmVars
  <2>5. CASE InitReturns
    BY <1>1, <2>5 DEF InitReturns, StartSucceeded, Write, vars
  <2>6. CASE LoopEnds
    BY <1>1, <2>6 DEF LoopEnds, scmVars, vars
  <2>7. CASE ExitReturns
    BY <1>1, <2>7 DEF ExitReturns, Write, vars
  <2>8. CASE Tells("entryTells", "allow")
    BY <1>1, <2>8 DEF Tells, SetServiceStatus, vars
  <2>9. CASE Tells("allowTells", "init")
    BY <1>1, <2>9 DEF Tells, SetServiceStatus, vars
  <2>10. CASE Tells("runTells", "loop")
    BY <1>1, <2>10 DEF Tells, SetServiceStatus, vars
  <2>11. CASE Tells("stopTells", "ended")
    BY <1>1, <2>11 DEF Tells, SetServiceStatus, vars
  <2> QED
    BY <2>1, <2>2, <2>3, <2>4, <2>5, <2>6, <2>7, <2>8, <2>9, <2>10, <2>11 DEF ServiceThread
<1>2. CASE UNCHANGED vars
  BY <1>1, <1>2 DEF StartedServes, LoopEnded, vars, portVars, loopVars
<1>3. CASE App
  BY <1>1, <1>3, AppKeepsServing
<1>4. App \/ UNCHANGED vars
  BY DEF ServiceThread, Entry, Tells, SetAllowStop, ServerStart, ServerStartGoesOn,
     InitReturns, LoopEnds, ServerStop, ExitReturns, App
<1> QED
  BY <1>2, <1>3, <1>4

LEMMA ReportStep ==
    ASSUME "memory" \notin Faults, ServiceInv, IInv, ReportInv, [ServiceNext]_allVars
    PROVE  ReportInv' /\ StatusOrder
<1>1. ASSUME StartedServes', app' = app, UNCHANGED ownVars PROVE ReportInv' /\ StatusOrder
  BY <1>1 DEF ReportInv, ReportsFit, Heard, NothingReported, LoopStatuses, Statuses, InHandler, StatusOrder,
     ownVars, scmVars
<1>2. CASE ServerWorks
  BY <1>1, <1>2, ServerKeepsApp, ServerKeepsServing DEF ServerWorks, ReportInv, IInv
<1>3. CASE UNCHANGED allVars
  BY <1>1, <1>3 DEF allVars, vars, portVars, loopVars, ReportInv, StartedServes, LoopEnded
<1> QED
  BY <1>2, <1>3, MainReports, ServiceMainReports DEF ServiceNext

(***************************************************************************)
(* ReportsTrue: the reports come in order although two threads write them, *)
(* and a service that is said to be running has a port and a loop thread   *)
(* that serves it.                                                         *)
(***************************************************************************)
THEOREM ServiceReportsTrue ==
    ASSUME "memory" \notin Faults
    PROVE  ServiceSpec => ReportsTrue
<1>1. ServiceInv /\ ReportInv => RunningServes
  BY DEF ServiceInv, ServiceTypeOK, ReportInv, ReportsFit, Heard, NothingReported, LoopStatuses, Statuses, StartedServes,
     RunningServes
<1>2. ServiceInv /\ IInv /\ ReportInv /\ [ServiceNext]_allVars => ReportInv' /\ StatusOrder
  BY ReportStep
<1>3. ServiceSpec => []ReportInv
  BY <1>2, ReportInvInit, ServiceInvariant, PTL DEF ServiceSpec
<1>4. (ServiceInv /\ ReportInv)' => RunningServes'
  BY <1>1, PTL
<1> QED
  BY <1>2, <1>3, <1>4, ServiceInvariant, PTL DEF ServiceSpec, ReportsTrue
=============================================================================
