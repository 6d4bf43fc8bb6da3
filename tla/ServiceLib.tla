----------------------------- MODULE ServiceLib -----------------------------
(***************************************************************************)
(* The life of the service process: SecLabServ around ServiceLibImp around *)
(* the LPC server of LpcServLib.                                           *)
(*                                                                         *)
(* As a service it has two threads beside the LPC loop.  The thread of     *)
(* WinMain is the dispatcher, in which the control handler runs; ServiceMain *)
(* runs in a thread of its own.  Both report through the one               *)
(* m_ServiceStatus, without a lock: a report is a write of its fields      *)
(* followed by SetServiceStatus, which reads them again.  Started with     *)
(* "-exe" the process runs the same logic in WinMain and reports nothing.  *)
(*                                                                         *)
(* The service control manager is external.  As documented for             *)
(* ControlService it sends one control at a time, and STOP only to a       *)
(* service that was last reported as running and accepting it.  The        *)
(* dispatcher returns when the service was last reported as stopped.       *)
(***************************************************************************)
EXTENDS LpcServLib

CONSTANT ServiceFaults  \* what may fail, see ServiceFaultKinds

(***************************************************************************)
(* "event": ZwCreateEvent; "dispatcher": StartServiceCtrlDispatcher;       *)
(* "handler": RegisterServiceCtrlHandlerEx; "instance": GetNewInstance.    *)
(***************************************************************************)
ServiceFaultKinds == {"event", "dispatcher", "handler", "instance"}

ASSUME ServiceFaultsAssumption == ServiceFaults \subseteq ServiceFaultKinds

VARIABLES
    main,       \* where the thread of WinMain is
    sv,         \* where ServiceMain (or RunAsProcess) is
    isService,  \* g_IsService, m_Service_Process
    handler,    \* m_StatusHandle is a handle
    lib,        \* g_pILpcServLib is an instance
    event,      \* m_ServiceStopEvent
    status,     \* m_ServiceStatus
    told        \* the status the service manager has last been told

scmVars == <<status, told>>
ownVars == <<main, sv, isService, handler, lib, event, scmVars>>
allVars == <<vars, ownVars>>

States == {"none", "startPending", "running", "stopPending", "stopped"}

Status == [state: States, acceptStop: BOOLEAN]

ServiceInit ==
    /\ Init
    /\ main = "begin"
    /\ sv = "none"
    /\ isService \in BOOLEAN
    /\ handler = FALSE
    /\ lib = FALSE
    /\ event = "none"
    /\ status = [state |-> "none", acceptStop |-> FALSE]
    /\ told = status

-----------------------------------------------------------------------------
(***************************************************************************)
(* Reports: the fields are written, then the structure is handed over.     *)
(* SetServiceStatus fails, unnoticed, without a valid m_StatusHandle.      *)
(***************************************************************************)
Write(state) ==
    status' = [state |-> state, acceptStop |-> status.acceptStop /\ state # "startPending"]

SetServiceStatus == told' = IF isService /\ handler THEN status ELSE told

-----------------------------------------------------------------------------
(***************************************************************************)
(* The thread of WinMain.                                                  *)
(***************************************************************************)
\* IServiceLib::Start
LibStart ==
    /\ main = "begin"
    /\ \/ main' = "created" /\ event' = "clear"
       \/ "event" \in ServiceFaults /\ main' = "exited" /\ UNCHANGED event
    /\ UNCHANGED <<vars, sv, isService, handler, lib, scmVars>>

\* RunServiceLogic calls the dispatcher, or RunAsProcess.
RunServiceLogic ==
    /\ main = "created"
    /\ \/ main' = "dispatcher" /\ sv' = IF isService THEN "entry" ELSE "allow"
       \/ /\ isService /\ "dispatcher" \in ServiceFaults
          /\ main' = "leave" /\ UNCHANGED sv
    /\ UNCHANGED <<vars, isService, handler, lib, event, scmVars>>

\* The service manager sends STOP; the dispatcher calls the handler.
StopControl ==
    /\ main = "dispatcher"
    /\ told.acceptStop /\ told.state = "running"
    /\ main' = "handler"
    /\ UNCHANGED <<vars, sv, isService, handler, lib, event, scmVars>>

\* SERVICE_CONTROL_STOP: STOP_PENDING is written ...
BeginStopPending == Write("stopPending") /\ UNCHANGED event

HandlerWrites ==
    /\ main = "handler"
    /\ BeginStopPending
    /\ main' = "handlerTells"
    /\ UNCHANGED <<vars, sv, isService, handler, lib, told>>

\* ... and told ...
HandlerTells ==
    /\ main = "handlerTells"
    /\ SetServiceStatus
    /\ main' = "handlerSets"
    /\ UNCHANGED <<vars, sv, isService, handler, lib, event, status>>

\* ... before ZwSetEvent wakes ServiceMain.
EventForgotten == UNCHANGED event \* mutant
SetStopEvent == event' = "set"

HandlerSets ==
    /\ main = "handlerSets"
    /\ SetStopEvent
    /\ main' = "dispatcher"
    /\ UNCHANGED <<vars, sv, isService, handler, lib, scmVars>>

\* The dispatcher returns; as a process, RunAsProcess has returned.
RunReturns ==
    /\ main = "dispatcher"
    /\ IF isService THEN told.state = "stopped" ELSE sv = "ended"
    /\ main' = "leave"
    /\ UNCHANGED <<vars, sv, isService, handler, lib, event, scmVars>>

\* IServiceLib::Stop closes the event, and WinMain returns.
LibStop ==
    /\ main = "leave"
    /\ event' = "closed"
    /\ main' = "exited"
    /\ UNCHANGED <<vars, sv, isService, handler, lib, scmVars>>

MainThread ==
    \/ LibStart \/ RunServiceLogic
    \/ HandlerWrites \/ HandlerTells \/ HandlerSets
    \/ RunReturns \/ LibStop

-----------------------------------------------------------------------------
(***************************************************************************)
(* ServiceMain.  A report of it takes two steps: at "...Tells" the fields  *)
(* are written.                                                            *)
(***************************************************************************)
RegisterHandler ==
    \/ handler' = TRUE
    \/ "handler" \in ServiceFaults /\ UNCHANGED handler

\* A service without a handler goes on like any other.
Entry ==
    /\ sv = "entry"
    /\ RegisterHandler
    /\ Write("startPending")
    /\ sv' = "entryTells"
    /\ UNCHANGED <<vars, main, isService, lib, event, told>>

Tells(from, to) ==
    /\ sv = from
    /\ SetServiceStatus
    /\ sv' = to
    /\ UNCHANGED <<vars, main, isService, handler, lib, event, status>>

\* ServiceInitLogic begins with SetAllowStop(TRUE) ...
SetAllowStop ==
    /\ sv = "allow"
    /\ status' = [status EXCEPT !.acceptStop = TRUE]
    /\ sv' = "allowTells"
    /\ UNCHANGED <<vars, main, isService, handler, lib, event, told>>

\* ... and makes an LPC server and starts it.
ServerStart ==
    /\ sv = "init"
    /\ \/ lib' = TRUE /\ sv' = "starting" /\ StartInitPort
       \/ "instance" \in ServiceFaults /\ sv' = "exit" /\ UNCHANGED <<vars, lib>>
    /\ UNCHANGED <<main, isService, handler, event, scmVars>>

\* CLpcServLibU::Start goes on to the thread, and cleans up if that fails.
ServerStartGoesOn ==
    /\ sv = "starting"
    /\ StartThread \/ StopFinish
    /\ UNCHANGED ownVars

\* What CLpcServLibU::Start returned.
ResultIgnored == app \in {"running", "stopped"} \* mutant
StartSucceeded == app = "running"

InitReturns ==
    /\ sv = "starting"
    /\ \/ StartSucceeded /\ isService /\ sv' = "runTells" /\ Write("running")
       \/ StartSucceeded /\ ~isService /\ sv' = "loop" /\ UNCHANGED status
       \/ app = "stopped" /\ ~StartSucceeded /\ sv' = "exit" /\ UNCHANGED status
    /\ UNCHANGED <<vars, main, isService, handler, lib, event, told>>

\* MainServiceLoop: a service waits for the event, a process for a key.
LoopEnds ==
    /\ sv = "loop"
    /\ ~isService \/ event = "set"
    /\ sv' = "exit"
    /\ UNCHANGED <<vars, main, isService, handler, lib, event, scmVars>>

\* ServiceExitLogic: ServiceLpcServer::Stop, which waits for the loop thread ...
ServerStop ==
    /\ sv = "exit"
    /\ StopSignal \/ StopFinish
    /\ UNCHANGED ownVars

\* ... and frees the instance.  Stop is harmless after a failed Start.
NeverAsked == TRUE \* mutant
ServerStopped == app = "stopped"

ExitReturns ==
    /\ sv = "exit"
    /\ ServerStopped
    /\ lib' = FALSE
    /\ IF isService THEN Write("stopped") /\ sv' = "stopTells"
                    ELSE UNCHANGED status /\ sv' = "ended"
    /\ UNCHANGED <<vars, main, isService, handler, event, told>>

ServiceThread ==
    \/ Entry \/ Tells("entryTells", "allow")
    \/ SetAllowStop \/ Tells("allowTells", "init")
    \/ ServerStart \/ ServerStartGoesOn
    \/ InitReturns \/ Tells("runTells", "loop")
    \/ LoopEnds
    \/ ServerStop \/ ExitReturns \/ Tells("stopTells", "ended")

-----------------------------------------------------------------------------
ServerWorks == (Clients \/ Loop) /\ UNCHANGED ownVars

ServiceNext == StopControl \/ MainThread \/ ServiceThread \/ ServerWorks

ServiceSpec == ServiceInit /\ [][ServiceNext]_allVars

(***************************************************************************)
(* The threads run, but a process waits in its loop for a key for as long  *)
(* as the user likes, and the service manager need not stop a service.     *)
(* The loop thread receives in the end: ZwReplyWaitReceivePortEx may fail  *)
(* any number of times, but not for ever while messages wait.              *)
(***************************************************************************)
ServiceFairSpec ==
    /\ ServiceSpec
    /\ WF_allVars(MainThread)
    /\ WF_allVars((isService \/ sv # "loop") /\ ServiceThread)
    /\ WF_allVars(Loop /\ UNCHANGED ownVars)
    /\ SF_allVars(Receive /\ UNCHANGED ownVars)

-----------------------------------------------------------------------------
ServiceTypeOK ==
    /\ TypeOK
    /\ main \in {"begin", "created", "dispatcher", "handler", "handlerTells", "handlerSets",
                 "leave", "exited"}
    /\ sv \in {"none", "entry", "entryTells", "allow", "allowTells", "init", "starting",
               "runTells", "loop", "exit", "stopTells", "ended"}
    /\ isService \in BOOLEAN
    /\ handler \in BOOLEAN
    /\ lib \in BOOLEAN
    /\ event \in {"none", "clear", "set", "closed"}
    /\ status \in Status
    /\ told \in Status

(***************************************************************************)
(* The server is gone before anybody hears of it: once the service manager *)
(* has been told STOPPED, or the process has returned from WinMain, no LPC *)
(* port, context or slot is left, no client is blocked in a call and the   *)
(* instance is freed.                                                      *)
(***************************************************************************)
Released == StopLeavesNothing /\ app = "stopped" /\ LoopEnded /\ ~lib

StoppedIsReleased == told.state = "stopped" \/ main = "exited" => Released

(***************************************************************************)
(* CLpcServLibU is deleted only when its loop thread, which uses its       *)
(* members, has ended.                                                     *)
(***************************************************************************)
InstanceOutlivesLoop == pc \notin {"none", "exited"} => lib

(***************************************************************************)
(* What the service manager is told is true: a service that is said to be  *)
(* running has a port, and a loop thread that serves it and has not been   *)
(* told to stop.  A failed start is never reported as running.             *)
(***************************************************************************)
RunningServes == told.state = "running" => portOpen /\ ~LoopEnded /\ ~exitFlag

(***************************************************************************)
(* Reports reach the service manager in order, although two threads write  *)
(* one structure: starting, running, stopping, stopped; a start that fails *)
(* goes to stopped at once.  A report repeats only while it changes what   *)
(* is accepted.                                                            *)
(***************************************************************************)
StatusOrder ==
    told'.state # told.state =>
        <<told.state, told'.state>> \in
            {<<"none", "startPending">>, <<"startPending", "running">>,
             <<"startPending", "stopped">>, <<"running", "stopPending">>,
             <<"stopPending", "stopped">>}

\* The reports come in order, and stay true whatever step comes next.
ReportsTrue == [][RunningServes' /\ StatusOrder]_allVars

\* A stop that is accepted ends the process.
StopCompletes == main = "handler" ~> main = "exited"

(***************************************************************************)
(* A service that was started is reported as running or stopped in the     *)
(* end, unless its control handler could not be registered: it then serves *)
(* its clients unheard, or has ended unheard.                              *)
(***************************************************************************)
Unheard == ~handler /\ sv \in {"loop", "ended"}

StartSettles == sv = "entry" ~> told.state \in {"running", "stopped"} \/ Unheard

\* Neither ServiceMain, the control handler nor WinMain waits for ever.
StartAndStopSettle == StopCompletes /\ StartSettles

-----------------------------------------------------------------------------
(***************************************************************************)
(* The inductive invariant behind StoppedIsReleased and                    *)
(* InstanceOutlivesLoop, beside IInv: where ServiceMain is says how far    *)
(* the LPC server may be and whether there is an instance; STOPPED is      *)
(* written only when the server has gone; and WinMain leaves only when     *)
(* ServiceMain never ran or has nothing left to do but to report.          *)
(***************************************************************************)
ServerPhase ==
    /\ app # "stopped" => lib
    /\ lib => sv \in {"starting", "runTells", "loop", "exit"}
    /\ sv \in {"starting", "runTells", "loop"} => lib

StatusPhase ==
    /\ status.state = "stopped" => sv \in {"stopTells", "ended"}
    /\ told.state = "stopped" => sv \in {"stopTells", "ended"}

MainPhase ==
    /\ main \in {"begin", "created"} => sv = "none"
    /\ main \in {"leave", "exited"} => sv \in {"none", "stopTells", "ended"}

ServiceInv == ServiceTypeOK /\ ServerPhase /\ StatusPhase /\ MainPhase
=============================================================================
