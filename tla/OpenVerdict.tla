----------------------------- MODULE OpenVerdict -----------------------------
(***************************************************************************)
(* The file-open verdict: SecLabFltDrv's minifilter, in the thread that    *)
(* opens a file, asks the service through the SendToService singleton      *)
(* whether to block the open, while the driver is loaded and unloaded and  *)
(* the service comes and goes.  It is assumed that the filter manager      *)
(* calls the post-create callback only while the driver is loaded, and     *)
(* waits for callbacks in progress before it lets the driver unload.       *)
(***************************************************************************)
EXTENDS SendToService

CONSTANTS
    Openers,     \* threads that open files
    Driver,      \* the thread that loads and unloads the driver
    FileHandles, \* values of file handles in the service process
    MaxOpens,    \* bound: opens that reach ShouldStopRead
    MaxLoads     \* bound: loads of the driver

ASSUME OpenersAssumption ==
    /\ Threads = Openers \cup {Driver}
    /\ Driver \notin Openers
    /\ PidOf[Driver] = SystemPid
    /\ Null \notin FileHandles

ASSUME BoundsAssumption == MaxOpens \in Nat /\ MaxLoads \in Nat

VARIABLES
    opens,      \* how many opens have reached ShouldStopRead
    loads,      \* how many times the driver was loaded
    file,       \* the file being opened: see Files
    fileHandle, \* FileHandle of ShouldStopRead, a value for the service process
    table,      \* the file each handle value means in the service that runs now
    verdict,    \* ShouldStopRead's RetVal
    intact,     \* history: the service stayed up and no call failed so far
    overlapped, \* history: two threads were inside the singleton at a time
    outlived    \* history: a file handle was still to be sent when its service went

\* The pattern is in the first 255 bytes; it is not; the file is shorter than that.
Files == {"pattern", "clean", "short"}

callVars == <<file, fileHandle, table, verdict, intact, outlived>>
vars == <<chanVars, opens, loads, callVars, overlapped>>

Idle(t) == pc[t] \in {"idle", "unloaded", "loaded"}
DriverLoaded == pc[Driver] = "loaded"

Init ==
    /\ ChannelInit
    /\ pc = [t \in Threads |-> IF t = Driver THEN "unloaded" ELSE "idle"]
    /\ opens = 0
    /\ loads = 0
    /\ file = [t \in Openers |-> "clean"]
    /\ fileHandle = [t \in Openers |-> Null]
    /\ table = [h \in FileHandles |-> "none"]
    /\ verdict = [t \in Openers |-> FALSE]
    /\ intact = [t \in Openers |-> FALSE]
    /\ overlapped = FALSE
    /\ outlived = FALSE

Enter(t) == overlapped' = (overlapped \/ \E u \in Threads \ {t} : ~Idle(u))

-----------------------------------------------------------------------------
(***************************************************************************)
(* _FilterPostCreate up to ShouldStopRead: a user-mode open of an existing *)
(* file that has data.  Every other open is allowed without a question.    *)
(***************************************************************************)
BeginOpen(t) ==
    /\ pc[t] = "idle"
    /\ DriverLoaded
    /\ opens < MaxOpens
    /\ opens' = opens + 1
    /\ \E f \in Files : file' = [file EXCEPT ![t] = f]
    /\ intact' = [intact EXCEPT ![t] = serviceUp]
    /\ Enter(t)
    /\ Goto(t, "start")
    /\ UNCHANGED <<chanFixed, locals, loads, fileHandle, table, verdict, outlived>>

\* A step inside the singleton finds no memory, or cannot send although the connection is there.
CallFails(t) ==
    \/ pc[t] = "start" /\ mClient' = Null
    \/ pc[t] = "request" /\ pc'[t] = "sendFailed" /\ Means(handle[this[t]], PidOf[t]) \subseteq OpenConns

OpenInChannel(t) ==
    /\ ChannelStep(t)
    /\ intact' = [intact EXCEPT ![t] = @ /\ ~CallFails(t)]
    /\ UNCHANGED <<opens, loads, file, fileHandle, table, verdict, overlapped, outlived>>

(***************************************************************************)
(* Leave without a verdict: Client->Stop() all the same.  A file handle    *)
(* that could not be sent is nobody's: it stays open in the service.       *)
(***************************************************************************)
GiveUp(t) ==
    /\ pc[t] \in {"startFailed", "noProcess", "sendFailed"}
    /\ CallStop(t)
    /\ UNCHANGED <<chanFixed, this, port, started, opens, loads, callVars, overlapped>>

AskServerPid(t) == GetServerPid(t) /\ UNCHANGED <<opens, loads, callVars, overlapped>>

\* GetProcessHandle and FltGetFileHandle: a handle that is free in the service.
DuplicateHandle(t) ==
    /\ pc[t] = "openProcess"
    /\ \E h \in FileHandles :
          /\ table[h] = "none"
          /\ table' = [table EXCEPT ![h] = file[t]]
          /\ fileHandle' = [fileHandle EXCEPT ![t] = h]
    /\ Goto(t, "send")
    /\ UNCHANGED <<chanFixed, locals, opens, loads, file, verdict, intact, overlapped, outlived>>

\* Either of them fails.
DuplicateFails(t) ==
    /\ pc[t] = "openProcess"
    /\ "handle" \in Faults
    /\ intact' = [intact EXCEPT ![t] = FALSE]
    /\ CallStop(t)
    /\ UNCHANGED <<chanFixed, this, port, started, opens, loads, file, fileHandle, table, verdict,
                   overlapped, outlived>>

(***************************************************************************)
(* MyServerCallbacks::HandleDataRequest blocks a file when it finds its    *)
(* pattern in the first 255 bytes of a buffer that it does not initialize: *)
(* behind a file that is shorter the search reads whatever is there, the   *)
(* pattern of a file read before, for one.                                 *)
(***************************************************************************)
Verdicts(f) ==
    CASE f = "pattern" -> {TRUE}
      [] f = "clean"   -> {FALSE}
      [] f = "short"   -> BOOLEAN

\* The file the service reads: what the value sent to it means there by now.
AnyFile(t) == Files \cap {table[h] : h \in FileHandles} \* mutant
FilesRead(t) == Files \cap {table[fileHandle[t]]}

\* The service answers: it reads the file, decides, and closes the handle ...
Answer(t) ==
    /\ pc[t] = "sending"
    /\ \E f \in FilesRead(t), v \in BOOLEAN :
          v \in Verdicts(f) /\ verdict' = [verdict EXCEPT ![t] = v]
    /\ table' = [table EXCEPT ![fileHandle[t]] = "none"]
    /\ CallStop(t)
    /\ SendReturns(t)
    /\ UNCHANGED <<opens, loads, file, fileHandle, intact, overlapped, outlived>>

\* ... or cannot read it: the answer is to allow, and the handle stays open.
AnswerReadFails(t) ==
    /\ pc[t] = "sending"
    /\ FilesRead(t) = {} \/ "read" \in Faults
    /\ intact' = [intact EXCEPT ![t] = @ /\ FilesRead(t) = {}]
    /\ CallStop(t)
    /\ SendReturns(t)
    /\ UNCHANGED <<opens, loads, file, fileHandle, table, verdict, overlapped, outlived>>

\* The open returns: denied with STATUS_ACCESS_DENIED if verdict, else allowed.
EndOpen(t) ==
    /\ pc[t] = "stopped"
    /\ Goto(t, "idle")
    /\ file' = [file EXCEPT ![t] = "clean"]
    /\ fileHandle' = [fileHandle EXCEPT ![t] = Null]
    /\ verdict' = [verdict EXCEPT ![t] = FALSE]
    /\ intact' = [intact EXCEPT ![t] = FALSE]
    /\ UNCHANGED <<chanFixed, locals, opens, loads, table, overlapped, outlived>>

Open(t) ==
    \/ OpenInChannel(t) \/ BeginOpen(t) \/ GiveUp(t) \/ AskServerPid(t) \/ DuplicateHandle(t)
    \/ DuplicateFails(t) \/ Answer(t) \/ AnswerReadFails(t) \/ EndOpen(t)

-----------------------------------------------------------------------------
(***************************************************************************)
(* The driver: DoStartStop(TRUE) in DriverEntry and DoStartStop(FALSE) in  *)
(* DriverUnload.  A failed Start is followed by Stop and the driver is     *)
(* loaded all the same: the value DoStartStop returns then is 0.           *)
(***************************************************************************)
DriverEntry ==
    /\ pc[Driver] = "unloaded"
    /\ loads < MaxLoads
    /\ loads' = loads + 1
    /\ Enter(Driver)
    /\ Goto(Driver, "start")
    /\ UNCHANGED <<chanFixed, locals, opens, callVars>>

DriverStarted ==
    /\ \/ pc[Driver] = "started" /\ Goto(Driver, "loaded") /\ UNCHANGED ret
       \/ pc[Driver] = "startFailed" /\ Goto(Driver, "stop") /\ ret' = [ret EXCEPT ![Driver] = "loaded"]
    /\ UNCHANGED <<chanFixed, this, port, started, opens, loads, callVars, overlapped>>

DriverUnload ==
    /\ DriverLoaded
    /\ \A t \in Openers : Idle(t)
    /\ Goto(Driver, "stop")
    /\ ret' = [ret EXCEPT ![Driver] = "unloaded"]
    /\ UNCHANGED <<chanFixed, this, port, started, opens, loads, callVars, overlapped>>

DriverInChannel == ChannelStep(Driver) /\ UNCHANGED <<opens, loads, callVars, overlapped>>

DriverSteps == DriverInChannel \/ DriverEntry \/ DriverStarted \/ DriverUnload

ServiceComes == ServiceStart /\ UNCHANGED <<opens, loads, callVars, overlapped>>

\* A service process takes its file handles with it; the next one starts without any.
ServiceGoes ==
    /\ ServiceStop
    /\ table' = [h \in FileHandles |-> "none"]
    /\ outlived' = (outlived \/ \E t \in Openers : pc[t] \in {"send", "loadSend", "request"})
    /\ intact' = [t \in Openers |-> FALSE]
    /\ UNCHANGED <<opens, loads, file, fileHandle, verdict, overlapped>>

Next == DriverSteps \/ ServiceComes \/ ServiceGoes \/ \E t \in Openers : Open(t)

Spec == Init /\ [][Next]_vars

-----------------------------------------------------------------------------
PCs == {"idle", "unloaded", "loaded", "started", "startFailed", "openProcess", "noProcess", "sending",
        "sendFailed", "stopped", "undone"} \cup
       {"start", "check", "loadStart", "setInited"} \cup
       {"stop", "test", "loadStop", "loadFree", "clear", "null"} \cup
       {"loadPid", "send", "loadSend"} \cup UsePCs

TypeOK ==
    /\ mClient \in Objs \cup {Null}
    /\ inited \in BOOLEAN
    /\ alloc \subseteq Objs
    /\ handle \in [Objs -> Conns \cup {Null, Dead}]
    /\ told \subseteq alloc
    /\ pc \in [Threads -> PCs]
    /\ this \in [Threads -> Objs \cup {Null}]
    /\ opens \in 0 .. MaxOpens /\ loads \in 0 .. MaxLoads
    /\ table \in [FileHandles -> Files \cup {"none"}]
    /\ verdict \in [Openers -> BOOLEAN]

(***************************************************************************)
(* A file of 255 bytes or more is denied only if it holds the pattern:     *)
(* ShouldStopRead (MiniFilter.cpp:432) sends the service a number, which   *)
(* means the file only as long as that service runs and nobody closes it   *)
(* there.  It holds although clients are replaced and shared, unless calls *)
(* have overlapped and a handle was still to be sent when its service      *)
(* went: the next service may use the number for another open's file.      *)
(***************************************************************************)
DeniedOnlyByPolicy ==
    ~(overlapped /\ outlived) => \A t \in Openers : verdict[t] => file[t] # "clean"

(***************************************************************************)
(* While no two calls have overlapped, an open during which the service    *)
(* stayed up and no call failed blocks a file that holds the pattern.      *)
(***************************************************************************)
EnforcedWithoutOverlap ==
    \A t \in Openers : ~overlapped /\ pc[t] = "stopped" /\ intact[t] /\ file[t] = "pattern" => verdict[t]

(***************************************************************************)
(* The driver's own connection is lost when the first open overwrites      *)
(* m_Client (SendToService.cpp:40), but without overlap that is all:       *)
(* between calls the service holds at most one connection per load of the  *)
(* driver beside m_Client's.                                               *)
(***************************************************************************)
Reachable == IF mClient \in alloc THEN {handle[mClient]} ELSE {}
OneLostConnectionPerLoad ==
    ~overlapped /\ (\A t \in Threads : Idle(t)) =>
        Cardinality(OpenConns \ Reachable) <= loads

(***************************************************************************)
(* While no two calls have overlapped, no freed client object is used and  *)
(* nothing is called through NULL, in spite of clients being overwritten,  *)
(* and no connection is lost but the driver's own, one each load.          *)
(***************************************************************************)
SafeWithoutOverlap ==
    /\ ~overlapped => ~crashed
    /\ OneLostConnectionPerLoad

-----------------------------------------------------------------------------
(***************************************************************************)
(* README.md:31 promises that the filter blocks opens "based on policy     *)
(* decisions returned by the user-mode service".  It does not: an open in  *)
(* another thread can replace or stop the client in use.                   *)
(***************************************************************************)
PolicyEnforced ==
    \A t \in Openers : pc[t] = "stopped" /\ intact[t] /\ file[t] = "pattern" => verdict[t]
=============================================================================
