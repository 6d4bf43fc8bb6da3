---------------------------- MODULE DriverEntry ----------------------------
(***************************************************************************)
(* The life of a driver image: DriverEntryLib's Main and DriverExit, the   *)
(* kernel C run time it carries (singletons, atexit), the registry path it *)
(* keeps, the driver object's DoStartStop, and the minifilter registration *)
(* of BasicMiniFilterLib.  It is loaded once and unloaded at most once; a  *)
(* later load starts from a fresh image.                                   *)
(*                                                                         *)
(* A running callback uses the driver's one SendToService as well: it      *)
(* starts it again, over the client that is there, and stops it when it    *)
(* leaves (OpenVerdict has the steps of the two).                          *)
(*                                                                         *)
(* SecLabFltDrv and SecLabDlpPnPDrv are the drivers of this tree.          *)
(* MiniFilterUser is external: no driver of the tree calls                 *)
(* MiniFilter::Start yet.                                                  *)
(***************************************************************************)
EXTENDS Naturals, Sequences

CONSTANTS
    MaxDevices,     \* bound: filter devices at one time
    MaxCallbacks    \* bound: minifilter callbacks running at one time

ASSUME BoundsAssumption == MaxDevices \in Nat /\ MaxCallbacks \in Nat

Drivers == {"SecLabFltDrv", "SecLabDlpPnPDrv", "MiniFilterUser"}

Singletons == {"DriverObjectImp", "CMyDriverObject", "CRegUtils",
               "SendToService", "MiniFilter", "BasicMiniFilter"}

Buffers == {"RegistryPath", "CurrentControlSetPath", "DriverImageFileName"}

VARIABLES
    driver,         \* which driver the image is
    safeBoot,       \* *InitSafeBootMode > 0
    pc,             \* the next step of Main, or of DriverExit
    crt,            \* the function-local statics and the atexit list
    buffers,        \* the buffers behind IRegistryUtil's strings
    hooks,          \* the entries of the driver object that are filled in
    unload,         \* DriverObject->DriverUnload
    savedUnload,    \* BasicMiniFilter::m_DriverUnload
    filter,         \* the registration; m_Inited is filter # "none"
    channel,        \* who started SendToService's client, if there is one
    lost,           \* a client was overwritten and will never be stopped
    tracing,        \* the debugger tracer is started
    devices,        \* filter devices AddDevice made
    entered,        \* minifilter callbacks that run now
    asking          \* those of them that have started SendToService

vars == <<driver, safeBoot, pc, crt, buffers, hooks, unload, savedUnload,
          filter, channel, lost, tracing, devices, entered, asking>>

\* A driver's name and the boot mode never change.
image == <<driver, safeBoot>>

callbacks == entered + asking

-----------------------------------------------------------------------------
(* The C run time. *)

NoCrt == [state |-> [s \in Singletons |-> "none"], exits |-> <<>>, built |-> <<>>]

CrtInit(c) == [c EXCEPT !.exits = <<>>]

\* Mutant: destructors go to the end of the list.
QueuesDestructor(s, c) ==
    IF c.state[s] # "none"
    THEN {c}
    ELSE {[state |-> [c.state EXCEPT ![s] = "alive"], exits |-> Append(c.exits, s),
           built |-> Append(c.built, s)]}

\* A static is built by the first call that reaches it.  atexit puts its
\* destructor at the head of the list; without memory it only returns, so the
\* destructor will never run.
GetInstance(s, c) ==
    IF c.state[s] # "none"
    THEN {c}
    ELSE {[state |-> [c.state EXCEPT ![s] = "alive"], exits |-> list,
           built |-> Append(c.built, s)] : list \in {<<s>> \o c.exits, c.exits}}

GetInstances(s, t, c) == UNION {GetInstance(t, first) : first \in GetInstance(s, c)}

\* CrtExit takes the head off the list and calls it.
Destroy(c) == [c EXCEPT !.state = [@ EXCEPT ![Head(c.exits)] = "destroyed"],
                        !.exits = Tail(@)]

-----------------------------------------------------------------------------
(* Loading. *)

Init ==
    /\ driver \in Drivers /\ safeBoot \in BOOLEAN
    /\ pc = "main"
    /\ crt = NoCrt
    /\ buffers = {} /\ hooks = {}
    /\ unload = "none" /\ savedUnload = "none" /\ filter = "none"
    /\ channel = "none" /\ lost = FALSE /\ tracing = FALSE
    /\ devices = 0 /\ entered = 0 /\ asking = 0

Main ==
    /\ pc = "main"
    /\ unload' = "DriverExit"
    /\ tracing' = TRUE
    /\ crt' = CrtInit(crt)
    /\ pc' = "instances"
    /\ UNCHANGED <<image, buffers, hooks, savedUnload, filter, channel, lost, devices, entered, asking>>

\* DriverObjectImp::GetInstance()->DriverObjectMain(.., DriverObjectInstance()):
\* the order of the two calls is the compiler's.
Instances ==
    /\ pc = "instances"
    /\ crt' \in GetInstances("DriverObjectImp", "CMyDriverObject", crt)
            \cup GetInstances("CMyDriverObject", "DriverObjectImp", crt)
    /\ pc' = "registryPath"
    /\ UNCHANGED <<image, buffers, hooks, unload, savedUnload, filter, channel, lost,
                   tracing, devices, entered, asking>>

\* Mutant: the image's file name is not released.
KeepsFileName(held) == held \cap {"DriverImageFileName"}

\* Each buffer there is, is freed.
ReleaseDriverRegPath(held) == {}

\* InitDriverRegPath's steps, what each allocates and what follows it.
RegPathSteps == {"registryPath", "controlSetPath", "imagePathLength",
                 "imageFileName", "imagePath"}

Allocates(step) ==
    CASE step = "registryPath" -> {"RegistryPath"}
      [] step = "controlSetPath" -> {"CurrentControlSetPath"}
      [] step = "imageFileName" -> {"DriverImageFileName"}
      [] OTHER -> {}

After(step) ==
    CASE step = "registryPath" -> "controlSetPath"
      [] step = "controlSetPath" -> "imagePathLength"
      [] step = "imagePathLength" -> "imageFileName"
      [] step = "imageFileName" -> "imagePath"
      [] OTHER -> "start"

\* The two steps that read the registry build CRegUtils; every step can fail,
\* before or after its allocation, and then everything allocated is released.
InitDriverRegPath ==
    /\ pc \in RegPathSteps
    /\ crt' \in IF pc \in {"imagePathLength", "imagePath"}
                THEN GetInstance("CRegUtils", crt)
                ELSE {crt}
    /\ \/ /\ buffers' = buffers \cup Allocates(pc)
          /\ pc' = After(pc)
       \/ \E allocated \in {{}, Allocates(pc)} :
              /\ buffers' = ReleaseDriverRegPath(buffers \cup allocated)
              /\ pc' = "exit"
    /\ UNCHANGED <<image, hooks, unload, savedUnload, filter, channel, lost, tracing,
                   devices, entered, asking>>

\* The statuses of SecLabFltDrv and SecLabDlpPnPDrv say success whether
\* SendToService started or not; in safe boot nothing is started.
Loads(started) == started \/ driver # "MiniFilterUser"

\* DriverObjectMain fills in the dispatch table, then DoStartStop(TRUE).
SafeStart ==
    /\ pc = "start" /\ safeBoot
    /\ hooks' = hooks \cup {"MajorFunction"}
    /\ pc' = "loaded"
    /\ UNCHANGED <<image, crt, buffers, unload, savedUnload, filter, channel, lost,
                   tracing, devices, entered, asking>>

Start ==
    /\ pc = "start" /\ ~safeBoot
    /\ crt' \in GetInstance("SendToService", crt)
    /\ \E started \in BOOLEAN :
           /\ channel' = IF started THEN "driver" ELSE "none"
           /\ pc' = IF ~Loads(started) THEN "exit"
                    ELSE IF driver = "MiniFilterUser" THEN "register"
                    ELSE "loaded"
    /\ hooks' = hooks \cup {"MajorFunction"}
              \cup (IF driver = "SecLabDlpPnPDrv" THEN {"AddDevice"} ELSE {})
    /\ UNCHANGED <<image, buffers, unload, savedUnload, filter, lost, tracing,
                   devices, entered, asking>>

\* Mutant: the routine is saved after the filter manager has replaced it.
SavesLate ==
    /\ pc = "register"
    /\ crt' \in GetInstances("MiniFilter", "BasicMiniFilter", crt)
    /\ unload' = "FltMgr" /\ savedUnload' = unload'
    /\ filter' = "registered"
    /\ pc' = "startFiltering"
    /\ UNCHANGED <<image, buffers, hooks, channel, lost, tracing, devices, entered, asking>>

\* MiniFilter::Start, BasicMiniFilter::Start: the filter manager puts its own
\* routine where it wants to find NULL.
Register ==
    /\ pc = "register"
    /\ crt' \in GetInstances("MiniFilter", "BasicMiniFilter", crt)
    /\ savedUnload' = unload
    /\ \/ /\ unload' = "FltMgr"
          /\ filter' = "registered"
          /\ pc' = "startFiltering"
       \/ /\ unload' = unload
          /\ filter' = "none"
          /\ pc' = "exit"
    /\ UNCHANGED <<image, buffers, hooks, channel, lost, tracing, devices, entered, asking>>

StartFiltering ==
    /\ pc = "startFiltering"
    /\ \/ /\ filter' = "filtering"
          /\ pc' = "loaded"
       \/ /\ filter' = "none"
          /\ pc' = "exit"
    /\ UNCHANGED <<image, crt, buffers, hooks, unload, savedUnload, channel, lost,
                   tracing, devices, entered, asking>>

-----------------------------------------------------------------------------
(* A loaded driver: the I/O manager and the filter manager call it. *)

\* new (DriverObject) DevFilter, when IoCreateDevice succeeds.
AddDevice ==
    /\ pc = "loaded" /\ "AddDevice" \in hooks
    /\ devices < MaxDevices
    /\ devices' = devices + 1
    /\ UNCHANGED <<image, pc, crt, buffers, hooks, unload, savedUnload, filter,
                   channel, lost, tracing, entered, asking>>

RemoveDevice ==
    /\ devices > 0
    /\ devices' = devices - 1
    /\ UNCHANGED <<image, pc, crt, buffers, hooks, unload, savedUnload, filter,
                   channel, lost, tracing, entered, asking>>

\* _FilterPostCreate is called ...
EnterCallback ==
    /\ filter = "filtering"
    /\ callbacks < MaxCallbacks
    /\ entered' = entered + 1
    /\ UNCHANGED <<image, pc, crt, buffers, hooks, unload, savedUnload, filter,
                   channel, lost, tracing, devices, asking>>

\* ... and returns at once, or finds nothing to ask about.
LeaveUnasked ==
    /\ entered > 0
    /\ entered' = entered - 1
    /\ UNCHANGED <<image, pc, crt, buffers, hooks, unload, savedUnload, filter,
                   channel, lost, tracing, devices, asking>>

\* ShouldStopRead begins with Client->Start(), which overwrites the client
\* that is there, if it succeeds or not.
AskService ==
    /\ entered > 0
    /\ entered' = entered - 1
    /\ asking' = asking + 1
    /\ channel' \in {"callback", "none"}
    /\ lost' = (lost \/ channel # "none")
    /\ UNCHANGED <<image, pc, crt, buffers, hooks, unload, savedUnload, filter,
                   tracing, devices>>

\* ... and ends with Client->Stop(), whoever the client is of.
LeaveAsked ==
    /\ asking > 0
    /\ asking' = asking - 1
    /\ channel' = "none"
    /\ UNCHANGED <<image, pc, crt, buffers, hooks, unload, savedUnload, filter,
                   lost, tracing, devices, entered>>

\* The I/O manager unloads a driver that has no device left.
Unload ==
    /\ pc = "loaded" /\ unload = "DriverExit" /\ devices = 0
    /\ pc' = "exit"
    /\ UNCHANGED <<image, crt, buffers, hooks, unload, savedUnload, filter,
                   channel, lost, tracing, devices, entered, asking>>

\* The filter manager's routine.  UnloadCallback refuses when the unload is
\* not mandatory; otherwise it runs the routine Start saved, if there is one.
UnloadCallback ==
    /\ pc = "loaded" /\ unload = "FltMgr"
    /\ pc' = IF savedUnload = "DriverExit" THEN "exit" ELSE "gone"
    /\ UNCHANGED <<image, crt, buffers, hooks, unload, savedUnload, filter,
                   channel, lost, tracing, devices, entered, asking>>

-----------------------------------------------------------------------------
(* DriverExitInternal, which a failed Main runs too. *)

\* The singletons DoStartStop(FALSE) reaches.
StopReaches(c) ==
    CASE safeBoot -> {c}
      [] ~safeBoot /\ driver = "MiniFilterUser" ->
             UNION {GetInstance("SendToService", d) :
                        d \in GetInstances("MiniFilter", "BasicMiniFilter", c)}
      [] OTHER -> GetInstance("SendToService", c)

\* DoStartStop(FALSE).  MiniFilterUser stops the minifilter first, and
\* FltUnregisterFilter lets no further callback in.
Stop ==
    /\ pc = "exit"
    /\ crt' \in StopReaches(crt)
    /\ IF filter # "none"
       THEN filter' = "unregistering" /\ pc' = "unregister" /\ UNCHANGED channel
       ELSE channel' = "none" /\ pc' = "release" /\ UNCHANGED filter
    /\ UNCHANGED <<image, buffers, hooks, unload, savedUnload, lost, tracing, devices, entered, asking>>

\* FltUnregisterFilter returns when the last callback has.
Unregister ==
    /\ pc = "unregister" /\ callbacks = 0
    /\ filter' = "none"
    /\ channel' = "none"
    /\ pc' = "release"
    /\ UNCHANGED <<image, crt, buffers, hooks, unload, savedUnload, lost, tracing, devices, entered, asking>>

Release ==
    /\ pc = "release"
    /\ buffers' = ReleaseDriverRegPath(buffers)
    /\ pc' = "crtExit"
    /\ UNCHANGED <<image, crt, hooks, unload, savedUnload, filter, channel, lost,
                   tracing, devices, entered, asking>>

\* Mutant: the head of an empty list is its anchor, not NULL.
NeverNull ==
    /\ pc = "crtExit"
    /\ crt' = IF crt.exits # <<>> THEN Destroy(crt) ELSE crt
    /\ UNCHANGED <<image, pc, buffers, hooks, unload, savedUnload, filter, channel, lost,
                   tracing, devices, entered, asking>>

CrtExit ==
    /\ pc = "crtExit"
    /\ IF crt.exits # <<>>
       THEN crt' = Destroy(crt) /\ pc' = pc
       ELSE crt' = crt /\ pc' = "stopTracer"
    /\ UNCHANGED <<image, buffers, hooks, unload, savedUnload, filter, channel, lost,
                   tracing, devices, entered, asking>>

StopDebuggerTracer ==
    /\ pc = "stopTracer"
    /\ tracing' = FALSE
    /\ pc' = "gone"
    /\ UNCHANGED <<image, crt, buffers, hooks, unload, savedUnload, filter,
                   channel, lost, devices, entered, asking>>

-----------------------------------------------------------------------------
Loading == Main \/ Instances \/ InitDriverRegPath \/ SafeStart \/ Start
           \/ Register \/ StartFiltering

Leaving == Stop \/ Unregister \/ Release \/ CrtExit \/ StopDebuggerTracer

LeaveCallback == LeaveUnasked \/ LeaveAsked

Use == AddDevice \/ RemoveDevice \/ EnterCallback \/ AskService \/ LeaveCallback
       \/ Unload \/ UnloadCallback

\* The image is unmapped.
Gone == pc = "gone" /\ UNCHANGED vars

Next == Loading \/ Leaving \/ Use \/ Gone

Spec == Init /\ [][Next]_vars

\* DriverEntry and DriverUnload run to their end on a system thread, and a
\* minifilter callback returns (SendToService's calls are answered or fail).
FairSpec == Spec /\ WF_vars(Loading) /\ WF_vars(Leaving) /\ WF_vars(LeaveCallback)

-----------------------------------------------------------------------------
Steps == {"main", "instances", "start", "register", "startFiltering", "loaded",
          "exit", "unregister", "release", "crtExit", "stopTracer", "gone"}
         \cup RegPathSteps

\* The variables have their types.
TypeOK ==
    /\ driver \in Drivers /\ safeBoot \in BOOLEAN /\ pc \in Steps
    /\ crt \in [state : [Singletons -> {"none", "alive", "destroyed"}],
                exits : Seq(Singletons), built : Seq(Singletons)]
    /\ buffers \subseteq Buffers
    /\ hooks \subseteq {"MajorFunction", "AddDevice"}
    /\ unload \in {"none", "DriverExit", "FltMgr"}
    /\ savedUnload \in {"none", "DriverExit"}
    /\ filter \in {"none", "registered", "filtering", "unregistering"}
    /\ channel \in {"none", "driver", "callback"} /\ lost \in BOOLEAN /\ tracing \in BOOLEAN
    /\ devices \in 0..MaxDevices
    /\ entered \in Nat /\ asking \in Nat /\ callbacks <= MaxCallbacks

\* Whatever step of the load failed, and however the driver was unloaded, the
\* image leaves nothing behind that it still knows of: no buffer, no destructor
\* still to run, no registered filter, no started SendToService, no device, no
\* callback inside it and no tracer (DriverExitInternal undoes what Main did,
\* also the part that was never done).  What it does leave is a connection that
\* a callback's Start overwrote, and only a driver with a minifilter does.
GoneIsClean ==
    pc = "gone" =>
        /\ buffers = {} /\ crt.exits = <<>>
        /\ filter = "none" /\ callbacks = 0
        /\ channel = "none" /\ devices = 0 /\ ~tracing
        /\ lost => driver = "MiniFilterUser"

\* What a running call stands on outlives it.  A minifilter callback finds the
\* filter registered, its singletons alive and the tracer running, also while
\* the driver exits; so does a device its dispatcher.  (Its connection is no
\* such thing: another callback that leaves stops it.)
CallsStandOnLiving ==
    /\ callbacks > 0 =>
           /\ filter \in {"filtering", "unregistering"} /\ tracing
           /\ \A s \in {"MiniFilter", "BasicMiniFilter", "SendToService"} :
                  crt.state[s] = "alive"
    /\ devices > 0 =>
           /\ hooks = {"MajorFunction", "AddDevice"} /\ tracing
           /\ \A s \in {"DriverObjectImp", "CMyDriverObject"} : crt.state[s] = "alive"

\* Destructors run in the reverse order of the constructors, once each: one
\* that is still to run belongs to a singleton that is alive and that was built
\* before every singleton already destroyed.
ReverseDestruction ==
    \A i \in 1..Len(crt.built) :
        (\E k \in 1..Len(crt.exits) : crt.exits[k] = crt.built[i]) =>
            /\ crt.state[crt.built[i]] = "alive"
            /\ \A j \in 1..(i - 1) : crt.state[crt.built[j]] # "destroyed"

\* Everything a call and a destructor rely on is torn down after it.
TeardownInOrder == CallsStandOnLiving /\ ReverseDestruction

\* A load ends, in a driver that is loaded or in an image that is gone, and an
\* exit ends, however many callbacks were running when it began.
LoadAndExitEnd ==
    /\ pc = "main" ~> pc \in {"loaded", "gone"}
    /\ pc = "exit" ~> pc = "gone"
=============================================================================
