------------------------------ MODULE DevFilter ------------------------------
(***************************************************************************)
(* The USB filter of SecLabDlpPnPDrv.  For each new device AddDevice asks  *)
(* the service whether to block it and, if so, attaches a filter device.   *)
(* The filter lets the stack below handle START_DEVICE first, gets the IRP *)
(* back in a completion routine, and turns success into ACCESS_DENIED.     *)
(*                                                                         *)
(* One thread of the PnP manager works on a device at a time; the stack    *)
(* below may complete an IRP in that thread or later in any other.  The    *)
(* driver calls SendToService::Start once, in DriverEntry, so the channel  *)
(* is reduced to the state of its one connection, which nobody renews.     *)
(***************************************************************************)
EXTENDS Naturals

CONSTANTS
    Devices,
    Faults   \* "information", "send", "attach": see the actions that name them

VARIABLES
    loaded,     \* the driver is loaded
    conn,       \* its connection: "none", "live", "dead"
    serviceUp,
    pc,         \* where the PnP manager's thread is, for each device
    answer,     \* what SendMessage said: "none", "block", "failed"
    filter,     \* the filter: "none", "attached", "failed" (not attached), "deleted"
    lower,      \* the stack below and START_DEVICE: "idle", "working", "completed"
    started,    \* the stack below has started the device
    status,     \* Irp->IoStatus.Status
    retVal,     \* RetVal in PnPDispatch
    event,      \* Event in PnPDispatch's frame: "none" without a frame, "clear", "set"
    told,       \* the status of START_DEVICE the PnP manager got
    badSignal   \* history: an Event was set whose frame was gone

driverVars == <<loaded, conn, serviceUp>>
irpVars == <<lower, started, status, retVal, event, badSignal>>
vars == <<driverVars, pc, answer, filter, irpVars, told>>

NtSuccess(s) == s \in {"success", "pending"}

Goto(d, where) == pc' = [pc EXCEPT ![d] = where]

Init ==
    /\ loaded = FALSE /\ conn = "none"
    /\ serviceUp \in BOOLEAN
    /\ pc = [d \in Devices |-> "unplugged"]
    /\ answer = [d \in Devices |-> "none"]
    /\ filter = [d \in Devices |-> "none"]
    /\ lower = [d \in Devices |-> "idle"]
    /\ started = [d \in Devices |-> FALSE]
    /\ status = [d \in Devices |-> "none"]
    /\ retVal = [d \in Devices |-> "success"]
    /\ event = [d \in Devices |-> "none"]
    /\ told = [d \in Devices |-> "none"]
    /\ badSignal = FALSE

-----------------------------------------------------------------------------
\* DoStartStop(TRUE): a failure to connect is ignored.
DriverEntry ==
    /\ ~loaded
    /\ loaded' = TRUE
    /\ conn' = IF serviceUp THEN "live" ELSE "none"
    /\ UNCHANGED <<serviceUp, pc, answer, filter, irpVars, told>>

\* DoStartStop(FALSE), once no device of the driver is left.
DriverUnload ==
    /\ loaded
    /\ \A d \in Devices : filter[d] # "attached" /\ pc[d] \notin {"asking", "answered"}
    /\ loaded' = FALSE
    /\ conn' = "none"
    /\ UNCHANGED <<serviceUp, pc, answer, filter, irpVars, told>>

ServiceComes ==
    /\ ~serviceUp
    /\ serviceUp' = TRUE
    /\ UNCHANGED <<loaded, conn, pc, answer, filter, irpVars, told>>

\* The service goes: its connections are lost and calls in progress fail.
ServiceGoes ==
    /\ serviceUp
    /\ serviceUp' = FALSE
    /\ conn' = IF conn = "live" THEN "dead" ELSE conn
    /\ UNCHANGED <<loaded, pc, answer, filter, irpVars, told>>

-----------------------------------------------------------------------------
\* AddDevice up to SendMessage in IsDeviceOnList.
AddDevice(d) ==
    /\ loaded
    /\ pc[d] = "unplugged"
    /\ Goto(d, "asking")
    /\ UNCHANGED <<driverVars, answer, filter, irpVars, told>>

\* GetDeviceInformation finds no HardwareID: the device is let through unasked.
NoHardwareID(d) ==
    /\ loaded
    /\ pc[d] = "unplugged"
    /\ "information" \in Faults
    /\ Goto(d, "added")
    /\ UNCHANGED <<driverVars, answer, filter, irpVars, told>>

(***************************************************************************)
(* SendMessage: it fails without a live connection, and may fail with one. *)
(* The service answers every GetUsbBlocStatusMessage with ShouldBlock =    *)
(* TRUE.                                                                   *)
(***************************************************************************)
SendMessage(d) ==
    /\ pc[d] = "asking"
    /\ \/ /\ conn = "live"
          /\ answer' = [answer EXCEPT ![d] = "block"]
       \/ /\ conn # "live" \/ "send" \in Faults
          /\ answer' = [answer EXCEPT ![d] = "failed"]
    /\ Goto(d, "answered")
    /\ UNCHANGED <<driverVars, filter, irpVars, told>>

\* The rest of AddDevice: it returns STATUS_SUCCESS in any case.
LetThrough(d) == FALSE \* mutant
IsDeviceOnList(d) == answer[d] = "block"

AttachToDevice(d) ==
    /\ pc[d] = "answered"
    /\ \/ /\ IsDeviceOnList(d)
          /\ filter' = [filter EXCEPT ![d] = "attached"]
       \/ /\ IsDeviceOnList(d) /\ "attach" \in Faults
          /\ filter' = [filter EXCEPT ![d] = "failed"]
       \/ /\ ~IsDeviceOnList(d)
          /\ UNCHANGED filter
    /\ Goto(d, "added")
    /\ UNCHANGED <<driverVars, answer, irpVars, told>>

-----------------------------------------------------------------------------
(***************************************************************************)
(* START_DEVICE.                                                           *)
(***************************************************************************)
\* A device that has no filter is started by the stack below.
StartUnfiltered(d) ==
    /\ pc[d] = "added"
    /\ filter[d] # "attached"
    /\ \E s \in {"success", "failure"} :
        /\ started' = [started EXCEPT ![d] = (s = "success")]
        /\ told' = [told EXCEPT ![d] = s]
    /\ Goto(d, "startDone")
    /\ UNCHANGED <<driverVars, answer, filter, lower, status, retVal, event, badSignal>>

\* PnPDispatch up to IoCallDriver: a fresh Event, and its address in the IRP.
StartDevice(d) ==
    /\ pc[d] = "added"
    /\ filter[d] = "attached"
    /\ event' = [event EXCEPT ![d] = "clear"]
    /\ lower' = [lower EXCEPT ![d] = "working"]
    /\ Goto(d, "calling")
    /\ UNCHANGED <<driverVars, answer, filter, started, status, retVal, told, badSignal>>

(***************************************************************************)
(* StartDeviceCompletition sets the Event it was given the address of and  *)
(* keeps the IRP from going further up.                                    *)
(***************************************************************************)
NoSignal(d) == UNCHANGED <<event, badSignal>> \* mutant
StartDeviceCompletition(d) ==
    /\ event' = [event EXCEPT ![d] = IF @ = "none" THEN @ ELSE "set"]
    /\ badSignal' = (badSignal \/ event[d] = "none")

\* The stack below completes the IRP, in whatever thread.
LowerCompletes(d) ==
    /\ lower[d] = "working"
    /\ lower' = [lower EXCEPT ![d] = "completed"]
    /\ \E s \in {"success", "failure"} :
        /\ started' = [started EXCEPT ![d] = (s = "success")]
        /\ status' = [status EXCEPT ![d] = s]
    /\ StartDeviceCompletition(d)
    /\ UNCHANGED <<driverVars, pc, answer, filter, retVal, told>>

\* STATUS_PENDING == RetVal: wait, for as long as it takes.
NeverWaits(d) == "returned" \* mutant
AfterCall(d) == IF retVal'[d] = "pending" THEN "waiting" ELSE "returned"

\* IoCallDriver returns STATUS_PENDING, or the status of a completed IRP.
IoCallDriverReturns(d) ==
    /\ pc[d] = "calling"
    /\ \/ retVal' = [retVal EXCEPT ![d] = "pending"]
       \/ lower[d] = "completed" /\ retVal' = [retVal EXCEPT ![d] = status[d]]
    /\ Goto(d, AfterCall(d))
    /\ UNCHANGED <<driverVars, answer, filter, lower, started, status, event, told, badSignal>>

EventIsSet(d) == event[d] = "set"

StaysPending(d) == UNCHANGED retVal \* mutant
ForgetPending(d) == retVal' = [retVal EXCEPT ![d] = "success"]

\* KeWaitForSingleObject returns: RetVal = STATUS_SUCCESS.
WaitReturns(d) ==
    /\ pc[d] = "waiting"
    /\ EventIsSet(d)
    /\ ForgetPending(d)
    /\ Goto(d, "returned")
    /\ UNCHANGED <<driverVars, answer, filter, lower, started, status, event, told, badSignal>>

PassesStatus(d) == status[d] \* mutant
FinalStatus(d) ==
    IF NtSuccess(retVal[d]) /\ NtSuccess(status[d]) THEN "denied" ELSE retVal[d]

\* The rest of START_DEVICE: the IRP is completed and the frame is left.
CompleteStart(d) ==
    /\ pc[d] = "returned"
    /\ status' = [status EXCEPT ![d] = "none"]
    /\ told' = [told EXCEPT ![d] = FinalStatus(d)]
    /\ event' = [event EXCEPT ![d] = "none"]
    /\ retVal' = [retVal EXCEPT ![d] = "success"]
    /\ Goto(d, "startDone")
    /\ UNCHANGED <<driverVars, answer, filter, lower, started, badSignal>>

-----------------------------------------------------------------------------
(***************************************************************************)
(* REMOVE_DEVICE: after a start, whatever came of it, or without one.  The *)
(* filter passes it down, detaches and deletes itself.                     *)
(***************************************************************************)
DetachAndDelete(d) ==
    filter' = [filter EXCEPT ![d] = IF @ = "attached" THEN "deleted" ELSE @]

RemoveDevice(d) ==
    /\ pc[d] \in {"added", "startDone"}
    /\ DetachAndDelete(d)
    /\ started' = [started EXCEPT ![d] = FALSE]
    /\ Goto(d, "removed")
    /\ UNCHANGED <<driverVars, answer, lower, status, retVal, event, told, badSignal>>

\* The device leaves the machine and may come back.
Unplug(d) ==
    /\ pc[d] = "removed"
    /\ answer' = [answer EXCEPT ![d] = "none"]
    /\ filter' = [filter EXCEPT ![d] = "none"]
    /\ lower' = [lower EXCEPT ![d] = "idle"]
    /\ told' = [told EXCEPT ![d] = "none"]
    /\ Goto(d, "unplugged")
    /\ UNCHANGED <<driverVars, started, status, retVal, event, badSignal>>

Dispatch(d) ==
    \/ SendMessage(d) \/ AttachToDevice(d) \/ IoCallDriverReturns(d) \/ WaitReturns(d) \/ CompleteStart(d)
PnpManager(d) ==
    \/ AddDevice(d) \/ NoHardwareID(d) \/ StartUnfiltered(d) \/ StartDevice(d)
    \/ RemoveDevice(d) \/ Unplug(d)

Next ==
    \/ DriverEntry \/ DriverUnload \/ ServiceComes \/ ServiceGoes
    \/ \E d \in Devices : Dispatch(d) \/ LowerCompletes(d) \/ PnpManager(d)

Spec == Init /\ [][Next]_vars

(***************************************************************************)
(* A thread inside the filter runs on, the service answers or is gone, and *)
(* the stack below completes every IRP it is given, as drivers must.       *)
(***************************************************************************)
FairSpec ==
    /\ Spec
    /\ \A d \in Devices : WF_vars(Dispatch(d)) /\ WF_vars(LowerCompletes(d))

-----------------------------------------------------------------------------
TypeOK ==
    /\ loaded \in BOOLEAN /\ serviceUp \in BOOLEAN
    /\ conn \in {"none", "live", "dead"}
    /\ pc \in [Devices -> {"unplugged", "asking", "answered", "added", "calling", "waiting", "returned",
                           "startDone", "removed"}]
    /\ answer \in [Devices -> {"none", "block", "failed"}]
    /\ filter \in [Devices -> {"none", "attached", "failed", "deleted"}]
    /\ lower \in [Devices -> {"idle", "working", "completed"}]
    /\ status \in [Devices -> {"none", "success", "failure"}]
    /\ retVal \in [Devices -> {"success", "failure", "pending"}]
    /\ event \in [Devices -> {"none", "clear", "set"}]
    /\ told \in [Devices -> {"none", "success", "failure", "denied"}]

(***************************************************************************)
(* The completion routine, which may run in another thread at any time     *)
(* after IoCallDriver, never sets the Event of a frame that was left.      *)
(***************************************************************************)
EventOutlivesCall == ~badSignal

(***************************************************************************)
(* START_DEVICE is not completed to the PnP manager while the stack below  *)
(* still works on it: the filter owns the IRP when it completes it.        *)
(***************************************************************************)
OneOwner == \A d \in Devices : lower[d] = "working" => pc[d] \in {"calling", "waiting"}

\* The stack below and the filter have the IRP, and the Event, one after the other.
HandOverSound == EventOutlivesCall /\ OneOwner

(***************************************************************************)
(* A device the service wants blocked and the stack below has started is   *)
(* denied, unless AttachToDevice found no memory for its filter: the PnP   *)
(* manager is never told that its start succeeded, in whichever thread and *)
(* at whatever moment the start completed, and if the service has gone     *)
(* since it answered.                                                      *)
(***************************************************************************)
FilteredStartDenied ==
    \A d \in Devices :
        pc[d] = "startDone" /\ answer[d] = "block" /\ filter[d] # "failed" /\ started[d] => told[d] = "denied"

(***************************************************************************)
(* Every START_DEVICE that a filter gets is completed to the PnP manager.  *)
(***************************************************************************)
EveryStartCompletes == \A d \in Devices : pc[d] = "calling" ~> pc[d] = "startDone"

(***************************************************************************)
(* DevFilter.cpp:196 says of a device that it "is on list and will be      *)
(* blocked" before its filter is attached.  Its start succeeds as far as   *)
(* the PnP manager knows when it fails in the stack below after            *)
(* STATUS_PENDING.                                                         *)
(***************************************************************************)
ListedDeviceBlocked ==
    \A d \in Devices : pc[d] = "startDone" /\ filter[d] = "attached" => told[d] # "success"
=============================================================================
