-------------------------- MODULE DevFilter_proofs --------------------------
(***************************************************************************)
(* The safety properties of DevFilter for every set of devices and every   *)
(* choice of faults.                                                       *)
(***************************************************************************)
EXTENDS DevFilter, TLAPS

(***************************************************************************)
(* What the place of the PnP manager's thread says about its device.       *)
(***************************************************************************)
\* The frame of PnPDispatch, with its Event, is there during START_DEVICE.
InCall(d) == pc[d] \in {"calling", "waiting", "returned"}

FrameSound(d) ==
    /\ event[d] # "none" <=> InCall(d)
    /\ InCall(d) => filter[d] = "attached" /\ lower[d] # "idle"

\* The stack below has the IRP, or has set the Event.
LowerSound(d) ==
    /\ lower[d] = "working" => pc[d] \in {"calling", "waiting"} /\ event[d] = "clear"
    /\ InCall(d) /\ lower[d] = "completed" =>
           /\ event[d] = "set" /\ status[d] # "none"
           /\ started[d] => status[d] = "success"

\* A status that is passed on is that of the stack below.
StatusSound(d) ==
    /\ retVal[d] = "pending" => pc[d] = "waiting"
    /\ pc[d] = "returned" =>
           /\ event[d] = "set"
           /\ status[d] = "success" => retVal[d] = "success"
    /\ event[d] = "set" => lower[d] = "completed"
    /\ pc[d] = "startDone" /\ filter[d] = "attached" /\ started[d] => told[d] = "denied"

\* Who is to be blocked has a filter once AddDevice has returned, if it could be attached.
FilterSound(d) ==
    /\ answer[d] = "block" =>
           pc[d] = "answered" \/ filter[d] \in {"attached", "failed"} \/ pc[d] = "removed"
    /\ pc[d] \in {"unplugged", "asking"} => answer[d] # "block"
    /\ filter[d] = "deleted" => pc[d] = "removed"

DeviceSound(d) == FrameSound(d) /\ LowerSound(d) /\ StatusSound(d) /\ FilterSound(d)

Types == TypeOK /\ started \in [Devices -> BOOLEAN] /\ badSignal \in BOOLEAN

DevInv == Types /\ ~badSignal /\ \A d \in Devices : DeviceSound(d)

LEMMA InitInv == Init => DevInv
<1> SUFFICES ASSUME Init PROVE DevInv
    OBVIOUS
<1>1. Types
    <2>1. pc \in [Devices -> {"unplugged", "asking", "answered", "added", "calling", "waiting",
                              "returned", "startDone", "removed"}]
        BY DEF Init
    <2>2. filter \in [Devices -> {"none", "attached", "failed", "deleted"}]
        BY DEF Init
    <2>3. told \in [Devices -> {"none", "success", "failure", "denied"}]
        BY DEF Init
    <2>4. /\ answer \in [Devices -> {"none", "block", "failed"}]
          /\ lower \in [Devices -> {"idle", "working", "completed"}]
          /\ status \in [Devices -> {"none", "success", "failure"}]
          /\ retVal \in [Devices -> {"success", "failure", "pending"}]
          /\ event \in [Devices -> {"none", "clear", "set"}]
        BY DEF Init
    <2>5. started \in [Devices -> BOOLEAN] /\ badSignal \in BOOLEAN
        BY DEF Init
    <2>6. loaded \in BOOLEAN /\ serviceUp \in BOOLEAN /\ conn \in {"none", "live", "dead"}
        BY DEF Init
    <2> QED
        BY <2>1, <2>2, <2>3, <2>4, <2>5, <2>6 DEF Types, TypeOK
<1>2. ASSUME NEW d \in Devices PROVE DeviceSound(d)
    BY DEF Init, DeviceSound, FrameSound, InCall, LowerSound, StatusSound, FilterSound
<1>3. ~badSignal
    BY DEF Init
<1> QED
    BY <1>1, <1>2, <1>3 DEF DevInv

LEMMA NextTypes == DevInv /\ [Next]_vars => Types'
<1> SUFFICES ASSUME DevInv, [Next]_vars PROVE Types'
    OBVIOUS
<1> USE DEF DevInv, Types, TypeOK, driverVars, irpVars, Goto
<1>1. CASE DriverEntry \/ DriverUnload \/ ServiceComes \/ ServiceGoes
    <2>1. /\ UNCHANGED <<pc, answer, filter, lower, started, status, retVal, event, told>>
          /\ UNCHANGED badSignal
        BY <1>1 DEF DriverEntry, DriverUnload, ServiceComes, ServiceGoes
    <2>2. loaded' \in BOOLEAN /\ serviceUp' \in BOOLEAN
        BY <1>1 DEF DriverEntry, DriverUnload, ServiceComes, ServiceGoes
    <2>3. conn' \in {"none", "live", "dead"}
        BY <1>1 DEF DriverEntry, DriverUnload, ServiceComes, ServiceGoes
    <2> QED
        BY <2>1, <2>2, <2>3
<1>2. ASSUME NEW d \in Devices, AddDevice(d) \/ NoHardwareID(d) \/ SendMessage(d) \/ AttachToDevice(d) PROVE Types'
    <2>1. CASE AddDevice(d)
        BY <2>1 DEF AddDevice
    <2>2. CASE NoHardwareID(d)
        BY <2>2 DEF NoHardwareID
    <2>3. CASE SendMessage(d)
        BY <2>3 DEF SendMessage
    <2>4. CASE AttachToDevice(d)
        BY <2>4 DEF AttachToDevice
    <2> QED
        BY <1>2, <2>1, <2>2, <2>3, <2>4
<1>3. ASSUME NEW d \in Devices, StartUnfiltered(d) \/ StartDevice(d) PROVE Types'
    <2>1. CASE StartUnfiltered(d)
        <3>1. started' \in [Devices -> BOOLEAN]
            BY <2>1 DEF StartUnfiltered
        <3>2. told' \in [Devices -> {"none", "success", "failure", "denied"}]
            BY <2>1 DEF StartUnfiltered
        <3> QED
            BY <2>1, <3>1, <3>2 DEF StartUnfiltered
    <2>2. CASE StartDevice(d)
        BY <2>2 DEF StartDevice
    <2> QED
        BY <1>3, <2>1, <2>2
<1>4. ASSUME NEW d \in Devices, LowerCompletes(d) PROVE Types'
    <2>1. lower' \in [Devices -> {"idle", "working", "completed"}]
          /\ event' \in [Devices -> {"none", "clear", "set"}]
        BY <1>4 DEF LowerCompletes, StartDeviceCompletition
    <2>2. started' \in [Devices -> BOOLEAN] /\ status' \in [Devices -> {"none", "success", "failure"}]
        BY <1>4 DEF LowerCompletes
    <2>3. badSignal' \in BOOLEAN
        BY <1>4 DEF LowerCompletes, StartDeviceCompletition
    <2> QED
        BY <1>4, <2>1, <2>2, <2>3 DEF LowerCompletes
<1>5. ASSUME NEW d \in Devices, IoCallDriverReturns(d) PROVE Types'
    <2>1. ASSUME lower[d] = "completed" PROVE status[d] \in {"success", "failure"}
        BY <1>5, <2>1 DEF IoCallDriverReturns, DeviceSound, LowerSound, InCall
    <2> QED
        BY <1>5, <2>1 DEF IoCallDriverReturns, AfterCall
<1>6. ASSUME NEW d \in Devices, WaitReturns(d) PROVE Types'
    BY <1>6 DEF WaitReturns, ForgetPending
<1>7. ASSUME NEW d \in Devices, CompleteStart(d) PROVE Types'
    <2>1. FinalStatus(d) \in {"success", "failure", "denied"}
        BY <1>7 DEF FinalStatus, DeviceSound, StatusSound, CompleteStart
    <2> QED
        BY <1>7, <2>1 DEF CompleteStart
<1>8. ASSUME NEW d \in Devices, RemoveDevice(d) \/ Unplug(d) PROVE Types'
    <2>1. CASE RemoveDevice(d)
        BY <2>1 DEF RemoveDevice, DetachAndDelete
    <2>2. CASE Unplug(d)
        BY <2>2 DEF Unplug
    <2> QED
        BY <1>8, <2>1, <2>2
<1>9. CASE UNCHANGED vars
    BY <1>9 DEF vars
<1> QED
    BY <1>1, <1>2, <1>3, <1>4, <1>5, <1>6, <1>7, <1>8, <1>9 DEF Next, Dispatch, PnpManager

(***************************************************************************)
(* A step of one device leaves the others as they are, and its own in      *)
(* order; the driver and the service touch none.                           *)
(***************************************************************************)
SameDevice(d) ==
    /\ pc'[d] = pc[d] /\ answer'[d] = answer[d] /\ filter'[d] = filter[d]
    /\ lower'[d] = lower[d] /\ started'[d] = started[d] /\ status'[d] = status[d]
    /\ retVal'[d] = retVal[d] /\ event'[d] = event[d] /\ told'[d] = told[d]

LEMMA SameIsSound ==
    ASSUME NEW d \in Devices, DeviceSound(d), SameDevice(d)
    PROVE  DeviceSound(d)'
BY DEF SameDevice, DeviceSound, FrameSound, InCall, LowerSound, StatusSound, FilterSound

LEMMA StepIsLocal ==
    ASSUME Types, NEW d \in Devices, NEW e \in Devices \ {d},
           Dispatch(d) \/ LowerCompletes(d) \/ PnpManager(d)
    PROVE  SameDevice(e)
<1> USE DEF Types, TypeOK, SameDevice, driverVars, irpVars, Goto
<1>1. CASE Dispatch(d)
    BY <1>1 DEF Dispatch, SendMessage, AttachToDevice, IoCallDriverReturns, WaitReturns, ForgetPending, CompleteStart
<1>2. CASE LowerCompletes(d)
    BY <1>2 DEF LowerCompletes, StartDeviceCompletition
<1>3. CASE PnpManager(d)
    BY <1>3 DEF PnpManager, AddDevice, NoHardwareID, StartUnfiltered, StartDevice, RemoveDevice,
        DetachAndDelete, Unplug
<1> QED
    BY <1>1, <1>2, <1>3

LEMMA StepIsSound ==
    ASSUME DevInv, NEW d \in Devices, Dispatch(d) \/ LowerCompletes(d) \/ PnpManager(d)
    PROVE  DeviceSound(d)' /\ ~badSignal'
<1> USE DEF DevInv, Types, TypeOK, driverVars, irpVars, Goto,
        DeviceSound, FrameSound, InCall, LowerSound, StatusSound, FilterSound
<1>1. CASE SendMessage(d) \/ AttachToDevice(d)
    BY <1>1 DEF SendMessage, AttachToDevice, IsDeviceOnList
<1>2. CASE IoCallDriverReturns(d)
    BY <1>2 DEF IoCallDriverReturns, AfterCall
<1>3. CASE WaitReturns(d)
    BY <1>3 DEF WaitReturns, EventIsSet, ForgetPending
<1>4. CASE CompleteStart(d)
    BY <1>4 DEF CompleteStart, FinalStatus, NtSuccess
<1>5. CASE LowerCompletes(d)
    BY <1>5 DEF LowerCompletes, StartDeviceCompletition
<1>6. CASE AddDevice(d) \/ NoHardwareID(d)
    BY <1>6 DEF AddDevice, NoHardwareID
<1>7. CASE StartUnfiltered(d)
    BY <1>7 DEF StartUnfiltered
<1>8. CASE StartDevice(d)
    BY <1>8 DEF StartDevice
<1>9. CASE RemoveDevice(d) \/ Unplug(d)
    BY <1>9 DEF RemoveDevice, DetachAndDelete, Unplug
<1> QED
    BY <1>1, <1>2, <1>3, <1>4, <1>5, <1>6, <1>7, <1>8, <1>9 DEF Dispatch, PnpManager

LEMMA NextInv == DevInv /\ [Next]_vars => DevInv'
<1> SUFFICES ASSUME DevInv, [Next]_vars PROVE DevInv'
    OBVIOUS
<1>1. Types'
    BY NextTypes
<1>2. ASSUME NEW d \in Devices, Dispatch(d) \/ LowerCompletes(d) \/ PnpManager(d)
      PROVE  ~badSignal' /\ \A e \in Devices : DeviceSound(e)'
    <2>1. DeviceSound(d)' /\ ~badSignal'
        BY <1>2, StepIsSound
    <2>2. ASSUME NEW e \in Devices \ {d} PROVE DeviceSound(e)'
        <3>1. SameDevice(e)
            BY <1>2, StepIsLocal DEF DevInv
        <3> QED
            BY <3>1, SameIsSound DEF DevInv
    <2> QED
        BY <2>1, <2>2
<1>3. CASE UNCHANGED <<pc, answer, filter, irpVars, told>>
    <2>1. ASSUME NEW e \in Devices PROVE DeviceSound(e)'
        BY <1>3, SameIsSound DEF DevInv, SameDevice, irpVars
    <2> QED
        BY <1>1, <1>3, <2>1 DEF DevInv, irpVars
<1>4. CASE DriverEntry \/ DriverUnload \/ ServiceComes \/ ServiceGoes \/ UNCHANGED vars
    BY <1>3, <1>4 DEF DriverEntry, DriverUnload, ServiceComes, ServiceGoes, vars
<1> QED
    BY <1>1, <1>2, <1>4 DEF Next, DevInv

-----------------------------------------------------------------------------
LEMMA SpecInv == Spec => []DevInv
BY InitInv, NextInv, PTL DEF Spec

\* The variables have their types.
THEOREM TypeCorrect == Spec => []TypeOK
<1>1. DevInv => TypeOK
    BY DEF DevInv, Types
<1> QED
    BY <1>1, SpecInv, PTL

(***************************************************************************)
(* The IRP and the Event in PnPDispatch's frame are used by the filter and *)
(* by the stack below one after the other, in whatever threads.            *)
(***************************************************************************)
THEOREM HandOverIsSound == Spec => []HandOverSound
<1>1. DevInv => HandOverSound
    BY DEF DevInv, DeviceSound, LowerSound, HandOverSound, EventOutlivesCall, OneOwner
<1> QED
    BY <1>1, SpecInv, PTL

(***************************************************************************)
(* The PnP manager is never told that a start succeeded which the stack    *)
(* below has made of a device that is to be blocked, if its filter could   *)
(* be attached.                                                            *)
(***************************************************************************)
THEOREM StartIsDenied == Spec => []FilteredStartDenied
<1>1. DevInv => FilteredStartDenied
    BY DEF DevInv, DeviceSound, StatusSound, FilterSound, Types, TypeOK, FilteredStartDenied
<1> QED
    BY <1>1, SpecInv, PTL
=============================================================================
