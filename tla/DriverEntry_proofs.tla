------------------------- MODULE DriverEntry_proofs -------------------------
(***************************************************************************)
(* What a driver image leaves behind, and the order in which it goes, for  *)
(* every number of devices and of minifilter callbacks.                    *)
(***************************************************************************)
EXTENDS DriverEntry, TLAPS

CrtType == [state : [Singletons -> {"none", "alive", "destroyed"}],
            exits : Seq(Singletons), built : Seq(Singletons)]

(***************************************************************************)
(* Building a singleton, or running the first destructor of the list,      *)
(* leaves a well-formed C run time.                                        *)
(***************************************************************************)
LEMMA GetInstanceType ==
    ASSUME NEW s \in Singletons, NEW c \in CrtType
    PROVE  GetInstance(s, c) \subseteq CrtType
<1>1. c.exits \in Seq(Singletons) /\ c.built \in Seq(Singletons)
      /\ c.state \in [Singletons -> {"none", "alive", "destroyed"}]
    BY DEF CrtType
<1>2. <<s>> \o c.exits \in Seq(Singletons) /\ Append(c.built, s) \in Seq(Singletons)
    BY <1>1
<1>3. [c.state EXCEPT ![s] = "alive"] \in [Singletons -> {"none", "alive", "destroyed"}]
    BY <1>1
<1>4. ASSUME NEW list \in {<<s>> \o c.exits, c.exits}
      PROVE  [state |-> [c.state EXCEPT ![s] = "alive"], exits |-> list,
              built |-> Append(c.built, s)] \in CrtType
    <2>1. list \in Seq(Singletons)
        BY <1>1, <1>2
    <2> QED
        BY <1>2, <1>3, <2>1 DEF CrtType
<1> QED
    BY <1>4 DEF GetInstance

LEMMA GetInstancesType ==
    ASSUME NEW s \in Singletons, NEW t \in Singletons, NEW c \in CrtType
    PROVE  GetInstances(s, t, c) \subseteq CrtType
BY GetInstanceType DEF GetInstances

LEMMA DestroyType ==
    ASSUME NEW c \in CrtType, c.exits # <<>>
    PROVE  Destroy(c) \in CrtType
<1>1. Head(c.exits) \in Singletons /\ Tail(c.exits) \in Seq(Singletons)
    BY DEF CrtType
<1> QED
    BY <1>1 DEF Destroy, CrtType

-----------------------------------------------------------------------------
(***************************************************************************)
(* TypeOK, the C run time apart.                                           *)
(***************************************************************************)
PlainTypes ==
    /\ driver \in Drivers /\ safeBoot \in BOOLEAN /\ pc \in Steps
    /\ buffers \subseteq Buffers
    /\ hooks \subseteq {"MajorFunction", "AddDevice"}
    /\ unload \in {"none", "DriverExit", "FltMgr"}
    /\ savedUnload \in {"none", "DriverExit"}
    /\ filter \in {"none", "registered", "filtering", "unregistering"}
    /\ channel \in {"none", "driver", "callback"} /\ lost \in BOOLEAN /\ tracing \in BOOLEAN
    /\ devices \in 0..MaxDevices
    /\ entered \in Nat /\ asking \in Nat /\ callbacks <= MaxCallbacks

TypesOK == PlainTypes /\ crt \in CrtType

LEMMA TypesGiveTypeOK == TypesOK => TypeOK
BY DEF TypesOK, PlainTypes, CrtType, TypeOK

LEMMA InitTypes == Init => TypesOK
<1> SUFFICES ASSUME Init PROVE TypesOK
    OBVIOUS
<1>1. crt \in CrtType
    <2>1. <<>> \in Seq(Singletons)
        OBVIOUS
    <2>2. [s \in Singletons |-> "none"] \in [Singletons -> {"none", "alive", "destroyed"}]
        OBVIOUS
    <2> QED
        BY <2>1, <2>2 DEF Init, NoCrt, CrtType
<1>2. PlainTypes
    <2>1. /\ devices \in 0..MaxDevices
          /\ entered \in Nat /\ asking \in Nat /\ callbacks <= MaxCallbacks
        BY BoundsAssumption DEF Init, callbacks
    <2> QED
        BY <2>1 DEF Init, PlainTypes, Steps
<1> QED
    BY <1>1, <1>2 DEF TypesOK

LEMMA NextCrtType == TypesOK /\ [Next]_vars => crt' \in CrtType
<1> SUFFICES ASSUME crt \in CrtType, [Next]_vars PROVE crt' \in CrtType
    BY DEF TypesOK
<1>0. /\ "DriverObjectImp" \in Singletons /\ "CMyDriverObject" \in Singletons
      /\ "CRegUtils" \in Singletons /\ "SendToService" \in Singletons
      /\ "MiniFilter" \in Singletons /\ "BasicMiniFilter" \in Singletons
    BY DEF Singletons
<1>1. CASE Main
    <2>1. <<>> \in Seq(Singletons)
        OBVIOUS
    <2>2. CrtInit(crt) \in CrtType
        BY <2>1 DEF CrtInit, CrtType
    <2> QED
        BY <1>1, <2>2 DEF Main
<1>2. CASE Instances
    BY <1>0, <1>2, GetInstancesType DEF Instances
<1>3. CASE InitDriverRegPath
    BY <1>0, <1>3, GetInstanceType DEF InitDriverRegPath
<1>4. CASE Start
    BY <1>0, <1>4, GetInstanceType DEF Start
<1>5. CASE Register
    BY <1>0, <1>5, GetInstancesType DEF Register
<1>6. CASE Stop
    <2>1. StopReaches(crt) \subseteq CrtType
        <3>1. CASE safeBoot
            BY <3>1 DEF StopReaches
        <3>2. CASE ~safeBoot /\ driver = "MiniFilterUser"
            <4>1. \A d \in GetInstances("MiniFilter", "BasicMiniFilter", crt) :
                      GetInstance("SendToService", d) \subseteq CrtType
                BY <1>0, GetInstanceType, GetInstancesType
            <4> QED
                BY <3>2, <4>1 DEF StopReaches
        <3>3. CASE ~safeBoot /\ driver # "MiniFilterUser"
            BY <1>0, <3>3, GetInstanceType DEF StopReaches
        <3> QED
            BY <3>1, <3>2, <3>3
    <2> QED
        BY <1>6, <2>1 DEF Stop
<1>7. CASE CrtExit
    BY <1>7, DestroyType DEF CrtExit
<1>8. CASE UNCHANGED crt
    BY <1>8
<1> QED
    BY <1>1, <1>2, <1>3, <1>4, <1>5, <1>6, <1>7, <1>8
    DEF Next, Loading, Leaving, Use, SafeStart, StartFiltering, Unregister,
        Release, StopDebuggerTracer, AddDevice, RemoveDevice, EnterCallback, AskService,
        LeaveCallback, LeaveUnasked, LeaveAsked, Unload, UnloadCallback, Gone, vars

-----------------------------------------------------------------------------
(***************************************************************************)
(* How far the image is decides what it holds.                             *)
(***************************************************************************)

\* A device needs the routine that only SecLabDlpPnPDrv fills in, and keeps
\* the driver loaded.
DevicesLoaded ==
    /\ "AddDevice" \in hooks => driver = "SecLabDlpPnPDrv"
    /\ devices # 0 => pc = "loaded" /\ "AddDevice" \in hooks

\* The routine the filter manager replaced is DriverExit.
UnloadKnown ==
    /\ pc \in RegPathSteps \cup {"instances", "start", "register"} =>
           unload = "DriverExit"
    /\ pc = "register" => driver = "MiniFilterUser"
    /\ unload = "FltMgr" =>
           driver = "MiniFilterUser" /\ savedUnload = "DriverExit"

\* A callback runs while the filter is registered, which it is only between
\* its registration and DoStartStop(FALSE).
FilterKnown ==
    /\ entered > 0 \/ asking > 0 => filter \in {"filtering", "unregistering"}
    /\ filter # "none" => driver = "MiniFilterUser"
    /\ filter # "none" => pc \in {"startFiltering", "loaded", "exit", "unregister"}
    /\ pc = "startFiltering" => filter = "registered"
    /\ lost => driver = "MiniFilterUser"

\* What each step of the exit has undone stays undone.
Undone ==
    /\ pc \in {"release", "crtExit", "stopTracer", "gone"} => channel = "none"
    /\ pc \in {"crtExit", "stopTracer", "gone"} => buffers = {}
    /\ pc \in {"stopTracer", "gone"} => crt.exits = <<>>
    /\ pc = "gone" => ~tracing

Held == DevicesLoaded /\ UnloadKnown /\ FilterKnown /\ Undone

LEMMA NextPlainTypes == TypesOK /\ Held /\ [Next]_vars => PlainTypes'
<1> SUFFICES ASSUME PlainTypes, Held, [Next]_vars PROVE PlainTypes'
    BY DEF TypesOK
<1> USE DEF PlainTypes, Steps, RegPathSteps, image, callbacks
<1>1. CASE Main
    BY <1>1 DEF Main
<1>2. CASE Instances
    BY <1>2 DEF Instances
<1>3. CASE InitDriverRegPath
    <2>1. Allocates(pc) \subseteq Buffers /\ After(pc) \in Steps
        BY <1>3 DEF InitDriverRegPath, Allocates, After, Buffers
    <2> QED
        BY <1>3, <2>1 DEF InitDriverRegPath, ReleaseDriverRegPath
<1>4. CASE SafeStart
    BY <1>4 DEF SafeStart
<1>5. CASE Start
    BY <1>5 DEF Start
<1>6. CASE Register
    <2>1. unload = "DriverExit"
        BY <1>6 DEF Register, Held, UnloadKnown
    <2> QED
        BY <1>6, <2>1 DEF Register
<1>7. CASE StartFiltering
    BY <1>7 DEF StartFiltering
<1>8. CASE Stop
    BY <1>8 DEF Stop
<1>9. CASE Unregister
    BY <1>9 DEF Unregister
<1>10. CASE Release
    BY <1>10 DEF Release, ReleaseDriverRegPath
<1>11. CASE CrtExit
    BY <1>11 DEF CrtExit
<1>12. CASE StopDebuggerTracer
    BY <1>12 DEF StopDebuggerTracer
<1>13. CASE AddDevice \/ RemoveDevice
    <2>1. devices' \in 0..MaxDevices
        BY ONLY BoundsAssumption, <1>13, devices \in 0..MaxDevices DEF AddDevice, RemoveDevice
    <2> QED
        BY <1>13, <2>1 DEF AddDevice, RemoveDevice
<1>14. CASE EnterCallback \/ AskService \/ LeaveCallback
    <2>1. entered' \in Nat /\ asking' \in Nat /\ entered' + asking' <= MaxCallbacks
        BY BoundsAssumption, <1>14 DEF EnterCallback, AskService, LeaveCallback, LeaveUnasked, LeaveAsked
    <2> QED
        BY <1>14, <2>1 DEF EnterCallback, AskService, LeaveCallback, LeaveUnasked, LeaveAsked
<1>15. CASE Unload \/ UnloadCallback
    BY <1>15 DEF Unload, UnloadCallback
<1>16. CASE Gone \/ UNCHANGED vars
    BY <1>16 DEF Gone, vars
<1> QED
    BY <1>1, <1>2, <1>3, <1>4, <1>5, <1>6, <1>7, <1>8, <1>9, <1>10, <1>11,
       <1>12, <1>13, <1>14, <1>15, <1>16 DEF Next, Loading, Leaving, Use

LEMMA InitHeld == Init => Held
BY DEF Init, Held, DevicesLoaded, UnloadKnown, FilterKnown, Undone, RegPathSteps

LEMMA NextHeld == TypesOK /\ Held /\ [Next]_vars => Held'
<1> SUFFICES ASSUME TypesOK, Held, [Next]_vars PROVE Held'
    OBVIOUS
<1> USE DEF Held, DevicesLoaded, UnloadKnown, FilterKnown, Undone,
            RegPathSteps, image
<1>0. devices \in Nat /\ entered \in Nat /\ asking \in Nat
    BY BoundsAssumption DEF TypesOK, PlainTypes
<1>1. CASE Main
    BY <1>1 DEF Main
<1>2. CASE Instances
    BY <1>2 DEF Instances
<1>3. CASE InitDriverRegPath
    BY <1>3 DEF InitDriverRegPath, After
<1>4. CASE SafeStart
    BY <1>4 DEF SafeStart
<1>5. CASE Start
    BY <1>5 DEF Start, Loads
<1>6. CASE Register
    BY <1>6 DEF Register
<1>7. CASE StartFiltering
    BY <1>7 DEF StartFiltering
<1>8. CASE Stop
    BY <1>8 DEF Stop
<1>9. CASE Unregister
    BY <1>0, <1>9 DEF Unregister, callbacks
<1>10. CASE Release
    BY <1>10 DEF Release, ReleaseDriverRegPath
<1>11. CASE CrtExit
    BY <1>11 DEF CrtExit
<1>12. CASE StopDebuggerTracer
    BY <1>12 DEF StopDebuggerTracer
<1>13. CASE AddDevice
    BY <1>0, <1>13 DEF AddDevice
<1>14. CASE RemoveDevice
    BY <1>0, <1>14 DEF RemoveDevice
<1>15. CASE EnterCallback
    BY <1>0, <1>15 DEF EnterCallback
<1>16. CASE AskService \/ LeaveCallback
    BY <1>0, <1>16 DEF AskService, LeaveCallback, LeaveUnasked, LeaveAsked
<1>17. CASE Unload
    BY <1>17 DEF Unload
<1>18. CASE UnloadCallback
    BY <1>18 DEF UnloadCallback
<1>19. CASE Gone \/ UNCHANGED vars
    BY <1>19 DEF Gone, vars
<1> QED
    BY <1>1, <1>2, <1>3, <1>4, <1>5, <1>6, <1>7, <1>8, <1>9, <1>10, <1>11,
       <1>12, <1>13, <1>14, <1>15, <1>16, <1>17, <1>18, <1>19
    DEF Next, Loading, Leaving, Use

LEMMA HeldIsClean == TypesOK /\ Held => GoneIsClean
BY DEF TypesOK, PlainTypes, Held, DevicesLoaded, UnloadKnown, FilterKnown, Undone,
       GoneIsClean, callbacks

-----------------------------------------------------------------------------
(***************************************************************************)
(* The variables have their types in every reachable state.                *)
(***************************************************************************)
THEOREM TypeCorrect == Spec => []TypeOK
<1>1. Init => TypesOK /\ Held
    BY InitTypes, InitHeld
<1>2. (TypesOK /\ Held) /\ [Next]_vars => (TypesOK /\ Held)'
    BY NextCrtType, NextPlainTypes, NextHeld DEF TypesOK
<1> QED
    BY <1>1, <1>2, TypesGiveTypeOK, PTL DEF Spec

(***************************************************************************)
(* However the load failed and however the driver was unloaded, an image   *)
(* that is gone holds no buffer, destructor, filter, callback, client of   *)
(* the service, device or tracer that it knows of; and only an image with  *)
(* a minifilter has left a connection open that it no longer knows of.     *)
(***************************************************************************)
THEOREM NothingLeftBehind == Spec => []GoneIsClean
<1>1. Init => TypesOK /\ Held
    BY InitTypes, InitHeld
<1>2. (TypesOK /\ Held) /\ [Next]_vars => (TypesOK /\ Held)'
    BY NextCrtType, NextPlainTypes, NextHeld DEF TypesOK
<1> QED
    BY <1>1, <1>2, HeldIsClean, PTL DEF Spec

-----------------------------------------------------------------------------
(***************************************************************************)
(* The C run time: the list of destructors is the singletons built, last   *)
(* first, with those left out for which atexit had no memory; and whatever *)
(* is still on it was built before everything destroyed so far.            *)
(***************************************************************************)
CrtInOrder(c) ==
    /\ \A i \in 1..Len(c.built) : c.state[c.built[i]] # "none"
    /\ \A k \in 1..Len(c.exits) : c.state[c.exits[k]] = "alive"
    /\ \A k, l \in 1..Len(c.exits) : k # l => c.exits[k] # c.exits[l]
    /\ \A k, l \in 1..Len(c.exits), i, j \in 1..Len(c.built) :
           k < l /\ c.built[i] = c.exits[k] /\ c.built[j] = c.exits[l] => j < i
    /\ \A k \in 1..Len(c.exits), i, j \in 1..Len(c.built) :
           c.built[i] = c.exits[k] /\ c.state[c.built[j]] = "destroyed" => i < j

NoneDestroyed(c) == \A s \in Singletons : c.state[s] # "destroyed"

\* The run time before its first destructor: it can still build a singleton.
Young(c) == c \in CrtType /\ CrtInOrder(c) /\ NoneDestroyed(c)

LEMMA GetInstanceKeeps ==
    ASSUME NEW s \in Singletons, NEW c, Young(c), NEW d \in GetInstance(s, c)
    PROVE  /\ Young(d)
           /\ d.state[s] = "alive"
           /\ \A x \in Singletons : c.state[x] = "alive" => d.state[x] = "alive"
<1>1. /\ c.exits \in Seq(Singletons) /\ c.built \in Seq(Singletons)
      /\ c.state \in [Singletons -> {"none", "alive", "destroyed"}]
    BY DEF Young, CrtType
<1>2. CASE c.state[s] # "none"
    <2>1. d = c
        BY <1>2 DEF GetInstance
    <2>2. c.state[s] = "alive"
        BY <1>1, <1>2 DEF Young, NoneDestroyed
    <2> QED
        BY <2>1, <2>2
<1>3. CASE c.state[s] = "none"
    <2>1. PICK list \in {<<s>> \o c.exits, c.exits} :
              d = [state |-> [c.state EXCEPT ![s] = "alive"], exits |-> list,
                   built |-> Append(c.built, s)]
        BY <1>3 DEF GetInstance
    <2>2. d \in CrtType
        BY GetInstanceType DEF Young
    <2>3. PICK m \in Nat : m = Len(c.built)
        BY <1>1
    <2>4. PICK n \in Nat : n = Len(c.exits)
        BY <1>1
    <2>5. /\ Len(d.built) = m + 1 /\ d.built[m + 1] = s
          /\ \A i \in 1..m : d.built[i] = c.built[i] /\ c.built[i] \in Singletons
        BY <1>1, <2>1, <2>3
    <2>6. \A x \in Singletons : d.state[x] = IF x = s THEN "alive" ELSE c.state[x]
        BY <1>1, <2>1
    <2>7. \A k \in 1..n : c.exits[k] \in Singletons /\ c.exits[k] # s
        BY <1>1, <1>3, <2>4 DEF Young, CrtInOrder
    <2>8. \A i \in 1..m : c.built[i] # s
        BY <1>3, <2>3 DEF Young, CrtInOrder
    <2>9. PICK e \in {0, 1} : /\ Len(d.exits) = n + e
                              /\ e = 1 => d.exits[1] = s
                              /\ \A k \in 1..n : d.exits[k + e] = c.exits[k]
        <3>1. CASE list = c.exits
            <4>1. Len(d.exits) = n + 0 /\ \A k \in 1..n : d.exits[k + 0] = c.exits[k]
                BY <2>1, <2>4, <3>1
            <4> QED
                BY <4>1
        <3>2. CASE list = <<s>> \o c.exits
            <4>1. /\ Len(d.exits) = n + 1 /\ d.exits[1] = s
                  /\ \A k \in 1..n : d.exits[k + 1] = c.exits[k]
                BY <1>1, <2>1, <2>4, <3>2
            <4> QED
                BY <4>1
        <3> QED
            BY <3>1, <3>2
    <2>10. \A k \in 1..Len(d.exits) :
               \/ k = 1 /\ d.exits[k] = s
               \/ k - e \in 1..n /\ d.exits[k] = c.exits[k - e]
        <3> SUFFICES ASSUME NEW k \in 1..n + e
                     PROVE  \/ k = 1 /\ d.exits[k] = s
                            \/ k - e \in 1..n /\ d.exits[k] = c.exits[k - e]
            BY <2>9
        <3>1. CASE k = 1 /\ e = 1
            BY <2>9, <3>1
        <3>2. CASE ~(k = 1 /\ e = 1)
            <4>1. k - e \in 1..n /\ (k - e) + e = k
                BY <3>2
            <4> QED
                BY <2>9, <4>1
        <3> QED
            BY <3>1, <3>2
    <2>11. \A i \in 1..m + 1 : i \in 1..m \/ i = m + 1
        OBVIOUS
    <2>12. \A i \in 1..m + 1 : d.state[d.built[i]] \notin {"none", "destroyed"}
        BY <2>3, <2>5, <2>6, <2>11 DEF Young, CrtInOrder, NoneDestroyed
    <2>13. \A k \in 1..Len(d.exits) : d.state[d.exits[k]] = "alive"
        <3>1. \A k \in 1..n : c.state[c.exits[k]] = "alive"
            BY <2>4 DEF Young, CrtInOrder
        <3> QED
            BY <2>6, <2>7, <2>10, <3>1
    <2>14. \A k, l \in 1..Len(d.exits) : k # l => d.exits[k] # d.exits[l]
        <3> SUFFICES ASSUME NEW k \in 1..Len(d.exits), NEW l \in 1..Len(d.exits), k # l
                     PROVE  d.exits[k] # d.exits[l]
            OBVIOUS
        <3>1. k - e # l - e
            OBVIOUS
        <3>2. \A x, y \in 1..n : x # y => c.exits[x] # c.exits[y]
            BY <2>4 DEF Young, CrtInOrder
        <3> QED
            BY <2>7, <2>10, <3>1, <3>2
    <2>15. ASSUME NEW k \in 1..Len(d.exits), NEW l \in 1..Len(d.exits),
                  NEW i \in 1..m + 1, NEW j \in 1..m + 1,
                  k < l, d.built[i] = d.exits[k], d.built[j] = d.exits[l]
           PROVE  j < i
        <3>1. l - e \in 1..n /\ d.exits[l] = c.exits[l - e]
            <4>1. l # 1
                BY <2>9, <2>15
            <4> QED
                BY <2>10, <2>15, <4>1
        <3>2. j \in 1..m /\ d.built[j] = c.built[j]
            BY <2>5, <2>7, <2>11, <2>15, <3>1
        <3>3. CASE i = m + 1
            BY <3>2, <3>3
        <3>4. CASE i \in 1..m
            <4>1. d.built[i] = c.built[i] /\ c.built[i] # s
                BY <2>5, <2>8, <3>4
            <4>2. k - e \in 1..n /\ d.exits[k] = c.exits[k - e]
                BY <2>10, <2>15, <4>1
            <4>3. k - e < l - e
                BY <2>15
            <4> QED
                BY <2>3, <2>4, <2>15, <3>1, <3>2, <3>4, <4>1, <4>2, <4>3 DEF Young, CrtInOrder
        <3> QED
            BY <2>11, <3>3, <3>4
    <2>16. CrtInOrder(d)
        BY <2>5, <2>12, <2>13, <2>14, <2>15 DEF CrtInOrder
    <2>17. NoneDestroyed(d)
        BY <1>1, <2>6 DEF Young, NoneDestroyed
    <2> QED
        BY <2>2, <2>6, <2>16, <2>17 DEF Young
<1> QED
    BY <1>2, <1>3

LEMMA GetInstancesKeeps ==
    ASSUME NEW s \in Singletons, NEW t \in Singletons, NEW c, Young(c),
           NEW d \in GetInstances(s, t, c)
    PROVE  /\ Young(d)
           /\ d.state[s] = "alive" /\ d.state[t] = "alive"
           /\ \A x \in Singletons : c.state[x] = "alive" => d.state[x] = "alive"
<1>1. PICK first \in GetInstance(s, c) : d \in GetInstance(t, first)
    BY DEF GetInstances
<1>2. /\ Young(first) /\ first.state[s] = "alive"
      /\ \A x \in Singletons : c.state[x] = "alive" => first.state[x] = "alive"
    BY GetInstanceKeeps
<1> QED
    BY <1>1, <1>2, GetInstanceKeeps

\* The destructor that runs is that of the youngest singleton on the list.
LEMMA DestroyKeeps ==
    ASSUME NEW c \in CrtType, CrtInOrder(c), c.exits # <<>>
    PROVE  CrtInOrder(Destroy(c))
<1> DEFINE d == Destroy(c)
<1>1. /\ c.exits \in Seq(Singletons) /\ c.built \in Seq(Singletons)
      /\ c.state \in [Singletons -> {"none", "alive", "destroyed"}]
    BY DEF CrtType
<1>2. PICK n \in Nat : n + 1 = Len(c.exits)
    <2>1. Len(c.exits) \in Nat /\ Len(c.exits) # 0
        BY <1>1
    <2>2. Len(c.exits) - 1 \in Nat /\ (Len(c.exits) - 1) + 1 = Len(c.exits)
        BY <2>1
    <2> QED
        BY <2>2
<1>3. /\ d.built = c.built
      /\ d.exits = Tail(c.exits)
      /\ d.state = [c.state EXCEPT ![Head(c.exits)] = "destroyed"]
    BY DEF Destroy, CrtType
<1>4. /\ Len(d.exits) = n /\ Head(c.exits) = c.exits[1]
      /\ \A k \in 1..n : d.exits[k] = c.exits[k + 1]
    BY <1>1, <1>2, <1>3
<1>5. \A k \in 1..n + 1 : c.exits[k] \in Singletons
    BY <1>1, <1>2
<1>6. \A x \in Singletons : d.state[x] = IF x = c.exits[1] THEN "destroyed" ELSE c.state[x]
    BY <1>1, <1>3, <1>4
<1>7. \A k \in 1..n : k + 1 \in 1..n + 1 /\ 1 \in 1..n + 1 /\ 1 < k + 1
    OBVIOUS
<1>8. \A k, l \in 1..n + 1 : k # l => c.exits[k] # c.exits[l]
    BY <1>2 DEF CrtInOrder
<1>9. \A i \in 1..Len(c.built) : c.built[i] \in Singletons
    BY <1>1
<1> HIDE DEF d
<1>10. \A i \in 1..Len(d.built) : d.state[d.built[i]] # "none"
    BY <1>3, <1>6, <1>9 DEF CrtInOrder
<1>11. \A k \in 1..Len(d.exits) : d.state[d.exits[k]] = "alive"
    <2> SUFFICES ASSUME NEW k \in 1..n PROVE d.state[d.exits[k]] = "alive"
        BY <1>4
    <2>1. c.exits[k + 1] # c.exits[1] /\ c.state[c.exits[k + 1]] = "alive"
        BY <1>2, <1>7, <1>8 DEF CrtInOrder
    <2> QED
        BY <1>4, <1>5, <1>6, <1>7, <2>1
<1>12. \A k, l \in 1..n : k # l => k + 1 # l + 1
    OBVIOUS
<1>13. \A k, l \in 1..Len(d.exits) : k # l => d.exits[k] # d.exits[l]
    BY <1>4, <1>7, <1>8, <1>12
<1>14. \A k, l \in 1..Len(d.exits), i, j \in 1..Len(d.built) :
           k < l /\ d.built[i] = d.exits[k] /\ d.built[j] = d.exits[l] => j < i
    <2>1. \A k, l \in 1..n : k < l => k + 1 < l + 1
        OBVIOUS
    <2> QED
        BY <1>2, <1>3, <1>4, <1>7, <2>1 DEF CrtInOrder
<1>15. \A k \in 1..Len(d.exits), i, j \in 1..Len(d.built) :
           d.built[i] = d.exits[k] /\ d.state[d.built[j]] = "destroyed" => i < j
    <2>0. \A k \in 1..Len(d.exits) : k \in 1..n /\ d.exits[k] = c.exits[k + 1]
        BY <1>4
    <2> SUFFICES ASSUME NEW k \in 1..n, NEW i \in 1..Len(c.built), NEW j \in 1..Len(c.built),
                        c.built[i] = c.exits[k + 1], d.state[c.built[j]] = "destroyed"
                 PROVE  i < j
        BY <1>3, <2>0
    <2>1. CASE c.built[j] = c.exits[1]
        BY <1>2, <1>7, <2>1 DEF CrtInOrder
    <2>2. CASE c.built[j] # c.exits[1]
        BY <1>2, <1>6, <1>7, <1>9, <2>2 DEF CrtInOrder
    <2> QED
        BY <2>1, <2>2
<1> QED
    BY <1>10, <1>11, <1>13, <1>14, <1>15 DEF CrtInOrder, d

-----------------------------------------------------------------------------
(***************************************************************************)
(* What a call into the driver stands on, by how far the image is.         *)
(***************************************************************************)
Destroying == pc \in {"crtExit", "stopTracer", "gone"}

\* No destructor runs before CrtExit, and CrtExit keeps their order.
CrtStands ==
    /\ CrtInOrder(crt)
    /\ ~Destroying => NoneDestroyed(crt)

\* Instances builds the driver object, on which every later step stands.
ObjectStands ==
    /\ pc \notin {"main", "instances"} /\ ~Destroying =>
           crt.state["DriverObjectImp"] = "alive" /\ crt.state["CMyDriverObject"] = "alive"
    /\ pc \notin {"main", "gone"} => tracing
    /\ "AddDevice" \in hooks => "MajorFunction" \in hooks

\* Only a minifilter whose driver has started SendToService is registered.
FilterStands ==
    /\ pc = "register" \/ filter # "none" =>
           crt.state["SendToService"] = "alive"
    /\ filter # "none" =>
           crt.state["MiniFilter"] = "alive" /\ crt.state["BasicMiniFilter"] = "alive"

Stands == CrtStands /\ ObjectStands /\ FilterStands

\* What a step does to the run time while nothing is being destroyed.
Grows == /\ Young(crt')
         /\ \A x \in Singletons : crt.state[x] = "alive" => crt'.state[x] = "alive"

LEMMA NextStands == TypesOK /\ Held /\ Stands /\ [Next]_vars => Stands'
<1> SUFFICES ASSUME TypesOK, Held, Stands, [Next]_vars PROVE Stands'
    OBVIOUS
<1> USE DEF Stands, CrtStands, ObjectStands, FilterStands, Destroying, RegPathSteps, image
<1>0. /\ "DriverObjectImp" \in Singletons /\ "CMyDriverObject" \in Singletons
      /\ "CRegUtils" \in Singletons /\ "SendToService" \in Singletons
      /\ "MiniFilter" \in Singletons /\ "BasicMiniFilter" \in Singletons
    BY DEF Singletons
<1>y. ~Destroying => Young(crt)
    BY DEF TypesOK, Young
<1>g. ASSUME Grows PROVE CrtStands'
    BY <1>g DEF Grows, Young
<1>1. CASE Main
    <2>1. crt'.exits = <<>> /\ crt'.built = crt.built /\ crt'.state = crt.state
        BY <1>1 DEF Main, CrtInit, TypesOK, CrtType
    <2>2. \A k \in 1..Len(crt'.exits) : FALSE
        BY <2>1
    <2>3. CrtInOrder(crt')
        BY <2>1, <2>2 DEF CrtInOrder
    <2>4. NoneDestroyed(crt')
        BY <1>1, <2>1 DEF Main, NoneDestroyed
    <2> QED
        BY <1>1, <2>1, <2>3, <2>4 DEF Main
<1>2. CASE Instances
    <2>1. Young(crt)
        BY <1>2, <1>y DEF Instances
    <2>2. /\ Grows
          /\ crt'.state["DriverObjectImp"] = "alive" /\ crt'.state["CMyDriverObject"] = "alive"
        BY <1>0, <1>2, <2>1, GetInstancesKeeps DEF Instances, Grows
    <2>3. filter = "none"
        BY <1>2 DEF Instances, Held, FilterKnown
    <2> QED
        BY <1>2, <1>g, <2>2, <2>3 DEF Instances
<1>3. CASE InitDriverRegPath
    <2>1. Young(crt)
        BY <1>3, <1>y DEF InitDriverRegPath
    <2>2. Grows
        BY <1>0, <1>3, <2>1, GetInstanceKeeps DEF InitDriverRegPath, Grows
    <2>3. filter = "none"
        BY <1>3 DEF InitDriverRegPath, Held, FilterKnown
    <2>4. pc' \notin {"main", "instances", "register"} /\ UNCHANGED <<hooks, tracing, filter>>
        BY <1>3 DEF InitDriverRegPath, After
    <2>5. tracing /\ crt.state["DriverObjectImp"] = "alive" /\ crt.state["CMyDriverObject"] = "alive"
        BY <1>3 DEF InitDriverRegPath
    <2> QED
        BY <1>0, <1>g, <2>2, <2>3, <2>4, <2>5 DEF Grows
<1>4. CASE SafeStart
    <2>1. filter = "none"
        BY <1>4 DEF SafeStart, Held, FilterKnown
    <2> QED
        BY <1>4, <2>1 DEF SafeStart
<1>5. CASE Start
    <2>1. Young(crt)
        BY <1>5, <1>y DEF Start
    <2>2. Grows /\ crt'.state["SendToService"] = "alive"
        BY <1>0, <1>5, <2>1, GetInstanceKeeps DEF Start, Grows
    <2>3. filter = "none"
        BY <1>5 DEF Start, Held, FilterKnown
    <2>4. /\ pc' \notin {"main", "instances"} /\ UNCHANGED <<tracing, filter>>
          /\ "AddDevice" \in hooks' => "MajorFunction" \in hooks'
        BY <1>5 DEF Start, Loads
    <2>5. tracing /\ crt.state["DriverObjectImp"] = "alive" /\ crt.state["CMyDriverObject"] = "alive"
        BY <1>5 DEF Start
    <2> QED
        BY <1>0, <1>g, <2>2, <2>3, <2>4, <2>5 DEF Grows
<1>6. CASE Register
    <2>1. Young(crt)
        BY <1>6, <1>y DEF Register
    <2>2. Grows /\ crt'.state["MiniFilter"] = "alive" /\ crt'.state["BasicMiniFilter"] = "alive"
        BY <1>0, <1>6, <2>1, GetInstancesKeeps DEF Register, Grows
    <2>3. /\ pc' \notin {"main", "instances", "register"} /\ UNCHANGED <<tracing, hooks>>
        BY <1>6 DEF Register
    <2>4. /\ tracing /\ crt.state["DriverObjectImp"] = "alive"
          /\ crt.state["CMyDriverObject"] = "alive"
          /\ crt.state["SendToService"] = "alive"
        BY <1>6 DEF Register
    <2> QED
        BY <1>0, <1>g, <2>2, <2>3, <2>4 DEF Grows
<1>7. CASE StartFiltering
    <2>1. filter # "none"
        BY <1>7 DEF StartFiltering, Held, FilterKnown
    <2> QED
        BY <1>7, <2>1 DEF StartFiltering
<1>8. CASE Stop
    <2>1. Young(crt)
        BY <1>8, <1>y DEF Stop
    <2>2. Grows
        <3>1. CASE safeBoot
            BY <1>8, <2>1, <3>1 DEF Stop, StopReaches, Grows
        <3>2. CASE ~safeBoot /\ driver = "MiniFilterUser"
            <4>1. PICK d \in GetInstances("MiniFilter", "BasicMiniFilter", crt) :
                      crt' \in GetInstance("SendToService", d)
                BY <1>8, <3>2 DEF Stop, StopReaches
            <4>2. Young(d) /\ \A x \in Singletons : crt.state[x] = "alive" => d.state[x] = "alive"
                BY <1>0, <2>1, GetInstancesKeeps
            <4> QED
                BY <1>0, <4>1, <4>2, GetInstanceKeeps DEF Grows
        <3>3. CASE ~safeBoot /\ driver # "MiniFilterUser"
            BY <1>0, <1>8, <2>1, <3>3, GetInstanceKeeps DEF Stop, StopReaches, Grows
        <3> QED
            BY <3>1, <3>2, <3>3
    <2>3. /\ pc' \notin {"main", "instances", "register"} /\ UNCHANGED <<tracing, hooks>>
          /\ filter' # "none" => filter # "none"
        BY <1>8 DEF Stop
    <2>4. tracing /\ crt.state["DriverObjectImp"] = "alive" /\ crt.state["CMyDriverObject"] = "alive"
        BY <1>8 DEF Stop
    <2> QED
        BY <1>0, <1>g, <2>2, <2>3, <2>4 DEF Grows
<1>9. CASE Unregister
    BY <1>9 DEF Unregister
<1>10. CASE Release
    <2>1. filter = "none"
        BY <1>10 DEF Release, Held, FilterKnown
    <2> QED
        BY <1>10, <2>1 DEF Release
<1>11. CASE CrtExit
    <2>1. filter = "none" /\ filter' = "none"
        BY <1>11 DEF CrtExit, Held, FilterKnown
    <2>2. CrtInOrder(crt')
        BY <1>11, DestroyKeeps DEF CrtExit, TypesOK
    <2> QED
        BY <1>11, <2>1, <2>2 DEF CrtExit
<1>12. CASE StopDebuggerTracer
    <2>1. filter = "none"
        BY <1>12 DEF StopDebuggerTracer, Held, FilterKnown
    <2> QED
        BY <1>12, <2>1 DEF StopDebuggerTracer
<1>13. CASE AddDevice \/ RemoveDevice
    BY <1>13 DEF AddDevice, RemoveDevice
<1>14. CASE EnterCallback \/ AskService \/ LeaveCallback
    BY <1>14 DEF EnterCallback, AskService, LeaveCallback, LeaveUnasked, LeaveAsked
<1>15. CASE Unload \/ UnloadCallback
    BY <1>15 DEF Unload, UnloadCallback
<1>16. CASE Gone \/ UNCHANGED vars
    BY <1>16 DEF Gone, vars
<1> QED
    BY <1>1, <1>2, <1>3, <1>4, <1>5, <1>6, <1>7, <1>8, <1>9, <1>10, <1>11,
       <1>12, <1>13, <1>14, <1>15, <1>16 DEF Next, Loading, Leaving, Use

LEMMA InitStands == Init => Stands
<1> SUFFICES ASSUME Init PROVE Stands
    OBVIOUS
<1>1. crt.exits = <<>> /\ crt.built = <<>> /\ crt.state = [s \in Singletons |-> "none"]
    BY DEF Init, NoCrt
<1>2. \A i \in 1..Len(<<>>) : FALSE
    OBVIOUS
<1>3. CrtInOrder(crt) /\ NoneDestroyed(crt)
    BY <1>1, <1>2 DEF CrtInOrder, NoneDestroyed
<1> QED
    BY <1>3 DEF Init, Stands, CrtStands, ObjectStands, FilterStands, Destroying

LEMMA StandsInOrder == TypesOK /\ Held /\ Stands => TeardownInOrder
<1> SUFFICES ASSUME TypesOK, Held, Stands PROVE TeardownInOrder
    OBVIOUS
<1>1. ReverseDestruction
    <2>1. Len(crt.built) \in Nat /\ Len(crt.exits) \in Nat
        BY DEF TypesOK, CrtType
    <2>2. CrtInOrder(crt)
        BY DEF Stands, CrtStands
    <2> SUFFICES ASSUME NEW i \in 1..Len(crt.built), NEW k \in 1..Len(crt.exits),
                        crt.exits[k] = crt.built[i], NEW j \in 1..(i - 1)
                 PROVE  crt.state[crt.built[j]] # "destroyed"
        BY <2>2 DEF ReverseDestruction, CrtInOrder
    <2>3. j \in 1..Len(crt.built) /\ ~(i < j)
        BY <2>1
    <2> QED
        BY <2>2, <2>3 DEF CrtInOrder
<1>2. CallsStandOnLiving
    <2>1. devices \in Nat /\ (callbacks > 0 => entered > 0 \/ asking > 0)
        BY BoundsAssumption DEF TypesOK, PlainTypes, callbacks
    <2>2. ASSUME callbacks > 0
          PROVE  filter \in {"filtering", "unregistering"} /\ pc \notin {"main", "gone"}
        BY <2>1, <2>2 DEF Held, FilterKnown
    <2>3. ASSUME devices > 0
          PROVE  pc = "loaded" /\ "AddDevice" \in hooks
        BY <2>1, <2>3 DEF Held, DevicesLoaded
    <2>4. hooks \subseteq {"MajorFunction", "AddDevice"}
        BY DEF TypesOK, PlainTypes
    <2>5. callbacks > 0 =>
              /\ filter \in {"filtering", "unregistering"} /\ tracing
              /\ \A s \in {"MiniFilter", "BasicMiniFilter", "SendToService"} :
                     crt.state[s] = "alive"
        BY <2>2 DEF Stands, ObjectStands, FilterStands
    <2>6. devices > 0 =>
              /\ hooks = {"MajorFunction", "AddDevice"} /\ tracing
              /\ \A s \in {"DriverObjectImp", "CMyDriverObject"} : crt.state[s] = "alive"
        BY <2>3, <2>4 DEF Stands, ObjectStands, Destroying
    <2> QED
        BY <2>5, <2>6 DEF CallsStandOnLiving
<1> QED
    BY <1>1, <1>2 DEF TeardownInOrder

(***************************************************************************)
(* While a minifilter callback or a device lives, everything it calls is   *)
(* alive, also while the driver exits; and singletons are destroyed in the *)
(* reverse order of their construction, whichever destructors atexit had   *)
(* no memory to note.                                                      *)
(***************************************************************************)
THEOREM TeardownKeepsOrder == Spec => []TeardownInOrder
<1>1. Init => TypesOK /\ Held /\ Stands
    BY InitTypes, InitHeld, InitStands
<1>2. (TypesOK /\ Held /\ Stands) /\ [Next]_vars => (TypesOK /\ Held /\ Stands)'
    BY NextCrtType, NextPlainTypes, NextHeld, NextStands DEF TypesOK
<1> QED
    BY <1>1, <1>2, StandsInOrder, PTL DEF Spec
=============================================================================
