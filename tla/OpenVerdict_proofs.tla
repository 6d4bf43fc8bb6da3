------------------------- MODULE OpenVerdict_proofs -------------------------
(***************************************************************************)
(* Proofs about OpenVerdict, for any number of threads, processes, client  *)
(* objects, connections and file handles and any faults: when a file that  *)
(* holds no pattern is not denied, and that the singleton is sound as long *)
(* as no two threads are inside of it at a time.                           *)
(***************************************************************************)
EXTENDS OpenVerdict, TLAPS, FiniteSetTheorems

InStop == {"stop", "test", "loadStop", "close", "closeNull", "loadFree", "free", "clear", "null"}
DriverPCs == {"unloaded", "loaded", "start", "check", "loadStart", "connect", "connecting", "connected",
              "undo", "undoNull", "setInited", "undone", "started", "startFailed"} \cup InStop
OpenerPCs == PCs \ {"unloaded", "loaded"}

(***************************************************************************)
(* The types of all variables and, overlap or not, where the threads can   *)
(* be: the driver is loaded while a file is being opened.                  *)
(***************************************************************************)
ChannelTypes ==
    /\ mClient \in Objs \cup {Null}
    /\ inited \in BOOLEAN
    /\ alloc \subseteq Objs
    /\ handle \in [Objs -> Conns \cup {Null, Dead}]
    /\ connPid \in [Conns -> {Null} \cup {PidOf[t] : t \in Threads}]
    /\ told \subseteq alloc
    /\ pc \in [Threads -> PCs]
    /\ this \in [Threads -> Objs \cup {Null}]
    /\ port \in [Threads -> Conns \cup {Null}]
    /\ started \in [Threads -> BOOLEAN]
    /\ ret \in [Threads -> {"stopped", "undone", "loaded", "unloaded"}]
    /\ serviceUp \in BOOLEAN /\ crashed \in BOOLEAN

OpenTypes ==
    /\ opens \in 0 .. MaxOpens
    /\ loads \in 0 .. MaxLoads
    /\ file \in [Openers -> Files]
    /\ fileHandle \in [Openers -> FileHandles \cup {Null}]
    /\ table \in [FileHandles -> Files \cup {"none"}]
    /\ verdict \in [Openers -> BOOLEAN]
    /\ intact \in [Openers -> BOOLEAN]
    /\ overlapped \in BOOLEAN /\ outlived \in BOOLEAN

Types == ChannelTypes /\ OpenTypes

\* started[t] is RetVal of a Start that has not returned.
Returned(t) == started[t] => pc[t] = "setInited"

Where ==
    /\ \A t \in Threads : Returned(t)
    /\ pc[Driver] \in DriverPCs
    /\ pc[Driver] \in InStop => ret[Driver] # "stopped"
    /\ \A t \in Openers :
          /\ pc[t] \in OpenerPCs
          /\ pc[t] \in InStop => ret[t] \in {"stopped", "undone"}
          /\ ~DriverLoaded => pc[t] = "idle"

(***************************************************************************)
(* Without overlap one thread at most is inside the singleton.             *)
(***************************************************************************)
Alone == \A t, u \in Threads : ~Idle(t) /\ ~Idle(u) => t = u

\* m_Client and m_Inited between calls.
Settled == \/ mClient = Null /\ ~inited
           \/ mClient \in alloc /\ inited

\* A client that has not connected yet.
Fresh == mClient \in alloc /\ mClient \notin told /\ handle[mClient] = Null

Asking == {"started", "loadPid", "readPid", "openProcess", "noProcess", "send", "loadSend", "request",
           "sending", "sendFailed"}

\* What the one thread inside finds them to be, wherever it is.
Fits(t) ==
    /\ Returned(t)
    /\ pc[t] = "start" => Settled
    /\ pc[t] = "check" => mClient = Null \/ Fresh
    /\ pc[t] \in {"loadStart", "connect", "connecting", "undo"} => Fresh
    /\ pc[t] # "undoNull"
    /\ pc[t] \in {"connected", "loadStop", "close", "closeNull", "loadFree", "free"} => mClient \in alloc
    /\ pc[t] \in UsePCs => this[t] = mClient
    /\ pc[t] = "setInited" =>
          \/ mClient \in alloc /\ (started[t] \/ handle[mClient] = Null)
          \/ mClient = Null /\ ~started[t]
    /\ pc[t] \in Asking => mClient \in alloc /\ inited
    /\ pc[t] = "stop" => Settled \/ mClient = Null
    /\ pc[t] = "test" => mClient \in alloc \cup {Null}
    /\ pc[t] \in {"loadFree", "free"} => handle[mClient] = Null
    /\ pc[t] \in {"clear", "null"} => mClient \notin alloc
    /\ pc[t] = "null" => ~inited
    /\ pc[t] \in {"undone", "startFailed", "stopped"} => mClient = Null /\ ~inited

Sound ==
    /\ ~crashed
    /\ \A t \in Threads : ~Idle(t) => Fits(t)
    /\ (\A t \in Threads : Idle(t)) => Settled
    /\ pc[Driver] \in {"unloaded", "start"} => mClient = Null

-----------------------------------------------------------------------------
LEMMA Constants ==
    /\ Openers \subseteq Threads /\ Driver \in Threads /\ Driver \notin Openers
    /\ \A t \in Threads : t \in Openers \/ t = Driver
    /\ PidOf[Driver] = SystemPid
    /\ Null \notin Objs /\ Null \notin Conns /\ Dead \notin Conns /\ Dead # Null
    /\ Null \notin FileHandles
    /\ \A t \in Threads : PidOf[t] # Null
    /\ MaxOpens \in Nat /\ MaxLoads \in Nat /\ NumSlots \in Nat
  BY OpenersAssumption, ChannelAssumption, BoundsAssumption

(***************************************************************************)
(* Each action preserves the types.                                        *)
(***************************************************************************)
LEMMA TypesInit == Init => Types
<1> SUFFICES ASSUME Init PROVE Types
  OBVIOUS
<1>1. ChannelTypes
  <2>1. pc \in [Threads -> PCs]
    BY DEF Init, PCs
  <2> QED
    BY <2>1, Constants DEF Init, ChannelInit, ChannelTypes
<1>2. OpenTypes
  <2>1. opens \in 0 .. MaxOpens /\ loads \in 0 .. MaxLoads
    BY Constants DEF Init
  <2> QED
    BY <2>1 DEF Init, OpenTypes, Files
<1> QED
  BY <1>1, <1>2 DEF Types

LEMMA ClosedTypes ==
    ASSUME ChannelTypes, NEW c, CloseConn(c)
    PROVE  connPid' \in [Conns -> {Null} \cup {PidOf[u] : u \in Threads}]
  BY DEF ChannelTypes, CloseConn

LEMMA HandleTypes ==
    ASSUME ChannelTypes, NEW t \in Threads, NEW at, NEW closed \in PCs, NEW next \in PCs,
           CloseHandle(t, at, closed, next) \/ ForgetHandle(t, closed, next)
    PROVE  ChannelTypes'
<1> USE DEF Goto, Release, Using, single, objVars, locals
<1>1. connPid' \in [Conns -> {Null} \cup {PidOf[u] : u \in Threads}]
  BY ClosedTypes DEF CloseHandle, ForgetHandle, ChannelTypes
<1> QED
  BY <1>1 DEF CloseHandle, ForgetHandle, ChannelTypes

LEMMA LoadTypes ==
    ASSUME ChannelTypes, NEW t \in Threads, NEW at, NEW next \in PCs, Load(t, at, next)
    PROVE  ChannelTypes'
  BY DEF Load, ChannelTypes, Goto, chanFixed, single, objVars

LEMMA StartTypes ==
    ASSUME ChannelTypes, NEW t \in Threads, Start(t)
    PROVE  ChannelTypes'
<1> USE DEF PCs, UsePCs, Goto, Release, Using, chanFixed, single, objVars, locals
<1>1. CASE StartNewClient(t)
  BY <1>1, Constants DEF StartNewClient, ChannelTypes
<1>2. CASE StartCheckClient(t)
  BY <1>2 DEF StartCheckClient, ChannelTypes
<1>3. CASE StartCallClient(t)
  BY <1>3, LoadTypes DEF StartCallClient, ChannelTypes
<1>4. CASE StartConnected(t)
  <2>1. connPid' \in [Conns -> {Null} \cup {PidOf[u] : u \in Threads}]
    BY <1>4 DEF StartConnected, ChannelTypes
  <2> QED
    BY <1>4, <2>1 DEF StartConnected, ChannelTypes
<1>5. CASE StartTold(t)
  BY <1>5 DEF StartTold, ChannelTypes
<1>6. CASE StartRefused(t)
  BY <1>6, HandleTypes DEF StartRefused
<1>7. CASE StartSetInited(t) \/ StartUndone(t)
  BY <1>7 DEF StartSetInited, StartUndone, AfterStart, ChannelTypes
<1> QED
  BY <1>1, <1>2, <1>3, <1>4, <1>5, <1>6, <1>7 DEF Start

LEMMA StopTypes ==
    ASSUME ChannelTypes, NEW t \in Threads, Stop(t)
    PROVE  ChannelTypes'
<1> USE DEF PCs, UsePCs, Goto, Release, chanFixed, single, objVars, locals
<1>a. ret[t] \in PCs
  BY DEF ChannelTypes
<1>1. CASE StopTest(t)
  BY <1>1, <1>a DEF StopTest, ChannelTypes
<1>2. CASE StopClose(t)
  BY <1>2, LoadTypes, HandleTypes DEF StopClose
<1>3. CASE StopFree(t)
  BY <1>3, LoadTypes DEF StopFree, FreeInstance, ChannelTypes
<1>4. CASE StopClear(t) \/ StopNull(t)
  BY <1>4, <1>a DEF StopClear, StopNull, ChannelTypes
<1> QED
  BY <1>1, <1>2, <1>3, <1>4 DEF Stop

LEMMA SendTypes ==
    ASSUME ChannelTypes, NEW t \in Threads, Send(t) \/ GetServerPid(t) \/ UseAfterFree(t)
    PROVE  ChannelTypes'
<1> USE DEF PCs, UsePCs, Goto, Release, Using, chanFixed, single, objVars, locals
<1>1. CASE SendMessage(t)
  BY <1>1, LoadTypes DEF SendMessage, ChannelTypes
<1>2. CASE SendRequest(t)
  BY <1>2 DEF SendRequest, OpenConns, ChannelTypes
<1>3. CASE SendFails(t) \/ SendCancelled(t)
  BY <1>3 DEF SendFails, SendCancelled, SendReturns, ChannelTypes
<1>4. CASE GetServerPid(t)
  BY <1>4, LoadTypes DEF GetServerPid, ChannelTypes
<1>5. CASE UseAfterFree(t)
  BY <1>5 DEF UseAfterFree, ChannelTypes
<1> QED
  BY <1>1, <1>2, <1>3, <1>4, <1>5 DEF Send

LEMMA ChannelStepTypes ==
    ASSUME ChannelTypes, NEW t \in Threads, ChannelStep(t)
    PROVE  ChannelTypes'
  BY StartTypes, StopTypes, SendTypes DEF ChannelStep

LEMMA OpenStepTypes ==
    ASSUME Types, NEW t \in Openers, Open(t)
    PROVE  Types'
<1> USE DEF Types
<1>a. t \in Threads /\ MaxOpens \in Nat
  BY Constants
<1>1. CASE OpenInChannel(t)
  BY <1>1, <1>a, ChannelStepTypes DEF OpenInChannel, OpenTypes
<1>2. CASE AskServerPid(t)
  BY <1>2, <1>a, SendTypes DEF AskServerPid, OpenTypes, callVars
<1>3. CASE ~OpenInChannel(t) /\ ~AskServerPid(t)
  <2>1. ChannelTypes'
    BY <1>3, <1>a DEF Open, BeginOpen, GiveUp, DuplicateHandle, DuplicateFails,
       Answer, AnswerReadFails, SendReturns, EndOpen, CallStop, Goto, ChannelTypes, PCs,
       chanFixed, single, objVars, locals
  <2>2. CASE BeginOpen(t)
    <3>1. opens' \in 0 .. MaxOpens
      BY <2>2, <1>a DEF BeginOpen, OpenTypes
    <3>2. file' \in [Openers -> Files]
      BY <2>2 DEF BeginOpen, OpenTypes
    <3>3. intact' \in [Openers -> BOOLEAN] /\ overlapped' \in BOOLEAN
      BY <2>2 DEF BeginOpen, Enter, ChannelTypes, OpenTypes
    <3> QED
      BY <2>1, <2>2, <3>1, <3>2, <3>3 DEF BeginOpen, OpenTypes
  <2>3. CASE ~BeginOpen(t)
    BY <2>1, <2>3, <1>3 DEF Open, GiveUp, DuplicateHandle, DuplicateFails,
       Answer, Verdicts, AnswerReadFails, EndOpen, OpenTypes, callVars, Files
  <2> QED
    BY <2>2, <2>3
<1> QED
  BY <1>1, <1>2, <1>3

LEMMA DriverStepTypes ==
    ASSUME Types, DriverSteps
    PROVE  Types'
<1> USE DEF Types
<1>a. Driver \in Threads /\ MaxLoads \in Nat
  BY Constants
<1>1. CASE DriverInChannel
  BY <1>1, <1>a, ChannelStepTypes DEF DriverInChannel, OpenTypes, callVars
<1>2. CASE DriverEntry
  <2>1. loads' \in 0 .. MaxLoads
    BY <1>2, <1>a DEF DriverEntry, OpenTypes
  <2>2. ChannelTypes'
    BY <1>2, <1>a DEF DriverEntry, Goto, ChannelTypes, PCs, chanFixed, single, objVars, locals
  <2> QED
    BY <1>2, <2>1, <2>2 DEF DriverEntry, Enter, OpenTypes, callVars
<1>3. CASE DriverStarted \/ DriverUnload
  BY <1>3, <1>a DEF DriverStarted, DriverUnload, Goto, ChannelTypes, OpenTypes, PCs,
     chanFixed, single, objVars, callVars
<1> QED
  BY <1>1, <1>2, <1>3 DEF DriverSteps

LEMMA ServiceStepTypes ==
    ASSUME Types, ServiceComes \/ ServiceGoes
    PROVE  Types'
<1> USE DEF Types
<1>1. CASE ServiceComes
  BY <1>1 DEF ServiceComes, ServiceStart, ChannelTypes, OpenTypes,
     single, objVars, callVars, locals
<1>2. CASE ServiceGoes
  <2>1. pc' \in [Threads -> PCs]
    BY <1>2 DEF ServiceGoes, ServiceStop, ChannelTypes, PCs
  <2> QED
    BY <1>2, <2>1 DEF ServiceGoes, ServiceStop, ChannelTypes, OpenTypes, single
<1> QED
  BY <1>1, <1>2

LEMMA TypesStep == Types /\ [Next]_vars => Types'
<1> SUFFICES ASSUME Types, [Next]_vars PROVE Types'
  OBVIOUS
<1>1. CASE UNCHANGED vars
  BY <1>1 DEF Types, ChannelTypes, OpenTypes, vars, chanVars, chanFixed, single, objVars, locals, callVars
<1>2. CASE Next
  BY <1>2, OpenStepTypes, DriverStepTypes, ServiceStepTypes DEF Next
<1> QED
  BY <1>1, <1>2

(***************************************************************************)
(* The types of the singleton, its clients, the threads and the opens.     *)
(***************************************************************************)
THEOREM TypeCorrect == Spec => []TypeOK
<1>1. Types => TypeOK
  BY DEF Types, ChannelTypes, OpenTypes, TypeOK
<1> QED
  BY <1>1, TypesInit, TypesStep, PTL DEF Spec

-----------------------------------------------------------------------------
(***************************************************************************)
(* Where a step inside the singleton takes a thread.                       *)
(***************************************************************************)
Moves(t, from, to) == pc[t] = from /\ pc'[t] \in to

InChannel == {"start", "check", "loadStart", "connect", "connecting", "connected", "undo", "undoNull",
              "setInited", "undone", "send", "loadSend", "request", "sending"} \cup InStop

ChannelMove(t) ==
    \/ crashed' /\ pc'[t] = pc[t] /\ ret'[t] = ret[t]
    \/ ret'[t] = ret[t] /\ \/ Moves(t, "start", {"check"})
                           \/ Moves(t, "check", {"loadStart", "setInited"})
                           \/ Moves(t, "loadStart", {"connect"})
                           \/ Moves(t, "connect", {"connecting"})
                           \/ Moves(t, "connecting", {"connected", "undo"})
                           \/ Moves(t, "connected", {"setInited"})
                           \/ Moves(t, "undo", {"undoNull", "setInited"})
                           \/ Moves(t, "undoNull", {"setInited"})
                           \/ Moves(t, "setInited", {"started"})
                           \/ Moves(t, "undone", {"startFailed"})
                           \/ Moves(t, "stop", {"test", ret[t]})
                           \/ Moves(t, "test", {"loadStop", "clear"})
                           \/ Moves(t, "loadStop", {"close"})
                           \/ Moves(t, "close", {"closeNull", "loadFree"})
                           \/ Moves(t, "closeNull", {"loadFree"})
                           \/ Moves(t, "loadFree", {"free"})
                           \/ Moves(t, "free", {"clear"})
                           \/ Moves(t, "clear", {"null"})
                           \/ Moves(t, "null", {ret[t]})
                           \/ Moves(t, "send", {"loadSend", "sendFailed"})
                           \/ Moves(t, "loadSend", {"request"})
                           \/ Moves(t, "request", {"sending", "sendFailed"})
                           \/ Moves(t, "sending", {"sendFailed"})
    \/ Moves(t, "setInited", {"stop"}) /\ ret'[t] = "undone"

\* What t's step leaves alone: where the other threads are, and the service.
OthersStay(t) ==
    /\ \A u \in Threads \ {t} : /\ pc'[u] = pc[u] /\ ret'[u] = ret[u] /\ this'[u] = this[u]
                                /\ port'[u] = port[u] /\ started'[u] = started[u]
    /\ serviceUp' = serviceUp

LEMMA StartMoves ==
    ASSUME Types, NEW t \in Threads, Start(t)
    PROVE  ~crashed /\ ChannelMove(t) /\ OthersStay(t)
<1> USE DEF Types, ChannelTypes, ChannelMove, Moves, OthersStay, Goto, Release, Using,
        chanFixed, single, objVars, locals
<1>1. CASE StartNewClient(t)
  BY <1>1 DEF StartNewClient
<1>2. CASE StartCheckClient(t)
  BY <1>2 DEF StartCheckClient
<1>3. CASE StartCallClient(t)
  BY <1>3 DEF StartCallClient, Load
<1>4. CASE StartConnected(t)
  BY <1>4 DEF StartConnected
<1>5. CASE StartTold(t)
  BY <1>5 DEF StartTold
<1>6. CASE StartRefused(t)
  BY <1>6 DEF StartRefused, CloseHandle, ForgetHandle
<1>7. CASE StartSetInited(t)
  BY <1>7 DEF StartSetInited, AfterStart
<1>8. CASE StartUndone(t)
  BY <1>8 DEF StartUndone
<1> QED
  BY <1>1, <1>2, <1>3, <1>4, <1>5, <1>6, <1>7, <1>8 DEF Start

LEMMA StopMoves ==
    ASSUME Types, NEW t \in Threads, Stop(t)
    PROVE  ~crashed /\ ChannelMove(t) /\ OthersStay(t)
<1> USE DEF Types, ChannelTypes, ChannelMove, Moves, OthersStay, Goto, Release, Using,
        chanFixed, single, objVars, locals
<1>1. CASE StopTest(t)
  BY <1>1 DEF StopTest
<1>2. CASE StopClose(t)
  BY <1>2 DEF StopClose, Load, CloseHandle, ForgetHandle
<1>3. CASE StopFree(t)
  BY <1>3 DEF StopFree, Load
<1>4. CASE StopClear(t) \/ StopNull(t)
  BY <1>4 DEF StopClear, StopNull
<1> QED
  BY <1>1, <1>2, <1>3, <1>4 DEF Stop

LEMMA SendMoves ==
    ASSUME Types, NEW t \in Threads, Send(t)
    PROVE  ~crashed /\ ChannelMove(t) /\ OthersStay(t)
  BY DEF Types, ChannelTypes, ChannelMove, Moves, OthersStay, Goto, Release, Using,
     chanFixed, single, objVars, locals, Send, SendMessage, Load, SendRequest, SendFails, SendCancelled, SendReturns

LEMMA PidMoves ==
    ASSUME Types, NEW t \in Threads, GetServerPid(t)
    PROVE  /\ ~crashed /\ OthersStay(t) /\ ret'[t] = ret[t]
           /\ \/ Moves(t, "started", {"loadPid", "noProcess"})
              \/ Moves(t, "loadPid", {"readPid"})
              \/ Moves(t, "readPid", {"openProcess", "noProcess"})
  BY DEF Types, ChannelTypes, Moves, OthersStay, Goto, Release, Using,
     chanFixed, single, objVars, locals, GetServerPid, Load

LEMMA ChannelMoves ==
    ASSUME Types, NEW t \in Threads, ChannelStep(t)
    PROVE  /\ ~Idle(t) /\ pc[t] \in InChannel \cup {"readPid"} /\ ~crashed
           /\ ChannelMove(t) /\ OthersStay(t)
<1>1. CASE UseAfterFree(t)
  BY <1>1 DEF UseAfterFree, ChannelMove, OthersStay, UsePCs, InChannel, InStop, Idle, locals
<1>2. CASE ~UseAfterFree(t)
  <2>1. ~crashed /\ ChannelMove(t) /\ OthersStay(t)
    BY <1>2, StartMoves, StopMoves, SendMoves DEF ChannelStep
  <2>2. pc[t] \in InChannel
    BY <1>2 DEF ChannelStep, Start, Stop, Send, StartNewClient, StartCheckClient, StartCallClient,
       StartConnected, StartTold, StartRefused, StartSetInited, StartUndone, StopTest, StopClose,
       StopFree, StopClear, StopNull, SendMessage, SendRequest, SendFails, SendCancelled,
       CloseHandle, ForgetHandle, Load, Using, InChannel, InStop
  <2> QED
    BY <2>1, <2>2 DEF InChannel, InStop, Idle
<1> QED
  BY <1>1, <1>2

\* Every other step of an open moves it as well, and touches nothing of another's.
OpenMove(t) ==
    \/ Moves(t, "idle", {"start"}) /\ ret'[t] = ret[t]
    \/ Moves(t, "openProcess", {"send"}) /\ ret'[t] = ret[t]
    \/ Moves(t, "stopped", {"idle"}) /\ ret'[t] = ret[t]
    \/ /\ pc[t] \in {"startFailed", "noProcess", "sendFailed", "openProcess", "sending"}
       /\ pc'[t] = "stop" /\ ret'[t] = "stopped"
    \/ /\ ret'[t] = ret[t]
       /\ \/ Moves(t, "started", {"loadPid", "noProcess"})
          \/ Moves(t, "loadPid", {"readPid"})
          \/ Moves(t, "readPid", {"openProcess", "noProcess"})

LEMMA OpenMoves ==
    ASSUME Types, NEW t \in Openers, Open(t)
    PROVE  /\ t \in Threads /\ ~crashed /\ OthersStay(t)
           /\ ~Idle(t) \/ BeginOpen(t)
           /\ (OpenInChannel(t) /\ ChannelMove(t)) \/ OpenMove(t)
           /\ \A u \in Openers \ {t} :
                 /\ file'[u] = file[u] /\ fileHandle'[u] = fileHandle[u]
                 /\ verdict'[u] = verdict[u] /\ intact'[u] = intact[u]
<1>a. t \in Threads
  BY Constants
<1>1. CASE OpenInChannel(t)
  BY <1>a, <1>1, ChannelMoves DEF OpenInChannel, Types, OpenTypes
<1>2. CASE AskServerPid(t)
  BY <1>a, <1>2, PidMoves DEF AskServerPid, OpenMove, Moves, Idle, callVars
<1>3. CASE BeginOpen(t) \/ DuplicateHandle(t) \/ EndOpen(t)
  BY <1>a, <1>3 DEF BeginOpen, DuplicateHandle, EndOpen, OpenMove, Moves, OthersStay, Idle, Goto,
     chanFixed, locals, Types, ChannelTypes, OpenTypes
<1>4. CASE GiveUp(t) \/ DuplicateFails(t) \/ Answer(t) \/ AnswerReadFails(t)
  <2> USE DEF CallStop, Goto, SendReturns, OpenMove, OthersStay, Idle, chanFixed, callVars,
          Types, ChannelTypes, OpenTypes
  <2>1. CASE GiveUp(t) \/ DuplicateFails(t)
    BY <1>a, <2>1 DEF GiveUp, DuplicateFails
  <2>2. CASE Answer(t) \/ AnswerReadFails(t)
    BY <1>a, <2>2 DEF Answer, AnswerReadFails
  <2> QED
    BY <1>4, <2>1, <2>2
<1> QED
  BY <1>1, <1>2, <1>3, <1>4 DEF Open

LEMMA DriverMoves ==
    ASSUME Types, DriverSteps
    PROVE  /\ Driver \in Threads /\ ~crashed /\ OthersStay(Driver) /\ UNCHANGED callVars
           /\ ~Idle(Driver) \/ DriverEntry \/ DriverUnload
           /\ \/ DriverInChannel /\ ChannelMove(Driver)
              \/ Moves(Driver, "unloaded", {"start"}) /\ ret'[Driver] = ret[Driver]
              \/ Moves(Driver, "started", {"loaded"}) /\ ret'[Driver] = ret[Driver]
              \/ Moves(Driver, "startFailed", {"stop"}) /\ ret'[Driver] = "loaded"
              \/ Moves(Driver, "loaded", {"stop"}) /\ ret'[Driver] = "unloaded"
<1>a. Driver \in Threads
  BY Constants
<1>1. CASE DriverInChannel
  BY <1>a, <1>1, ChannelMoves DEF DriverInChannel
<1>2. CASE ~DriverInChannel
  BY <1>a, <1>2 DEF DriverSteps, DriverEntry, DriverStarted, DriverUnload, DriverLoaded, Moves, OthersStay,
     Idle, Goto, chanFixed, locals, Types, ChannelTypes
<1> QED
  BY <1>1, <1>2

LEMMA ServiceMoves ==
    ASSUME Types, ServiceComes \/ ServiceGoes
    PROVE  /\ UNCHANGED <<mClient, inited, alloc, crashed, started, ret, this, file, fileHandle, verdict, overlapped, loads>>
           /\ \A u \in Threads : \/ pc'[u] = pc[u]
                                 \/ Moves(u, "sending", {"sendFailed"})
                                 \/ Moves(u, "openProcess", {"noProcess"})
  BY DEF ServiceComes, ServiceGoes, ServiceStart, ServiceStop, Moves, single, objVars, locals, callVars,
     Types, ChannelTypes

-----------------------------------------------------------------------------
(***************************************************************************)
(* Where the threads are.                                                  *)
(***************************************************************************)
LEMMA WhereInit == Init => Where
<1> SUFFICES ASSUME Init PROVE Where
  OBVIOUS
<1>1. pc[Driver] = "unloaded" /\ \A t \in Openers : pc[t] = "idle"
  BY Constants DEF Init
<1> QED
  BY <1>1 DEF Where, Returned, DriverPCs, OpenerPCs, PCs, InStop, Init, ChannelInit

LEMMA ReturnedStep == Types /\ (\A t \in Threads : Returned(t)) /\ [Next]_vars => \A t \in Threads : Returned(t)'
<1> SUFFICES ASSUME Types, \A t \in Threads : Returned(t), [Next]_vars, NEW u \in Threads PROVE Returned(u)'
  OBVIOUS
<1> USE DEF Types, ChannelTypes, Returned
<1>1. ASSUME NEW t \in Threads, ChannelStep(t) PROVE Returned(u)'
  <2>1. CASE Start(t)
    <3> USE DEF Goto, Release, locals
    <3>1. CASE StartNewClient(t) \/ StartCheckClient(t) \/ StartCallClient(t) \/ StartConnected(t) \/ StartTold(t)
      BY <3>1 DEF StartNewClient, StartCheckClient, StartCallClient, Load, Using, StartConnected, StartTold
    <3>2. CASE StartRefused(t) \/ StartSetInited(t) \/ StartUndone(t)
      BY <3>2 DEF StartRefused, CloseHandle, ForgetHandle, Using, StartSetInited, StartUndone
    <3> QED
      BY <2>1, <3>1, <3>2 DEF Start
  <2>2. CASE Stop(t) \/ Send(t) \/ UseAfterFree(t)
    <3>1. started' = started /\ (pc'[u] = pc[u] \/ pc[u] # "setInited")
      BY <2>2 DEF Goto, locals, Stop, StopTest, StopClose, Load, CloseHandle, ForgetHandle, Using, StopFree, StopClear,
         StopNull, Send, SendMessage, SendRequest, SendFails, SendCancelled, SendReturns, UseAfterFree
    <3> QED
      BY <3>1
  <2> QED
    BY <1>1, <2>1, <2>2 DEF ChannelStep
<1>2. CASE UNCHANGED started /\ (pc'[u] = pc[u] \/ pc[u] # "setInited")
  BY <1>2
<1>3. ASSUME NEW t \in Openers, Open(t) PROVE Returned(u)'
  <2>1. t \in Threads
    BY Constants
  <2>2. CASE ~OpenInChannel(t)
    BY <1>2, <1>3, <2>1, <2>2 DEF Open, BeginOpen, GiveUp, AskServerPid, GetServerPid, Load, Using, Goto, Release,
       DuplicateHandle, DuplicateFails, Answer, SendReturns, AnswerReadFails, EndOpen, CallStop, locals
  <2> QED
    BY <1>1, <1>3, <2>1, <2>2 DEF OpenInChannel
<1>4. CASE DriverSteps
  BY <1>1, <1>2, <1>4, Constants DEF DriverSteps, DriverInChannel, DriverEntry, DriverStarted, DriverUnload, DriverLoaded,
     Goto, locals
<1>5. CASE ServiceComes \/ ServiceGoes
  BY <1>2, <1>5, ServiceMoves DEF Moves
<1>6. CASE UNCHANGED vars
  BY <1>2, <1>6 DEF vars, chanVars, locals
<1> QED
  BY <1>3, <1>4, <1>5, <1>6 DEF Next

LEMMA WhereOpen ==
    ASSUME Types, Where, NEW t \in Openers, Open(t), \A u \in Threads : Returned(u)'
    PROVE  Where'
<1> USE DEF InStop, OpenerPCs, PCs, UsePCs
<1>1. t \in Threads /\ Driver \in Threads /\ t # Driver /\ Openers \subseteq Threads
  BY Constants
<1>2. DriverLoaded /\ pc[t] \in OpenerPCs /\ (pc[t] \in InStop => ret[t] \in {"stopped", "undone"})
  BY OpenMoves DEF Where, Idle, BeginOpen
<1>3. \A u \in Threads \ {t} : pc'[u] = pc[u] /\ ret'[u] = ret[u]
  BY OpenMoves DEF OthersStay
<1>4. /\ pc'[t] \in OpenerPCs
      /\ pc'[t] \in InStop => ret'[t] \in {"stopped", "undone"}
  <2>1. CASE ChannelMove(t)
    BY <1>2, <2>1 DEF ChannelMove, Moves
  <2>2. CASE OpenMove(t)
    BY <1>2, <2>2 DEF OpenMove, Moves
  <2> QED
    BY <2>1, <2>2, OpenMoves
<1> QED
  BY <1>1, <1>2, <1>3, <1>4 DEF Where, DriverLoaded

LEMMA WhereDriver ==
    ASSUME Types, Where, DriverSteps
    PROVE  ((\A u \in Threads : Returned(u))' => Where') /\ \A u \in Openers : u \in Threads \ {Driver} /\ pc[u] = "idle"
<1>1. /\ Driver \in Threads /\ OthersStay(Driver)
      /\ \A u \in Openers : u \in Threads \ {Driver}
  BY DriverMoves, Constants
<1>2. \A u \in Openers : pc[u] = "idle"
  <2>1. CASE DriverUnload
    BY <1>1, <2>1 DEF DriverUnload, Where, Idle, OpenerPCs
  <2>2. CASE ~DriverUnload
    BY <2>2, DriverMoves DEF Where, DriverLoaded, Idle, DriverEntry
  <2> QED
    BY <2>1, <2>2
<1>3. pc'[Driver] \in DriverPCs /\ (pc'[Driver] \in InStop => ret'[Driver] # "stopped")
  <2>1. ret[Driver] \in {"stopped", "undone", "loaded", "unloaded"}
    BY <1>1 DEF Types, ChannelTypes
  <2>2. CASE ChannelMove(Driver)
    BY <2>1, <2>2 DEF ChannelMove, Moves, Where, DriverPCs, InStop
  <2>3. CASE ~ChannelMove(Driver)
    BY <2>3, DriverMoves DEF Moves, Where, DriverPCs, InStop
  <2> QED
    BY <2>2, <2>3
<1> QED
  BY <1>1, <1>2, <1>3 DEF Where, OthersStay, OpenerPCs, PCs, UsePCs, InStop

LEMMA WhereStep == Types /\ Where /\ [Next]_vars => Where'
<1> SUFFICES ASSUME Types, Where, [Next]_vars PROVE Where'
  OBVIOUS
<1>a. (\A t \in Threads : Returned(t))'
  BY ReturnedStep DEF Where
<1>1. CASE UNCHANGED vars
  BY <1>1, <1>a DEF vars, chanVars, locals, Where, DriverLoaded
<1>2. CASE ServiceComes \/ ServiceGoes
  BY <1>2, <1>a, ServiceMoves, Constants DEF Where, DriverLoaded, Moves, DriverPCs, OpenerPCs, PCs, UsePCs, InStop
<1> QED
  BY <1>1, <1>2, <1>a, WhereOpen, WhereDriver DEF Next

-----------------------------------------------------------------------------
(***************************************************************************)
(* A step of the one thread inside: it finds the singleton as it expects,  *)
(* so that it uses no freed client, and leaves it as it expects it next.   *)
(***************************************************************************)
Left(t) == pc[t] \in {"undone", "stopped", "loaded", "unloaded"} => mClient = Null /\ ~inited

LEMMA FitsStart ==
    ASSUME Types, NEW t \in Threads, Fits(t), Start(t)
    PROVE  UNCHANGED crashed /\ Fits(t)' /\ Left(t)'
<1> USE DEF Types, ChannelTypes, Left, Goto, Release, Using, chanFixed, single, objVars, locals
<1>a. Null \notin Objs
  BY Constants
<1>1. CASE StartNewClient(t)
  BY <1>1, <1>a DEF StartNewClient, Fits, Returned, UsePCs, Asking, Fresh
<1>2. CASE StartCheckClient(t)
  BY <1>2, <1>a DEF StartCheckClient, Fits, Returned, UsePCs, Asking, Fresh
<1>3. CASE StartCallClient(t)
  BY <1>3, <1>a DEF StartCallClient, Load, Fits, Returned, UsePCs, Asking, Fresh
<1>4. CASE StartConnected(t)
  BY <1>4, <1>a DEF StartConnected, Fits, Returned, UsePCs, Asking, Fresh
<1>5. CASE StartTold(t)
  BY <1>5, <1>a DEF StartTold, Fits, Returned, UsePCs, Asking, Fresh
<1>6. CASE StartRefused(t)
  <2>1. pc[t] = "undo" /\ this[t] = mClient /\ Fresh /\ CloseHandle(t, "undo", "undoNull", "setInited")
    BY <1>6 DEF StartRefused, CloseHandle, ForgetHandle, Fits, Returned, UsePCs
  <2>2. pc'[t] = "setInited" /\ UNCHANGED <<single, objVars, crashed>>
    BY <2>1 DEF CloseHandle, Fresh
  <2> QED
    BY <2>1, <2>2 DEF Fits, Returned, UsePCs, Asking, Fresh
<1>7. CASE StartSetInited(t)
  BY <1>7, <1>a DEF StartSetInited, AfterStart, Fits, Returned, UsePCs, Asking, Settled
<1>8. CASE StartUndone(t)
  BY <1>8, <1>a DEF StartUndone, Fits, Returned, UsePCs, Asking
<1> QED
  BY <1>1, <1>2, <1>3, <1>4, <1>5, <1>6, <1>7, <1>8 DEF Start

LEMMA FitsStop ==
    ASSUME Types, NEW t \in Threads, Fits(t), Stop(t)
    PROVE  UNCHANGED crashed /\ Fits(t)' /\ Left(t)'
<1> USE DEF Types, ChannelTypes, Left, Goto, Release, Using, chanFixed, single, objVars, locals
<1>a. Null \notin Objs
  BY Constants
<1>b. ret[t] \in {"stopped", "undone", "loaded", "unloaded"}
  OBVIOUS
<1>1. CASE StopTest(t)
  BY <1>1, <1>a, <1>b DEF StopTest, Fits, Returned, UsePCs, Asking, Settled
<1>2. CASE StopClose(t)
  BY <1>2, <1>a DEF StopClose, Load, CloseHandle, ForgetHandle, Fits, Returned, UsePCs, Asking
<1>3. CASE StopFree(t)
  BY <1>3, <1>a DEF StopFree, Load, FreeInstance, Fits, Returned, UsePCs, Asking
<1>4. CASE StopClear(t)
  BY <1>4, <1>a DEF StopClear, Fits, Returned, UsePCs, Asking
<1>5. CASE StopNull(t)
  BY <1>5, <1>a, <1>b DEF StopNull, Fits, Returned, UsePCs, Asking
<1> QED
  BY <1>1, <1>2, <1>3, <1>4, <1>5 DEF Stop

LEMMA FitsSend ==
    ASSUME Types, NEW t \in Threads, Fits(t), Send(t) \/ GetServerPid(t)
    PROVE  UNCHANGED crashed /\ Fits(t)' /\ Left(t)'
<1> USE DEF Types, ChannelTypes, Left, Goto, Release, Using, chanFixed, single, objVars, locals
<1>1. CASE Send(t)
  BY <1>1 DEF Send, SendMessage, Load, SendRequest, SendFails, SendCancelled, SendReturns, Fits, Returned, UsePCs, Asking
<1>2. CASE GetServerPid(t)
  BY <1>2 DEF GetServerPid, Load, Fits, Returned, UsePCs, Asking
<1> QED
  BY <1>1, <1>2

LEMMA FitsUse ==
    ASSUME Types, NEW t \in Threads, Fits(t), pc[t] \in UsePCs
    PROVE  this[t] \in alloc
  BY DEF Fits, Returned, UsePCs, Fresh, Asking

LEMMA FitsChannel ==
    ASSUME Types, ~crashed, NEW t \in Threads, Fits(t), ChannelStep(t)
    PROVE  ~UseAfterFree(t) /\ ~crashed' /\ Fits(t)' /\ Left(t)'
<1>1. ~UseAfterFree(t)
  BY FitsUse DEF UseAfterFree
<1> QED
  BY <1>1, FitsStart, FitsStop, FitsSend DEF ChannelStep

(***************************************************************************)
(* While threads do not overlap, the others are where they were and idle.  *)
(***************************************************************************)
LEMMA OverlapStays ==
    ASSUME Types, [Next]_vars, ~overlapped'
    PROVE  ~overlapped
<1>1. ASSUME NEW t \in Openers, Open(t) PROVE ~overlapped
  BY <1>1 DEF Open, OpenInChannel, BeginOpen, GiveUp, AskServerPid, DuplicateHandle,
     DuplicateFails, Answer, AnswerReadFails, EndOpen, Enter
<1>2. CASE DriverSteps \/ ServiceComes \/ ServiceGoes \/ UNCHANGED vars
  BY <1>2 DEF DriverSteps, DriverInChannel, DriverEntry, DriverStarted, DriverUnload,
     ServiceComes, ServiceGoes, vars, Enter
<1> QED
  BY <1>1, <1>2 DEF Next

LEMMA OthersIdleOpen ==
    ASSUME Types, Where, Alone, NEW t \in Openers, Open(t), ~overlapped'
    PROVE  /\ t \in Threads /\ t # Driver /\ Driver \in Threads /\ Openers \subseteq Threads
           /\ pc[Driver] = "loaded" /\ pc'[Driver] = "loaded"
           /\ \A u \in Threads \ {t} : Idle(u) /\ Idle(u)' /\ pc'[u] = pc[u]
<1>1. t \in Threads /\ t # Driver /\ Driver \in Threads /\ Openers \subseteq Threads
  BY Constants
<1>2. \A u \in Threads \ {t} : Idle(u)
  BY <1>1, OpenMoves DEF Alone, BeginOpen, Enter
<1>3. pc[Driver] = "loaded"
  BY OpenMoves DEF Where, DriverLoaded, Idle, BeginOpen
<1> QED
  BY <1>1, <1>2, <1>3, OpenMoves DEF OthersStay, Idle

LEMMA OthersIdleDriver ==
    ASSUME Types, Where, DriverSteps
    PROVE  /\ Driver \in Threads /\ Openers \subseteq Threads
           /\ \A u \in Threads \ {Driver} : Idle(u) /\ Idle(u)' /\ pc[u] = "idle" /\ pc'[u] = "idle"
<1>1. \A u \in Threads \ {Driver} : u \in Openers
  BY Constants
<1> QED
  BY <1>1, WhereDriver, DriverMoves, Constants DEF OthersStay, Idle

LEMMA AloneStep ==
    ASSUME Types, Where, Alone, [Next]_vars, ~overlapped'
    PROVE  Alone'
<1>1. ASSUME NEW t \in Openers, Open(t) PROVE Alone'
  BY <1>1, OthersIdleOpen DEF Alone
<1>2. CASE DriverSteps
  BY <1>2, OthersIdleDriver DEF Alone
<1>3. CASE ServiceComes \/ ServiceGoes
  BY <1>3, ServiceMoves DEF Alone, Idle, Moves
<1>4. CASE UNCHANGED vars
  BY <1>4 DEF vars, chanVars, Alone, Idle
<1> QED
  BY <1>1, <1>2, <1>3, <1>4 DEF Next

(***************************************************************************)
(* If only t is inside, its view of the singleton is all there is to keep. *)
(***************************************************************************)
LEMMA SoundFromOne ==
    ASSUME NEW t \in Threads, \A u \in Threads \ {t} : Idle(u)', ~crashed',
           ~Idle(t)' => Fits(t)', Idle(t)' => Settled',
           (pc[Driver] \in {"unloaded", "start"})' => (mClient = Null)'
    PROVE  Sound'
  BY DEF Sound

LEMMA SoundOpen ==
    ASSUME Types, Where, Alone, Sound, NEW t \in Openers, Open(t), ~overlapped'
    PROVE  Sound' /\ (Fits(t) \/ BeginOpen(t))
<1>1. /\ t \in Threads /\ Driver \in Threads
      /\ ~Idle(t) \/ BeginOpen(t)
      /\ \A u \in Threads \ {t} : Idle(u) /\ Idle(u)'
      /\ pc'[Driver] = "loaded"
  BY OthersIdleOpen, OpenMoves
<1>2. ~crashed /\ (~Idle(t) => Fits(t)) /\ (BeginOpen(t) => Settled)
  BY <1>1 DEF Sound, BeginOpen, Idle
<1>3. ~crashed' /\ (~Idle(t)' => Fits(t)') /\ (Idle(t)' => Settled')
  <2> USE DEF Types, ChannelTypes, Goto, Idle, chanFixed, single, objVars, locals
  <2>1. CASE OpenInChannel(t)
    <3>1. ~crashed' /\ Fits(t)' /\ Left(t)'
      BY <1>1, <1>2, <2>1, FitsChannel, ChannelMoves DEF OpenInChannel
    <3>2. pc'[t] # "idle"
      BY <1>1, <2>1, <3>1, ChannelMoves DEF OpenInChannel, ChannelMove, Moves
    <3> QED
      BY <3>1, <3>2 DEF Left, Settled
  <2>2. CASE BeginOpen(t)
    BY <1>1, <1>2, <2>2 DEF Where, BeginOpen, Fits, Returned, UsePCs, Asking, Settled
  <2>3. CASE GiveUp(t) \/ DuplicateFails(t)
    BY <1>1, <1>2, <2>3 DEF GiveUp, DuplicateFails, CallStop, Fits, Returned, UsePCs, Asking, Settled
  <2>4. CASE AskServerPid(t)
    <3>1. ~crashed' /\ Fits(t)'
      BY <1>1, <1>2, <2>4, FitsSend, PidMoves DEF AskServerPid, Moves
    <3>2. ~Idle(t)'
      BY <1>1, <2>4, PidMoves DEF AskServerPid, Moves
    <3> QED
      BY <3>1, <3>2
  <2>5. CASE DuplicateHandle(t)
    BY <1>1, <1>2, <2>5 DEF DuplicateHandle, Fits, Returned, UsePCs, Asking
  <2>6. CASE Answer(t) \/ AnswerReadFails(t)
    BY <1>1, <1>2, <2>6 DEF Answer, AnswerReadFails, SendReturns, CallStop, Fits, Returned, UsePCs, Asking, Settled
  <2>7. CASE EndOpen(t)
    BY <1>1, <1>2, <2>7 DEF EndOpen, Fits, Returned, Settled
  <2> QED
    BY <2>1, <2>2, <2>3, <2>4, <2>5, <2>6, <2>7 DEF Open
<1> QED
  BY <1>1, <1>2, <1>3, SoundFromOne

LEMMA SoundDriver ==
    ASSUME Types, Where, Alone, Sound, DriverSteps
    PROVE  Sound' /\ (~Idle(Driver) => Fits(Driver))
<1> USE DEF Types, ChannelTypes, Goto, Idle, chanFixed, single, objVars, locals
<1>1. /\ Driver \in Threads
      /\ \A u \in Threads \ {Driver} : Idle(u) /\ Idle(u)'
  BY OthersIdleDriver
<1>2. ~crashed /\ (~Idle(Driver) => Fits(Driver)) /\ (Idle(Driver) => Settled)
  BY <1>1 DEF Sound
<1>3. /\ ~crashed' /\ (~Idle(Driver)' => Fits(Driver)') /\ (Idle(Driver)' => Settled')
      /\ (pc[Driver] \in {"unloaded", "start"})' => (mClient = Null)'
  <2>1. CASE DriverInChannel
    <3>1. ~crashed' /\ Fits(Driver)' /\ Left(Driver)'
      BY <1>1, <1>2, <2>1, FitsChannel, ChannelMoves DEF DriverInChannel
    <3>2. pc'[Driver] # "start" /\ pc'[Driver] # "idle"
      BY <1>1, <2>1, <3>1, ChannelMoves DEF DriverInChannel, ChannelMove, Moves
    <3> QED
      BY <3>1, <3>2 DEF Left, Settled
  <2>2. CASE DriverEntry
    BY <1>1, <1>2, <2>2, Constants DEF Where, DriverEntry, Fits, Returned, Sound, UsePCs, Asking, Settled
  <2>3. CASE DriverStarted
    BY <1>1, <1>2, <2>3 DEF DriverStarted, Fits, Returned, UsePCs, Asking, Settled
  <2>4. CASE DriverUnload
    BY <1>1, <1>2, <2>4 DEF Where, DriverUnload, DriverLoaded, Fits, Returned, UsePCs, Asking, Settled
  <2> QED
    BY <2>1, <2>2, <2>3, <2>4 DEF DriverSteps
<1> QED
  BY <1>1, <1>2, <1>3, SoundFromOne

LEMMA SoundStep ==
    ASSUME Types, Where, Alone, Sound, [Next]_vars, ~overlapped'
    PROVE  Sound'
<1>1. CASE ServiceComes \/ UNCHANGED vars
  <2>1. UNCHANGED <<mClient, inited, alloc, handle, told, crashed, pc, this, started>>
    BY <1>1 DEF ServiceComes, ServiceStart, vars, chanVars, chanFixed, single, objVars, locals
  <2> QED
    BY <2>1 DEF Sound, Fits, Returned, Fresh, Settled, Idle
<1>2. CASE ServiceGoes
  <2>1. /\ UNCHANGED <<mClient, inited, alloc, crashed, this, started>>
        /\ told' = {}
        /\ \A o \in Objs : handle[o] = Null => handle'[o] = Null
        /\ \A u \in Threads :
              \/ pc'[u] = pc[u]
              \/ Moves(u, "sending", {"sendFailed"})
              \/ Moves(u, "openProcess", {"noProcess"})
    BY <1>2, ServiceMoves DEF ServiceGoes, ServiceStop, Types, ChannelTypes
  <2>2. \A u \in Threads : Idle(u)' <=> Idle(u)
    BY <2>1 DEF Moves, Idle
  <2>3. ASSUME NEW u \in Threads, ~Idle(u) PROVE Fits(u)'
    <3>1. Fits(u)
      BY <2>3 DEF Sound
    <3> QED
      BY <2>1, <3>1 DEF Fits, Returned, Fresh, Settled, Moves, UsePCs, Asking, Types, ChannelTypes
  <2>4. Driver \in Threads
    BY Constants
  <2> QED
    BY <2>1, <2>2, <2>3, <2>4 DEF Sound, Settled, Moves
<1> QED
  BY <1>1, <1>2, SoundOpen, SoundDriver DEF Next

-----------------------------------------------------------------------------
(***************************************************************************)
(* Whose the connection of m_Client is.                                    *)
(***************************************************************************)
Owns(t) == mClient \in alloc => handle[mClient] \in {Null, Dead} \cup ConnsOf(PidOf[t])

Held(t) ==
    /\ pc[t] \notin {"start", "closeNull"} => Owns(t)
    /\ pc[t] = "closeNull" => handle[mClient] \notin OpenConns

\* A dead handle means nothing by chance: there is no connection then.
DeadIsNone == mClient \in alloc /\ handle[mClient] = Dead => OpenConns = {}

Owned ==
    /\ DeadIsNone
    /\ \A t \in Threads : ~Idle(t) => Held(t)
    /\ (\A t \in Threads : Idle(t)) => Owns(Driver)

\* The connections m_Client does not lead to.
Lost == OpenConns \ Reachable

\* What a step of t inside does to m_Client and the connections.
ConnMove(t) ==
    \/ pc[t] \notin {"start", "close", "closeNull"} /\ UNCHANGED <<mClient, alloc, handle, connPid>>
    \/ pc[t] = "start" /\ connPid' = connPid /\ (mClient' = Null \/ (mClient' \in alloc' /\ handle'[mClient'] = Null))
    \/ /\ pc[t] = "connecting" /\ pc'[t] = "connected"
       /\ mClient \in alloc /\ handle[mClient] = Null /\ UNCHANGED <<mClient, alloc>>
       /\ \E c \in Conns \ OpenConns :
             /\ handle'[mClient] = c
             /\ connPid' = [connPid EXCEPT ![c] = PidOf[t]]
    \/ /\ pc[t] = "close" /\ UNCHANGED <<mClient, alloc, handle>>
       /\ mClient \in alloc /\ CloseConn(handle[mClient])
       /\ IF handle[mClient] = Null THEN pc'[t] = "loadFree" ELSE pc'[t] = "closeNull"
    \/ /\ pc[t] = "closeNull" /\ UNCHANGED <<mClient, alloc, connPid>>
       /\ mClient \in alloc /\ handle[mClient] \notin OpenConns /\ handle'[mClient] = Null
    \/ /\ pc[t] = "free" /\ UNCHANGED <<mClient, connPid>>
       /\ mClient \in alloc /\ handle[mClient] = Null /\ mClient \notin alloc'
    \/ pc[t] = "null" /\ mClient' = Null /\ mClient \notin alloc /\ UNCHANGED <<alloc, handle, connPid>>

LEMMA NoConn ==
    ASSUME Types, NEW c, c \notin OpenConns, CloseConn(c)
    PROVE  connPid' = connPid
  BY DEF CloseConn, OpenConns, Types, ChannelTypes

LEMMA ConnMoves ==
    ASSUME Types, NEW t \in Threads, Fits(t), Held(t),
           DeadIsNone, ~UseAfterFree(t), ChannelStep(t)
    PROVE  ConnMove(t)
<1> USE DEF Types, ChannelTypes, Goto, Release, Using, chanFixed, single, objVars, locals, ConnMove, DeadIsNone
<1>a. Null \notin Objs /\ Null \notin Conns /\ Dead \notin Conns /\ PidOf[t] # Null
  BY Constants
<1>1. CASE StartNewClient(t)
  <2>1. pc[t] = "start" /\ connPid' = connPid /\ (mClient' = Null \/ (mClient' \in alloc' /\ handle'[mClient'] = Null))
    <3>1. pc[t] = "start" /\ connPid' = connPid
      BY <1>1 DEF StartNewClient
    <3>2. CASE \E o \in Objs \ alloc :
                  alloc' = alloc \cup {o} /\ handle' = [handle EXCEPT ![o] = Null] /\ mClient' = o
      BY <3>1, <3>2
    <3>3. CASE mClient' = Null
      BY <3>1, <3>3
    <3> QED
      BY <1>1, <3>2, <3>3 DEF StartNewClient
  <2> QED
    BY <2>1
<1>2. CASE StartCheckClient(t) \/ StartCallClient(t) \/ StartTold(t) \/ StartSetInited(t) \/ StartUndone(t)
  BY <1>2 DEF StartCheckClient, StartCallClient, Load, StartTold, StartSetInited, StartUndone
<1>3. CASE StartConnected(t)
  <2>1. pc[t] = "connecting" /\ this[t] = mClient /\ Fresh
    BY <1>3 DEF StartConnected, Fits, Returned, UsePCs
  <2> QED
    BY <1>3, <2>1 DEF StartConnected, Fresh
<1>4. CASE StartRefused(t)
  <2>1. pc[t] = "undo" /\ this[t] = mClient /\ Fresh /\ CloseHandle(t, "undo", "undoNull", "setInited")
    BY <1>4 DEF StartRefused, CloseHandle, ForgetHandle, Fits, Returned, UsePCs
  <2>2. CloseConn(Null) /\ UNCHANGED <<mClient, alloc, handle>>
    BY <2>1 DEF CloseHandle, Fresh, Means
  <2>3. connPid' = connPid
    BY <2>2, <1>a, NoConn DEF OpenConns
  <2> QED
    BY <2>1, <2>2, <2>3
<1>5. CASE StopClose(t)
  <2>1. CASE Load(t, "loadStop", "close")
    BY <2>1 DEF Load
  <2>2. CASE CloseHandle(t, "close", "closeNull", "loadFree")
    <3>1. /\ pc[t] = "close" /\ this[t] = mClient /\ mClient \in alloc /\ UNCHANGED <<mClient, alloc, handle>>
          /\ IF handle[mClient] = Null THEN pc'[t] = "loadFree" ELSE pc'[t] = "closeNull"
      BY <2>2 DEF CloseHandle, Fits, Returned, UsePCs
    <3>2. PICK c \in Means(handle[mClient], PidOf[t]) : CloseConn(c)
      BY <2>2, <3>1 DEF CloseHandle
    <3>3. handle[mClient] \in {Null, Dead} \cup ConnsOf(PidOf[t])
      BY <3>1 DEF Held, Owns
    <3>4. CASE handle[mClient] = Dead
      <4>1. OpenConns = {} /\ Dead # Null
        BY <3>1, <3>4, Constants
      <4>2. connPid' = connPid
        BY <3>2, <4>1, NoConn
      <4>3. CloseConn(Dead)
        BY <1>a, <4>2 DEF CloseConn
      <4> QED
        BY <3>1, <3>4, <4>3
    <3>5. CASE handle[mClient] # Dead
      BY <3>1, <3>2, <3>3, <3>5 DEF Means
    <3> QED
      BY <3>4, <3>5
  <2>3. CASE ForgetHandle(t, "closeNull", "loadFree")
    <3>1. pc[t] = "closeNull" /\ this[t] = mClient /\ mClient \in alloc /\ UNCHANGED <<mClient, alloc, connPid>>
      BY <2>3 DEF ForgetHandle, Fits, Returned, UsePCs
    <3> QED
      BY <2>3, <3>1 DEF ForgetHandle, Held
  <2> QED
    BY <1>5, <2>1, <2>2, <2>3 DEF StopClose
<1>6. CASE StopFree(t)
  <2>1. CASE pc[t] = "free"
    <3>1. this[t] = mClient /\ mClient \in alloc /\ handle[mClient] = Null /\ UNCHANGED <<mClient, connPid>>
      BY <1>6, <2>1 DEF StopFree, Load, Fits, Returned, UsePCs
    <3> QED
      BY <1>6, <2>1, <3>1 DEF StopFree, Load, FreeInstance
  <2> QED
    BY <1>6, <2>1 DEF StopFree, Load
<1>7. CASE StopNull(t)
  BY <1>7 DEF StopNull, Fits, Returned
<1>8. CASE StopTest(t) \/ StopClear(t) \/ Send(t)
  BY <1>8 DEF StopTest, StopClear, Send, SendMessage, Load, SendRequest, SendFails, SendCancelled, SendReturns
<1> QED
  BY <1>1, <1>2, <1>3, <1>4, <1>5, <1>6, <1>7, <1>8 DEF ChannelStep, Start, Stop

LEMMA OwnedChannel ==
    ASSUME Types, Types', NEW t \in Threads, ~crashed', Held(t), ChannelMove(t), ConnMove(t),
           DeadIsNone
    PROVE  /\ Held(t)' /\ (Owns(t)' \/ pc'[t] = "closeNull")
           /\ DeadIsNone'
<1> USE DEF Types, ChannelTypes, DeadIsNone
<1>a. Null \notin Objs /\ Null \notin Conns /\ Dead \notin Conns /\ Dead # Null /\ PidOf[t] # Null
  BY Constants
<1>b. ret[t] \in {"stopped", "undone", "loaded", "unloaded"}
  OBVIOUS
<1>c. pc'[t] = "closeNull" => pc[t] = "close"
  BY <1>b DEF ChannelMove, Moves
<1>1. CASE pc[t] \notin {"start", "close", "closeNull"} /\ UNCHANGED <<mClient, alloc, handle, connPid>>
  <2>1. ConnsOf(PidOf[t])' = ConnsOf(PidOf[t]) /\ OpenConns' = OpenConns
    BY <1>1 DEF ConnsOf, OpenConns
  <2>2. Owns(t)' = Owns(t)
    BY <1>1, <2>1 DEF Owns
  <2> QED
    BY <1>1, <1>c, <2>1, <2>2 DEF Held
<1>2. CASE pc[t] = "start" /\ connPid' = connPid /\ (mClient' = Null \/ (mClient' \in alloc' /\ handle'[mClient'] = Null))
  <2>1. Null \notin alloc'
    BY <1>a
  <2> QED
    BY <1>2, <1>a, <1>c, <2>1 DEF Held, Owns
<1>3. CASE pc[t] = "connecting" /\ ConnMove(t)
  BY <1>3, <1>a, <1>c DEF ConnMove, Held, Owns, ConnsOf, OpenConns
<1>4. CASE pc[t] = "close" /\ ConnMove(t)
  <2>1. /\ UNCHANGED <<mClient, alloc, handle>> /\ CloseConn(handle[mClient])
        /\ IF handle[mClient] = Null THEN pc'[t] = "loadFree" ELSE pc'[t] = "closeNull"
    BY <1>4 DEF ConnMove
  <2>2. OpenConns' = OpenConns \ {handle[mClient]}
    BY <2>1, <1>a DEF CloseConn, OpenConns
  <2> QED
    BY <2>1, <2>2 DEF Held, Owns
<1>5. CASE pc[t] \in {"closeNull", "free", "null"} /\ ConnMove(t)
  BY <1>5, <1>a, <1>c, <1>1 DEF ConnMove, Held, Owns
<1> QED
  BY <1>1, <1>2, <1>3, <1>4, <1>5 DEF ConnMove

LEMMA OwnedFromOne ==
    ASSUME NEW t \in Threads, \A u \in Threads \ {t} : Idle(u)',
           Held(t)' /\ DeadIsNone',
           Idle(t)' => Owns(Driver)'
    PROVE  Owned'
  BY DEF Owned

LEMMA OwnsNull ==
    ASSUME Types, mClient = Null
    PROVE  \A t : Owns(t)
  BY Constants DEF Owns, Types, ChannelTypes

\* The other steps of a thread leave the singleton alone.
LEMMA OpenRest ==
    ASSUME NEW t \in Openers, Open(t), ~OpenInChannel(t)
    PROVE  UNCHANGED <<mClient, alloc, handle, connPid, told, serviceUp>>
  BY DEF Open, BeginOpen, GiveUp, AskServerPid, GetServerPid, Load, DuplicateHandle, DuplicateFails,
     Answer, SendReturns, AnswerReadFails, EndOpen, chanFixed, single, objVars

LEMMA DriverRest ==
    ASSUME DriverSteps, ~DriverInChannel
    PROVE  UNCHANGED <<mClient, alloc, handle, connPid, told, serviceUp>>
  BY DEF DriverSteps, DriverEntry, DriverStarted, DriverUnload, chanFixed, single, objVars

LEMMA OwnedRest ==
    ASSUME NEW t, UNCHANGED <<mClient, alloc, handle, connPid>>
    PROVE  UNCHANGED OpenConns /\ Owns(t)' = Owns(t)
  BY DEF OpenConns, Owns, ConnsOf

LEMMA OwnedOpen ==
    ASSUME Types, Types', Where, Alone, Sound, Owned, NEW t \in Openers, Open(t), ~overlapped'
    PROVE  Owned' /\ (OpenInChannel(t) => ConnMove(t) /\ Fits(t))
<1>1. /\ t \in Threads
      /\ ~Idle(t) \/ BeginOpen(t)
      /\ \A u \in Threads \ {t} : Idle(u) /\ Idle(u)'
      /\ pc[Driver] = "loaded"
  BY OthersIdleOpen, OpenMoves
<1>2. ~crashed /\ ~crashed' /\ (Fits(t) \/ BeginOpen(t)) /\ (Idle(t)' => Settled')
  BY SoundOpen, <1>1 DEF Sound
<1>3. CASE OpenInChannel(t)
  <2>0. t \in Threads /\ ChannelStep(t)
    <3>1. ChannelStep(t)
      BY <1>3 DEF OpenInChannel
    <3> QED
      BY <1>1, <3>1
  <2>3. ChannelMove(t) /\ ~Idle(t)
    BY <2>0, ChannelMoves
  <2>1. Fits(t) /\ Held(t) /\ DeadIsNone
    BY <2>0, <2>3 DEF Owned, Sound
  <2>2. ConnMove(t)
    BY <1>2, <2>0, <2>1, ConnMoves, FitsChannel
  <2>4. /\ Held(t)'
        /\ DeadIsNone'
    BY <1>2, <2>0, <2>1, <2>2, <2>3, OwnedChannel
  <2>5. ~Idle(t)'
    <3>1. ret[t] \in {"stopped", "undone"} \/ pc[t] \notin InStop
      BY DEF Where
    <3> QED
      BY <1>2, <2>0, <2>3, <3>1 DEF ChannelMove, Moves, Idle, InStop
  <2> QED
    BY <1>1, <2>1, <2>2, <2>4, <2>5, OwnedFromOne
<1>4. CASE ~OpenInChannel(t)
  <2>1. /\ UNCHANGED <<mClient, alloc, handle, connPid>>
        /\ OpenConns' = OpenConns /\ \A u : Owns(u)' = Owns(u)
    BY <1>4, OpenRest, OwnedRest
  <2>2. OpenMove(t)
    BY <1>4, OpenMoves
  <2>3. CASE EndOpen(t)
    <3>1. mClient = Null
      BY <1>1, <1>2, <2>3 DEF EndOpen, BeginOpen, Fits, Returned
    <3> QED
      <4>1. pc'[t] = "idle"
        BY <1>1, <2>3 DEF EndOpen, Goto, Types, ChannelTypes
      <4>2. \A u : Owns(u)'
        BY <2>1, <3>1, OwnsNull
      <4> QED
        BY <1>1, <1>4, <2>1, <4>1, <4>2, OwnedFromOne DEF Held, Owned, DeadIsNone
  <2>4. CASE BeginOpen(t)
    <3>1. pc'[t] = "start"
      BY <1>1, <2>4 DEF BeginOpen, Goto, Types, ChannelTypes
    <3> QED
      BY <1>1, <1>4, <2>1, <3>1, OwnedFromOne DEF Held, Owned, DeadIsNone, Idle
  <2>5. CASE ~EndOpen(t) /\ ~BeginOpen(t)
    <3>1. pc[t] \notin {"idle", "stopped"} \/ pc[t] = "stopped"
      BY <1>1, <2>5 DEF Idle
    <3>2. pc[t] \notin {"stopped", "idle", "start", "closeNull"} /\ pc'[t] \notin {"idle", "loaded", "unloaded", "closeNull"}
      BY <1>1, <1>4, <2>2, <2>5 DEF OpenMove, Moves, Idle, Open, GiveUp, AskServerPid, GetServerPid, Load, Using,
         DuplicateHandle, DuplicateFails, Answer, AnswerReadFails
    <3> QED
      BY <1>1, <1>4, <2>1, <2>5, <3>2, OwnedFromOne DEF Held, Owned, DeadIsNone, Idle
  <2> QED
    BY <2>3, <2>4, <2>5
<1> QED
  BY <1>3, <1>4

LEMMA OwnedDriver ==
    ASSUME Types, Types', Where, Alone, Sound, Owned, DriverSteps, ~overlapped'
    PROVE  Owned' /\ (DriverInChannel => ConnMove(Driver) /\ Fits(Driver))
<1>1. /\ Driver \in Threads /\ \A u \in Threads \ {Driver} : Idle(u) /\ Idle(u)'
      /\ pc[Driver] \in DriverPCs
  BY OthersIdleDriver DEF Where
<1>2. ~crashed /\ ~crashed' /\ (~Idle(Driver) => Fits(Driver))
  BY SoundDriver DEF Sound
<1>3. CASE DriverInChannel
  <2>1. Fits(Driver) /\ Held(Driver) /\ DeadIsNone
    BY <1>1, <1>2, <1>3, ChannelMoves DEF DriverInChannel, Owned
  <2>2. ConnMove(Driver) /\ ChannelMove(Driver)
    BY <1>1, <1>2, <1>3, <2>1, ConnMoves, ChannelMoves, FitsChannel DEF DriverInChannel
  <2>3. /\ Held(Driver)' /\ (Owns(Driver)' \/ pc'[Driver] = "closeNull")
        /\ DeadIsNone'
    BY <1>1, <1>2, <2>1, <2>2, OwnedChannel
  <2> QED
    BY <1>1, <2>1, <2>2, <2>3, OwnedFromOne DEF Idle
<1>4. CASE ~DriverInChannel
  <2>1. /\ UNCHANGED <<mClient, alloc, handle, connPid>>
        /\ OpenConns' = OpenConns /\ \A u : Owns(u)' = Owns(u)
    BY <1>4, DriverRest, OwnedRest
  <2>2. pc[Driver] \in {"unloaded", "started", "startFailed", "loaded"} /\ pc'[Driver] \in {"start", "loaded", "stop"}
    BY <1>4, DriverMoves DEF Moves
  <2>3. Owns(Driver)
    BY <1>1, <2>2 DEF Owned, Held, Idle, DeadIsNone
  <2> QED
    BY <1>1, <1>4, <2>1, <2>2, <2>3, OwnedFromOne DEF Held, Owned, DeadIsNone
<1> QED
  BY <1>3, <1>4

LEMMA OwnedStep ==
    ASSUME Types, Types', Where, Alone, Sound, Owned, [Next]_vars, ~overlapped'
    PROVE  Owned'
<1>1. CASE ServiceComes \/ UNCHANGED vars
  <2>1. UNCHANGED <<mClient, alloc, handle, connPid, pc>>
    BY <1>1 DEF ServiceComes, ServiceStart, vars, chanVars, chanFixed, single, objVars
  <2>2. OpenConns' = OpenConns /\ \A u : Owns(u)' = Owns(u)
    BY <2>1, OwnedRest
  <2> QED
    BY <2>1, <2>2 DEF Owned, Held, Idle, DeadIsNone
<1>2. CASE ServiceGoes
  <2>1. /\ OpenConns' = {} /\ \A o \in Objs : handle'[o] \in {Null, Dead}
        /\ mClient' = mClient /\ alloc' = alloc
    BY <1>2 DEF ServiceGoes, ServiceStop, OpenConns, single
  <2> QED
    BY <2>1 DEF Owned, Held, Owns, DeadIsNone, Types, ChannelTypes
<1> QED
  BY <1>1, <1>2, OwnedOpen, OwnedDriver DEF Next

-----------------------------------------------------------------------------
(***************************************************************************)
(* Every load of the driver may leave a connection of the system process   *)
(* behind.  While m_Client is the driver's, or about to be, one is still   *)
(* to come.                                                                *)
(***************************************************************************)
DriversClient ==
    /\ mClient # Null \/ pc[Driver] = "start"
    /\ \A t \in Openers : pc[t] \in {"idle", "start"}

Debts ==
    /\ Cardinality(Lost) + (IF DriversClient THEN 1 ELSE 0) <= loads
    /\ \A c \in Lost : connPid[c] = SystemPid
    /\ DriversClient => \A c \in OpenConns : connPid[c] = SystemPid

LEMMA LostOfMove ==
    ASSUME Types, Types', NEW t \in Threads, ConnMove(t)
    PROVE  /\ Lost' = IF pc[t] = "start" THEN OpenConns ELSE Lost
           /\ \A c \in Lost' : connPid'[c] = connPid[c]
           /\ \A c \in OpenConns' : \/ c \in OpenConns /\ connPid'[c] = connPid[c]
                                    \/ connPid'[c] = PidOf[t]
           /\ mClient' # Null => mClient # Null \/ pc[t] = "start"
<1> USE DEF Types, ChannelTypes, Lost, Reachable, OpenConns
<1>a. Null \notin Objs /\ Null \notin Conns /\ PidOf[t] # Null
  BY Constants
<1>1. CASE pc[t] \notin {"start", "close", "closeNull"} /\ UNCHANGED <<mClient, alloc, handle, connPid>>
  BY <1>1
<1>2. CASE pc[t] = "start" /\ ConnMove(t)
  BY <1>2, <1>a DEF ConnMove
<1>3. CASE pc[t] = "connecting" /\ ConnMove(t)
  <2>1. CASE \E c \in Conns \ OpenConns :
                /\ handle'[mClient] = c
                /\ connPid' = [connPid EXCEPT ![c] = PidOf[t]]
    <3>0. mClient \in alloc /\ handle[mClient] = Null /\ UNCHANGED <<mClient, alloc>>
      BY <1>3, <2>1, <1>a DEF ConnMove
    <3>1. PICK c \in Conns \ OpenConns :
                /\ handle'[mClient] = c
                /\ connPid' = [connPid EXCEPT ![c] = PidOf[t]]
      BY <2>1
    <3>2. Lost = OpenConns
      BY <3>0, <1>a
    <3>3. OpenConns' = OpenConns \cup {c}
      BY <3>1, <1>a
    <3>4. Lost' = OpenConns
      BY <3>0, <3>1, <3>3
    <3> QED
      BY <1>3, <3>0, <3>1, <3>2, <3>3, <3>4
  <2> QED
    BY <1>3, <2>1, <1>1 DEF ConnMove
<1>4. CASE pc[t] = "close" /\ ConnMove(t)
  BY <1>4, <1>a DEF ConnMove, CloseConn
<1>5. CASE pc[t] \in {"closeNull", "free", "null"} /\ ConnMove(t)
  BY <1>5, <1>a, <1>1 DEF ConnMove
<1> QED
  BY <1>1, <1>2, <1>3, <1>4, <1>5 DEF ConnMove

LEMMA FiniteConns ==
    ASSUME IsFiniteSet(OpenConns), NEW c, OpenConns' \subseteq OpenConns \cup {c}
    PROVE  IsFiniteSet(OpenConns')
<1>1. IsFiniteSet(OpenConns \cup {c})
  BY FS_AddElement
<1> QED
  BY <1>1, FS_Subset

LEMMA FiniteChannel ==
    ASSUME Types, IsFiniteSet(OpenConns), NEW t \in Threads, ChannelStep(t)
    PROVE  IsFiniteSet(OpenConns')
<1>1. CASE StartConnected(t)
  <2>1. \E c : OpenConns' \subseteq OpenConns \cup {c}
    BY <1>1 DEF StartConnected, OpenConns, Types, ChannelTypes
  <2> QED
    BY <2>1, FiniteConns
<1>2. CASE \E c : CloseConn(c)
  <2>1. \E c : OpenConns' \subseteq OpenConns \cup {c}
    BY <1>2 DEF CloseConn, OpenConns
  <2> QED
    BY <2>1, FiniteConns
<1>3. CASE connPid' = connPid
  BY <1>3 DEF OpenConns
<1>4. StartConnected(t) \/ (\E c : CloseConn(c)) \/ connPid' = connPid
  <2>1. CASE Start(t)
    BY <2>1 DEF Start, StartNewClient, StartCheckClient, StartCallClient, Load, StartTold, StartRefused, CloseHandle,
       ForgetHandle, StartSetInited, StartUndone, chanFixed
  <2>2. CASE Stop(t)
    BY <2>2 DEF Stop, StopTest, StopClose, Load, CloseHandle, ForgetHandle, StopFree, StopClear, StopNull, chanFixed
  <2>3. CASE Send(t) \/ UseAfterFree(t)
    BY <2>3 DEF Send, SendMessage, Load, SendRequest, SendFails, SendCancelled, SendReturns, UseAfterFree, chanFixed
  <2> QED
    BY <2>1, <2>2, <2>3 DEF ChannelStep
<1> QED
  BY <1>1, <1>2, <1>3, <1>4

LEMMA FiniteStep ==
    ASSUME Types, IsFiniteSet(OpenConns), [Next]_vars
    PROVE  IsFiniteSet(OpenConns')
<1>1. CASE connPid' = connPid
  BY <1>1 DEF OpenConns
<1>2. ASSUME NEW t \in Openers, Open(t) PROVE IsFiniteSet(OpenConns')
  BY <1>1, <1>2, FiniteChannel, OpenRest, Constants DEF OpenInChannel
<1>3. CASE DriverSteps
  BY <1>1, <1>3, FiniteChannel, DriverRest, Constants DEF DriverInChannel
<1>4. CASE ServiceGoes
  <2>1. OpenConns' = {}
    BY <1>4 DEF ServiceGoes, ServiceStop, OpenConns
  <2> QED
    BY <2>1, FS_EmptySet
<1>5. CASE ServiceComes \/ UNCHANGED vars
  BY <1>1, <1>5 DEF ServiceComes, ServiceStart, vars, chanVars, chanFixed
<1> QED
  BY <1>2, <1>3, <1>4, <1>5 DEF Next

LEMMA LostIsFinite ==
    ASSUME IsFiniteSet(OpenConns)
    PROVE  /\ IsFiniteSet(Lost) /\ Cardinality(Lost) \in Nat
           /\ Cardinality(OpenConns) \in Nat
           /\ mClient \notin alloc => OpenConns = Lost
           /\ Cardinality(OpenConns) <= Cardinality(Lost) + 1
<1>1. IsFiniteSet(Lost) /\ Cardinality(Lost) \in Nat /\ Cardinality(OpenConns) \in Nat
  BY FS_Subset, FS_CardinalityType DEF Lost
<1>2. ASSUME NEW h PROVE /\ IsFiniteSet(Lost \cup {h})
                         /\ Cardinality(Lost \cup {h}) <= Cardinality(Lost) + 1
  <2>1. /\ IsFiniteSet(Lost \cup {h})
        /\ \/ Cardinality(Lost \cup {h}) = Cardinality(Lost)
           \/ Cardinality(Lost \cup {h}) = Cardinality(Lost) + 1
    BY <1>1, FS_AddElement
  <2>2. \A n \in Nat : n <= n + 1 /\ n + 1 <= n + 1
    OBVIOUS
  <2> QED
    BY <1>1, <2>1, <2>2
<1>3. OpenConns \subseteq Lost \cup {handle[mClient]}
  BY DEF Lost, Reachable
<1>4. Cardinality(OpenConns) <= Cardinality(Lost \cup {handle[mClient]})
  BY <1>2, <1>3, FS_Subset
<1>5. Cardinality(OpenConns) <= Cardinality(Lost) + 1
  <2>1. Cardinality(Lost \cup {handle[mClient]}) \in Nat
    BY <1>2, FS_CardinalityType
  <2>2. \A k, m, n \in Nat : k <= m /\ m <= n + 1 => k <= n + 1
    OBVIOUS
  <2> QED
    BY <1>1, <1>2, <1>4, <2>1, <2>2
<1> QED
  BY <1>1, <1>5 DEF Lost, Reachable

(***************************************************************************)
(* At the beginning of a Start the lost connections are all there are, but *)
(* for the driver's.                                                       *)
(***************************************************************************)
LEMMA DebtsAtStart ==
    ASSUME Types, Where, IsFiniteSet(OpenConns), Debts, DriversClient \/ mClient = Null
    PROVE  Cardinality(OpenConns) <= loads /\ \A c \in OpenConns : connPid[c] = SystemPid
<1>1. loads \in Nat
  BY Constants DEF Types, OpenTypes
<1>2. CASE DriversClient
  BY <1>1, <1>2, LostIsFinite DEF Debts
<1>3. CASE ~DriversClient
  <2>1. mClient \notin alloc
    BY <1>3, Constants DEF Types, ChannelTypes
  <2> QED
    BY <1>1, <1>3, <2>1, LostIsFinite DEF Debts
<1> QED
  BY <1>2, <1>3

LEMMA DebtsKept ==
    ASSUME Types, IsFiniteSet(OpenConns), Debts, UNCHANGED <<Lost, connPid, loads>>, DriversClient' => DriversClient
    PROVE  Debts'
<1>1. OpenConns' = OpenConns /\ Cardinality(Lost)' = Cardinality(Lost)
  BY DEF OpenConns
<1>2. Cardinality(Lost) \in Nat /\ loads \in Nat
  BY LostIsFinite, Constants DEF Types, OpenTypes
<1>3. Cardinality(Lost) + (IF DriversClient' THEN 1 ELSE 0) <= loads
  BY <1>2 DEF Debts
<1> QED
  BY <1>1, <1>3 DEF Debts

LEMMA LostUnchanged ==
    ASSUME UNCHANGED <<mClient, alloc, handle, connPid>>
    PROVE  UNCHANGED <<Lost, connPid>>
  BY DEF Lost, OpenConns, Reachable

LEMMA DebtsOpen ==
    ASSUME Types, Types', Where, IsFiniteSet(OpenConns), Alone, Sound, Owned, Debts,
           NEW t \in Openers, Open(t), ~overlapped'
    PROVE  Debts'
<1>1. /\ t \in Threads /\ t # Driver /\ Driver \in Threads
      /\ ~Idle(t) \/ BeginOpen(t)
      /\ \A u \in Threads \ {t} : Idle(u) /\ pc'[u] = pc[u]
      /\ \A u \in Openers : u \in Threads
      /\ pc[Driver] = "loaded" /\ pc'[Driver] = "loaded"
  BY OthersIdleOpen, OpenMoves
<1>3. loads \in Nat /\ loads' = loads
  BY Constants DEF Types, OpenTypes, Open, OpenInChannel, BeginOpen, GiveUp, AskServerPid,
     DuplicateHandle, DuplicateFails, Answer, AnswerReadFails, EndOpen
<1>4. CASE OpenInChannel(t)
  <2>1. ConnMove(t) /\ ~Idle(t)
    BY <1>1, <1>4, OwnedOpen, ChannelMoves DEF OpenInChannel
  <2>2. ~DriversClient'
    <3>1. ret[t] \in {"stopped", "undone"} \/ pc[t] \notin InStop
      BY DEF Where
    <3>2. ChannelMove(t) /\ ~crashed'
      BY <1>1, <1>4, SoundOpen, ChannelMoves DEF OpenInChannel, Sound
    <3>3. pc'[t] \notin {"idle", "start"}
      BY <3>1, <3>2 DEF ChannelMove, Moves, InStop
    <3> QED
      BY <3>3 DEF DriversClient
  <2>3. CASE pc[t] = "start"
    <3>1. DriversClient \/ mClient = Null
      BY <1>1, <2>3, Constants DEF DriversClient, Idle, Where, OpenerPCs
    <3>2. Cardinality(OpenConns) <= loads /\ \A c \in OpenConns : connPid[c] = SystemPid
      BY <3>1, DebtsAtStart
    <3>3. Lost' = OpenConns /\ \A c \in Lost' : connPid'[c] = connPid[c]
      BY <1>1, <2>1, <2>3, LostOfMove
    <3>4. Cardinality(Lost)' + 0 <= loads
      BY <1>3, <3>2, <3>3, LostIsFinite
    <3> QED
      BY <1>3, <2>2, <3>2, <3>3, <3>4 DEF Debts
  <2>4. CASE pc[t] # "start"
    <3>1. Lost' = Lost /\ \A c \in Lost' : connPid'[c] = connPid[c]
      BY <1>1, <2>1, <2>4, LostOfMove
    <3>2. Cardinality(Lost)' + 0 <= loads
      BY <1>3, <3>1, LostIsFinite DEF Debts
    <3> QED
      BY <1>3, <2>2, <3>1, <3>2 DEF Debts
  <2> QED
    BY <2>3, <2>4
<1>5. CASE ~OpenInChannel(t)
  <2>1. UNCHANGED <<mClient, alloc, handle, connPid>>
    BY <1>5, OpenRest
  <2>2. UNCHANGED <<Lost, connPid>>
    BY <2>1, LostUnchanged
  <2>3. DriversClient' => DriversClient
    <3>1. CASE BeginOpen(t)
      BY <1>1, <2>1, <3>1 DEF DriversClient, BeginOpen
    <3>2. CASE EndOpen(t)
      <4>1. mClient = Null
        BY <1>1, <3>2 DEF EndOpen, Sound, Fits, Idle
      <4> QED
        BY <1>1, <2>1, <4>1 DEF DriversClient
    <3>3. CASE ~BeginOpen(t) /\ ~EndOpen(t)
      <4>1. pc[t] # "stopped" /\ ~Idle(t) /\ OpenMove(t)
        BY <1>1, <1>5, <3>3, OpenMoves DEF Open, GiveUp, AskServerPid, GetServerPid, Load, Using,
           DuplicateHandle, DuplicateFails, Answer, AnswerReadFails
      <4>2. pc'[t] \notin {"idle", "start"}
        BY <4>1 DEF OpenMove, Moves, Idle
      <4> QED
        BY <4>2 DEF DriversClient
    <3> QED
      BY <3>1, <3>2, <3>3
  <2> QED
    BY <1>3, <2>2, <2>3, DebtsKept
<1> QED
  BY <1>4, <1>5

LEMMA DebtsDriver ==
    ASSUME Types, Types', Where, IsFiniteSet(OpenConns), Alone, Sound, Owned, Debts, DriverSteps, ~overlapped'
    PROVE  Debts'
<1>1. /\ Driver \in Threads /\ PidOf[Driver] = SystemPid
      /\ \A u \in Threads \ {Driver} : pc[u] = "idle" /\ pc'[u] = "idle"
      /\ \A u \in Openers : u \in Threads /\ u # Driver
  BY OthersIdleDriver, Constants
<1>2. loads \in Nat /\ Cardinality(Lost) \in Nat
  BY Constants, LostIsFinite DEF Types, OpenTypes
<1>3. CASE DriverInChannel
  <2>1. ConnMove(Driver) /\ loads' = loads
    BY <1>3, OwnedDriver DEF DriverInChannel
  <2>2. DriversClient' => DriversClient
    <3>1. pc'[Driver] # "start"
      <4>1. ChannelMove(Driver) /\ ret[Driver] \in {"stopped", "undone", "loaded", "unloaded"} /\ ~crashed'
        BY <1>1, <1>3, ChannelMoves, SoundDriver DEF DriverInChannel, Types, ChannelTypes, Sound
      <4> QED
        BY <4>1 DEF ChannelMove, Moves
    <3> QED
      BY <1>1, <2>1, <3>1, LostOfMove DEF DriversClient
  <2>3. Lost' = Lost
    <3>1. CASE pc[Driver] = "start"
      <4>1. mClient \notin alloc
        BY <3>1, Constants DEF Sound, Types, ChannelTypes
      <4> QED
        BY <1>1, <2>1, <3>1, <4>1, LostOfMove, LostIsFinite
    <3> QED
      BY <1>1, <2>1, <3>1, LostOfMove
  <2>4. /\ \A c \in Lost : connPid'[c] = connPid[c]
        /\ \A c \in OpenConns' : \/ c \in OpenConns /\ connPid'[c] = connPid[c]
                                \/ connPid'[c] = SystemPid
    BY <1>1, <2>1, <2>3, LostOfMove
  <2>5. Cardinality(Lost)' + (IF DriversClient' THEN 1 ELSE 0) <= loads'
    <3>1. Cardinality(Lost)' = Cardinality(Lost)
      BY <2>3
    <3> QED
      BY <1>2, <2>1, <2>2, <3>1 DEF Debts
  <2> QED
    BY <2>2, <2>3, <2>4, <2>5 DEF Debts
<1>4. CASE ~DriverInChannel
  <2>1. UNCHANGED <<mClient, alloc, handle, connPid>>
    BY <1>4, DriverRest
  <2>2. UNCHANGED <<Lost, connPid>> /\ OpenConns' = OpenConns /\ Cardinality(Lost)' = Cardinality(Lost)
    BY <2>1, LostUnchanged DEF OpenConns
  <2>3. CASE DriverEntry
    <3>1. mClient = Null /\ loads' = loads + 1
      BY <1>1, <2>3 DEF DriverEntry, Sound
    <3>2. OpenConns = Lost
      BY <3>1, LostIsFinite, Constants DEF Types, ChannelTypes
    <3>3. Cardinality(Lost) + (IF DriversClient' THEN 1 ELSE 0) <= loads'
      BY <1>2, <3>1 DEF Debts
    <3> QED
      BY <2>2, <3>2, <3>3 DEF Debts
  <2>4. CASE DriverStarted \/ DriverUnload
    <3>1. loads' = loads /\ (DriversClient' => DriversClient)
      BY <1>1, <2>1, <2>4 DEF DriverStarted, DriverUnload, DriverLoaded, DriversClient, Goto, Types, ChannelTypes
    <3> QED
      BY <2>2, <3>1, DebtsKept
  <2> QED
    BY <1>3, <1>4, <2>3, <2>4 DEF DriverSteps
<1> QED
  BY <1>3, <1>4

LEMMA DebtsStep ==
    ASSUME Types, Types', Where, IsFiniteSet(OpenConns), Alone, Sound, Owned, Debts, [Next]_vars, ~overlapped'
    PROVE  Debts'
<1>1. CASE ServiceComes \/ UNCHANGED vars
  <2>1. UNCHANGED <<mClient, alloc, handle, connPid, loads, pc>>
    BY <1>1 DEF ServiceComes, ServiceStart, vars, chanVars, chanFixed, single, objVars
  <2>2. DriversClient' => DriversClient
    BY <2>1 DEF DriversClient
  <2> QED
    BY <2>1, <2>2, LostUnchanged, DebtsKept
<1>2. CASE ServiceGoes
  <2>1. OpenConns' = {} /\ Lost' = {} /\ loads' = loads /\ mClient' = mClient
    BY <1>2 DEF ServiceGoes, ServiceStop, OpenConns, Lost, single
  <2>2. DriversClient' => DriversClient
    <3>1. \A u \in Threads : pc'[u] \in {"start", "idle"} => pc'[u] = pc[u]
      BY <1>2 DEF ServiceGoes, ServiceStop
    <3> QED
      BY <2>1, <3>1, Constants DEF DriversClient
  <2>3. Cardinality(Lost)' = 0
    BY <2>1, FS_EmptySet
  <2>4. 0 + (IF DriversClient' THEN 1 ELSE 0) <= loads
    <3>1. Cardinality(Lost) \in Nat /\ loads \in Nat
      BY LostIsFinite, Constants DEF Types, OpenTypes
    <3> QED
      BY <2>2, <3>1 DEF Debts
  <2> QED
    BY <2>1, <2>3, <2>4 DEF Debts
<1> QED
  BY <1>1, <1>2, DebtsOpen, DebtsDriver DEF Next

-----------------------------------------------------------------------------
(***************************************************************************)
(* The file handles.  As long as no service went before a handle was sent  *)
(* to it, the handle an open holds is of its file, and no other's.         *)
(***************************************************************************)
Holding(t) == pc[t] \in {"send", "loadSend", "request", "sending"}
Backed(t) == fileHandle[t] \in FileHandles /\ table[fileHandle[t]] = file[t]

HandlesFit ==
    \A t \in Openers : Holding(t) =>
        /\ Backed(t)
        /\ \A u \in Openers \ {t} : Holding(u) => fileHandle[u] # fileHandle[t]

\* One alone sends the handle only over a connection to the service it was made for.
Sent(t) ==
    /\ pc[t] = "sending" => Backed(t)
    /\ Holding(t) /\ handle[mClient] \in OpenConns => Backed(t)

Quiet == \A t \in Openers : pc[t] = "idle" => ~verdict[t]

Obeyed == \A t \in Openers : verdict[t] => file[t] # "clean"

LEMMA HoldingMoves ==
    ASSUME Types, NEW t \in Openers, Open(t), Holding(t)'
    PROVE  DuplicateHandle(t) \/ (Holding(t) /\ UNCHANGED <<table, file, fileHandle>>)
<1>a. t \in Threads /\ ret[t] \in {"stopped", "undone", "loaded", "unloaded"}
  BY Constants DEF Types, ChannelTypes
<1>1. CASE OpenInChannel(t)
  <2>1. ChannelMove(t) \/ UNCHANGED pc
    BY <1>a, <1>1, ChannelMoves DEF OpenInChannel
  <2>2. Holding(t)
    BY <1>a, <2>1 DEF ChannelMove, Moves, Holding
  <2> QED
    BY <1>1, <2>2 DEF OpenInChannel
<1>2. CASE ~OpenInChannel(t)
  BY <1>a, <1>2 DEF Open, BeginOpen, GiveUp, AskServerPid, GetServerPid, Load, Using, Goto,
     DuplicateFails, Answer, AnswerReadFails, EndOpen, CallStop, Holding, Types, ChannelTypes
<1> QED
  BY <1>1, <1>2

LEMMA TableMoves ==
    ASSUME Types, NEW t \in Openers, Open(t)
    PROVE  \/ table' = table
           \/ DuplicateHandle(t)
           \/ Answer(t) /\ Holding(t) /\ table' = [table EXCEPT ![fileHandle[t]] = "none"]
  BY DEF Open, OpenInChannel, BeginOpen, GiveUp, AskServerPid, DuplicateFails, Answer, AnswerReadFails,
     EndOpen, callVars, Holding

LEMMA HandlesOpen ==
    ASSUME Types, HandlesFit, NEW t \in Openers, Open(t)
    PROVE  HandlesFit'
<1> USE DEF Types, OpenTypes
<1>1. /\ \A u \in Openers \ {t} : /\ file'[u] = file[u] /\ fileHandle'[u] = fileHandle[u]
                                  /\ Holding(u)' = Holding(u)
  BY OpenMoves, Constants DEF OthersStay, Holding
<1>2. CASE DuplicateHandle(t)
  <2>1. PICK h \in FileHandles : /\ table[h] = "none"
                                 /\ table' = [table EXCEPT ![h] = file[t]]
                                 /\ fileHandle' = [fileHandle EXCEPT ![t] = h]
    BY <1>2 DEF DuplicateHandle
  <2>2. /\ file' = file /\ fileHandle'[t] = h /\ table'[h] = file[t] /\ file[t] # "none"
        /\ \A g \in FileHandles \ {h} : table'[g] = table[g]
    BY <1>2, <2>1 DEF DuplicateHandle, Files
  <2>3. \A u \in Openers \ {t} : Holding(u) => fileHandle[u] # h /\ Backed(u)
    BY <2>1 DEF HandlesFit, Backed, Files
  <2> QED
    BY <1>1, <2>1, <2>2, <2>3 DEF HandlesFit, Backed
<1>3. CASE ~DuplicateHandle(t)
  <2>1. Holding(t)' => Holding(t) /\ UNCHANGED <<table, file, fileHandle>>
    BY <1>3, HoldingMoves
  <2>2. ASSUME NEW u \in Openers, Holding(u)' PROVE Backed(u)'
    <3>1. CASE table' = table
      BY <1>1, <2>1, <2>2, <3>1 DEF HandlesFit, Backed
    <3>2. CASE Answer(t) /\ Holding(t) /\ table' = [table EXCEPT ![fileHandle[t]] = "none"]
      <4>1. u # t
        BY <2>2, <3>2, Constants DEF Answer, CallStop, Goto, Holding, ChannelTypes
      <4>2. Holding(u) /\ fileHandle[u] # fileHandle[t] /\ Backed(u)
        BY <1>1, <2>2, <3>2, <4>1 DEF HandlesFit
      <4> QED
        BY <1>1, <3>2, <4>1, <4>2 DEF Backed
    <3> QED
      BY <1>3, <3>1, <3>2, TableMoves
  <2>3. \A u, v \in Openers : Holding(u)' /\ Holding(v)' /\ u # v => fileHandle'[u] # fileHandle'[v]
    BY <1>1, <2>1 DEF HandlesFit
  <2> QED
    BY <2>2, <2>3 DEF HandlesFit
<1> QED
  BY <1>2, <1>3

LEMMA HandlesStep == Types /\ (~outlived => HandlesFit) /\ [Next]_vars => (~outlived => HandlesFit)'
<1> SUFFICES ASSUME Types, ~outlived => HandlesFit, [Next]_vars, ~outlived' PROVE HandlesFit'
  OBVIOUS
<1>1. ASSUME NEW t \in Openers, Open(t) PROVE HandlesFit'
  <2>1. outlived' = outlived
    BY <1>1 DEF Open, OpenInChannel, BeginOpen, GiveUp, AskServerPid, DuplicateHandle, DuplicateFails, Answer,
       AnswerReadFails, EndOpen, callVars
  <2> QED
    BY <1>1, <2>1, HandlesOpen
<1>2. CASE DriverSteps
  <2>1. UNCHANGED callVars /\ \A u \in Openers : pc'[u] = pc[u]
    BY <1>2, DriverMoves, Constants DEF OthersStay
  <2> QED
    BY <2>1 DEF callVars, HandlesFit, Holding, Backed
<1>3. CASE ServiceComes \/ UNCHANGED vars
  BY <1>3 DEF ServiceComes, ServiceStart, locals, vars, chanVars, callVars, HandlesFit, Holding, Backed
<1>4. CASE ServiceGoes
  <2>1. \A u \in Openers : ~Holding(u)'
    BY <1>4, Constants DEF ServiceGoes, ServiceStop, Holding
  <2> QED
    BY <2>1 DEF HandlesFit
<1> QED
  BY <1>1, <1>2, <1>3, <1>4 DEF Next

LEMMA SentChannel ==
    ASSUME Types, NEW t \in Openers, Fits(t), Held(t), DeadIsNone, Sent(t), OpenInChannel(t),
           ~crashed, ~UseAfterFree(t)
    PROVE  Sent(t)'
<1> USE DEF Types, ChannelTypes
<1>1. t \in Threads /\ Null \notin Conns /\ Dead \notin Conns /\ Dead # Null /\ PidOf[t] # Null
  BY Constants
<1>2. UNCHANGED <<table, file, fileHandle>> /\ Backed(t)' = Backed(t)
  BY DEF OpenInChannel, Backed
<1>3. CASE SendMessage(t) \/ SendRequest(t) \/ SendFails(t) \/ SendCancelled(t)
  <2>1. UNCHANGED <<mClient, handle, connPid>> /\ OpenConns' = OpenConns
    BY <1>3 DEF SendMessage, Load, SendRequest, SendFails, SendCancelled, SendReturns, chanFixed, single, objVars, OpenConns
  <2>2. ASSUME pc'[t] = "sending" PROVE Backed(t)
    <3>1. SendRequest(t)
      BY <1>1, <1>3, <2>2 DEF SendMessage, Load, SendRequest, SendFails, SendCancelled, Goto
    <3>2. pc[t] = "request" /\ this[t] = mClient /\ mClient \in alloc
      BY <3>1 DEF SendRequest, Using, Fits, UsePCs
    <3>3. PICK c \in Means(handle[mClient], PidOf[t]) : c \in OpenConns
      BY <1>1, <2>2, <3>1, <3>2 DEF SendRequest, Goto
    <3>4. handle[mClient] \in {Null, Dead} \cup ConnsOf(PidOf[t])
      BY <3>2 DEF Held, Owns
    <3>5. handle[mClient] = c
      BY <1>1, <3>2, <3>3, <3>4 DEF Means, DeadIsNone, OpenConns, ConnsOf
    <3> QED
      BY <3>2, <3>3, <3>5 DEF Sent, Holding
  <2>3. Holding(t)' => Holding(t)
    BY <1>1, <1>3 DEF SendMessage, Load, SendRequest, SendFails, SendCancelled, Goto, Using, Holding
  <2> QED
    BY <1>2, <2>1, <2>2, <2>3 DEF Sent
<1>4. CASE Start(t) \/ Stop(t)
  <2>1. ~Holding(t)
    BY <1>4 DEF Start, Stop, StartNewClient, StartCheckClient, StartCallClient,
       StartConnected, StartTold, StartRefused, StartSetInited, StartUndone, StopTest, StopClose,
       StopFree, StopClear, StopNull, CloseHandle, ForgetHandle, Load, Using, Holding
  <2>2. ~Holding(t)'
    <3>1. ret[t] \in {"stopped", "undone", "loaded", "unloaded"} /\ ChannelMove(t) /\ ~crashed'
      BY <1>1, <1>4, FitsStart, FitsStop, ChannelMoves DEF OpenInChannel
    <3> QED
      BY <2>1, <3>1 DEF ChannelMove, Moves, Holding
  <2> QED
    BY <2>2 DEF Sent, Holding
<1> QED
  BY <1>3, <1>4 DEF OpenInChannel, ChannelStep, Send

LEMMA SentOpen ==
    ASSUME Types, Types', Where, Alone, Sound, Owned, \A u \in Openers : Sent(u),
           NEW t \in Openers, Open(t), ~overlapped'
    PROVE  \A u \in Openers : Sent(u)'
<1>1. /\ t \in Threads
      /\ ~Idle(t) \/ BeginOpen(t)
      /\ \A u \in Openers \ {t} : pc[u] = "idle" /\ pc'[u] = "idle"
  BY OthersIdleOpen, OpenMoves, Constants DEF Idle, Where, OpenerPCs
<1>2. Sent(t)'
  <2>1. CASE OpenInChannel(t)
    <3>1. t \in Threads /\ ChannelStep(t)
      BY <2>1, <1>1 DEF OpenInChannel
    <3>2. ~Idle(t)
      BY <3>1, ChannelMoves
    <3>3. Fits(t) /\ Held(t) /\ DeadIsNone /\ ~crashed
      BY <3>1, <3>2 DEF Sound, Owned
    <3>4. ~UseAfterFree(t)
      BY <3>1, <3>3, FitsChannel
    <3> QED
      BY <2>1, <3>3, <3>4, SentChannel
  <2>2. CASE DuplicateHandle(t)
    <3>1. Backed(t)'
      BY <2>2 DEF DuplicateHandle, Backed, Types, OpenTypes
    <3> QED
      BY <3>1 DEF Sent
  <2>3. CASE ~OpenInChannel(t) /\ ~DuplicateHandle(t)
    <3>1. ~Holding(t)'
      BY <1>1, <2>3 DEF Open, BeginOpen, GiveUp, AskServerPid, GetServerPid, Load, Using, Goto,
         DuplicateFails, Answer, AnswerReadFails, EndOpen, CallStop, Holding, Types, ChannelTypes
    <3> QED
      BY <3>1 DEF Sent, Holding
  <2> QED
    BY <2>1, <2>2, <2>3
<1> QED
  BY <1>1, <1>2 DEF Sent, Holding

LEMMA SentStep ==
    ASSUME Types, Types', Where, Alone, Sound, Owned, \A u \in Openers : Sent(u), [Next]_vars, ~overlapped'
    PROVE  \A u \in Openers : Sent(u)'
<1>1. CASE DriverSteps
  <2>1. \A u \in Openers : pc'[u] = "idle"
    BY <1>1, OthersIdleDriver, Constants
  <2> QED
    BY <2>1 DEF Sent, Holding
<1>2. CASE ServiceComes \/ UNCHANGED vars
  <2>1. UNCHANGED <<mClient, handle, connPid, pc, file, fileHandle, table>> /\ OpenConns' = OpenConns
    BY <1>2 DEF ServiceComes, ServiceStart, vars, chanVars, chanFixed, single, objVars, callVars, OpenConns
  <2> QED
    BY <2>1 DEF Sent, Holding, Backed
<1>3. CASE ServiceGoes
  <2>1. OpenConns' = {} /\ \A u \in Threads : pc'[u] # "sending"
    BY <1>3 DEF ServiceGoes, ServiceStop, OpenConns
  <2> QED
    BY <2>1, Constants DEF Sent
<1> QED
  BY <1>1, <1>2, <1>3, SentOpen DEF Next

\* Only the end of an open makes its thread idle.
LEMMA IdleMoves ==
    ASSUME Types, NEW t \in Openers, Open(t), ~EndOpen(t), pc'[t] = "idle"
    PROVE  pc[t] = "idle" /\ UNCHANGED verdict
<1>a. t \in Threads /\ ret[t] \in {"stopped", "undone", "loaded", "unloaded"}
  BY Constants DEF Types, ChannelTypes
<1>1. CASE OpenInChannel(t)
  BY <1>a, <1>1, ChannelMoves DEF OpenInChannel, ChannelMove, Moves, Idle, InChannel, InStop, UsePCs
<1>2. CASE ~OpenInChannel(t)
  BY <1>a, <1>2 DEF Open, BeginOpen, GiveUp, AskServerPid, GetServerPid, Load, Using, Goto,
     DuplicateHandle, DuplicateFails, Answer, AnswerReadFails, CallStop, Types, ChannelTypes
<1> QED
  BY <1>1, <1>2

LEMMA QuietStep == Types /\ Quiet /\ [Next]_vars => Quiet'
<1> SUFFICES ASSUME Types, Quiet, [Next]_vars, NEW u \in Openers, pc'[u] = "idle" PROVE ~verdict'[u]
  BY DEF Quiet
<1> USE DEF Types, OpenTypes
<1>1. ASSUME NEW t \in Openers, Open(t) PROVE ~verdict'[u]
  <2>1. CASE u # t
    BY <1>1, <2>1, OpenMoves, Constants DEF OthersStay, Quiet
  <2>2. CASE u = t
    <3>1. CASE EndOpen(t)
      BY <2>2, <3>1 DEF EndOpen
    <3>2. CASE ~EndOpen(t)
      <4>1. pc[t] = "idle" /\ UNCHANGED verdict
        BY <1>1, <2>2, <3>2, IdleMoves
      <4> QED
        BY <2>2, <4>1 DEF Quiet
    <3> QED
      BY <3>1, <3>2
  <2> QED
    BY <2>1, <2>2
<1>2. CASE DriverSteps
  BY <1>2, DriverMoves, Constants DEF OthersStay, callVars, Quiet
<1>3. CASE ServiceComes \/ ServiceGoes
  BY <1>3, ServiceMoves, Constants DEF Moves, Quiet
<1>4. CASE UNCHANGED vars
  BY <1>4 DEF vars, chanVars, callVars, Quiet
<1> QED
  BY <1>1, <1>2, <1>3, <1>4 DEF Next

(***************************************************************************)
(* An answer to t is about t's file, in either case.                       *)
(***************************************************************************)
LEMMA ObeyedOpen ==
    ASSUME Types, Quiet, Obeyed, NEW t \in Openers, Open(t), pc[t] = "sending" => Backed(t)
    PROVE  Obeyed'
<1> USE DEF Types, OpenTypes
<1>1. \A u \in Openers \ {t} : file'[u] = file[u] /\ verdict'[u] = verdict[u]
  BY OpenMoves
<1>2. verdict'[t] => file'[t] # "clean"
  <2>1. CASE Answer(t)
    <3>1. pc[t] = "sending" /\ file' = file
      BY <2>1 DEF Answer
    <3>2. PICK f \in FilesRead(t), v \in BOOLEAN :
              v \in Verdicts(f) /\ verdict' = [verdict EXCEPT ![t] = v]
      BY <2>1 DEF Answer
    <3>3. f = file[t]
      BY <3>1, <3>2 DEF FilesRead, Backed
    <3>4. f = "clean" => v = FALSE
      BY <3>2 DEF Verdicts
    <3>5. verdict'[t] = v
      BY <3>2
    <3>6. CASE f = "clean"
      <4>1. verdict'[t] = FALSE
        BY <3>4, <3>5, <3>6
      <4> QED
        BY <4>1
    <3> QED
      BY <3>1, <3>3, <3>6
  <2>2. CASE BeginOpen(t)
    <3>1. pc[t] = "idle" /\ verdict' = verdict
      BY <2>2 DEF BeginOpen
    <3> QED
      BY <3>1 DEF Quiet
  <2>3. CASE EndOpen(t)
    BY <2>3 DEF EndOpen
  <2>4. CASE ~Answer(t) /\ ~BeginOpen(t) /\ ~EndOpen(t)
    <3>1. UNCHANGED <<file, verdict>>
      BY <2>4 DEF Open, OpenInChannel, GiveUp, AskServerPid, DuplicateHandle, DuplicateFails, AnswerReadFails, callVars
    <3> QED
      BY <3>1 DEF Obeyed
  <2> QED
    BY <2>1, <2>2, <2>3, <2>4
<1> QED
  BY <1>1, <1>2 DEF Obeyed

-----------------------------------------------------------------------------
SoloInv ==
    /\ Alone
    /\ Sound
    /\ Owned
    /\ Debts
    /\ \A t \in Openers : Sent(t)

Conduct == \A t \in Openers : intact[t] => serviceUp

VerdictInv ==
    /\ Types
    /\ Where
    /\ IsFiniteSet(OpenConns)
    /\ Conduct
    /\ Quiet
    /\ ~outlived => HandlesFit
    /\ ~overlapped => SoloInv
    /\ ~(overlapped /\ outlived) => Obeyed

LEMMA VerdictInvInit == Init => VerdictInv
<1> SUFFICES ASSUME Init PROVE VerdictInv
  OBVIOUS
<1>1. Driver \in Threads /\ Openers \subseteq Threads /\ Driver \notin Openers
  BY Constants
<1>2. /\ mClient = Null /\ ~inited /\ ~crashed /\ loads = 0 /\ OpenConns = {} /\ Lost = {} /\ alloc = {}
      /\ pc[Driver] = "unloaded" /\ \A t \in Threads : Idle(t)
      /\ \A t \in Openers : pc[t] = "idle" /\ ~intact[t] /\ ~verdict[t]
  BY <1>1 DEF Init, ChannelInit, OpenConns, Lost, Idle
<1>3. IsFiniteSet(OpenConns) /\ Cardinality(Lost) = 0
  BY <1>2, FS_EmptySet
<1>4. Debts
  BY <1>2, <1>3 DEF Debts, DriversClient
<1>5. Conduct /\ Quiet /\ HandlesFit /\ Obeyed
  BY <1>2 DEF Conduct, Quiet, HandlesFit, Holding, Obeyed
<1>6. SoloInv
  BY <1>1, <1>2, <1>4 DEF SoloInv, Alone, Sound, Settled, Sent, Holding, Owned, Owns, DeadIsNone
<1> QED
  BY <1>3, <1>5, <1>6, TypesInit, WhereInit DEF VerdictInv

LEMMA ConductStep == Types /\ Conduct /\ [Next]_vars => Conduct'
<1> SUFFICES ASSUME Types, Conduct, [Next]_vars PROVE Conduct'
  OBVIOUS
<1> USE DEF Types, OpenTypes, Conduct
<1>1. ASSUME NEW t \in Openers, Open(t) PROVE Conduct'
  <2>1. serviceUp' = serviceUp /\ \A u \in Openers \ {t} : intact'[u] = intact[u]
    BY <1>1, OpenMoves DEF OthersStay
  <2>2. intact'[t] => serviceUp
    <3>1. CASE BeginOpen(t)
      BY <3>1 DEF BeginOpen
    <3>2. CASE ~BeginOpen(t)
      <4>1. intact'[t] => intact[t]
        BY <1>1, <3>2 DEF Open, OpenInChannel, GiveUp, AskServerPid, DuplicateHandle, DuplicateFails,
           Answer, AnswerReadFails, EndOpen, callVars
      <4> QED
        BY <4>1
    <3> QED
      BY <3>1, <3>2
  <2> QED
    BY <2>1, <2>2
<1>2. CASE DriverSteps
  BY <1>2, DriverMoves DEF OthersStay, callVars
<1>3. CASE ServiceComes \/ ServiceGoes
  BY <1>3 DEF ServiceComes, ServiceStart, ServiceGoes, callVars
<1>4. CASE UNCHANGED vars
  BY <1>4 DEF vars, chanVars, chanFixed, callVars
<1> QED
  BY <1>1, <1>2, <1>3, <1>4 DEF Next

LEMMA ObeyedStep ==
    ASSUME VerdictInv, [Next]_vars, ~(overlapped' /\ outlived')
    PROVE  Obeyed'
<1>1. (outlived => outlived') /\ (overlapped => overlapped')
  <2>1. overlapped => overlapped'
    BY OverlapStays DEF VerdictInv
  <2>2. outlived => outlived'
    <3>1. ASSUME NEW t \in Openers, Open(t) PROVE outlived' = outlived
      BY <3>1 DEF Open, OpenInChannel, BeginOpen, GiveUp, AskServerPid, DuplicateHandle, DuplicateFails, Answer,
         AnswerReadFails, EndOpen, callVars
    <3>2. CASE DriverSteps
      BY <3>2, DriverMoves DEF VerdictInv, callVars
    <3>3. CASE ServiceComes \/ ServiceGoes \/ UNCHANGED vars
      BY <3>3 DEF ServiceComes, ServiceGoes, vars, callVars
    <3> QED
      BY <3>1, <3>2, <3>3 DEF Next
  <2> QED
    BY <2>1, <2>2
<1>2. Types /\ Quiet /\ Obeyed
  BY <1>1 DEF VerdictInv
<1>3. ASSUME NEW t \in Openers, Open(t) PROVE Obeyed'
  <2>1. pc[t] = "sending" => Backed(t)
    BY <1>1 DEF VerdictInv, HandlesFit, SoloInv, Sent, Holding
  <2> QED
    BY <1>2, <1>3, <2>1, ObeyedOpen
<1>4. CASE DriverSteps
  BY <1>2, <1>4, DriverMoves DEF callVars, Obeyed
<1>5. CASE ServiceComes \/ ServiceGoes
  BY <1>2, <1>5, ServiceMoves DEF Obeyed
<1>6. CASE UNCHANGED vars
  BY <1>2, <1>6 DEF vars, callVars, Obeyed
<1> QED
  BY <1>3, <1>4, <1>5, <1>6 DEF Next

LEMMA VerdictInvStep == VerdictInv /\ [Next]_vars => VerdictInv'
<1> SUFFICES ASSUME VerdictInv, [Next]_vars PROVE VerdictInv'
  OBVIOUS
<1>1. Types' /\ Where' /\ IsFiniteSet(OpenConns)' /\ Conduct' /\ Quiet'
  BY TypesStep, WhereStep, FiniteStep, ConductStep, QuietStep DEF VerdictInv
<1>2. (~outlived => HandlesFit)' /\ (~(overlapped /\ outlived) => Obeyed)'
  BY HandlesStep, ObeyedStep DEF VerdictInv
<1>3. ASSUME ~overlapped' PROVE SoloInv'
  <2>1. SoloInv
    BY <1>3, OverlapStays DEF VerdictInv
  <2>2. Alone' /\ Sound'
    BY <1>3, <2>1, AloneStep, SoundStep DEF VerdictInv, SoloInv
  <2>3. Owned' /\ Debts'
    BY <1>1, <1>3, <2>1, OwnedStep, DebtsStep DEF VerdictInv, SoloInv
  <2>4. \A t \in Openers : Sent(t)'
    BY <1>1, <1>3, <2>1, SentStep DEF VerdictInv, SoloInv
  <2> QED
    BY <2>2, <2>3, <2>4 DEF SoloInv
<1> QED
  BY <1>1, <1>2, <1>3 DEF VerdictInv

(***************************************************************************)
(* The inductive invariant of the channel and the opens.                   *)
(***************************************************************************)
THEOREM VerdictInvariant == Spec => []VerdictInv
  BY VerdictInvInit, VerdictInvStep, PTL DEF Spec

(***************************************************************************)
(* A file that holds no pattern, and is long enough to be read in full, is *)
(* not denied, unless calls have overlapped and the service went before a  *)
(* file handle was sent to it.                                             *)
(***************************************************************************)
THEOREM DeniedByPolicy == Spec => []DeniedOnlyByPolicy
<1>1. VerdictInv => DeniedOnlyByPolicy
  BY DEF VerdictInv, Obeyed, DeniedOnlyByPolicy
<1> QED
  BY <1>1, VerdictInvariant, PTL

(***************************************************************************)
(* As long as no two threads are inside the singleton at a time, no freed  *)
(* client and no NULL is used, and at most one connection is lost for each *)
(* load of the driver.                                                     *)
(***************************************************************************)
THEOREM SafeAlone == Spec => []SafeWithoutOverlap
<1>1. VerdictInv => SafeWithoutOverlap
  <2> SUFFICES ASSUME VerdictInv, ~overlapped PROVE SafeWithoutOverlap
    BY DEF SafeWithoutOverlap, OneLostConnectionPerLoad
  <2>1. loads \in Nat /\ Cardinality(Lost) \in Nat
    BY LostIsFinite, Constants DEF VerdictInv, Types, OpenTypes
  <2>2. Cardinality(Lost) <= loads
    BY <2>1 DEF VerdictInv, SoloInv, Debts
  <2>3. ~crashed
    BY DEF VerdictInv, SoloInv, Sound
  <2> QED
    BY <2>2, <2>3 DEF SafeWithoutOverlap, OneLostConnectionPerLoad, Lost
<1> QED
  BY <1>1, VerdictInvariant, PTL

-----------------------------------------------------------------------------
(***************************************************************************)
(* An open that nothing interferes with gets a connection as long as the   *)
(* driver has not lost as many as the service has slots, and its answer.   *)
(***************************************************************************)
\* Where an open is on its way out with its verdict.
Leaving == InStop \cup {"undone", "startFailed", "noProcess", "sendFailed", "stopped"}

Connected(t) == mClient \in told /\ handle[mClient] \in OpenConns

JudgedSo(t) ==
    /\ pc[t] = "check" => mClient # Null
    /\ pc[t] \notin {"undo", "undoNull"}
    /\ pc[t] = "connected" => port[t] # Null /\ handle[mClient] \in OpenConns
    /\ pc[t] = "setInited" => started[t]
    /\ pc[t] \in {"setInited", "started", "loadPid", "readPid", "openProcess"} => Connected(t)
    /\ Holding(t) => Connected(t)
    /\ pc[t] = "sending" => port[t] \in OpenConns
    /\ pc[t] \in Leaving /\ file[t] = "pattern" => verdict[t]

Judged(t) == intact[t] => JudgedSo(t)

JudgeInv == ~overlapped => \A t \in Openers : Judged(t)

LEMMA Accepted ==
    ASSUME MaxLoads < NumSlots, VerdictInv, ~overlapped, serviceUp,
           NEW t \in Threads, pc[t] = "connecting"
    PROVE  Accepts(PidOf[t])
<1>1. Fits(t)
  BY DEF VerdictInv, SoloInv, Sound, Idle
<1>2. handle[mClient] = Null /\ Null \notin Conns
  BY <1>1, Constants DEF Fits, Fresh
<1>3. OpenConns = Lost
  BY <1>2 DEF Lost, Reachable, OpenConns
<1>4. Cardinality(Lost) \in Nat /\ loads \in Nat /\ loads <= MaxLoads /\ MaxLoads \in Nat /\ NumSlots \in Nat
  BY LostIsFinite, Constants DEF VerdictInv, Types, OpenTypes
<1>5. Cardinality(Lost) <= loads
  BY <1>4 DEF VerdictInv, SoloInv, Debts
<1>6. \A c \in OpenConns : connPid[c] = SystemPid
  BY <1>3 DEF VerdictInv, SoloInv, Debts
<1>7. Cardinality(OpenConns) < NumSlots
  BY <1>3, <1>4, <1>5
<1> QED
  BY <1>6, <1>7, Constants DEF Accepts, ConnsOf, OpenConns

LEMMA JudgedChannel ==
    ASSUME MaxLoads < NumSlots, VerdictInv, ~overlapped, NEW t \in Openers, Judged(t),
           OpenInChannel(t), intact'[t]
    PROVE  JudgedSo(t)'
<1>0. t \in Threads /\ ChannelStep(t)
  BY Constants DEF OpenInChannel
<1>1. Null \notin Objs /\ Null \notin Conns /\ PidOf[t] # Null
  BY <1>0, Constants
<1>2. Types /\ ChannelTypes /\ OpenTypes /\ Sound /\ Owned
  BY DEF VerdictInv, SoloInv, Types
<1>3. ~Idle(t) /\ ChannelMove(t) /\ UNCHANGED <<verdict, file>>
  BY <1>0, <1>2, ChannelMoves DEF OpenInChannel
<1>4. Fits(t) /\ Held(t) /\ DeadIsNone /\ ~crashed
  BY <1>0, <1>2, <1>3 DEF Sound, Owned
<1>5. ~UseAfterFree(t) /\ ~crashed'
  BY <1>0, <1>2, <1>4, FitsChannel
<1>6. intact[t] /\ ~CallFails(t) /\ serviceUp /\ JudgedSo(t)
  <2>1. intact'[t] = (intact[t] /\ ~CallFails(t))
    BY <1>2 DEF OpenInChannel, OpenTypes
  <2> QED
    BY <2>1 DEF VerdictInv, Conduct, Judged
<1>7. ret[t] \in {"stopped", "undone"} \/ pc[t] \notin InStop
  BY DEF VerdictInv, Where
<1>8. ASSUME pc[t] \in Leaving PROVE JudgedSo(t)'
  <2>1. pc'[t] \in Leaving
    BY <1>3, <1>5, <1>7, <1>8 DEF ChannelMove, Moves, Leaving, InStop
  <2> QED
    BY <1>3, <1>6, <1>8, <2>1 DEF JudgedSo, Leaving, InStop, Holding
<1> USE <1>1 DEF Goto, Release, single, objVars, locals
<1>9. CASE StartNewClient(t)
  <2>1. pc[t] = "start" /\ pc'[t] = "check" /\ mClient' # Null
    BY <1>0, <1>2, <1>6, <1>9 DEF StartNewClient, CallFails, ChannelTypes
  <2> QED
    BY <2>1 DEF JudgedSo, Leaving, InStop, Holding
<1>10. CASE StartCheckClient(t) \/ StartCallClient(t)
  <2>1. pc'[t] \in {"loadStart", "connect", "connecting"}
    BY <1>0, <1>2, <1>6, <1>10 DEF StartCheckClient, StartCallClient, Load, Using, JudgedSo, ChannelTypes
  <2> QED
    BY <2>1 DEF JudgedSo, Leaving, InStop, Holding
<1>11. CASE StartConnected(t)
  <2>1. pc[t] = "connecting" /\ this[t] = mClient /\ mClient \in alloc
    BY <1>4, <1>11 DEF StartConnected, Using, Fits, UsePCs
  <2>2. Accepts(PidOf[t])
    BY <1>0, <1>6, <2>1, Accepted
  <2>3. pc'[t] = "connected" /\ port'[t] # Null /\ handle'[mClient'] \in OpenConns'
    BY <1>0, <1>2, <1>11, <2>1, <2>2 DEF StartConnected, OpenConns, ChannelTypes
  <2> QED
    BY <2>3 DEF JudgedSo, Leaving, InStop, Holding
<1>12. CASE StartTold(t)
  <2>1. pc[t] = "connected" /\ this[t] = mClient /\ mClient \in alloc
    BY <1>4, <1>12 DEF StartTold, Using, Fits, UsePCs
  <2>2. pc'[t] = "setInited" /\ started'[t] /\ mClient' \in told'
    BY <1>0, <1>2, <1>6, <1>12, <2>1 DEF StartTold, JudgedSo, ChannelTypes
  <2>3. handle'[mClient'] \in OpenConns'
    BY <1>6, <1>12, <2>1 DEF StartTold, JudgedSo, OpenConns
  <2> QED
    BY <2>2, <2>3 DEF JudgedSo, Connected, Leaving, InStop, Holding
<1>13. CASE StartRefused(t)
  BY <1>6, <1>13 DEF StartRefused, CloseHandle, ForgetHandle, Using, JudgedSo
<1>14. CASE StartSetInited(t)
  <2>1. pc[t] = "setInited" /\ pc'[t] = "started" /\ UNCHANGED <<mClient, handle, connPid, told>>
    BY <1>0, <1>2, <1>6, <1>14 DEF StartSetInited, AfterStart, JudgedSo, ChannelTypes
  <2>2. Connected(t)'
    BY <1>6, <2>1 DEF JudgedSo, Connected, OpenConns
  <2> QED
    BY <2>1, <2>2 DEF JudgedSo, Leaving, InStop, Holding
<1>15. CASE StartUndone(t) \/ Stop(t)
  <2>1. pc[t] \in Leaving
    BY <1>15 DEF StartUndone, Stop, StopTest, StopClose, Load, CloseHandle, ForgetHandle, Using, StopFree,
       StopClear, StopNull, Leaving, InStop
  <2> QED
    BY <1>8, <2>1
<1>16. CASE Send(t)
  <2>1. UNCHANGED <<mClient, handle, connPid, told>>
    BY <1>16 DEF Send, SendMessage, Load, SendRequest, SendFails, SendCancelled, SendReturns, chanFixed
  <2>2. Holding(t) /\ Connected(t) /\ OpenConns' = OpenConns
    BY <1>6, <1>16, <2>1 DEF Send, SendMessage, Load, SendRequest, SendFails, SendCancelled, Using, Holding,
       JudgedSo, OpenConns
  <2>3. Connected(t)'
    BY <2>1, <2>2 DEF Connected
  <2>4. CASE SendMessage(t)
    <3>1. pc'[t] \in {"loadSend", "request"}
      BY <1>0, <1>2, <1>4, <2>4 DEF SendMessage, Load, Fits, Asking, ChannelTypes
    <3> QED
      BY <2>3, <3>1 DEF JudgedSo, Leaving, InStop
  <2>5. CASE SendRequest(t) \/ SendFails(t)
    <3>1. pc[t] = "request" /\ this[t] = mClient /\ mClient \in alloc
      BY <1>4, <2>5 DEF SendRequest, SendFails, Using, Fits, UsePCs
    <3>2. handle[mClient] \in ConnsOf(PidOf[t])
      <4>1. handle[mClient] \in {Null, Dead} \cup ConnsOf(PidOf[t])
        BY <1>4, <3>1 DEF Held, Owns
      <4> QED
        BY <2>2, <3>1, <4>1, <1>4 DEF Connected, DeadIsNone, OpenConns
    <3>3. Means(handle[this[t]], PidOf[t]) = {handle[mClient]} /\ handle[mClient] \in OpenConns
      BY <2>2, <3>1, <3>2 DEF Means, Connected
    <3>4. pc'[t] # "sendFailed"
      BY <1>6, <3>1, <3>3 DEF CallFails
    <3>5. SendRequest(t) /\ pc'[t] = "sending" /\ port'[t] = handle[mClient]
      BY <1>0, <1>2, <2>5, <3>3, <3>4 DEF SendRequest, SendFails, ChannelTypes
    <3> QED
      BY <2>2, <2>3, <3>3, <3>5 DEF JudgedSo, Leaving, InStop
  <2>6. CASE SendCancelled(t)
    BY <1>6, <2>6 DEF SendCancelled, JudgedSo
  <2> QED
    BY <1>16, <2>4, <2>5, <2>6 DEF Send
<1> QED
  BY <1>0, <1>5, <1>9, <1>10, <1>11, <1>12, <1>13, <1>14, <1>15, <1>16 DEF ChannelStep, Start

LEMMA JudgedOpen ==
    ASSUME VerdictInv, ~overlapped, NEW t \in Openers, Judged(t),
           Open(t), ~OpenInChannel(t), ~overlapped', intact'[t]
    PROVE  JudgedSo(t)'
<1>1. t \in Threads /\ Types /\ ChannelTypes /\ OpenTypes /\ Sound
  BY Constants DEF VerdictInv, SoloInv, Types
<1>2. (BeginOpen(t) \/ Fits(t)) /\ Sent(t)
  BY SoundOpen DEF VerdictInv, SoloInv
<1>3. UNCHANGED <<mClient, handle, connPid, told>> /\ OpenConns' = OpenConns /\ Connected(t)' = Connected(t)
  BY OpenRest DEF OpenConns, Connected
<1> USE DEF Goto
<1>4. CASE BeginOpen(t)
  <2>1. pc'[t] = "start"
    BY <1>1, <1>4 DEF BeginOpen, ChannelTypes
  <2> QED
    BY <2>1 DEF JudgedSo, Leaving, InStop, Holding
<1>5. CASE EndOpen(t) \/ DuplicateFails(t)
  BY <1>1, <1>5 DEF EndOpen, DuplicateFails, OpenTypes
<1>6. CASE GiveUp(t)
  <2>1. pc[t] \in Leaving /\ pc'[t] = "stop" /\ UNCHANGED <<intact, file, verdict>>
    BY <1>1, <1>6 DEF GiveUp, CallStop, Leaving, callVars, ChannelTypes
  <2> QED
    BY <2>1 DEF Judged, JudgedSo, InStop, Leaving, Holding
<1>7. CASE AskServerPid(t)
  <2>1. JudgedSo(t) /\ Fits(t) /\ UNCHANGED <<file, verdict>>
    BY <1>2, <1>7 DEF AskServerPid, GetServerPid, Load, Using, BeginOpen, callVars, Judged
  <2>2. pc'[t] \in {"loadPid", "readPid", "openProcess"} /\ Connected(t)
    BY <1>1, <1>7, <2>1 DEF AskServerPid, GetServerPid, Load, Using, Fits, UsePCs, Asking, JudgedSo, Connected, ChannelTypes
  <2> QED
    BY <1>3, <2>1, <2>2 DEF JudgedSo, Leaving, InStop, Holding
<1>8. CASE DuplicateHandle(t)
  <2>1. pc[t] = "openProcess" /\ pc'[t] = "send" /\ UNCHANGED <<intact, file, verdict>>
    BY <1>1, <1>8 DEF DuplicateHandle, ChannelTypes
  <2> QED
    BY <1>3, <2>1 DEF Judged, JudgedSo, Leaving, InStop
<1>9. CASE Answer(t)
  <2>1. pc[t] = "sending" /\ pc'[t] = "stop" /\ file' = file
    BY <1>1, <1>9 DEF Answer, CallStop, ChannelTypes
  <2>2. PICK f \in FilesRead(t), v \in BOOLEAN : v \in Verdicts(f) /\ verdict' = [verdict EXCEPT ![t] = v]
    BY <1>9 DEF Answer
  <2>3. f = file[t]
    BY <1>2, <2>1, <2>2 DEF FilesRead, Sent, Backed
  <2>4. verdict'[t] = v
    BY <1>1, <2>2 DEF OpenTypes
  <2>5. ASSUME file[t] = "pattern" PROVE verdict'[t]
    <3>1. v = TRUE
      BY <2>2, <2>3, <2>5 DEF Verdicts
    <3>2. verdict'[t] = TRUE
      BY <2>4, <3>1
    <3> QED
      BY <3>2
  <2> QED
    BY <2>1, <2>5 DEF JudgedSo, InStop, Holding
<1>10. CASE AnswerReadFails(t)
  <2>1. FilesRead(t) # {}
    BY <1>1, <1>2, <1>10 DEF AnswerReadFails, FilesRead, Sent, Backed, OpenTypes
  <2> QED
    BY <1>1, <1>10, <2>1 DEF AnswerReadFails, OpenTypes
<1> QED
  BY <1>4, <1>5, <1>6, <1>7, <1>8, <1>9, <1>10 DEF Open

LEMMA JudgeStep ==
    ASSUME MaxLoads < NumSlots, VerdictInv, JudgeInv, [Next]_vars
    PROVE  JudgeInv'
<1> SUFFICES ASSUME ~overlapped', NEW u \in Openers, intact'[u] PROVE JudgedSo(u)'
  BY DEF JudgeInv, Judged
<1>1. ~overlapped /\ Types /\ Where /\ Alone /\ Sound /\ Judged(u) /\ u \in Threads
  BY OverlapStays, Constants DEF VerdictInv, SoloInv, JudgeInv
<1>2. ASSUME pc'[u] = "idle" PROVE JudgedSo(u)'
  BY <1>2 DEF JudgedSo, Leaving, InStop, Holding
<1>3. ASSUME NEW t \in Openers, Open(t) PROVE JudgedSo(u)'
  <2>1. CASE u = t
    BY <1>1, <1>3, <2>1, JudgedChannel, JudgedOpen
  <2>2. CASE u # t
    BY <1>1, <1>2, <1>3, <2>2, OthersIdleOpen DEF Idle, Where, OpenerPCs
  <2> QED
    BY <2>1, <2>2
<1>4. CASE DriverSteps
  BY <1>1, <1>2, <1>4, OthersIdleDriver, Constants
<1>5. CASE ServiceComes \/ UNCHANGED vars
  <2>1. UNCHANGED <<mClient, handle, connPid, told, pc, port, started, intact, file, verdict>> /\ OpenConns' = OpenConns
    BY <1>5 DEF ServiceComes, ServiceStart, vars, chanVars, chanFixed, single, objVars, locals, callVars, OpenConns
  <2> QED
    BY <1>1, <2>1 DEF Judged, JudgedSo, Connected, Holding
<1>6. CASE ServiceGoes
  BY <1>6 DEF ServiceGoes
<1> QED
  BY <1>3, <1>4, <1>5, <1>6 DEF Next

(***************************************************************************)
(* As long as no two threads are inside the singleton at a time and the    *)
(* driver is loaded fewer times than the service has slots, a file with    *)
(* the pattern is denied, if the service stays up and no call fails.       *)
(***************************************************************************)
THEOREM EnforcedAlone ==
    ASSUME MaxLoads < NumSlots
    PROVE  Spec => []EnforcedWithoutOverlap
<1>1. Init => JudgeInv
  BY DEF Init, JudgeInv, Judged
<1>2. VerdictInv /\ JudgeInv => EnforcedWithoutOverlap
  BY DEF JudgeInv, Judged, JudgedSo, EnforcedWithoutOverlap, Leaving
<1>3. VerdictInv /\ JudgeInv /\ [Next]_vars => JudgeInv'
  BY JudgeStep
<1> QED
  BY <1>1, <1>2, <1>3, VerdictInvariant, PTL DEF Spec
=============================================================================
