---------------------------- MODULE SendToService ----------------------------
(***************************************************************************)
(* The kernel-side channel to the service: the SendToService singleton and *)
(* the CLpcClientLibU objects it creates.  Nothing in this code takes a    *)
(* lock: each read and each write of m_Client, m_Inited and of a client's  *)
(* fields is a step of its own, but for CLpcClientLibU::Stop, which tests  *)
(* the port handle and closes it in one.  this[t] is the value of m_Client *)
(* that thread t read last and is about to use.  A thread calls Start by   *)
(* setting its pc to "start" and finds itself at "started" or              *)
(* "startFailed"; Stop goes from "stop" to ret[t]; SendMessage from "send" *)
(* to "sending" (blocked in the kernel) or "sendFailed".                   *)
(*                                                                         *)
(* The service side is reduced to what LpcServLib guarantees: a connection *)
(* request is answered; it is accepted when a slot is free and the process *)
(* has no other connection; a slot is free again as soon as its client has *)
(* closed (NoStaleSlotAtConnect).  Touching an object that was freed, or   *)
(* calling through a NULL pointer, stops the machine: crashed.             *)
(***************************************************************************)
EXTENDS Naturals, FiniteSets

CONSTANTS
    Threads,    \* threads that call into the singleton
    PidOf,      \* the process each thread runs in
    SystemPid,  \* PID 4
    Objs,       \* memory for CLpcClientLibU objects
    Conns,      \* connections
    NumSlots,   \* connections the service accepts
    Null,
    Dead,       \* a handle to a connection that the service's end took down
    Faults      \* "memory", "send", "handle", "read": see the actions that name them

ASSUME ChannelAssumption ==
    /\ NumSlots \in Nat
    /\ Null \notin Objs \cup Conns
    /\ Dead \notin Conns \cup {Null}
    /\ \A t \in Threads : PidOf[t] # Null

VARIABLES
    mClient,    \* m_Client
    inited,     \* m_Inited
    alloc,      \* the objects allocated
    handle,     \* m_PortHandle of each object
    connPid,    \* the process of each connection the service holds a slot for
    told,       \* objects whose m_ServerPid is the process id of the service
    serviceUp,  \* the service's port exists
    crashed,    \* freed memory or NULL was used
    pc,         \* where each thread is
    this,       \* the object each thread is about to use or inside of
    port,       \* the connection a call has just made or is blocked on
    started,    \* RetVal of Start
    ret         \* where Stop returns to

single == <<mClient, inited>>
objVars == <<alloc, handle, told>>
locals == <<this, port, started, ret>>
chanFixed == <<single, objVars, connPid, serviceUp, crashed>>
chanVars == <<chanFixed, pc, locals>>

ChannelInit ==
    /\ mClient = Null
    /\ inited = FALSE
    /\ alloc = {}
    /\ handle = [o \in Objs |-> Null]
    /\ connPid = [c \in Conns |-> Null]
    /\ told = {}
    /\ serviceUp = FALSE
    /\ crashed = FALSE
    /\ this = [t \in Threads |-> Null]
    /\ port = [t \in Threads |-> Null]
    /\ started = [t \in Threads |-> FALSE]
    /\ ret = [t \in Threads |-> "stopped"]

OpenConns == {c \in Conns : connPid[c] # Null}

(***************************************************************************)
(* ZwConnectPort makes its handle in the process of the thread that calls  *)
(* it.  In another process the same value means nothing or, by chance, one *)
(* of that process's own handles; so does a value that was closed.         *)
(***************************************************************************)
ConnsOf(pid) == {c \in Conns : connPid[c] = pid}
Means(h, pid) == IF h = Null \/ h \in ConnsOf(pid) THEN {h} ELSE ConnsOf(pid) \cup {Null}

\* ZwClose of what a port handle means, if it means a connection.
CloseNothing(c) == UNCHANGED connPid \* mutant
CloseConn(c) == connPid' = [d \in Conns |-> IF d = c THEN Null ELSE connPid[d]]

\* A thread goes on, unless the machine has stopped.
Goto(t, where) == ~crashed /\ pc' = [pc EXCEPT ![t] = where]

\* It reads m_Client, and from there on works on the object it read.
Load(t, at, next) ==
    /\ pc[t] = at
    /\ this' = [this EXCEPT ![t] = mClient]
    /\ Goto(t, next)
    /\ UNCHANGED <<chanFixed, port, started, ret>>

\* It is at a step that uses the object, and the object exists.
Using(t, at) == pc[t] = at /\ this[t] \in alloc

\* It lets go of the object.
Release(t) == this' = [this EXCEPT ![t] = Null]

\* The steps that use an object, and what happens if it is NULL or was freed.
UsePCs == {"connect", "connecting", "connected", "undo", "undoNull", "close", "closeNull",
           "free", "readPid", "request"}
UseAfterFree(t) ==
    /\ pc[t] \in UsePCs
    /\ this[t] \notin alloc
    /\ ~(pc[t] = "free" /\ this[t] = Null)
    /\ ~crashed /\ crashed' = TRUE
    /\ UNCHANGED <<single, objVars, connPid, serviceUp, pc, locals>>

-----------------------------------------------------------------------------
\* m_Client = GetNewInstance(): whatever m_Client pointed to is forgotten.
StartNewClient(t) ==
    /\ pc[t] = "start"
    /\ \/ \E o \in Objs \ alloc :
            /\ alloc' = alloc \cup {o}
            /\ handle' = [handle EXCEPT ![o] = Null]
            /\ mClient' = o
       \/ "memory" \in Faults /\ mClient' = Null /\ UNCHANGED <<alloc, handle>>
    /\ Goto(t, "check")
    /\ UNCHANGED <<inited, told, connPid, serviceUp, crashed, locals>>

\* if (!m_Client) goto Leave
StartCheckClient(t) ==
    /\ pc[t] = "check"
    /\ Goto(t, IF mClient = Null THEN "setInited" ELSE "loadStart")
    /\ UNCHANGED <<chanFixed, locals>>

\* m_Client->Start(): m_Client is read again, then the object it points to.
StartCallClient(t) ==
    \/ Load(t, "loadStart", "connect")
    \/ Using(t, "connect") /\ Goto(t, "connecting") /\ UNCHANGED <<chanFixed, locals>>

\* What the service decides about a connection request of process pid.
Accepts(pid) ==
    /\ serviceUp
    /\ Cardinality(OpenConns) < NumSlots
    /\ pid = SystemPid \/ ConnsOf(pid) = {}

(***************************************************************************)
(* ZwConnectPort returns into the object it was called on, over the handle *)
(* that may be there by then; m_ServerPid is written after it.             *)
(***************************************************************************)
StartConnected(t) ==
    /\ Using(t, "connecting")
    /\ \/ /\ Accepts(PidOf[t])
          /\ \E c \in Conns \ OpenConns :
                /\ handle' = [handle EXCEPT ![this[t]] = c]
                /\ connPid' = [connPid EXCEPT ![c] = PidOf[t]]
                /\ port' = [port EXCEPT ![t] = c]
          /\ Goto(t, "connected")
       \/ ~Accepts(PidOf[t]) /\ Goto(t, "undo") /\ UNCHANGED <<handle, connPid, port>>
    /\ UNCHANGED <<single, alloc, told, serviceUp, crashed, this, started, ret>>

StartTold(t) ==
    /\ Using(t, "connected")
    /\ told' = IF port[t] = Null THEN told ELSE told \cup {this[t]}
    /\ started' = [started EXCEPT ![t] = TRUE]
    /\ port' = [port EXCEPT ![t] = Null]
    /\ Release(t)
    /\ Goto(t, "setInited")
    /\ UNCHANGED <<single, alloc, handle, connPid, serviceUp, crashed, ret>>

\* CLpcClientLibU::Stop, for a client that could not connect and for Stop below.
CloseHandle(t, at, closed, next) ==
    /\ Using(t, at)
    /\ \E c \in Means(handle[this[t]], PidOf[t]) : CloseConn(c)
    /\ IF handle[this[t]] = Null THEN Goto(t, next) /\ Release(t) ELSE Goto(t, closed) /\ UNCHANGED this
    /\ UNCHANGED <<single, objVars, serviceUp, crashed, port, started, ret>>

ForgetHandle(t, closed, next) ==
    /\ Using(t, closed)
    /\ handle' = [handle EXCEPT ![this[t]] = Null]
    /\ Goto(t, next)
    /\ Release(t)
    /\ UNCHANGED <<single, alloc, told, connPid, serviceUp, crashed, port, started, ret>>

StartRefused(t) == CloseHandle(t, "undo", "undoNull", "setInited") \/ ForgetHandle(t, "undoNull", "setInited")

\* m_Inited = TRUE, and after a failure Stop().
FailureIgnored(t) == "started" \* mutant
AfterStart(t) == IF started[t] THEN "started" ELSE "stop"
StartSetInited(t) ==
    /\ pc[t] = "setInited"
    /\ inited' = TRUE
    /\ Goto(t, AfterStart(t))
    /\ ret' = [ret EXCEPT ![t] = IF started[t] THEN @ ELSE "undone"]
    /\ started' = [started EXCEPT ![t] = FALSE]
    /\ UNCHANGED <<mClient, objVars, connPid, serviceUp, crashed, this, port>>

\* Start after the Stop of a failed start: m_Inited = FALSE.
StartUndone(t) ==
    /\ pc[t] = "undone"
    /\ inited' = FALSE
    /\ Goto(t, "startFailed")
    /\ UNCHANGED <<mClient, objVars, connPid, serviceUp, crashed, locals>>

Start(t) ==
    \/ StartNewClient(t) \/ StartCheckClient(t) \/ StartCallClient(t) \/ StartConnected(t)
    \/ StartTold(t) \/ StartRefused(t) \/ StartSetInited(t) \/ StartUndone(t)

-----------------------------------------------------------------------------
\* A caller calls Stop.
CallStop(t) ==
    /\ Goto(t, "stop")
    /\ ret' = [ret EXCEPT ![t] = "stopped"]

\* if (m_Inited) if (m_Client): two reads.
StopTest(t) ==
    /\ \/ pc[t] = "stop" /\ Goto(t, IF inited THEN "test" ELSE ret[t])
       \/ pc[t] = "test" /\ Goto(t, IF mClient = Null THEN "clear" ELSE "loadStop")
    /\ UNCHANGED <<chanFixed, locals>>

\* m_Client->Stop(): closes the port handle.
StopClose(t) ==
    \/ Load(t, "loadStop", "close")
    \/ CloseHandle(t, "close", "closeNull", "loadFree")
    \/ ForgetHandle(t, "closeNull", "loadFree")

\* FreeInstance(m_Client): m_Client is read again; deleting NULL does nothing.
FreeMemoryOnly(o) == alloc' = alloc \ {o} /\ UNCHANGED <<handle, told>> \* mutant
FreeInstance(o) ==
    /\ alloc' = alloc \ {o}
    /\ handle' = [p \in Objs |-> IF p = o THEN Null ELSE handle[p]]
    /\ told' = told \ {o}
StopFree(t) ==
    \/ Load(t, "loadFree", "free")
    \/ /\ pc[t] = "free"
       /\ this[t] \in alloc \cup {Null}
       /\ FreeInstance(this[t])
       /\ Release(t)
       /\ Goto(t, "clear")
       /\ UNCHANGED <<single, connPid, serviceUp, crashed, port, started, ret>>

\* m_Inited = FALSE
StopClear(t) ==
    /\ pc[t] = "clear"
    /\ inited' = FALSE
    /\ Goto(t, "null")
    /\ UNCHANGED <<mClient, objVars, connPid, serviceUp, crashed, locals>>

\* m_Client = NULL
StopNull(t) ==
    /\ pc[t] = "null"
    /\ mClient' = Null
    /\ Goto(t, ret[t])
    /\ UNCHANGED <<inited, objVars, connPid, serviceUp, crashed, locals>>

Stop(t) == StopTest(t) \/ StopClose(t) \/ StopFree(t) \/ StopClear(t) \/ StopNull(t)

-----------------------------------------------------------------------------
\* GetServerPid() after a Start: 0 without m_Inited, else what the object was told;
\* "openProcess" if that is the process id of the running service.
GetServerPid(t) ==
    \/ /\ pc[t] = "started"
       /\ Goto(t, IF inited THEN "loadPid" ELSE "noProcess")
       /\ UNCHANGED <<chanFixed, locals>>
    \/ Load(t, "loadPid", "readPid")
    \/ /\ Using(t, "readPid")
       /\ Goto(t, IF this[t] \in told THEN "openProcess" ELSE "noProcess")
       /\ Release(t)
       /\ UNCHANGED <<chanFixed, port, started, ret>>

(***************************************************************************)
(* SendMessage(): ZwRequestWaitReplyPort on the handle the object has now. *)
(* It fails if that is no handle of an open connection, and it may fail    *)
(* all the same: no memory, a message the port does not take.  The service *)
(* may lose the connection, or another thread close its handle, while the  *)
(* call waits: then it fails as well.                                      *)
(***************************************************************************)
SendMessage(t) ==
    \/ /\ pc[t] = "send"
       /\ Goto(t, IF inited THEN "loadSend" ELSE "sendFailed")
       /\ UNCHANGED <<chanFixed, locals>>
    \/ Load(t, "loadSend", "request")

SendRequest(t) ==
    /\ Using(t, "request")
    /\ \E c \in Means(handle[this[t]], PidOf[t]) :
          \/ c \in OpenConns /\ port' = [port EXCEPT ![t] = c] /\ Goto(t, "sending")
          \/ c \notin OpenConns /\ Goto(t, "sendFailed") /\ UNCHANGED port
    /\ Release(t)
    /\ UNCHANGED <<chanFixed, started, ret>>

SendFails(t) ==
    /\ "send" \in Faults
    /\ Using(t, "request")
    /\ Release(t)
    /\ Goto(t, "sendFailed")
    /\ UNCHANGED <<chanFixed, port, started, ret>>

\* The blocked call returns.
SendReturns(t) == port' = [port EXCEPT ![t] = Null] /\ UNCHANGED <<chanFixed, this, started>>

SendCancelled(t) ==
    /\ pc[t] = "sending"
    /\ port[t] \notin OpenConns
    /\ Goto(t, "sendFailed")
    /\ SendReturns(t)
    /\ UNCHANGED ret

Send(t) == SendMessage(t) \/ SendRequest(t) \/ SendFails(t) \/ SendCancelled(t)

ChannelStep(t) == Start(t) \/ Stop(t) \/ Send(t) \/ UseAfterFree(t)

-----------------------------------------------------------------------------
(***************************************************************************)
(* The service comes up, or goes away and with it every connection and     *)
(* every blocked call; a process id that was asked for is no longer its.   *)
(***************************************************************************)
ServiceStart ==
    /\ ~crashed /\ ~serviceUp
    /\ serviceUp' = TRUE
    /\ UNCHANGED <<single, objVars, connPid, crashed, pc, locals>>

ServiceStop ==
    /\ ~crashed /\ serviceUp
    /\ serviceUp' = FALSE
    /\ connPid' = [c \in Conns |-> Null]
    /\ handle' = [o \in Objs |-> IF handle[o] = Null THEN Null ELSE Dead]
    /\ told' = {}
    /\ pc' = [t \in Threads |-> CASE pc[t] = "sending" -> "sendFailed"
                                 [] pc[t] = "openProcess" -> "noProcess"
                                 [] OTHER -> pc[t]]
    /\ port' = [t \in Threads |-> Null]
    /\ UNCHANGED <<single, alloc, crashed, this, started, ret>>
=============================================================================
