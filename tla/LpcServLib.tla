----------------------------- MODULE LpcServLib -----------------------------
(***************************************************************************)
(* The LPC server library of the user-mode service (CLpcServLibU): one     *)
(* loop thread that receives from a named connection port, a fixed table   *)
(* of client contexts, and an application thread that starts and stops it. *)
(*                                                                         *)
(* The kernel's LPC port is external.  It is modelled from the way the     *)
(* library drives it: a FIFO of messages to the server, one server-side    *)
(* communication port per accepted connection, and an LPC_PORT_CLOSED      *)
(* message, carrying the context given to ZwAcceptConnectPort, when a      *)
(* client closes a connection whose server side is still open.             *)
(*                                                                         *)
(* A connection (an element of Conns) is one call of ZwConnectPort: a      *)
(* process that connects again does so on another connection.  Contexts    *)
(* live at heap addresses, which are reused once freed, because the loop   *)
(* looks a context up by comparing addresses.                              *)
(***************************************************************************)
EXTENDS Naturals, Sequences

CONSTANTS
    Conns,      \* connections that clients may open
    Pids,       \* process ids
    PidOf,      \* the process that opens each connection
    SystemPid,  \* PID 4: the System process, where the drivers run
    NumSlots,   \* ARRAY_SIZE(m_ClientContexts)
    Addrs,      \* heap addresses a CientContext may get
    Null,       \* the NULL pointer, and the content of a free heap cell
    Faults      \* kernel calls that may fail, see FaultKinds

(***************************************************************************)
(* "port": InitLpcPort; "thread": _beginthreadex;                          *)
(* "receive": ZwReplyWaitReceivePortEx;                                    *)
(* "memory": the message buffer; "accept", "complete", "reply": the calls  *)
(* of those names; "lateComplete": ZwCompleteConnectPort, for a client     *)
(* that went away after it was accepted.                                   *)
(***************************************************************************)
FaultKinds == {"port", "thread", "receive", "memory", "accept", "complete", "reply", "lateComplete"}

ASSUME ConstantsAssumption ==
    /\ PidOf \in [Conns -> Pids]
    /\ SystemPid \in Pids
    /\ NumSlots \in Nat \ {0}
    /\ Null \notin Addrs \cup Conns
    /\ Faults \subseteq FaultKinds

Slots == 1 .. NumSlots

VARIABLES
    client,     \* client side of each connection
    comm,       \* server-side communication port of each connection
    portCtx,    \* the context the kernel keeps with each communication port
    portOpen,   \* m_ConnectionHandle is a port
    queue,      \* messages waiting at the connection port
    heap,       \* the connection whose CientContext is at each address
    slots,      \* m_ClientContexts
    exitFlag,   \* m_ExitFlag
    app,        \* the thread that calls Start and Stop
    pc,         \* where the loop thread is
    msg,        \* Message and Context of the loop
    newCtx,     \* pClientContext, between ZwAcceptConnectPort and the table
    slot        \* ClientSlot

portVars == <<client, comm, portCtx, portOpen, queue>>
loopVars == <<pc, msg, newCtx, slot>>
vars == <<portVars, heap, slots, exitFlag, app, loopVars>>

Message == [kind: {"connect", "request", "closed"}, conn: Conns,
            ctx: Addrs \cup {Null}, magic: BOOLEAN, alive: SUBSET Conns]

(***************************************************************************)
(* A connection the server may still have to serve.                        *)
(***************************************************************************)
Alive(c) == client[c] \in {"connecting", "open", "waiting", "lost"}

Init ==
    /\ client = [c \in Conns |-> "new"]
    /\ comm = [c \in Conns |-> "none"]
    /\ portCtx = [c \in Conns |-> Null]
    /\ portOpen = FALSE
    /\ queue = <<>>
    /\ heap = [a \in Addrs |-> Null]
    /\ slots = [i \in Slots |-> Null]
    /\ exitFlag = FALSE
    /\ app = "stopped"
    /\ pc = "none"
    /\ msg = Null
    /\ newCtx = Null
    /\ slot = 0

-----------------------------------------------------------------------------
(***************************************************************************)
(* The clients, and the kernel's part of their calls.  "alive" is a        *)
(* history field of a message: the connections alive when it was sent.     *)
(***************************************************************************)
Send(kind, c, magic) ==
    queue' = Append(queue, [kind |-> kind, conn |-> c, ctx |-> portCtx[c], magic |-> magic,
                            alive |-> {d \in Conns : Alive(d)}])

\* ZwConnectPort: the client blocks until the server accepts or refuses.
Connect(c) ==
    /\ client[c] = "new"
    /\ portOpen
    /\ client' = [client EXCEPT ![c] = "connecting"]
    /\ \E magic \in BOOLEAN : Send("connect", c, magic)
    /\ UNCHANGED <<comm, portCtx, portOpen, heap, slots, exitFlag, app, loopVars>>

\* ZwRequestWaitReplyPort: the client blocks until the reply.
Request(c) ==
    /\ client[c] = "open"
    /\ portOpen
    /\ client' = [client EXCEPT ![c] = "waiting"]
    /\ Send("request", c, TRUE)
    /\ UNCHANGED <<comm, portCtx, portOpen, heap, slots, exitFlag, app, loopVars>>

\* The client closes its port handle, or dies in one of its calls.
Disconnect(c) ==
    /\ Alive(c)
    /\ client' = [client EXCEPT ![c] = "closed"]
    /\ IF comm[c] = "open" /\ portOpen THEN Send("closed", c, TRUE) ELSE UNCHANGED queue
    /\ UNCHANGED <<comm, portCtx, portOpen, heap, slots, exitFlag, app, loopVars>>

\* ZwClose of the connection port: callers of ZwConnectPort fail.
ClosePort ==
    /\ portOpen' = FALSE
    /\ queue' = <<>>

Refused(c) == IF client[c] = "connecting" THEN "refused" ELSE client[c]

\* What ZwClose of the server side of a connection does to its client.
Cut(c) ==
    CASE client[c] = "connecting" -> "refused"
      [] client[c] \in {"open", "waiting", "lost"} -> "cut"
      [] OTHER -> client[c]

-----------------------------------------------------------------------------
(***************************************************************************)
(* The application thread: Start and Stop.                                 *)
(***************************************************************************)
\* Start, up to InitLpcPort; if it fails, Stop has nothing to do but set m_ExitFlag.
StartInitPort ==
    /\ app = "stopped"
    /\ \/ /\ app' = "starting"
          /\ portOpen' = TRUE
          /\ UNCHANGED exitFlag
       \/ /\ "port" \in Faults
          /\ exitFlag' = TRUE
          /\ UNCHANGED <<app, portOpen>>
    /\ UNCHANGED <<client, comm, portCtx, queue, heap, slots, loopVars>>

\* Start, from m_ExitFlag = FALSE; a failed _beginthreadex enters Stop.
StartThread ==
    /\ app = "starting"
    /\ \/ /\ app' = "running"
          /\ exitFlag' = FALSE
          /\ pc' = "top"
       \/ /\ "thread" \in Faults
          /\ app' = "stopping"
          /\ exitFlag' = TRUE
          /\ UNCHANGED pc
    /\ UNCHANGED <<portVars, heap, slots, msg, newCtx, slot>>

\* Stop sets m_ExitFlag ...
StopSignal ==
    /\ app = "running"
    /\ app' = "stopping"
    /\ exitFlag' = TRUE
    /\ UNCHANGED <<portVars, heap, slots, loopVars>>

\* WaitForSingleObject(m_hPortLoop, INFINITE)
NoWait == TRUE \* mutant
LoopEnded == pc \in {"none", "exited"}

\* The slots Stop closes and frees: all that are in use.
AllButLastSlot == {i \in Slots : i # NumSlots /\ slots[i] # Null} \* mutant
WalkedSlots == {i \in Slots : slots[i] # Null}

\* ... and once the thread has ended closes the port and walks the table.
StopFinish ==
    /\ app = "stopping"
    /\ LoopEnded
    /\ app' = "stopped"
    /\ ClosePort
    /\ LET gone == {heap[slots[i]] : i \in WalkedSlots}
       IN /\ comm' = [c \in Conns |-> IF c \in gone THEN "closed" ELSE comm[c]]
          /\ client' = [c \in Conns |-> IF c \in gone THEN Cut(c) ELSE Refused(c)]
    /\ heap' = [a \in Addrs |-> IF \E i \in WalkedSlots : slots[i] = a THEN Null ELSE heap[a]]
    /\ slots' = [i \in Slots |-> IF i \in WalkedSlots THEN Null ELSE slots[i]]
    /\ UNCHANGED <<portCtx, exitFlag, loopVars>>

-----------------------------------------------------------------------------
(***************************************************************************)
(* The loop thread (LpcServLoop).                                          *)
(***************************************************************************)
Back == pc' = "top" /\ msg' = Null

\* The loop ends as soon as it sees the flag, whatever is still queued.
LeaveRequested == exitFlag

\* Top of the loop: the flag, or no memory for the buffer, leads to Leave.
LoopTop ==
    /\ pc = "top"
    /\ \/ /\ ~LeaveRequested
          /\ pc' = "receive"
          /\ UNCHANGED <<client, portOpen, queue>>
       \/ /\ LeaveRequested \/ "memory" \in Faults
          /\ pc' = "exited"
          /\ ClosePort
          /\ client' = [c \in Conns |-> Refused(c)]
    /\ UNCHANGED <<comm, portCtx, heap, slots, exitFlag, app, msg, newCtx, slot>>

\* ZwReplyWaitReceivePortEx times out with an empty queue, or fails.
ReceiveNothing ==
    /\ pc = "receive"
    /\ queue = <<>> \/ "receive" \in Faults
    /\ pc' = "top"
    /\ UNCHANGED <<portVars, heap, slots, exitFlag, app, msg, newCtx, slot>>

\* ZwReplyWaitReceivePortEx returns a message; the switch selects a case.
Receive ==
    /\ pc = "receive"
    /\ queue # <<>>
    /\ msg' = Head(queue)
    /\ queue' = Tail(queue)
    /\ pc' = Head(queue).kind
    /\ UNCHANGED <<client, comm, portCtx, portOpen, heap, slots, exitFlag, app, newCtx, slot>>

\* i is what FindFreeClientSlot returns: the first free slot, or 0 for -1.
FindFreeClientSlot(i) ==
    \/ i \in Slots /\ slots[i] = Null /\ \A j \in Slots : j < i => slots[j] # Null
    \/ i = 0 /\ \A j \in Slots : slots[j] # Null

\* FindClientSlotByPid(pid) >= 0
SkipsFirstSlot(pid) == \E i \in Slots \ {1} : slots[i] # Null /\ PidOf[heap[slots[i]]] = pid \* mutant
ClientAlreadyConnected(pid) ==
    \E i \in Slots : slots[i] # Null /\ PidOf[heap[slots[i]]] = pid

\* MyServerCallbacks::AcceptConnect, release build.
AcceptAnybody(pid, alreadyConnected) == TRUE \* mutant
AcceptConnect(pid, alreadyConnected) == pid = SystemPid \/ ~alreadyConnected

\* ZwAcceptConnectPort with Accept = FALSE is still called: it wakes the client.
Refuse(c) == client' = [client EXCEPT ![c] = Refused(c)]

(***************************************************************************)
(* LPC_CONNECTION_REQUEST up to ZwAcceptConnectPort, which fails when the  *)
(* client is gone.  A refused connection leaves nothing behind: the new    *)
(* context is deleted again before anybody else can see it.                *)
(***************************************************************************)
HandleConnectionRequest ==
    /\ pc = "connect"
    /\ \E i \in 0 .. NumSlots, a \in Addrs :
        LET c == msg.conn
            accept == i # 0 /\ msg.magic /\ AcceptConnect(PidOf[c], ClientAlreadyConnected(PidOf[c]))
        IN
        /\ FindFreeClientSlot(i)
        /\ heap[a] = Null
        /\ \/ /\ accept
              /\ client[c] = "connecting" /\ comm[c] = "none"
              /\ comm' = [comm EXCEPT ![c] = "open"]
              /\ portCtx' = [portCtx EXCEPT ![c] = a]
              /\ heap' = [heap EXCEPT ![a] = c]
              /\ newCtx' = a
              /\ slot' = i
              /\ pc' = "complete"
              /\ UNCHANGED <<client, msg>>
           \/ /\ ~accept \/ client[c] # "connecting" \/ comm[c] # "none" \/ "accept" \in Faults
              /\ Refuse(c)
              /\ Back
              /\ UNCHANGED <<comm, portCtx, heap, newCtx, slot>>
    /\ UNCHANGED <<portOpen, queue, slots, exitFlag, app>>

\* m_ClientContexts[ClientSlot] = pClientContext
StoresHandle == slots' = [slots EXCEPT ![slot] = msg.conn] \* mutant
Store == slots' = [slots EXCEPT ![slot] = newCtx]

\* ZwClose(CommPortHandle); delete pClientContext
CloseOnly(c, a) == comm' = [comm EXCEPT ![c] = "closed"] /\ UNCHANGED heap \* mutant
Discard(c, a) ==
    /\ comm' = [comm EXCEPT ![c] = "closed"]
    /\ heap' = [heap EXCEPT ![a] = Null]

\* ZwCompleteConnectPort; the context enters the table only if it succeeds.
CompleteConnect ==
    /\ pc = "complete"
    /\ LET c == msg.conn
           late == client[c] # "connecting"
       IN \/ /\ client' = [client EXCEPT ![c] = IF late THEN @ ELSE "open"]
             /\ Store
             /\ UNCHANGED <<comm, heap>>
          \/ /\ (IF late THEN "lateComplete" ELSE "complete") \in Faults
             /\ Discard(c, newCtx)
             /\ client' = [client EXCEPT ![c] = Cut(c)]
             /\ UNCHANGED slots
    /\ newCtx' = Null
    /\ slot' = 0
    /\ Back
    /\ UNCHANGED <<portCtx, portOpen, queue, exitFlag, app>>

\* FindClientSlot: pointers are compared; the handler skips a NULL context.
NeverLastSlot(i) == i # NumSlots /\ slots[i] # Null /\ slots[i] = msg.ctx \* mutant
FindClientSlot(i) == slots[i] # Null /\ slots[i] = msg.ctx

\* m_ClientContexts[ClientSlot] = NULL
KeepSlot(i) == UNCHANGED slots \* mutant
ClearSlot(i) == slots' = [slots EXCEPT ![i] = Null]

\* LPC_PORT_CLOSED: a context that is not in the table is only logged.
HandlePortClosed ==
    /\ pc = "closed"
    /\ \/ \E i \in Slots :
            /\ FindClientSlot(i)
            /\ Discard(heap[slots[i]], slots[i])
            /\ client' = [client EXCEPT ![heap[slots[i]]] = Cut(heap[slots[i]])]
            /\ ClearSlot(i)
       \/ /\ \A i \in Slots : ~FindClientSlot(i)
          /\ UNCHANGED <<comm, client, heap, slots>>
    /\ Back
    /\ UNCHANGED <<portCtx, portOpen, queue, exitFlag, app, newCtx, slot>>

(***************************************************************************)
(* ZwReplyPort wakes the client, if it still waits.  When it fails nobody  *)
(* else will: the request has left the queue, and the client waits without *)
(* a timeout until its connection is cut.                                  *)
(***************************************************************************)
ReplyToSystemOnly(c) == \* mutant
    client' = [client EXCEPT ![c] = IF @ = "waiting" /\ PidOf[c] = SystemPid THEN "open" ELSE @]
Reply(c) == client' = [client EXCEPT ![c] = IF @ = "waiting" THEN "open" ELSE @]
LoseReply(c) == client' = [client EXCEPT ![c] = IF @ = "waiting" THEN "lost" ELSE @]

\* The handle found through the context without a look-up is still a port.
ReplyPortOpen == heap[msg.ctx] # Null /\ comm[heap[msg.ctx]] = "open"

(***************************************************************************)
(* LPC_REQUEST: the callback, then ZwReplyPort on the handle found through *)
(* the context, which fails for the stale handle of a freed one.  Clients  *)
(* of this tree send no LPC_DATAGRAM.                                      *)
(***************************************************************************)
HandleRequest ==
    /\ pc = "request"
    /\ \/ /\ ReplyPortOpen
          /\ Reply(msg.conn)
       \/ /\ ~ReplyPortOpen \/ "reply" \in Faults
          /\ LoseReply(msg.conn)
    /\ Back
    /\ UNCHANGED <<comm, portCtx, portOpen, queue, heap, slots, exitFlag, app, newCtx, slot>>

-----------------------------------------------------------------------------
Clients == \E c \in Conns : Connect(c) \/ Request(c) \/ Disconnect(c)

App == StartInitPort \/ StartThread \/ StopSignal \/ StopFinish

Loop ==
    \/ LoopTop \/ ReceiveNothing \/ Receive
    \/ HandleConnectionRequest \/ CompleteConnect \/ HandlePortClosed \/ HandleRequest

Next == Clients \/ App \/ Loop

Spec == Init /\ [][Next]_vars

-----------------------------------------------------------------------------
TypeOK ==
    /\ client \in [Conns -> {"new", "connecting", "open", "waiting", "lost", "refused", "closed", "cut"}]
    /\ comm \in [Conns -> {"none", "open", "closed"}]
    /\ portCtx \in [Conns -> Addrs \cup {Null}]
    /\ portOpen \in BOOLEAN
    /\ queue \in Seq(Message)
    /\ heap \in [Addrs -> Conns \cup {Null}]
    /\ slots \in [Slots -> Addrs \cup {Null}]
    /\ exitFlag \in BOOLEAN
    /\ app \in {"stopped", "starting", "running", "stopping"}
    /\ pc \in {"none", "top", "receive", "connect", "complete", "closed", "request", "exited"}
    /\ msg \in Message \cup {Null}
    /\ pc \in {"connect", "complete", "closed", "request"} => msg \in Message
    /\ newCtx \in Addrs \cup {Null}
    /\ slot \in 0 .. NumSlots

\* The address a belongs to the table, or to a connection being completed.
Owned(a) == (\E i \in Slots : slots[i] = a) \/ (pc = "complete" /\ newCtx = a)

(***************************************************************************)
(* Memory and handle safety of the table: a slot points to a context that  *)
(* has not been freed and whose communication port is open, no context is  *)
(* in two slots, so neither Stop nor LPC_PORT_CLOSED frees or closes       *)
(* anything twice.                                                         *)
(***************************************************************************)
TableSound ==
    \A i \in Slots : slots[i] # Null =>
        /\ heap[slots[i]] # Null
        /\ comm[heap[slots[i]]] = "open"
        /\ portCtx[heap[slots[i]]] = slots[i]
        /\ \A j \in Slots : slots[j] = slots[i] => j = i

(***************************************************************************)
(* Nothing leaks: every context on the heap and every open communication   *)
(* port can be reached from the table or from the loop's locals, whatever  *)
(* call fails, so that Stop closes and frees all of them.                  *)
(***************************************************************************)
NoLeak ==
    /\ \A a \in Addrs : heap[a] # Null => Owned(a)
    /\ \A c \in Conns : comm[c] = "open" => portCtx[c] # Null /\ heap[portCtx[c]] = c

(***************************************************************************)
(* No process but System holds two slots: the decision taken in            *)
(* AcceptConnect is still right when the slot is written.                  *)
(***************************************************************************)
OneSlotPerProcess ==
    \A i, j \in Slots :
        /\ i # j
        /\ slots[i] # Null
        /\ slots[j] # Null
        /\ PidOf[heap[slots[i]]] = PidOf[heap[slots[j]]]
        => PidOf[heap[slots[i]]] = SystemPid

(***************************************************************************)
(* The context ZwReplyPort is given is dereferenced without a look-up: it  *)
(* must still be the live context of the connection the request came from. *)
(***************************************************************************)
ReplyContextLive == pc = "request" => heap[msg.ctx] = msg.conn

Served == {heap[slots[i]] : i \in {j \in Slots : slots[j] # Null}}

(***************************************************************************)
(* The table that decides a connection request holds no connection that    *)
(* was over before the request was sent: a client that closed its          *)
(* connection can connect again at once, and is refused neither as already *)
(* connected nor for want of a slot on account of the old connection.      *)
(***************************************************************************)
NoStaleSlotAtConnect == pc = "connect" => Served \subseteq msg.alive

(***************************************************************************)
(* With no message in flight the table and the clients agree on who is     *)
(* connected.                                                              *)
(***************************************************************************)
QuiescentAgreement ==
    pc = "receive" /\ queue = <<>> =>
        Served = {c \in Conns : client[c] \in {"open", "waiting", "lost"}}

\* The table keeps up with the clients, also with those that come back at once.
TableUpToDate == NoStaleSlotAtConnect /\ QuiescentAgreement

(***************************************************************************)
(* After Stop no port, context or slot of the server is left, and no       *)
(* client is left blocked in ZwConnectPort or ZwRequestWaitReplyPort.      *)
(***************************************************************************)
StopLeavesNothing ==
    app = "stopped" =>
        /\ ~portOpen
        /\ \A c \in Conns : comm[c] # "open" /\ client[c] \notin {"connecting", "waiting", "lost"}
        /\ \A a \in Addrs : heap[a] = Null
        /\ \A i \in Slots : slots[i] = Null

\* Every ZwConnectPort returns, whatever the loop decides or fails at.
EveryConnectAnswered ==
    \A c \in Conns : client[c] = "connecting" ~> client[c] # "connecting"

(***************************************************************************)
(* Every ZwRequestWaitReplyPort is dealt with: it returns with a reply or  *)
(* cut by Stop, or its client is "lost" because ZwReplyPort itself failed. *)
(***************************************************************************)
EveryRequestAnswered ==
    \A c \in Conns : client[c] = "waiting" ~> client[c] # "waiting"

\* A client whose reply was lost stays blocked, but not beyond a Stop.
StopFreesLost ==
    \A c \in Conns : client[c] = "lost" /\ exitFlag ~> client[c] # "lost"

(***************************************************************************)
(* No client blocks for ever in a call to the port, but one whose reply    *)
(* the server failed to send, and that one only until the server stops.    *)
(***************************************************************************)
EveryCallAnswered == EveryConnectAnswered /\ EveryRequestAnswered /\ StopFreesLost

-----------------------------------------------------------------------------
(***************************************************************************)
(* The inductive invariant behind TableSound, NoLeak, OneSlotPerProcess    *)
(* and StopLeavesNothing.  It says nothing about the queue: these four     *)
(* hold whatever messages, stale ones included, the port delivers.         *)
(***************************************************************************)
\* Between accept and complete the new context is in order, and its place free.
CompletingSound ==
    pc = "complete" =>
        /\ newCtx # Null
        /\ heap[newCtx] = msg.conn
        /\ comm[msg.conn] = "open"
        /\ portCtx[msg.conn] = newCtx
        /\ slot \in Slots
        /\ slots[slot] = Null
        /\ \A i \in Slots : slots[i] # newCtx
        /\ \/ PidOf[msg.conn] = SystemPid
           \/ \A i \in Slots : slots[i] # Null => PidOf[heap[slots[i]]] # PidOf[msg.conn]

\* A client is established only while the server side is open ...
EstablishedIsOpen ==
    \A c \in Conns : client[c] \in {"open", "waiting", "lost"} => comm[c] = "open"

\* ... and can wait for an answer only from a port that exists.
ConnectingHasPort ==
    \A c \in Conns : client[c] = "connecting" => portOpen

\* Which states of the loop thread go with which phase of Start and Stop.
PhaseSound ==
    /\ app \in {"stopped", "starting"} => LoopEnded /\ \A i \in Slots : slots[i] = Null
    /\ app = "stopped" => ~portOpen

IInv ==
    /\ TypeOK
    /\ TableSound
    /\ NoLeak
    /\ OneSlotPerProcess
    /\ CompletingSound
    /\ EstablishedIsOpen
    /\ ConnectingHasPort
    /\ PhaseSound

-----------------------------------------------------------------------------
(***************************************************************************)
(* What the library promises its user, as a table of served connections.   *)
(***************************************************************************)
Table == INSTANCE ClientTable WITH
    table <- Served,
    gone <- {c \in Conns : client[c] = "closed"},
    up <- app \in {"running", "stopping"}

ImplementsClientTable == Table!Spec
=============================================================================
