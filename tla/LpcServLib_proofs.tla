-------------------------- MODULE LpcServLib_proofs --------------------------
(***************************************************************************)
(* Proofs about LpcServLib, for any number of slots, connections,          *)
(* processes and addresses; for any set of failing kernel calls, but for   *)
(* the theorems that say otherwise.                                        *)
(***************************************************************************)
EXTENDS LpcServLib, TLAPS, FiniteSetTheorems

USE ConstantsAssumption DEF Slots

(***************************************************************************)
(* Sending a message appends a Message to the queue.                       *)
(***************************************************************************)
LEMMA SendType ==
    ASSUME TypeOK, NEW kind \in {"connect", "request", "closed"}, NEW c \in Conns,
           NEW magic \in BOOLEAN, Send(kind, c, magic)
    PROVE  queue' \in Seq(Message)
<1>1. [kind |-> kind, conn |-> c, ctx |-> portCtx[c], magic |-> magic,
       alive |-> {d \in Conns : Alive(d)}] \in Message
  BY DEF TypeOK, Message
<1> QED
  BY <1>1 DEF Send, TypeOK

LEMMA EmptyQueue == <<>> \in Seq(Message)
  OBVIOUS

(***************************************************************************)
(* The client states a call by the server leads to are client states.      *)
(***************************************************************************)
LEMMA ClientStates ==
    ASSUME TypeOK, NEW c \in Conns
    PROVE  /\ Refused(c) \in {"new", "connecting", "open", "waiting", "lost", "refused", "closed", "cut"}
           /\ Cut(c) \in {"new", "connecting", "open", "waiting", "lost", "refused", "closed", "cut"}
  BY DEF TypeOK, Refused, Cut

(***************************************************************************)
(* Every action preserves the type invariant.                              *)
(***************************************************************************)
LEMMA TypeStep == TypeOK /\ [Next]_vars => TypeOK'
<1> SUFFICES ASSUME TypeOK, [Next]_vars PROVE TypeOK'
  OBVIOUS
<1>1. ASSUME NEW c \in Conns, Connect(c) PROVE TypeOK'
  <2>1. queue' \in Seq(Message)
    BY <1>1, SendType DEF Connect
  <2> QED
    BY <1>1, <2>1 DEF TypeOK, Connect, loopVars
<1>2. ASSUME NEW c \in Conns, Request(c) PROVE TypeOK'
  <2>1. queue' \in Seq(Message)
    BY <1>2, SendType DEF Request
  <2> QED
    BY <1>2, <2>1 DEF TypeOK, Request, loopVars
<1>3. ASSUME NEW c \in Conns, Disconnect(c) PROVE TypeOK'
  <2>1. queue' \in Seq(Message)
    BY <1>3, SendType DEF Disconnect, TypeOK
  <2> QED
    BY <1>3, <2>1 DEF TypeOK, Disconnect, loopVars
<1>4. CASE StartInitPort
  BY <1>4 DEF TypeOK, StartInitPort, loopVars
<1>5. CASE StartThread
  BY <1>5 DEF TypeOK, StartThread, portVars
<1>6. CASE StopSignal
  BY <1>6 DEF TypeOK, StopSignal, portVars, loopVars
<1>7. CASE StopFinish
  <2>1. client' \in [Conns -> {"new", "connecting", "open", "waiting", "lost", "refused", "closed", "cut"}]
    BY <1>7, ClientStates DEF StopFinish
  <2>2. queue' \in Seq(Message) /\ portOpen' \in BOOLEAN
    BY <1>7, EmptyQueue DEF StopFinish, ClosePort
  <2>3. comm' \in [Conns -> {"none", "open", "closed"}]
    BY <1>7 DEF StopFinish, TypeOK
  <2>4. heap' \in [Addrs -> Conns \cup {Null}] /\ slots' \in [Slots -> Addrs \cup {Null}]
    BY <1>7 DEF StopFinish, TypeOK
  <2> QED
    BY <1>7, <2>1, <2>2, <2>3, <2>4 DEF TypeOK, StopFinish, loopVars
<1>8. CASE LoopTop
  <2>1. client' \in [Conns -> {"new", "connecting", "open", "waiting", "lost", "refused", "closed", "cut"}]
    BY <1>8, ClientStates DEF LoopTop, TypeOK
  <2>2. queue' \in Seq(Message) /\ portOpen' \in BOOLEAN
    BY <1>8, EmptyQueue DEF LoopTop, ClosePort, TypeOK
  <2> QED
    BY <1>8, <2>1, <2>2 DEF TypeOK, LoopTop
<1>9. CASE ReceiveNothing
  BY <1>9 DEF TypeOK, ReceiveNothing, portVars
<1>10. CASE Receive
  <2>1. Head(queue) \in Message /\ Tail(queue) \in Seq(Message)
    BY <1>10 DEF Receive, TypeOK
  <2>2. Head(queue).kind \in {"connect", "request", "closed"}
    BY <2>1 DEF Message
  <2> QED
    BY <1>10, <2>1, <2>2 DEF TypeOK, Receive
<1>11. CASE HandleConnectionRequest
  <2>1. msg \in Message /\ msg.conn \in Conns
    BY <1>11 DEF HandleConnectionRequest, TypeOK, Message
  <2>2. client' \in [Conns -> {"new", "connecting", "open", "waiting", "lost", "refused", "closed", "cut"}]
    <3>1. UNCHANGED client \/ client' = [client EXCEPT ![msg.conn] = Refused(msg.conn)]
      BY <1>11 DEF HandleConnectionRequest, Refuse
    <3>2. Refused(msg.conn) \in {"new", "connecting", "open", "waiting", "lost", "refused", "closed", "cut"}
      BY <2>1, ClientStates
    <3> QED
      BY <3>1, <3>2 DEF TypeOK
  <2> QED
    BY <1>11, <2>1, <2>2 DEF TypeOK, HandleConnectionRequest, Back
<1>12. CASE CompleteConnect
  <2>1. msg \in Message /\ msg.conn \in Conns
    BY <1>12 DEF CompleteConnect, TypeOK, Message
  <2>2. client' \in [Conns -> {"new", "connecting", "open", "waiting", "lost", "refused", "closed", "cut"}]
    BY <1>12, <2>1, ClientStates DEF CompleteConnect, TypeOK
  <2>3. slots' \in [Slots -> Addrs \cup {Null}]
    BY <1>12 DEF CompleteConnect, Store, TypeOK
  <2>4. heap' \in [Addrs -> Conns \cup {Null}] /\ comm' \in [Conns -> {"none", "open", "closed"}]
    BY <1>12 DEF CompleteConnect, Discard, TypeOK
  <2> QED
    BY <1>12, <2>1, <2>2, <2>3, <2>4 DEF TypeOK, CompleteConnect, Back
<1>13. CASE HandlePortClosed
  <2>1. slots' \in [Slots -> Addrs \cup {Null}]
    BY <1>13 DEF HandlePortClosed, ClearSlot, TypeOK
  <2>2. heap' \in [Addrs -> Conns \cup {Null}] /\ comm' \in [Conns -> {"none", "open", "closed"}]
    BY <1>13 DEF HandlePortClosed, Discard, TypeOK
  <2>3. client' \in [Conns -> {"new", "connecting", "open", "waiting", "lost", "refused", "closed", "cut"}]
    <3>1. ASSUME NEW x \in Conns, client' = [client EXCEPT ![x] = Cut(x)]
          PROVE  client' \in [Conns -> {"new", "connecting", "open", "waiting", "lost", "refused", "closed", "cut"}]
      BY <3>1, ClientStates DEF TypeOK
    <3>2. ASSUME NEW x, x \notin Conns, client' = [client EXCEPT ![x] = Cut(x)]
          PROVE  client' = client
      BY <3>2 DEF TypeOK
    <3> QED
      BY <1>13, <3>1, <3>2 DEF HandlePortClosed, TypeOK
  <2> QED
    BY <1>13, <2>1, <2>2, <2>3 DEF TypeOK, HandlePortClosed, Back
<1>14. CASE HandleRequest
  <2>1. msg \in Message /\ msg.conn \in Conns
    BY <1>14 DEF HandleRequest, TypeOK, Message
  <2>2. client' \in [Conns -> {"new", "connecting", "open", "waiting", "lost", "refused", "closed", "cut"}]
    BY <1>14, <2>1 DEF HandleRequest, Reply, LoseReply, TypeOK
  <2> QED
    BY <1>14, <2>2 DEF TypeOK, HandleRequest, Back
<1>15. CASE UNCHANGED vars
  BY <1>15 DEF TypeOK, vars, portVars, loopVars
<1> QED
  BY <1>1, <1>2, <1>3, <1>4, <1>5, <1>6, <1>7, <1>8, <1>9, <1>10, <1>11, <1>12, <1>13,
     <1>14, <1>15 DEF Next, Clients, App, Loop

(***************************************************************************)
(* Every variable keeps its type.                                          *)
(***************************************************************************)
LEMMA TypeInit == Init => TypeOK
<1> SUFFICES ASSUME Init PROVE TypeOK
  OBVIOUS
<1>1. queue \in Seq(Message)
  BY EmptyQueue DEF Init
<1>2. slot \in 0 .. NumSlots
  BY DEF Init
<1> QED
  BY <1>1, <1>2 DEF Init, TypeOK

THEOREM TypeCorrect == Spec => []TypeOK
  BY TypeInit, TypeStep, PTL DEF Spec

-----------------------------------------------------------------------------
(***************************************************************************)
(* The actions that touch the table, the heap and the communication ports. *)
(* Each lemma shows the named parts of the inductive invariant afterwards. *)
(***************************************************************************)
TableInv == TableSound /\ NoLeak /\ OneSlotPerProcess /\ CompletingSound

(***************************************************************************)
(* A context taken out of the heap together with its communication port    *)
(* was the only one of its connection: the other slots are unaffected.     *)
(***************************************************************************)
LEMMA OthersUnaffected ==
    ASSUME TypeOK, TableSound, NEW i \in Slots, NEW j \in Slots, i # j,
           slots[i] # Null, slots[j] # Null
    PROVE  slots[i] # slots[j] /\ heap[slots[i]] # heap[slots[j]]
  BY DEF TypeOK, TableSound

LEMMA StopFinishTable == IInv /\ StopFinish => TableInv'
<1> SUFFICES ASSUME IInv, StopFinish PROVE TableInv'
  OBVIOUS
<1> USE DEF IInv, TypeOK
<1>1. \A i \in Slots : slots'[i] = Null
  BY DEF StopFinish, WalkedSlots
<1>2. pc' # "complete" /\ pc # "complete"
  BY DEF StopFinish, LoopEnded, loopVars
<1>3. \A a \in Addrs : heap'[a] = Null
  <2> SUFFICES ASSUME NEW a \in Addrs PROVE heap'[a] = Null
    OBVIOUS
  <2>1. CASE heap[a] = Null
    BY <2>1 DEF StopFinish
  <2>2. CASE heap[a] # Null
    <3>1. PICK i \in Slots : slots[i] = a
      BY <2>2, <1>2 DEF NoLeak, Owned
    <3>2. i \in WalkedSlots
      BY <3>1 DEF WalkedSlots
    <3> QED
      BY <3>1, <3>2 DEF StopFinish
  <2> QED
    BY <2>1, <2>2
<1>4. \A c \in Conns : comm'[c] # "open"
  <2> SUFFICES ASSUME NEW c \in Conns, comm[c] = "open"
               PROVE  \E i \in WalkedSlots : heap[slots[i]] = c
    BY DEF StopFinish
  <2>1. portCtx[c] \in Addrs /\ heap[portCtx[c]] = c
    BY DEF NoLeak
  <2>2. PICK i \in Slots : slots[i] = portCtx[c]
    BY <2>1, <1>2 DEF NoLeak, Owned
  <2> QED
    BY <2>1, <2>2 DEF WalkedSlots
<1> QED
  BY <1>1, <1>2, <1>3, <1>4 DEF TableInv, TableSound, NoLeak, OneSlotPerProcess, CompletingSound

LEMMA ConnectTable == IInv /\ HandleConnectionRequest => TableInv'
<1> SUFFICES ASSUME IInv, HandleConnectionRequest PROVE TableInv'
  OBVIOUS
<1> USE DEF IInv, TypeOK
<1> DEFINE c == msg.conn
<1>1. c \in Conns /\ pc = "connect" /\ slots' = slots
  BY DEF HandleConnectionRequest, Message
<1>2. PICK i \in 0 .. NumSlots, a \in Addrs :
        /\ FindFreeClientSlot(i)
        /\ heap[a] = Null
        /\ \/ /\ i # 0 /\ AcceptConnect(PidOf[c], ClientAlreadyConnected(PidOf[c]))
              /\ comm[c] = "none"
              /\ comm' = [comm EXCEPT ![c] = "open"]
              /\ portCtx' = [portCtx EXCEPT ![c] = a]
              /\ heap' = [heap EXCEPT ![a] = c]
              /\ newCtx' = a
              /\ slot' = i
              /\ pc' = "complete"
              /\ msg' = msg
           \/ pc' = "top" /\ comm' = comm /\ portCtx' = portCtx /\ heap' = heap
  BY DEF HandleConnectionRequest, Back
<1>3. CASE pc' = "top" /\ comm' = comm /\ portCtx' = portCtx /\ heap' = heap
  BY <1>1, <1>3 DEF TableInv, TableSound, NoLeak, Owned, OneSlotPerProcess, CompletingSound
<1>4. CASE /\ i # 0 /\ AcceptConnect(PidOf[c], ClientAlreadyConnected(PidOf[c]))
           /\ comm[c] = "none"
           /\ comm' = [comm EXCEPT ![c] = "open"]
           /\ portCtx' = [portCtx EXCEPT ![c] = a]
           /\ heap' = [heap EXCEPT ![a] = c]
           /\ newCtx' = a
           /\ slot' = i
           /\ pc' = "complete"
           /\ msg' = msg
  <2>1. i \in Slots /\ slots[i] = Null
    BY <1>2, <1>4 DEF FindFreeClientSlot
  <2>2. \A j \in Slots : slots[j] # Null => slots[j] # a /\ heap[slots[j]] # c
    BY <1>2, <1>4 DEF TableSound
  <2>3. TableSound' /\ OneSlotPerProcess'
    BY <1>1, <1>2, <1>4, <2>2 DEF TableSound, OneSlotPerProcess
  <2>4. \A x \in Addrs : heap'[x] # Null => Owned(x)'
    <3> SUFFICES ASSUME NEW x \in Addrs, heap'[x] # Null, x # a PROVE \E j \in Slots : slots[j] = x
      BY <1>1, <1>4 DEF Owned
    <3> QED
      BY <1>1, <1>4 DEF NoLeak, Owned
  <2>5. \A d \in Conns : comm'[d] = "open" => portCtx'[d] # Null /\ heap'[portCtx'[d]] = d
    <3> SUFFICES ASSUME NEW d \in Conns, comm'[d] = "open"
                 PROVE  portCtx'[d] # Null /\ heap'[portCtx'[d]] = d
      OBVIOUS
    <3>1. CASE d = c
      BY <1>1, <1>4, <3>1
    <3>2. CASE d # c
      <4>1. comm[d] = "open" /\ portCtx'[d] = portCtx[d]
        BY <1>1, <1>4, <3>2
      <4>2. portCtx[d] \in Addrs /\ heap[portCtx[d]] = d /\ portCtx[d] # a
        BY <4>1, <1>2 DEF NoLeak
      <4> QED
        BY <4>1, <4>2, <1>4
    <3> QED
      BY <3>1, <3>2
  <2>6. CompletingSound'
    <3>1. \/ PidOf[c] = SystemPid
          \/ \A j \in Slots : slots[j] # Null => PidOf[heap[slots[j]]] # PidOf[c]
      BY <1>4 DEF AcceptConnect, ClientAlreadyConnected
    <3>2. \A j \in Slots : slots[j] # Null => heap'[slots[j]] = heap[slots[j]]
      BY <1>4, <2>2
    <3>3. a # Null /\ \A j \in Slots : slots[j] # a
      BY <2>2
    <3> QED
      BY <1>1, <1>4, <2>1, <3>1, <3>2, <3>3 DEF CompletingSound
  <2> QED
    BY <2>3, <2>4, <2>5, <2>6 DEF TableInv, NoLeak
<1> QED
  BY <1>2, <1>3, <1>4

LEMMA CompleteTable == IInv /\ CompleteConnect => TableInv'
<1> SUFFICES ASSUME IInv, CompleteConnect PROVE TableInv'
  OBVIOUS
<1> USE DEF IInv, TypeOK
<1> DEFINE c == msg.conn
<1>1. /\ c \in Conns /\ newCtx \in Addrs /\ heap[newCtx] = c
      /\ comm[c] = "open" /\ portCtx[c] = newCtx
      /\ slot \in Slots /\ slots[slot] = Null
      /\ \A i \in Slots : slots[i] # newCtx
      /\ \/ PidOf[c] = SystemPid
         \/ \A i \in Slots : slots[i] # Null => PidOf[heap[slots[i]]] # PidOf[c]
  BY DEF CompleteConnect, CompletingSound, Message
<1>2. pc' = "top" /\ portCtx' = portCtx
  BY DEF CompleteConnect, Back
<1>3. CASE slots' = [slots EXCEPT ![slot] = newCtx] /\ comm' = comm /\ heap' = heap
  <2>1. TableSound'
    BY <1>1, <1>2, <1>3 DEF TableSound
  <2>2. OneSlotPerProcess'
    BY <1>1, <1>3 DEF OneSlotPerProcess
  <2>3. \A a \in Addrs : heap'[a] # Null => Owned(a)'
    <3> SUFFICES ASSUME NEW a \in Addrs, heap[a] # Null PROVE \E j \in Slots : slots'[j] = a
      BY <1>3 DEF Owned
    <3>1. CASE a = newCtx
      BY <1>1, <1>3, <3>1
    <3>2. CASE a # newCtx
      <4>1. PICK j \in Slots : slots[j] = a
        BY <3>2 DEF NoLeak, Owned
      <4> QED
        BY <1>1, <1>3, <4>1
    <3> QED
      BY <3>1, <3>2
  <2> QED
    BY <1>2, <1>3, <2>1, <2>2, <2>3 DEF TableInv, NoLeak, CompletingSound
<1>4. CASE /\ slots' = slots
           /\ comm' = [comm EXCEPT ![c] = "closed"]
           /\ heap' = [heap EXCEPT ![newCtx] = Null]
  <2>1. \A i \in Slots : slots[i] # Null => slots[i] # newCtx /\ heap[slots[i]] # c
    BY <1>1 DEF TableSound
  <2>2. TableSound' /\ OneSlotPerProcess'
    BY <1>1, <1>2, <1>4, <2>1 DEF TableSound, OneSlotPerProcess
  <2>3. \A d \in Conns : comm'[d] = "open" => portCtx'[d] # Null /\ heap'[portCtx'[d]] = d
    BY <1>1, <1>2, <1>4 DEF NoLeak
  <2>4. \A a \in Addrs : heap'[a] # Null => Owned(a)'
    BY <1>1, <1>4 DEF NoLeak, Owned
  <2> QED
    BY <1>2, <2>2, <2>3, <2>4 DEF TableInv, NoLeak, CompletingSound
<1> QED
  BY <1>3, <1>4 DEF CompleteConnect, Store, Discard

LEMMA PortClosedTable == IInv /\ HandlePortClosed => TableInv'
<1> SUFFICES ASSUME IInv, HandlePortClosed PROVE TableInv'
  OBVIOUS
<1> USE DEF IInv, TypeOK
<1>1. pc = "closed" /\ pc' = "top" /\ portCtx' = portCtx
  BY DEF HandlePortClosed, Back
<1>2. CASE UNCHANGED <<comm, heap, slots>>
  BY <1>1, <1>2 DEF TableInv, TableSound, NoLeak, Owned, OneSlotPerProcess, CompletingSound
<1>3. ASSUME NEW i \in Slots, slots[i] # Null,
             comm' = [comm EXCEPT ![heap[slots[i]]] = "closed"],
             heap' = [heap EXCEPT ![slots[i]] = Null],
             slots' = [slots EXCEPT ![i] = Null]
      PROVE  TableInv'
  <2> DEFINE c == heap[slots[i]]
  <2>1. c \in Conns /\ comm[c] = "open" /\ portCtx[c] = slots[i] /\ slots[i] \in Addrs
    BY <1>3 DEF TableSound
  <2>2. \A j \in Slots : slots'[j] # Null =>
          /\ j # i /\ slots'[j] = slots[j] /\ slots[j] # slots[i] /\ heap[slots[j]] # c
          /\ heap'[slots[j]] = heap[slots[j]] /\ comm'[heap[slots[j]]] = comm[heap[slots[j]]]
    BY <1>3, <2>1, OthersUnaffected
  <2>3. TableSound' /\ OneSlotPerProcess'
    BY <1>1, <2>2 DEF TableSound, OneSlotPerProcess
  <2>4. \A a \in Addrs : heap'[a] # Null => Owned(a)'
    <3> SUFFICES ASSUME NEW a \in Addrs, heap'[a] # Null PROVE \E j \in Slots : slots'[j] = a
      BY DEF Owned
    <3>1. a # slots[i] /\ heap[a] # Null
      BY <1>3, <2>1
    <3>2. PICK j \in Slots : slots[j] = a
      BY <1>1, <3>1 DEF NoLeak, Owned
    <3> QED
      BY <1>3, <3>1, <3>2
  <2>5. \A d \in Conns : comm'[d] = "open" => portCtx'[d] # Null /\ heap'[portCtx'[d]] = d
    BY <1>1, <1>3, <2>1 DEF NoLeak
  <2> QED
    BY <1>1, <2>3, <2>4, <2>5 DEF TableInv, NoLeak, CompletingSound
<1> QED
  BY <1>2, <1>3 DEF HandlePortClosed, FindClientSlot, Discard, ClearSlot

(***************************************************************************)
(* The actions that leave table, heap and communication ports alone, and   *)
(* do not enter or leave the window between accept and complete.           *)
(***************************************************************************)
LEMMA TableUntouched ==
    ASSUME IInv, UNCHANGED <<comm, portCtx, heap, slots>>,
           (pc' # "complete" /\ pc # "complete") \/ UNCHANGED loopVars
    PROVE  TableInv'
<1> USE DEF IInv
<1>1. CASE pc' # "complete" /\ pc # "complete"
  BY <1>1 DEF TableInv, TableSound, NoLeak, Owned, OneSlotPerProcess, CompletingSound
<1>2. CASE UNCHANGED loopVars
  BY <1>2 DEF TableInv, TableSound, NoLeak, Owned, OneSlotPerProcess, CompletingSound, loopVars
<1> QED
  BY <1>1, <1>2

LEMMA TableStep == IInv /\ [Next]_vars => TableInv'
<1> SUFFICES ASSUME IInv, [Next]_vars PROVE TableInv'
  OBVIOUS
<1>1. ASSUME Clients PROVE TableInv'
  BY <1>1, TableUntouched DEF Clients, Connect, Request, Disconnect
<1>2. ASSUME StartInitPort \/ StopSignal PROVE TableInv'
  BY <1>2, TableUntouched DEF StartInitPort, StopSignal, portVars
<1>3. CASE StartThread
  BY <1>3, TableUntouched DEF StartThread, portVars, IInv, PhaseSound, LoopEnded
<1>4. ASSUME LoopTop \/ ReceiveNothing \/ Receive \/ HandleRequest PROVE TableInv'
  <2>1. ASSUME Receive PROVE pc' # "complete" /\ pc # "complete"
    <3>1. Head(queue) \in Message
      BY <2>1 DEF Receive, IInv, TypeOK
    <3> QED
      BY <2>1, <3>1 DEF Receive, Message
  <2> QED
    BY <1>4, <2>1, TableUntouched DEF LoopTop, ReceiveNothing, Receive, HandleRequest, Back, portVars
<1>5. CASE UNCHANGED vars
  BY <1>5, TableUntouched DEF vars, portVars
<1> QED
  BY <1>1, <1>2, <1>3, <1>4, <1>5, StopFinishTable, ConnectTable, CompleteTable, PortClosedTable
     DEF Next, App, Loop

(***************************************************************************)
(* The rest of the inductive invariant: clients, port and phases.          *)
(***************************************************************************)
ClientInv == EstablishedIsOpen /\ ConnectingHasPort /\ PhaseSound

LEMMA ClientStep == IInv /\ [Next]_vars => ClientInv'
<1> SUFFICES ASSUME IInv, [Next]_vars PROVE ClientInv'
  OBVIOUS
<1> USE DEF IInv, TypeOK, ClientInv, EstablishedIsOpen, ConnectingHasPort, PhaseSound, LoopEnded
<1>1. ASSUME NEW c \in Conns, Connect(c) \/ Request(c) \/ Disconnect(c) PROVE ClientInv'
  <2>1. UNCHANGED <<comm, portOpen, slots, app, pc>>
    BY <1>1 DEF Connect, Request, Disconnect, loopVars
  <2>2. \/ client[c] = "new" /\ portOpen /\ client' = [client EXCEPT ![c] = "connecting"]
        \/ client[c] = "open" /\ client' = [client EXCEPT ![c] = "waiting"]
        \/ client' = [client EXCEPT ![c] = "closed"]
    BY <1>1 DEF Connect, Request, Disconnect
  <2> QED
    BY <2>1, <2>2
<1>2. CASE StartInitPort \/ StopSignal
  BY <1>2 DEF StartInitPort, StopSignal, loopVars, portVars
<1>3. CASE StartThread
  BY <1>3 DEF StartThread, portVars
<1>4. CASE StopFinish
  <2>1. \A c \in Conns : client'[c] # "connecting"
    BY <1>4 DEF StopFinish, Cut, Refused
  <2>2. \A c \in Conns : client'[c] \in {"open", "waiting", "lost"} => comm'[c] = "open"
    BY <1>4 DEF StopFinish, Cut, Refused
  <2> QED
    BY <1>4, <2>1, <2>2 DEF StopFinish, ClosePort, WalkedSlots, loopVars
<1>5. CASE LoopTop
  BY <1>5 DEF LoopTop, ClosePort, Refused
<1>6. CASE ReceiveNothing \/ Receive
  BY <1>6 DEF ReceiveNothing, Receive, portVars
<1>7. CASE HandleConnectionRequest
  <2>1. msg.conn \in Conns
    BY <1>7 DEF HandleConnectionRequest, Message
  <2> QED
    BY <1>7, <2>1 DEF HandleConnectionRequest, Refuse, Refused, Back
<1>8. CASE CompleteConnect
  <2>1. msg.conn \in Conns
    BY <1>8 DEF CompleteConnect, Message
  <2> QED
    BY <1>8, <2>1 DEF CompleteConnect, CompletingSound, Store, Discard, Cut, Back
<1>9. CASE HandlePortClosed
  <2>1. CASE UNCHANGED <<comm, client, heap, slots>>
    BY <1>9, <2>1 DEF HandlePortClosed, Back
  <2>2. ASSUME NEW i \in Slots, FindClientSlot(i), Discard(heap[slots[i]], slots[i]),
               client' = [client EXCEPT ![heap[slots[i]]] = Cut(heap[slots[i]])],
               ClearSlot(i)
        PROVE  ClientInv'
    <3>1. heap[slots[i]] \in Conns
      BY <2>2 DEF FindClientSlot, TableSound
    <3> QED
      BY <1>9, <2>2, <3>1 DEF HandlePortClosed, Discard, ClearSlot, Cut, Back
  <2> QED
    BY <1>9, <2>1, <2>2 DEF HandlePortClosed
<1>10. CASE HandleRequest
  BY <1>10 DEF HandleRequest, Reply, LoseReply, Back
<1>11. CASE UNCHANGED vars
  BY <1>11 DEF vars, portVars, loopVars
<1> QED
  BY <1>1, <1>2, <1>3, <1>4, <1>5, <1>6, <1>7, <1>8, <1>9, <1>10, <1>11 DEF Next, Clients, App, Loop

(***************************************************************************)
(* IInv is inductive.                                                      *)
(***************************************************************************)
THEOREM InductiveInvariant == Spec => []IInv
<1>1. Init => IInv
  <2> SUFFICES ASSUME Init PROVE IInv
    OBVIOUS
  <2>1. TableSound /\ NoLeak /\ OneSlotPerProcess /\ CompletingSound
    BY DEF Init, TableSound, NoLeak, OneSlotPerProcess, CompletingSound
  <2>2. EstablishedIsOpen /\ ConnectingHasPort /\ PhaseSound
    BY DEF Init, EstablishedIsOpen, ConnectingHasPort, PhaseSound, LoopEnded
  <2> QED
    BY <2>1, <2>2, TypeInit DEF IInv
<1>2. IInv /\ [Next]_vars => IInv'
  BY TypeStep, TableStep, ClientStep DEF IInv, TableInv, ClientInv
<1> QED
  BY <1>1, <1>2, PTL DEF Spec

(***************************************************************************)
(* No slot of the table ever points to a freed context or a closed port,   *)
(* and no context is in two slots: nothing is freed or closed twice.       *)
(***************************************************************************)
THEOREM TableIsSound == Spec => []TableSound
  BY InductiveInvariant, PTL DEF IInv

(***************************************************************************)
(* No context and no communication port is ever lost, whatever call fails. *)
(***************************************************************************)
THEOREM NothingLeaks == Spec => []NoLeak
  BY InductiveInvariant, PTL DEF IInv

(***************************************************************************)
(* A process other than System never holds two slots.                      *)
(***************************************************************************)
THEOREM ProcessHasOneSlot == Spec => []OneSlotPerProcess
  BY InductiveInvariant, PTL DEF IInv

LEMMA StoppedIsEmpty == IInv => StopLeavesNothing
<1> SUFFICES ASSUME IInv, app = "stopped"
             PROVE  /\ ~portOpen
                    /\ \A c \in Conns : comm[c] # "open" /\ client[c] \notin {"connecting", "waiting", "lost"}
                    /\ \A a \in Addrs : heap[a] = Null
                    /\ \A i \in Slots : slots[i] = Null
  BY DEF StopLeavesNothing
<1> USE DEF IInv, TypeOK
<1>1. ~portOpen /\ pc # "complete" /\ \A i \in Slots : slots[i] = Null
  BY DEF PhaseSound, LoopEnded
<1>2. \A a \in Addrs : heap[a] = Null
  BY <1>1 DEF NoLeak, Owned
<1>3. ASSUME NEW c \in Conns, comm[c] = "open" PROVE FALSE
  <2>1. portCtx[c] \in Addrs /\ heap[portCtx[c]] = c
    BY <1>3 DEF NoLeak
  <2> QED
    BY <1>2, <2>1
<1> QED
  BY <1>1, <1>2, <1>3 DEF EstablishedIsOpen, ConnectingHasPort

(***************************************************************************)
(* After Stop nothing of the server is left and no client is blocked.      *)
(***************************************************************************)
THEOREM StopIsComplete == Spec => []StopLeavesNothing
  BY StoppedIsEmpty, InductiveInvariant, PTL

-----------------------------------------------------------------------------
(***************************************************************************)
(* What the order of the port's queue is good for.  IInv says nothing of   *)
(* the messages; PortInv says that what each of them tells is still true   *)
(* when the loop receives it.                                              *)
(***************************************************************************)

(***************************************************************************)
(* What a message in flight says of its connection is still true: nobody   *)
(* has accepted it yet if it asks for that, and its context is the live    *)
(* one otherwise.                                                          *)
(***************************************************************************)
Current(m) ==
  /\ m.kind = "connect" =>
       client[m.conn] \in {"connecting", "closed"} /\ comm[m.conn] = "none"
  /\ m.kind # "connect" => comm[m.conn] = "open" /\ portCtx[m.conn] = m.ctx
  /\ m.kind = "request" => client[m.conn] \in {"waiting", "closed"}
  /\ m.kind = "closed" => client[m.conn] = "closed"

Handling == pc \in {"connect", "complete", "closed", "request"}

\* The server will learn that d has gone before it receives the message n + 1.
Leaves(d, n) ==
  \/ \E k \in 1..n : queue[k].kind = "closed" /\ queue[k].conn = d
  \/ pc = "closed" /\ msg.conn = d

\* Nothing comes behind a port-closed message of the same connection.
QueueInv ==
  /\ \A i \in 1..Len(queue) : Current(queue[i])
  /\ pc \in {"connect", "closed", "request"} => msg.kind = pc /\ Current(msg)
  /\ \A i, j \in 1..Len(queue) : i < j /\ queue[i].conn = queue[j].conn =>
       queue[i].kind # "closed" /\ queue[j].kind = "closed"
  /\ Handling => \A i \in 1..Len(queue) : queue[i].conn = msg.conn =>
       pc # "closed" /\ queue[i].kind = "closed"
  /\ \A c \in Conns : comm[c] = "open" =>
       \/ client[c] \in {"open", "waiting", "lost", "closed"}
       \/ client[c] = "connecting" /\ pc = "complete" /\ msg.conn = c
  /\ pc = "complete" => client[msg.conn] \in {"connecting", "closed"}
  /\ \A c \in Conns : client[c] = "new" => comm[c] = "none"
  /\ app = "starting" \/ ~LoopEnded => portOpen

\* The sender of a message knows of everybody the server may know of when it
\* receives it.
AliveInv ==
  /\ \A c \in Conns : \A i \in 1..Len(queue) : comm[c] = "open" =>
       c \in queue[i].alive \/ Leaves(c, i - 1)
  /\ \A i, j \in 1..Len(queue) :
       i < j /\ queue[i].kind = "connect" /\ client[queue[i].conn] = "connecting" =>
         queue[i].conn \in queue[j].alive
  /\ pc = "connect" =>
       /\ \A c \in Conns : comm[c] = "open" => c \in msg.alive
       /\ client[msg.conn] = "connecting" =>
            \A i \in 1..Len(queue) : msg.conn \in queue[i].alive
  /\ portOpen => \A c \in Conns : comm[c] = "open" => Alive(c) \/ Leaves(c, Len(queue))

PortInv == QueueInv /\ AliveInv

LEMMA QueueTypes ==
  ASSUME TypeOK
  PROVE  /\ Len(queue) \in Nat
         /\ \A i \in 1..Len(queue) : queue[i] \in Message /\ queue[i].conn \in Conns
         /\ Handling => msg \in Message /\ msg.conn \in Conns
<1>1. queue \in Seq(Message) /\ Len(queue) \in Nat
  BY DEF TypeOK
<1>2. \A i \in 1..Len(queue) : queue[i] \in Message
  BY <1>1
<1>3. \A m \in Message : m.conn \in Conns
  BY DEF Message
<1>4. Handling => msg \in Message
  BY DEF Handling, TypeOK
<1> QED
  BY <1>1, <1>2, <1>3, <1>4

LEMMA Sent ==
  ASSUME TypeOK, NEW kind \in {"connect", "request", "closed"}, NEW c \in Conns,
         NEW magic \in BOOLEAN, Send(kind, c, magic)
  PROVE  /\ Len(queue') = Len(queue) + 1
         /\ \A i \in 1..Len(queue) : queue'[i] = queue[i]
         /\ queue'[Len(queue) + 1].kind = kind
         /\ queue'[Len(queue) + 1].conn = c
         /\ queue'[Len(queue) + 1].ctx = portCtx[c]
         /\ \A d \in Conns : d \in queue'[Len(queue) + 1].alive <=> Alive(d)
<1> DEFINE m == [kind |-> kind, conn |-> c, ctx |-> portCtx[c], magic |-> magic,
                 alive |-> {d \in Conns : Alive(d)}]
<1>1. /\ m.kind = kind /\ m.conn = c /\ m.ctx = portCtx[c]
      /\ \A d \in Conns : d \in m.alive <=> Alive(d)
  OBVIOUS
<1>2. queue' = Append(queue, m) /\ queue \in Seq(Message)
  BY DEF Send, TypeOK
<1> HIDE DEF m
<1>3. Len(queue') = Len(queue) + 1 /\ queue'[Len(queue) + 1] = m
      /\ \A i \in 1..Len(queue) : queue'[i] = queue[i]
  BY <1>2
<1> QED
  BY <1>1, <1>3

\* A connection that is being served or completed.
LEMMA OpenIsReachable ==
  ASSUME IInv, NEW c \in Conns, comm[c] = "open"
  PROVE  /\ portCtx[c] \in Addrs /\ heap[portCtx[c]] = c
         /\ \/ \E i \in Slots : slots[i] = portCtx[c]
            \/ pc = "complete" /\ msg.conn = c
  BY DEF IInv, TypeOK, NoLeak, Owned, CompletingSound

-----------------------------------------------------------------------------
(***************************************************************************)
(* The clients' steps.                                                     *)
(***************************************************************************)
\* What a step that sends a message does to the invariant.
LEMMA SendKeeps ==
  ASSUME IInv, PortInv, NEW kind \in {"connect", "request", "closed"}, NEW c \in Conns,
         NEW magic \in BOOLEAN, Send(kind, c, magic), portOpen, Alive(c) \/ kind = "connect",
         UNCHANGED <<comm, portCtx, portOpen, app, loopVars>>,
         \/ kind = "connect" /\ client[c] = "new" /\ client' = [client EXCEPT ![c] = "connecting"]
         \/ kind = "request" /\ client[c] = "open" /\ client' = [client EXCEPT ![c] = "waiting"]
         \/ kind = "closed" /\ comm[c] = "open" /\ client' = [client EXCEPT ![c] = "closed"]
  PROVE  PortInv'
<1>0. PICK n \in Nat : n = Len(queue)
  BY QueueTypes DEF IInv
<1>1. /\ n = Len(queue) /\ \A i \in 1..n : queue[i] \in Message /\ queue[i].conn \in Conns
      /\ Handling => msg \in Message /\ msg.conn \in Conns
  BY <1>0, QueueTypes DEF IInv
<1>2. /\ Len(queue') = n + 1
      /\ \A i \in 1..n : queue'[i] = queue[i]
      /\ queue'[n + 1].kind = kind /\ queue'[n + 1].conn = c /\ queue'[n + 1].ctx = portCtx[c]
      /\ \A d \in Conns : d \in queue'[n + 1].alive <=> Alive(d)
  BY <1>1, Sent DEF IInv
<1>3. \A i \in 1..n + 1 : i \in 1..n \/ i = n + 1
  BY <1>1
<1>4. \A d \in Conns : d # c => client'[d] = client[d]
  BY DEF IInv, TypeOK
<1>5. client'[c] = IF kind = "connect" THEN "connecting" ELSE IF kind = "request" THEN "waiting" ELSE "closed"
  BY DEF IInv, TypeOK
<1>6. UNCHANGED <<pc, msg>> /\ (Handling' <=> Handling) /\ (LoopEnded' <=> LoopEnded)
  BY DEF loopVars, Handling, LoopEnded
<1>7. comm[c] = "open" <=> kind # "connect"
  BY DEF IInv, EstablishedIsOpen, TypeOK, PortInv, QueueInv, Alive
<1>8. kind = "connect" => comm[c] = "none"
  BY DEF PortInv, QueueInv
<1>9. \A i \in 1..n : queue[i].conn = c => kind = "closed" /\ queue[i].kind = "request"
  <2> SUFFICES ASSUME NEW i \in 1..n, queue[i].conn = c
               PROVE  kind = "closed" /\ queue[i].kind = "request"
    OBVIOUS
  <2>1. Current(queue[i]) /\ queue[i].kind \in {"connect", "request", "closed"}
    BY <1>1 DEF PortInv, QueueInv, Message
  <2> QED
    BY <2>1, <1>7 DEF Current, Alive
<1>10. Handling /\ msg.conn = c => kind = "closed" /\ pc \in {"request", "complete"}
  <2> SUFFICES ASSUME Handling, msg.conn = c
               PROVE  kind = "closed" /\ pc \in {"request", "complete"}
    OBVIOUS
  <2>1. CASE pc = "complete"
    BY <2>1, <1>8 DEF IInv, CompletingSound, PortInv, QueueInv
  <2>2. CASE pc # "complete"
    <3>1. Current(msg) /\ msg.kind = pc /\ pc \in {"connect", "closed", "request"}
      BY <2>2 DEF PortInv, QueueInv, Handling
    <3> QED
      BY <3>1, <1>7 DEF Current, Alive
  <2> QED
    BY <2>1, <2>2
<1>11. Current(queue[n + 1])'
  BY <1>2, <1>5, <1>7, <1>8 DEF Current
<1>12. ASSUME NEW m, m.conn \in Conns, Current(m), m.conn = c => kind = "closed" /\ m.kind = "request"
       PROVE  Current(m)'
  BY <1>4, <1>5, <1>12 DEF Current
<1>13. \A i \in 1..n + 1 : Current(queue[i])'
  <2> SUFFICES ASSUME NEW i \in 1..n PROVE Current(queue[i])'
    BY <1>3, <1>11
  <2>1. Current(queue[i])
    BY <1>1 DEF PortInv, QueueInv
  <2> QED
    BY <1>1, <1>2, <1>9, <1>12, <2>1
<1>14. pc \in {"connect", "closed", "request"} => msg.kind = pc /\ Current(msg)'
  <2> SUFFICES ASSUME pc \in {"connect", "closed", "request"}
               PROVE  msg.kind = pc /\ Current(msg)'
    OBVIOUS
  <2>1. Handling /\ msg.conn \in Conns /\ msg.kind = pc /\ Current(msg)
    BY <1>1 DEF PortInv, QueueInv, Handling
  <2>2. msg.conn = c => kind = "closed" /\ msg.kind = "request"
    BY <1>10, <2>1
  <2>3. Current(msg)'
    BY <1>6, <1>12, <2>1, <2>2
  <2> QED
    BY <2>1, <2>3
<1>15. \A i, j \in 1..n + 1 : i < j /\ queue'[i].conn = queue'[j].conn =>
         queue'[i].kind # "closed" /\ queue'[j].kind = "closed"
  <2> SUFFICES ASSUME NEW i \in 1..n + 1, NEW j \in 1..n + 1, i < j,
                      queue'[i].conn = queue'[j].conn
               PROVE  queue'[i].kind # "closed" /\ queue'[j].kind = "closed"
    OBVIOUS
  <2>1. i \in 1..n
    BY <1>1
  <2>2. CASE j \in 1..n
    BY <1>1, <1>2, <2>1, <2>2 DEF PortInv, QueueInv
  <2>3. CASE j = n + 1
    BY <1>1, <1>2, <1>9, <2>1, <2>3
  <2> QED
    BY <1>3, <2>2, <2>3
<1>16. Handling => \A i \in 1..n + 1 : queue'[i].conn = msg.conn =>
         pc # "closed" /\ queue'[i].kind = "closed"
  <2> SUFFICES ASSUME Handling, NEW i \in 1..n + 1, queue'[i].conn = msg.conn
               PROVE  pc # "closed" /\ queue'[i].kind = "closed"
    OBVIOUS
  <2>1. CASE i \in 1..n
    BY <1>1, <1>2, <2>1 DEF PortInv, QueueInv
  <2>2. CASE i = n + 1
    BY <1>2, <1>10, <2>2
  <2> QED
    BY <1>3, <2>1, <2>2
<1>17. \A d \in Conns : comm[d] = "open" =>
         \/ client'[d] \in {"open", "waiting", "lost", "closed"}
         \/ client'[d] = "connecting" /\ pc = "complete" /\ msg.conn = d
  BY <1>4, <1>5, <1>7 DEF PortInv, QueueInv
<1>18. pc = "complete" => client'[msg.conn] \in {"connecting", "closed"}
  BY <1>1, <1>4, <1>5, <1>10 DEF PortInv, QueueInv, Handling
<1>19. \A d \in Conns : client'[d] = "new" => comm[d] = "none"
  BY <1>4, <1>5 DEF PortInv, QueueInv
<1>20. QueueInv'
  <2>1. app = "starting" \/ ~LoopEnded => portOpen
    BY DEF PortInv, QueueInv
  <2> QED
    BY <1>2, <1>6, <1>13, <1>14, <1>15, <1>16, <1>17, <1>18, <1>19, <2>1 DEF QueueInv
<1>21. \A d \in Conns : \A i \in 0..n : Leaves(d, i) => Leaves(d, i)'
  BY <1>1, <1>2, <1>6 DEF Leaves
<1>22. \A d \in Conns : comm[d] = "open" => Alive(d) \/ Leaves(d, n)
  BY <1>1 DEF PortInv, AliveInv
<1>23. \A d \in Conns : \A i \in 1..n + 1 : comm[d] = "open" =>
         d \in queue'[i].alive \/ Leaves(d, i - 1)'
  <2> SUFFICES ASSUME NEW d \in Conns, NEW i \in 1..n + 1, comm[d] = "open"
               PROVE  d \in queue'[i].alive \/ Leaves(d, i - 1)'
    OBVIOUS
  <2>1. CASE i \in 1..n
    <3>1. i - 1 \in 0..n
      BY <2>1
    <3> QED
      BY <1>1, <1>2, <1>21, <2>1, <3>1 DEF PortInv, AliveInv
  <2>2. CASE i = n + 1
    <3>1. i - 1 = n /\ n \in 0..n
      BY <2>2
    <3> QED
      BY <1>2, <1>21, <1>22, <2>2, <3>1
  <2> QED
    BY <1>3, <2>1, <2>2
<1>24. \A d \in Conns : client'[d] = "connecting" =>
         client[d] = "connecting" \/ (d = c /\ kind = "connect")
  BY <1>4, <1>5
<1>25. \A i, j \in 1..n + 1 :
         i < j /\ queue'[i].kind = "connect" /\ client'[queue'[i].conn] = "connecting" =>
           queue'[i].conn \in queue'[j].alive
  <2> SUFFICES ASSUME NEW i \in 1..n + 1, NEW j \in 1..n + 1, i < j,
                      queue'[i].kind = "connect", client'[queue'[i].conn] = "connecting"
               PROVE  queue'[i].conn \in queue'[j].alive
    OBVIOUS
  <2>1. i \in 1..n
    BY <1>1
  <2>2. queue'[i] = queue[i] /\ queue[i].conn \in Conns
    BY <1>1, <1>2, <2>1
  <2>3. client[queue[i].conn] = "connecting"
    BY <1>9, <1>24, <2>1, <2>2
  <2>4. CASE j \in 1..n
    BY <1>1, <1>2, <2>1, <2>2, <2>3, <2>4 DEF PortInv, AliveInv
  <2>5. CASE j = n + 1
    BY <1>2, <2>2, <2>3, <2>5 DEF Alive
  <2> QED
    BY <1>3, <2>4, <2>5
<1>26. pc = "connect" =>
         /\ \A d \in Conns : comm[d] = "open" => d \in msg.alive
         /\ client'[msg.conn] = "connecting" =>
              \A i \in 1..n + 1 : msg.conn \in queue'[i].alive
  <2> SUFFICES ASSUME pc = "connect"
               PROVE  /\ \A d \in Conns : comm[d] = "open" => d \in msg.alive
                      /\ client'[msg.conn] = "connecting" =>
                           \A i \in 1..n + 1 : msg.conn \in queue'[i].alive
    OBVIOUS
  <2>1. msg.conn \in Conns /\ msg.conn # c
    BY <1>1, <1>10 DEF Handling
  <2>2. client'[msg.conn] = "connecting" => client[msg.conn] = "connecting"
    BY <1>24, <2>1
  <2>3. ASSUME client[msg.conn] = "connecting", NEW i \in 1..n + 1
        PROVE  msg.conn \in queue'[i].alive
    <3>1. CASE i \in 1..n
      BY <1>1, <1>2, <2>3, <3>1 DEF PortInv, AliveInv
    <3>2. CASE i = n + 1
      BY <1>2, <2>1, <2>3, <3>2 DEF Alive
    <3> QED
      BY <1>3, <3>1, <3>2
  <2> QED
    BY <2>2, <2>3 DEF PortInv, AliveInv
<1>27. \A d \in Conns : comm[d] = "open" => Alive(d)' \/ Leaves(d, n + 1)'
  <2> SUFFICES ASSUME NEW d \in Conns, comm[d] = "open"
               PROVE  Alive(d)' \/ Leaves(d, n + 1)'
    OBVIOUS
  <2>1. CASE d = c /\ kind = "closed"
    <3>1. n + 1 \in 1..n + 1
      OBVIOUS
    <3> QED
      BY <1>2, <2>1, <3>1 DEF Leaves
  <2>2. CASE d = c /\ kind # "closed"
    BY <1>5, <2>2 DEF Alive
  <2>3. CASE d # c
    <3>1. Alive(d) => Alive(d)'
      BY <1>4, <2>3 DEF Alive
    <3>2. Leaves(d, n) => Leaves(d, n + 1)'
      BY <1>1, <1>2, <1>6 DEF Leaves
    <3> QED
      BY <1>22, <3>1, <3>2
  <2> QED
    BY <2>1, <2>2, <2>3
<1>28. AliveInv'
  BY <1>2, <1>6, <1>23, <1>25, <1>26, <1>27 DEF AliveInv
<1> QED
  BY <1>20, <1>28 DEF PortInv

\* A client that goes where no message can tell the server.
LEMMA SilentDisconnectKeeps ==
  ASSUME IInv, PortInv, NEW c \in Conns, comm[c] # "open" \/ ~portOpen,
         client' = [client EXCEPT ![c] = "closed"],
         UNCHANGED <<comm, portCtx, portOpen, queue, app, loopVars>>
  PROVE  PortInv'
<1>1. /\ \A i \in 1..Len(queue) : queue[i].conn \in Conns
      /\ Handling => msg.conn \in Conns
  BY QueueTypes DEF IInv
<1>2. \A d \in Conns : client'[d] = IF d = c THEN "closed" ELSE client[d]
  BY DEF IInv, TypeOK
<1>3. UNCHANGED <<pc, msg>> /\ (Handling' <=> Handling) /\ (LoopEnded' <=> LoopEnded)
  BY DEF loopVars, Handling, LoopEnded
<1>4. ASSUME NEW m, m.conn \in Conns, Current(m) PROVE Current(m)'
  BY <1>2, <1>4 DEF Current
<1>5. \A i \in 1..Len(queue) : Current(queue[i])'
  BY <1>1, <1>4 DEF PortInv, QueueInv
<1>6. pc \in {"connect", "closed", "request"} => msg.kind = pc /\ Current(msg)'
  <2> SUFFICES ASSUME pc \in {"connect", "closed", "request"}
               PROVE  msg.kind = pc /\ Current(msg)'
    OBVIOUS
  <2>1. msg.conn \in Conns /\ msg.kind = pc /\ Current(msg)
    BY <1>1 DEF PortInv, QueueInv, Handling
  <2> QED
    BY <1>3, <1>4, <2>1
<1>7. /\ \A d \in Conns : comm[d] = "open" =>
           \/ client'[d] \in {"open", "waiting", "lost", "closed"}
           \/ client'[d] = "connecting" /\ pc = "complete" /\ msg.conn = d
      /\ pc = "complete" => client'[msg.conn] \in {"connecting", "closed"}
      /\ \A d \in Conns : client'[d] = "new" => comm[d] = "none"
  BY <1>1, <1>2 DEF PortInv, QueueInv, Handling
<1>8. QueueInv'
  BY <1>3, <1>5, <1>6, <1>7 DEF PortInv, QueueInv
<1>9. \A d \in Conns, i \in Nat : Leaves(d, i) => Leaves(d, i)'
  BY <1>3 DEF Leaves
<1>10. \A d \in Conns : \A i \in 1..Len(queue) : comm[d] = "open" =>
         d \in queue[i].alive \/ Leaves(d, i - 1)'
  <2> SUFFICES ASSUME NEW d \in Conns, NEW i \in 1..Len(queue), comm[d] = "open"
               PROVE  d \in queue[i].alive \/ Leaves(d, i - 1)'
    OBVIOUS
  <2>1. d \in queue[i].alive \/ Leaves(d, i - 1)
    BY DEF PortInv, AliveInv
  <2>2. i - 1 \in Nat
    OBVIOUS
  <2> QED
    BY <1>9, <2>1, <2>2
<1>11. \A d \in Conns : client'[d] = "connecting" => client[d] = "connecting"
  BY <1>2
<1>12. /\ \A i, j \in 1..Len(queue) :
            i < j /\ queue[i].kind = "connect" /\ client'[queue[i].conn] = "connecting" =>
              queue[i].conn \in queue[j].alive
       /\ pc = "connect" =>
            /\ \A d \in Conns : comm[d] = "open" => d \in msg.alive
            /\ client'[msg.conn] = "connecting" =>
                 \A i \in 1..Len(queue) : msg.conn \in queue[i].alive
  BY <1>1, <1>11 DEF PortInv, AliveInv, Handling
<1>13. portOpen => \A d \in Conns : comm[d] = "open" => Alive(d)' \/ Leaves(d, Len(queue))'
  <2> SUFFICES ASSUME portOpen, NEW d \in Conns, comm[d] = "open"
               PROVE  Alive(d)' \/ Leaves(d, Len(queue))'
    OBVIOUS
  <2>1. d # c /\ client'[d] = client[d]
    BY <1>2
  <2>2. Alive(d) \/ Leaves(d, Len(queue))
    BY DEF PortInv, AliveInv
  <2>3. Leaves(d, Len(queue)) => Leaves(d, Len(queue))'
    BY <1>3 DEF Leaves
  <2> QED
    BY <2>1, <2>2, <2>3 DEF Alive
<1>14. AliveInv'
  BY <1>3, <1>10, <1>12, <1>13 DEF AliveInv
<1> QED
  BY <1>8, <1>14 DEF PortInv

LEMMA ClientsKeepPort == IInv /\ PortInv /\ Clients => PortInv'
<1> SUFFICES ASSUME IInv, PortInv, NEW c \in Conns, Connect(c) \/ Request(c) \/ Disconnect(c)
             PROVE  PortInv'
  BY DEF Clients
<1>1. CASE Connect(c)
  BY <1>1, SendKeeps DEF Connect
<1>2. CASE Request(c)
  BY <1>2, SendKeeps DEF Request, Alive
<1>3. CASE Disconnect(c) /\ comm[c] = "open" /\ portOpen
  BY <1>3, SendKeeps DEF Disconnect
<1>4. CASE Disconnect(c) /\ ~(comm[c] = "open" /\ portOpen)
  BY <1>4, SilentDisconnectKeeps DEF Disconnect
<1> QED
  BY <1>1, <1>2, <1>3, <1>4

-----------------------------------------------------------------------------
(***************************************************************************)
(* The application thread, and the loop between two messages.              *)
(***************************************************************************)
LEMMA IdleKeeps ==
  ASSUME PortInv, UNCHANGED <<client, comm, portCtx, queue>>,
         UNCHANGED loopVars \/ (~Handling /\ ~Handling'),
         portOpen' = portOpen \/ \A c \in Conns : comm[c] # "open",
         (app = "starting" \/ ~LoopEnded => portOpen)'
  PROVE  PortInv'
<1>1. CASE UNCHANGED loopVars
  <2>1. \A m : Current(m)' <=> Current(m)
    BY DEF Current
  <2>2. \A d, n : Leaves(d, n)' <=> Leaves(d, n)
    BY <1>1 DEF Leaves, loopVars
  <2>3. QueueInv'
    BY <1>1, <2>1 DEF PortInv, QueueInv, Handling, loopVars
  <2>4. AliveInv'
    BY <1>1, <2>2 DEF PortInv, AliveInv, Alive, loopVars
  <2> QED
    BY <2>3, <2>4 DEF PortInv
<1>2. CASE ~Handling /\ ~Handling'
  <2>1. \A m : Current(m)' <=> Current(m)
    BY DEF Current
  <2>2. \A d, n : Leaves(d, n)' <=> Leaves(d, n)
    BY <1>2 DEF Leaves, Handling
  <2>3. QueueInv'
    BY <1>2, <2>1 DEF PortInv, QueueInv, Handling
  <2>4. AliveInv'
    BY <1>2, <2>2 DEF PortInv, AliveInv, Alive, Handling
  <2> QED
    BY <2>3, <2>4 DEF PortInv
<1> QED
  BY <1>1, <1>2

LEMMA ClosePortKeeps ==
  ASSUME PortInv, ClosePort, ~Handling, ~Handling', LoopEnded', app' # "starting",
         \A c \in Conns : comm'[c] = "open" =>
           comm[c] = "open" /\ client'[c] = client[c],
         \A c \in Conns : client'[c] = "new" => client[c] = "new" /\ comm'[c] = comm[c]
  PROVE  PortInv'
<1>1. Len(queue') = 0 /\ ~portOpen'
  BY DEF ClosePort
<1>2. \A i \in 1..Len(queue') : FALSE
  BY <1>1
<1>3. QueueInv'
  BY <1>2 DEF PortInv, QueueInv, Handling
<1>4. AliveInv'
  BY <1>1, <1>2 DEF AliveInv, Handling
<1> QED
  BY <1>3, <1>4 DEF PortInv

LEMMA AppKeepsPort == IInv /\ PortInv /\ App => PortInv'
<1> SUFFICES ASSUME IInv, PortInv, App PROVE PortInv'
  OBVIOUS
<1>1. CASE StartInitPort
  <2>1. \A c \in Conns : comm[c] # "open"
    BY <1>1, StoppedIsEmpty DEF StartInitPort, StopLeavesNothing
  <2>2. LoopEnded
    BY <1>1 DEF StartInitPort, IInv, PhaseSound
  <2>3. (app = "starting" \/ ~LoopEnded => portOpen)'
    BY <1>1, <2>2 DEF StartInitPort, LoopEnded, loopVars
  <2> QED
    BY <1>1, <2>1, <2>3, IdleKeeps DEF StartInitPort
<1>2. CASE StartThread
  <2>1. LoopEnded /\ portOpen
    BY <1>2 DEF StartThread, IInv, PhaseSound, PortInv, QueueInv
  <2>2. ~Handling /\ ~Handling'
    BY <1>2, <2>1 DEF StartThread, LoopEnded, Handling
  <2>3. (app = "starting" \/ ~LoopEnded => portOpen)'
    BY <1>2, <2>1 DEF StartThread, portVars
  <2> QED
    BY <1>2, <2>2, <2>3, IdleKeeps DEF StartThread, portVars
<1>3. CASE StopSignal
  <2>1. (app = "starting" \/ ~LoopEnded => portOpen)'
    BY <1>3 DEF StopSignal, portVars, loopVars, LoopEnded, PortInv, QueueInv
  <2> QED
    BY <1>3, <2>1, IdleKeeps DEF StopSignal, portVars
<1>4. CASE StopFinish
  <2>1. LoopEnded /\ UNCHANGED pc
    BY <1>4 DEF StopFinish, loopVars
  <2>2. ~Handling /\ ~Handling' /\ LoopEnded'
    BY <2>1 DEF LoopEnded, Handling
  <2>3. \A c \in Conns : comm'[c] # "open"
    <3> SUFFICES ASSUME NEW c \in Conns, comm[c] = "open"
                 PROVE  \E i \in WalkedSlots : heap[slots[i]] = c
      BY <1>4 DEF StopFinish
    <3>1. portCtx[c] \in Addrs /\ heap[portCtx[c]] = c /\ \E i \in Slots : slots[i] = portCtx[c]
      BY <2>2, OpenIsReachable DEF Handling
    <3> QED
      BY <3>1 DEF WalkedSlots
  <2>4. ASSUME NEW c \in Conns, client'[c] = "new" PROVE client[c] = "new" /\ comm'[c] = comm[c]
    <3>1. client[c] = "new"
      BY <1>4, <2>4 DEF StopFinish, Cut, Refused, IInv, TypeOK
    <3>2. comm[c] = "none"
      BY <3>1 DEF PortInv, QueueInv
    <3>3. \A i \in WalkedSlots : comm[heap[slots[i]]] = "open"
      BY DEF WalkedSlots, IInv, TableSound
    <3> QED
      BY <1>4, <3>1, <3>2, <3>3 DEF StopFinish
  <2> QED
    BY <1>4, <2>2, <2>3, <2>4, ClosePortKeeps DEF StopFinish
<1> QED
  BY <1>1, <1>2, <1>3, <1>4 DEF App

LEMMA TopKeepsPort == IInv /\ PortInv /\ LoopTop => PortInv'
<1> SUFFICES ASSUME IInv, PortInv, LoopTop PROVE PortInv'
  OBVIOUS
<1>1. CASE pc' = "receive" /\ UNCHANGED <<client, portOpen, queue>>
  BY <1>1, IdleKeeps DEF LoopTop, Handling, LoopEnded, PortInv, QueueInv
<1>2. CASE pc' = "exited" /\ ClosePort /\ client' = [c \in Conns |-> Refused(c)]
  <2>1. \A c \in Conns : comm[c] = "open" => client'[c] = client[c]
    BY <1>2 DEF LoopTop, PortInv, QueueInv, Refused
  <2>2. \A c \in Conns : client'[c] = "new" => client[c] = "new"
    BY <1>2 DEF Refused
  <2>3. app' # "starting"
    BY DEF LoopTop, IInv, PhaseSound, LoopEnded
  <2> QED
    BY <1>2, <2>1, <2>2, <2>3, ClosePortKeeps DEF LoopTop, Handling, LoopEnded
<1> QED
  BY <1>1, <1>2 DEF LoopTop

LEMMA ReceiveNothingKeepsPort == PortInv /\ ReceiveNothing => PortInv'
  BY IdleKeeps DEF ReceiveNothing, portVars, Handling, LoopEnded, PortInv, QueueInv

\* The message at the head becomes the one being handled.
LEMMA ReceiveKeepsPort == IInv /\ PortInv /\ Receive => PortInv'
<1> SUFFICES ASSUME IInv, PortInv, Receive PROVE PortInv'
  OBVIOUS
<1>0. PICK n \in Nat : n = Len(queue) - 1 /\ n + 1 = Len(queue)
  <2>1. Len(queue) \in Nat /\ Len(queue) # 0
    BY QueueTypes DEF IInv, TypeOK, Receive
  <2> QED
    BY <2>1
<1>1. /\ \A i \in 1..n + 1 : queue[i] \in Message /\ queue[i].conn \in Conns
      /\ 1 \in 1..n + 1
  BY <1>0, QueueTypes DEF IInv
<1>2. /\ Len(queue') = n
      /\ \A i \in 1..n : queue'[i] = queue[i + 1]
      /\ msg' = queue[1]
      /\ pc' = queue[1].kind
  <2>1. queue \in Seq(Message) /\ queue # <<>>
    BY DEF IInv, TypeOK, Receive
  <2>2. Len(Tail(queue)) = n /\ \A i \in 1..n : Tail(queue)[i] = queue[i + 1]
    BY <1>0, <2>1
  <2>3. Head(queue) = queue[1]
    BY <2>1
  <2> QED
    BY <2>2, <2>3 DEF Receive
<1>3. /\ \A i \in 1..n : i + 1 \in 1..n + 1 /\ 1 < i + 1
      /\ \A i, j \in 1..n : i < j => i + 1 < j + 1
  BY <1>1
<1>4. pc = "receive" /\ UNCHANGED <<client, comm, portCtx, portOpen, app>>
  BY DEF Receive
<1>5. pc' \in {"connect", "closed", "request"} /\ pc' # "complete"
  BY <1>1, <1>2 DEF Message
<1>6. \A m : Current(m)' <=> Current(m)
  BY <1>4 DEF Current
<1>7. \A i \in 1..n + 1 : Current(queue[i])
  BY <1>0 DEF PortInv, QueueInv
<1>8. \A i, j \in 1..n + 1 : i < j /\ queue[i].conn = queue[j].conn =>
        queue[i].kind # "closed" /\ queue[j].kind = "closed"
  BY <1>0 DEF PortInv, QueueInv
<1>9. QueueInv'
  <2>1. \A i \in 1..n : Current(queue[i])'
    BY <1>2, <1>3, <1>6, <1>7
  <2>2. msg'.kind = pc' /\ Current(msg)'
    BY <1>1, <1>2, <1>6, <1>7
  <2>3. \A i, j \in 1..n : i < j /\ queue'[i].conn = queue'[j].conn =>
          queue'[i].kind # "closed" /\ queue'[j].kind = "closed"
    BY <1>2, <1>3, <1>8
  <2>4. \A i \in 1..n : queue'[i].conn = msg'.conn => pc' # "closed" /\ queue'[i].kind = "closed"
    BY <1>1, <1>2, <1>3, <1>8
  <2>5. /\ \A c \in Conns : comm'[c] = "open" => client'[c] \in {"open", "waiting", "lost", "closed"}
        /\ \A c \in Conns : client'[c] = "new" => comm'[c] = "none"
        /\ portOpen'
    BY <1>4 DEF PortInv, QueueInv, LoopEnded
  <2> QED
    BY <1>2, <1>5, <2>1, <2>2, <2>3, <2>4, <2>5 DEF QueueInv
<1>10. \A d \in Conns : \A i \in 0..n : Leaves(d, i + 1) => Leaves(d, i)'
  <2> SUFFICES ASSUME NEW d \in Conns, NEW i \in 0..n, Leaves(d, i + 1)
               PROVE  Leaves(d, i)'
    OBVIOUS
  <2>1. PICK k \in 1..i + 1 : queue[k].kind = "closed" /\ queue[k].conn = d
    BY <1>4 DEF Leaves
  <2>2. CASE k = 1
    BY <1>2, <2>1, <2>2 DEF Leaves
  <2>3. CASE k # 1
    <3>1. k - 1 \in 1..i /\ k - 1 \in 1..n /\ (k - 1) + 1 = k
      BY <2>3
    <3>2. queue'[k - 1] = queue[k]
      BY <1>2, <3>1
    <3> QED
      BY <2>1, <3>1, <3>2 DEF Leaves
  <2> QED
    BY <2>2, <2>3
<1>11. \A d \in Conns : \A i \in 1..n + 1 : comm[d] = "open" =>
         d \in queue[i].alive \/ Leaves(d, i - 1)
  BY <1>0 DEF PortInv, AliveInv
<1>12. \A d \in Conns : \A i \in 1..n : comm'[d] = "open" =>
         d \in queue'[i].alive \/ Leaves(d, i - 1)'
  <2> SUFFICES ASSUME NEW d \in Conns, NEW i \in 1..n, comm[d] = "open"
               PROVE  d \in queue'[i].alive \/ Leaves(d, i - 1)'
    BY <1>4
  <2>1. i - 1 \in 0..n /\ (i - 1) + 1 = i /\ (i + 1) - 1 = i
    OBVIOUS
  <2>2. d \in queue[i + 1].alive \/ Leaves(d, i)
    BY <1>3, <1>11, <2>1
  <2> QED
    BY <1>2, <1>10, <2>1, <2>2
<1>13. \A i, j \in 1..n + 1 :
         i < j /\ queue[i].kind = "connect" /\ client[queue[i].conn] = "connecting" =>
           queue[i].conn \in queue[j].alive
  BY <1>0 DEF PortInv, AliveInv
<1>14. \A i, j \in 1..n :
         i < j /\ queue'[i].kind = "connect" /\ client'[queue'[i].conn] = "connecting" =>
           queue'[i].conn \in queue'[j].alive
  BY <1>2, <1>3, <1>4, <1>13
<1>15. pc' = "connect" =>
         /\ \A d \in Conns : comm'[d] = "open" => d \in msg'.alive
         /\ client'[msg'.conn] = "connecting" =>
              \A i \in 1..n : msg'.conn \in queue'[i].alive
  <2>1. \A d \in Conns : ~Leaves(d, 1 - 1)
    BY <1>4 DEF Leaves
  <2>2. \A d \in Conns : comm'[d] = "open" => d \in msg'.alive
    BY <1>1, <1>2, <1>4, <1>11, <2>1
  <2>3. ASSUME pc' = "connect", client'[msg'.conn] = "connecting", NEW i \in 1..n
        PROVE  msg'.conn \in queue'[i].alive
    BY <1>1, <1>2, <1>3, <1>4, <1>13, <2>3
  <2> QED
    BY <2>2, <2>3
<1>16. \A d \in Conns : comm'[d] = "open" => Alive(d)' \/ Leaves(d, n)'
  <2> SUFFICES ASSUME NEW d \in Conns, comm[d] = "open"
               PROVE  Alive(d)' \/ Leaves(d, n)'
    BY <1>4
  <2>1. Alive(d) \/ Leaves(d, n + 1)
    BY <1>0, <1>4 DEF PortInv, QueueInv, AliveInv, LoopEnded
  <2>2. n \in 0..n
    OBVIOUS
  <2> QED
    BY <1>4, <1>10, <2>1, <2>2 DEF Alive
<1>17. AliveInv'
  BY <1>2, <1>12, <1>14, <1>15, <1>16 DEF AliveInv
<1> QED
  BY <1>9, <1>17 DEF PortInv

-----------------------------------------------------------------------------
(***************************************************************************)
(* The loop's handlers.                                                    *)
(***************************************************************************)
\* A handler that is done with its message has changed its connection only,
\* closes the communication port only if no message of the connection waits,
\* and leaves it open only to a client that is served or will say that it left.
LEMMA HandledKeeps ==
  ASSUME IInv, PortInv, Handling, Back, UNCHANGED <<portCtx, portOpen, queue, app>>,
         NEW c \in Conns, c = msg.conn,
         \A d \in Conns : d # c => client'[d] = client[d] /\ comm'[d] = comm[d],
         client[c] = "closed" => client'[c] = "closed",
         \/ comm'[c] = comm[c]
         \/ comm'[c] = "closed" /\ \A i \in 1..Len(queue) : queue[i].conn # c,
         comm'[c] = "open" =>
           /\ client'[c] \in {"open", "waiting", "lost", "closed"}
           /\ Alive(c) => client'[c] # "closed"
           /\ pc # "closed",
         client'[c] # "new",
         client'[c] = "connecting" => client[c] = "connecting"
  PROVE  PortInv'
<1>1. \A i \in 1..Len(queue) : queue[i] \in Message /\ queue[i].conn \in Conns
  BY QueueTypes DEF IInv
<1>2. ~Handling' /\ ~LoopEnded /\ pc' = "top"
  BY DEF Back, Handling, LoopEnded
<1>3. \A d \in Conns : comm'[d] = "open" =>
        comm[d] = "open" /\ ~(pc = "closed" /\ msg.conn = d)
  OBVIOUS
<1>4. ASSUME NEW i \in 1..Len(queue) PROVE Current(queue[i])'
  <2>1. Current(queue[i])
    BY DEF PortInv, QueueInv
  <2>2. CASE queue[i].conn = c
    <3>1. queue[i].kind = "closed" /\ comm'[c] = comm[c]
      BY <2>2 DEF PortInv, QueueInv
    <3> QED
      BY <2>1, <2>2, <3>1 DEF Current
  <2>3. CASE queue[i].conn # c
    BY <1>1, <2>1, <2>3 DEF Current
  <2> QED
    BY <2>2, <2>3
<1>5. \A d \in Conns : comm'[d] = "open" => client'[d] \in {"open", "waiting", "lost", "closed"}
  BY <1>3 DEF PortInv, QueueInv
<1>6. \A d \in Conns : client'[d] = "new" => comm'[d] = "none"
  BY DEF PortInv, QueueInv
<1>7. QueueInv'
  <2>1. portOpen'
    BY <1>2 DEF PortInv, QueueInv
  <2>2. \A i, j \in 1..Len(queue) : i < j /\ queue[i].conn = queue[j].conn =>
          queue[i].kind # "closed" /\ queue[j].kind = "closed"
    BY DEF PortInv, QueueInv
  <2> QED
    BY <1>2, <1>4, <1>5, <1>6, <2>1, <2>2 DEF QueueInv
<1>8. \A d \in Conns, i \in Nat : comm'[d] = "open" /\ Leaves(d, i) => Leaves(d, i)'
  BY <1>3 DEF Leaves
<1>9. \A d \in Conns : \A i \in 1..Len(queue) : comm'[d] = "open" =>
        d \in queue[i].alive \/ Leaves(d, i - 1)'
  <2> SUFFICES ASSUME NEW d \in Conns, NEW i \in 1..Len(queue), comm'[d] = "open"
               PROVE  d \in queue[i].alive \/ Leaves(d, i - 1)'
    OBVIOUS
  <2>1. d \in queue[i].alive \/ Leaves(d, i - 1)
    BY <1>3 DEF PortInv, AliveInv
  <2>2. i - 1 \in Nat
    OBVIOUS
  <2> QED
    BY <1>8, <2>1, <2>2
<1>10. \A d \in Conns : client'[d] = "connecting" => client[d] = "connecting"
  OBVIOUS
<1>11. \A i, j \in 1..Len(queue) :
         i < j /\ queue[i].kind = "connect" /\ client'[queue[i].conn] = "connecting" =>
           queue[i].conn \in queue[j].alive
  BY <1>1, <1>10 DEF PortInv, AliveInv
<1>12. \A d \in Conns : comm'[d] = "open" => Alive(d)' \/ Leaves(d, Len(queue))'
  <2> SUFFICES ASSUME NEW d \in Conns, comm'[d] = "open"
               PROVE  Alive(d)' \/ Leaves(d, Len(queue))'
    OBVIOUS
  <2>1. Alive(d) \/ Leaves(d, Len(queue))
    BY <1>2, <1>3 DEF PortInv, QueueInv, AliveInv
  <2>2. Alive(d) => Alive(d)'
    BY DEF Alive
  <2>3. Len(queue) \in Nat
    BY QueueTypes DEF IInv
  <2> QED
    BY <1>8, <2>1, <2>2, <2>3
<1>13. AliveInv'
  BY <1>2, <1>9, <1>11, <1>12 DEF AliveInv
<1> QED
  BY <1>7, <1>13 DEF PortInv

\* The connection just accepted has nothing in the queue, and everybody who
\* has sent since it asked has seen it.
LEMMA AcceptKeeps ==
  ASSUME IInv, PortInv, pc = "connect", pc' = "complete",
         UNCHANGED <<client, portOpen, queue, app, msg>>,
         NEW c \in Conns, c = msg.conn, NEW a \in Addrs,
         client[c] = "connecting", comm[c] = "none",
         comm' = [comm EXCEPT ![c] = "open"], portCtx' = [portCtx EXCEPT ![c] = a]
  PROVE  PortInv'
<1>1. \A i \in 1..Len(queue) : queue[i] \in Message /\ queue[i].conn \in Conns
  BY QueueTypes DEF IInv
<1>2. \A d \in Conns : d # c => comm'[d] = comm[d] /\ portCtx'[d] = portCtx[d]
  BY DEF IInv, TypeOK
<1>3. comm'[c] = "open"
  BY DEF IInv, TypeOK
<1>4. \A i \in 1..Len(queue) : queue[i].conn # c
  BY DEF PortInv, QueueInv, Current, Handling
<1>5. \A i \in 1..Len(queue) : Current(queue[i])'
  BY <1>1, <1>2, <1>4 DEF PortInv, QueueInv, Current
<1>6. QueueInv'
  <2>1. \A d \in Conns : comm'[d] = "open" =>
          client[d] \in {"open", "waiting", "lost", "closed"} \/ (client[d] = "connecting" /\ msg.conn = d)
    BY <1>2 DEF PortInv, QueueInv
  <2>2. \A d \in Conns : client[d] = "new" => comm'[d] = "none"
    BY <1>2 DEF PortInv, QueueInv
  <2>3. portOpen
    BY DEF PortInv, QueueInv, LoopEnded
  <2>4. \A i, j \in 1..Len(queue) : i < j /\ queue[i].conn = queue[j].conn =>
          queue[i].kind # "closed" /\ queue[j].kind = "closed"
    BY DEF PortInv, QueueInv
  <2> QED
    BY <1>4, <1>5, <2>1, <2>2, <2>3, <2>4 DEF QueueInv, Handling
<1>7. \A d, i : Leaves(d, i)' <=> Leaves(d, i)
  BY DEF Leaves
<1>8. \A d \in Conns : \A i \in 1..Len(queue) : comm'[d] = "open" =>
        d \in queue[i].alive \/ Leaves(d, i - 1)'
  BY <1>2, <1>7 DEF PortInv, AliveInv
<1>9. \A d \in Conns : comm'[d] = "open" => Alive(d) \/ Leaves(d, Len(queue))'
  BY <1>2, <1>7 DEF PortInv, QueueInv, AliveInv, Alive, LoopEnded
<1>10. \A i, j \in 1..Len(queue) :
         i < j /\ queue[i].kind = "connect" /\ client[queue[i].conn] = "connecting" =>
           queue[i].conn \in queue[j].alive
  BY DEF PortInv, AliveInv
<1>11. AliveInv'
  BY <1>8, <1>9, <1>10 DEF AliveInv, Alive
<1> QED
  BY <1>6, <1>11 DEF PortInv

LEMMA ConnectKeepsPort == IInv /\ PortInv /\ HandleConnectionRequest => PortInv'
<1> SUFFICES ASSUME IInv, PortInv, HandleConnectionRequest PROVE PortInv'
  OBVIOUS
<1> DEFINE c == msg.conn
<1>1. pc = "connect" /\ c \in Conns /\ UNCHANGED <<portOpen, queue, app>>
  BY QueueTypes DEF HandleConnectionRequest, Handling, IInv
<1>2. client[c] \in {"connecting", "closed"} /\ comm[c] = "none"
  BY <1>1 DEF PortInv, QueueInv, Current
<1>3. CASE Refuse(c) /\ Back /\ UNCHANGED <<comm, portCtx>>
  <2>1. /\ \A d \in Conns : d # c => client'[d] = client[d]
        /\ client'[c] = Refused(c)
    BY <1>1, <1>3 DEF Refuse, IInv, TypeOK
  <2> QED
    BY <1>1, <1>2, <1>3, <2>1, HandledKeeps DEF Handling, Refused
<1>4. ASSUME NEW a \in Addrs, client[c] = "connecting",
             comm' = [comm EXCEPT ![c] = "open"], portCtx' = [portCtx EXCEPT ![c] = a],
             pc' = "complete", UNCHANGED <<client, msg>>
      PROVE  PortInv'
  BY <1>1, <1>2, <1>4, AcceptKeeps
<1> QED
  BY <1>3, <1>4 DEF HandleConnectionRequest

LEMMA CompleteKeepsPort ==
  ASSUME "lateComplete" \notin Faults, IInv, PortInv, CompleteConnect
  PROVE  PortInv'
<1> DEFINE c == msg.conn
<1>1. pc = "complete" /\ c \in Conns /\ Back /\ UNCHANGED <<portCtx, portOpen, queue, app>>
  BY QueueTypes DEF CompleteConnect, Handling, IInv
<1>2. client[c] \in {"connecting", "closed"} /\ comm[c] = "open"
  BY <1>1 DEF PortInv, QueueInv, IInv, CompletingSound
<1>3. CASE client' = [client EXCEPT ![c] = IF client[c] # "connecting" THEN @ ELSE "open"] /\ comm' = comm
  <2>1. /\ \A d \in Conns : d # c => client'[d] = client[d]
        /\ client'[c] = IF client[c] # "connecting" THEN client[c] ELSE "open"
    BY <1>1, <1>3 DEF IInv, TypeOK
  <2> QED
    BY <1>1, <1>2, <1>3, <2>1, HandledKeeps DEF Handling, Alive
<1>4. CASE /\ client[c] = "connecting"
           /\ comm' = [comm EXCEPT ![c] = "closed"]
           /\ client' = [client EXCEPT ![c] = Cut(c)]
  <2>1. /\ \A d \in Conns : d # c => client'[d] = client[d] /\ comm'[d] = comm[d]
        /\ client'[c] = "refused" /\ comm'[c] = "closed"
    BY <1>1, <1>4 DEF Cut, IInv, TypeOK
  <2>2. \A i \in 1..Len(queue) : queue[i].conn # c
    BY <1>1, <1>4 DEF PortInv, QueueInv, Current, Handling
  <2> QED
    BY <1>1, <1>4, <2>1, <2>2, HandledKeeps DEF Handling
<1> QED
  BY <1>3, <1>4 DEF CompleteConnect, Discard

\* The slot of the connection that is reported closed is always found.
LEMMA ClosedSlotFound ==
  ASSUME IInv, PortInv, pc = "closed"
  PROVE  /\ \E i \in Slots : FindClientSlot(i)
         /\ \A i \in Slots : FindClientSlot(i) => heap[slots[i]] = msg.conn
<1>1. msg.conn \in Conns /\ comm[msg.conn] = "open" /\ portCtx[msg.conn] = msg.ctx
  BY QueueTypes DEF Handling, IInv, PortInv, QueueInv, Current
<1>2. msg.ctx \in Addrs /\ heap[msg.ctx] = msg.conn /\ \E i \in Slots : slots[i] = msg.ctx
  BY <1>1, OpenIsReachable
<1> QED
  BY <1>2 DEF FindClientSlot

LEMMA PortClosedKeepsPort == IInv /\ PortInv /\ HandlePortClosed => PortInv'
<1> SUFFICES ASSUME IInv, PortInv, HandlePortClosed PROVE PortInv'
  OBVIOUS
<1> DEFINE c == msg.conn
<1>1. pc = "closed" /\ c \in Conns /\ Back /\ UNCHANGED <<portCtx, portOpen, queue, app>>
  BY QueueTypes DEF HandlePortClosed, Handling, IInv
<1>2. client[c] = "closed" /\ comm[c] = "open"
  BY <1>1 DEF PortInv, QueueInv, Current
<1>3. comm' = [comm EXCEPT ![c] = "closed"] /\ client' = [client EXCEPT ![c] = Cut(c)]
  BY <1>1, ClosedSlotFound DEF HandlePortClosed, Discard
<1>4. /\ \A d \in Conns : d # c => client'[d] = client[d] /\ comm'[d] = comm[d]
      /\ client'[c] = "closed" /\ comm'[c] = "closed"
  BY <1>1, <1>2, <1>3 DEF Cut, IInv, TypeOK
<1>5. \A i \in 1..Len(queue) : queue[i].conn # c
  BY <1>1 DEF PortInv, QueueInv, Handling
<1> QED
  BY <1>1, <1>4, <1>5, HandledKeeps DEF Handling

LEMMA RequestKeepsPort == IInv /\ PortInv /\ HandleRequest => PortInv'
<1> SUFFICES ASSUME IInv, PortInv, HandleRequest PROVE PortInv'
  OBVIOUS
<1> DEFINE c == msg.conn
<1>1. /\ pc = "request" /\ c \in Conns /\ Back
      /\ UNCHANGED <<comm, portCtx, portOpen, queue, app>>
  BY QueueTypes DEF HandleRequest, Handling, IInv
<1>2. client[c] \in {"waiting", "closed"}
  BY <1>1 DEF PortInv, QueueInv, Current
<1>3. /\ \A d \in Conns : d # c => client'[d] = client[d]
      /\ client'[c] = client[c] \/ (client[c] = "waiting" /\ client'[c] \in {"open", "lost"})
  BY <1>1 DEF HandleRequest, Reply, LoseReply, IInv, TypeOK
<1> QED
  BY <1>1, <1>2, <1>3, HandledKeeps DEF Handling, Alive

(***************************************************************************)
(* PortInv is inductive, as long as completing the connection of a client  *)
(* that has already left does not fail: that discards a context for which  *)
(* a port-closed message may already be on its way.                        *)
(***************************************************************************)
LEMMA PortStep ==
  ASSUME "lateComplete" \notin Faults, IInv, PortInv, [Next]_vars
  PROVE  PortInv'
<1>1. CASE UNCHANGED vars
  <2>1. (app = "starting" \/ ~LoopEnded => portOpen)'
    BY <1>1 DEF vars, portVars, loopVars, LoopEnded, PortInv, QueueInv
  <2> QED
    BY <1>1, <2>1, IdleKeeps DEF vars, portVars
<1> QED
  BY <1>1, ClientsKeepPort, AppKeepsPort, TopKeepsPort, ReceiveNothingKeepsPort, ReceiveKeepsPort,
     ConnectKeepsPort, CompleteKeepsPort, PortClosedKeepsPort, RequestKeepsPort DEF Next, Loop

THEOREM PortInvariant ==
  ASSUME "lateComplete" \notin Faults
  PROVE  Spec => [](IInv /\ PortInv)
<1>1. Init => PortInv
  <2> SUFFICES ASSUME Init PROVE PortInv
    OBVIOUS
  <2>1. \A i \in 1..Len(queue) : FALSE
    BY DEF Init
  <2> QED
    BY <2>1 DEF Init, PortInv, QueueInv, AliveInv, Handling, LoopEnded
<1>2. IInv /\ PortInv /\ [Next]_vars => PortInv'
  BY PortStep
<1> QED
  BY <1>1, <1>2, InductiveInvariant, PTL DEF Spec

(***************************************************************************)
(* The handle given to ZwReplyPort is found through the live context of    *)
(* the connection the request came from, although HandleRequest uses the   *)
(* message's context without looking it up.                                *)
(***************************************************************************)
THEOREM ReplyUsesLiveContext ==
  ASSUME "lateComplete" \notin Faults
  PROVE  Spec => []ReplyContextLive
<1>1. IInv /\ PortInv => ReplyContextLive
  <2> SUFFICES ASSUME IInv, PortInv, pc = "request" PROVE heap[msg.ctx] = msg.conn
    BY DEF ReplyContextLive
  <2>1. msg.conn \in Conns /\ comm[msg.conn] = "open" /\ portCtx[msg.conn] = msg.ctx
    BY QueueTypes DEF Handling, IInv, PortInv, QueueInv, Current
  <2> QED
    BY <2>1, OpenIsReachable
<1> QED
  BY <1>1, PortInvariant, PTL

(***************************************************************************)
(* A connection request is decided against a table that holds no           *)
(* connection that was over when the request was sent, and with no message *)
(* in flight the table and the clients agree.                              *)
(***************************************************************************)
THEOREM TableKeepsUp ==
  ASSUME "lateComplete" \notin Faults
  PROVE  Spec => []TableUpToDate
<1>1. IInv => \A c \in Served : c \in Conns /\ comm[c] = "open"
  BY DEF IInv, TypeOK, TableSound, Served
<1>2. IInv /\ PortInv => NoStaleSlotAtConnect
  BY <1>1 DEF NoStaleSlotAtConnect, PortInv, AliveInv
<1>3. IInv /\ PortInv => QuiescentAgreement
  <2> SUFFICES ASSUME IInv, PortInv, pc = "receive", queue = <<>>
               PROVE  Served = {c \in Conns : client[c] \in {"open", "waiting", "lost"}}
    BY DEF QuiescentAgreement
  <2>1. ASSUME NEW c \in Served PROVE c \in Conns /\ client[c] \in {"open", "waiting", "lost"}
    <3>1. c \in Conns /\ comm[c] = "open" /\ portOpen
      BY <1>1 DEF PortInv, QueueInv, LoopEnded
    <3>2. \A k \in 1..Len(queue) : FALSE
      OBVIOUS
    <3>3. Alive(c)
      BY <3>1, <3>2 DEF PortInv, AliveInv, Leaves
    <3> QED
      BY <3>1, <3>3 DEF PortInv, QueueInv, Alive
  <2>2. ASSUME NEW c \in Conns, client[c] \in {"open", "waiting", "lost"} PROVE c \in Served
    <3>1. comm[c] = "open"
      BY <2>2 DEF IInv, EstablishedIsOpen
    <3>2. portCtx[c] \in Addrs /\ heap[portCtx[c]] = c /\ \E i \in Slots : slots[i] = portCtx[c]
      BY <3>1, OpenIsReachable
    <3> QED
      BY <3>2 DEF Served
  <2> QED
    BY <2>1, <2>2
<1> QED
  BY <1>2, <1>3, PortInvariant, PTL DEF TableUpToDate

-----------------------------------------------------------------------------
(***************************************************************************)
(* The library implements ClientTable.                                     *)
(***************************************************************************)
Gone == {c \in Conns : client[c] = "closed"}
Up == app \in {"running", "stopping"}

TableStutter == Served' = Served /\ Gone' = Gone /\ Up' = Up

LEMMA SameTable ==
  ASSUME UNCHANGED <<heap, slots>>
  PROVE  Served' = Served
  BY DEF Served

\* A free slot is room in the table.
LEMMA RoomForOne ==
  ASSUME IInv, NEW i \in Slots, slots[i] = Null
  PROVE  Cardinality(Served) < NumSlots
<1> DEFINE J == {j \in Slots : slots[j] # Null}
           f == [j \in J |-> heap[slots[j]]]
<1>1. IsFiniteSet(Slots) /\ Cardinality(Slots) = NumSlots
  BY FS_Interval
<1>2. IsFiniteSet(J) /\ Cardinality(J) < NumSlots
  <2>1. IsFiniteSet(J) /\ Cardinality(J) <= NumSlots /\ Cardinality(J) # NumSlots
    <3>1. J \in SUBSET Slots /\ J # Slots
      OBVIOUS
    <3> HIDE DEF J, Slots
    <3>2. /\ IsFiniteSet(J)
          /\ Cardinality(J) <= Cardinality(Slots)
          /\ Cardinality(Slots) = Cardinality(J) => Slots = J
      BY <1>1, <3>1, FS_Subset
    <3> QED
      BY <1>1, <3>1, <3>2
  <2>2. Cardinality(J) \in Nat
    BY <2>1, FS_CardinalityType
  <2> QED
    BY <2>1, <2>2
<1>3. f \in Surjection(J, Served)
  BY DEF Surjection, Served
<1>4. IsFiniteSet(Served) /\ Cardinality(Served) <= Cardinality(J)
  <2> HIDE DEF J, f
  <2> QED
    BY <1>2, <1>3, FS_Surjection
<1>5. Cardinality(Served) \in Nat /\ Cardinality(J) \in Nat
  BY <1>2, <1>4, FS_CardinalityType
<1> QED
  BY <1>2, <1>4, <1>5

LEMMA ClientsRefine == IInv /\ Clients => TableStutter \/ \E c \in Conns : Table!ClientGone(c)
<1> SUFFICES ASSUME IInv, NEW c \in Conns, Connect(c) \/ Request(c) \/ Disconnect(c)
             PROVE  TableStutter \/ Table!ClientGone(c)
  BY DEF Clients
<1> USE DEF IInv, TypeOK
<1>1. Served' = Served /\ Up' = Up
  BY SameTable DEF Connect, Request, Disconnect, Up
<1>2. CASE Connect(c) \/ Request(c)
  <2>1. Gone' = Gone
    BY <1>2 DEF Connect, Request, Gone
  <2> QED
    BY <1>1, <2>1 DEF TableStutter
<1>3. CASE Disconnect(c)
  <2>1. c \notin Gone /\ Gone' = Gone \cup {c}
    BY <1>3 DEF Disconnect, Alive, Gone
  <2> QED
    BY <1>1, <2>1 DEF Table!ClientGone, Gone, Up
<1> QED
  BY <1>2, <1>3

LEMMA AppRefines == IInv /\ App => TableStutter \/ Table!Start \/ Table!Stop
<1> SUFFICES ASSUME IInv, App PROVE TableStutter \/ Table!Start \/ Table!Stop
  OBVIOUS
<1>1. CASE StartInitPort \/ StopSignal
  <2>1. Served' = Served /\ Gone' = Gone /\ Up' = Up
    BY <1>1, SameTable DEF StartInitPort, StopSignal, portVars, Gone, Up
  <2> QED
    BY <2>1 DEF TableStutter
<1>2. CASE StartThread
  <2>1. Served' = Served /\ Gone' = Gone /\ ~Up /\ Up'
    BY <1>2, SameTable DEF StartThread, portVars, Gone, Up
  <2> QED
    BY <2>1 DEF Table!Start, Gone, Up
<1>3. CASE StopFinish
  <2>1. Up /\ ~Up'
    BY <1>3 DEF StopFinish, Up
  <2>2. Served' = {}
    BY <1>3 DEF StopFinish, Served, WalkedSlots
  <2>3. Gone' = Gone
    BY <1>3 DEF StopFinish, Gone, Cut, Refused
  <2> QED
    BY <2>1, <2>2, <2>3 DEF Table!Stop, Gone, Up
<1> QED
  BY <1>1, <1>2, <1>3 DEF App

LEMMA ConnectRefines == IInv /\ HandleConnectionRequest => TableStutter
<1> SUFFICES ASSUME IInv, HandleConnectionRequest PROVE TableStutter
  OBVIOUS
<1> USE DEF IInv, TypeOK
<1>1. slots' = slots /\ app' = app /\ msg.conn \in Conns
  BY DEF HandleConnectionRequest, Message
<1>2. Gone' = Gone
  BY <1>1 DEF HandleConnectionRequest, Refuse, Refused, Gone
<1>3. \A i \in Slots : slots[i] # Null => heap'[slots[i]] = heap[slots[i]]
  BY DEF HandleConnectionRequest, TableSound
<1>4. Served' = Served
  BY <1>1, <1>3 DEF Served
<1> QED
  BY <1>1, <1>2, <1>4 DEF TableStutter, Up

LEMMA CompleteRefines ==
  IInv /\ CompleteConnect => TableStutter \/ \E c \in Conns : Table!Admit(c)
<1> SUFFICES ASSUME IInv, CompleteConnect
             PROVE  TableStutter \/ \E c \in Conns : Table!Admit(c)
  OBVIOUS
<1> USE DEF IInv, TypeOK
<1> DEFINE c == msg.conn
<1>1. /\ c \in Conns /\ newCtx \in Addrs /\ heap[newCtx] = c
      /\ slot \in Slots /\ slots[slot] = Null
      /\ \A i \in Slots : slots[i] # newCtx
      /\ portCtx[c] = newCtx
      /\ \/ PidOf[c] = SystemPid
         \/ \A i \in Slots : slots[i] # Null => PidOf[heap[slots[i]]] # PidOf[c]
  BY DEF CompleteConnect, CompletingSound, Message
<1>2. Up /\ Up' /\ Gone' = Gone
  <2>1. Up /\ Up'
    BY DEF CompleteConnect, PhaseSound, LoopEnded, Up
  <2>2. Gone' = Gone
    BY <1>1 DEF CompleteConnect, Gone, Cut
  <2> QED
    BY <2>1, <2>2
<1>3. CASE Store /\ UNCHANGED <<comm, heap>>
  <2>1. Served' = Served \cup {c}
    <3>1. \A i \in Slots : slots'[i] = IF i = slot THEN newCtx ELSE slots[i]
      BY <1>1, <1>3 DEF Store
    <3>2. newCtx # Null /\ heap' = heap
      BY <1>1, <1>3
    <3>3. \A d : d \in Served' <=> \E i \in Slots : slots'[i] # Null /\ heap[slots'[i]] = d
      BY <3>2 DEF Served
    <3>4. \A d : d \in Served <=> \E i \in Slots : slots[i] # Null /\ heap[slots[i]] = d
      BY DEF Served
    <3>5. c \in Served'
      BY <1>1, <3>1, <3>2, <3>3
    <3>6. ASSUME NEW d \in Served PROVE d \in Served'
      BY <1>1, <3>1, <3>3, <3>4, <3>6
    <3>7. ASSUME NEW d \in Served' PROVE d \in Served \/ d = c
      BY <1>1, <3>1, <3>3, <3>4, <3>7
    <3> QED
      BY <3>5, <3>6, <3>7
  <2>2. c \notin Served
    BY <1>1 DEF Served, TableSound
  <2>3. PidOf[c] = SystemPid \/ \A d \in Served : PidOf[d] # PidOf[c]
    BY <1>1 DEF Served
  <2>4. Cardinality(Served) < NumSlots
    BY <1>1, RoomForOne
  <2>5. Table!CanAdmit(c)
    <3>1. Table!Cardinality(Served) = Cardinality(Served)
      BY DEF Table!Cardinality, Cardinality
    <3> QED
      BY <2>3, <2>4, <3>1 DEF Table!CanAdmit
  <2> QED
    BY <1>1, <1>2, <2>1, <2>2, <2>5 DEF Table!Admit, Gone, Up
<1>4. CASE Discard(c, newCtx) /\ UNCHANGED slots
  <2>1. Served' = Served
    BY <1>1, <1>4 DEF Discard, Served
  <2> QED
    BY <1>2, <2>1 DEF TableStutter
<1> QED
  BY <1>3, <1>4 DEF CompleteConnect

LEMMA PortClosedRefines ==
  IInv /\ PortInv /\ HandlePortClosed => \E c \in Conns : Table!Drop(c)
<1> SUFFICES ASSUME IInv, PortInv, HandlePortClosed PROVE \E c \in Conns : Table!Drop(c)
  OBVIOUS
<1> USE DEF IInv, TypeOK
<1>1. PICK i \in Slots : /\ slots[i] # Null
                         /\ Discard(heap[slots[i]], slots[i])
                         /\ client' = [client EXCEPT ![heap[slots[i]]] = Cut(heap[slots[i]])]
                         /\ ClearSlot(i)
                         /\ heap[slots[i]] = msg.conn
  BY ClosedSlotFound DEF HandlePortClosed, FindClientSlot
<1> DEFINE c == msg.conn
<1>2. pc = "closed" /\ app' = app
  BY DEF HandlePortClosed
<1>3. c \in Conns /\ client[c] = "closed"
  BY <1>2, QueueTypes DEF Handling, PortInv, QueueInv, Current
<1>4. Gone' = Gone /\ c \in Gone /\ Up' = Up
  BY <1>1, <1>2, <1>3 DEF Gone, Cut, Up
<1>5. c \in Served
  BY <1>1 DEF Served
<1>6. Served' = Served \ {c}
  <2>1. \A j \in Slots : slots'[j] # Null =>
          slots'[j] = slots[j] /\ heap'[slots[j]] = heap[slots[j]] /\ heap[slots[j]] # c
    BY <1>1, OthersUnaffected DEF Discard, ClearSlot
  <2>2. \A j \in Slots : j # i => slots'[j] = slots[j]
    BY <1>1 DEF ClearSlot
  <2> QED
    BY <1>1, <2>1, <2>2 DEF Served
<1> QED
  BY <1>3, <1>4, <1>5, <1>6 DEF Table!Drop, Gone, Up

LEMMA RestRefines ==
  IInv /\ (LoopTop \/ ReceiveNothing \/ Receive \/ HandleRequest \/ UNCHANGED vars) => TableStutter
<1> SUFFICES ASSUME IInv, LoopTop \/ ReceiveNothing \/ Receive \/ HandleRequest \/ UNCHANGED vars
             PROVE  TableStutter
  OBVIOUS
<1>1. Served' = Served /\ Up' = Up
  BY SameTable DEF LoopTop, ReceiveNothing, Receive, HandleRequest, vars, Up
<1>2. \A c \in Conns : client'[c] = "closed" <=> client[c] = "closed"
  BY DEF LoopTop, Refused, ReceiveNothing, Receive, HandleRequest, Reply, LoseReply, vars, portVars, IInv, TypeOK
<1> QED
  BY <1>1, <1>2 DEF TableStutter, Gone

(***************************************************************************)
(* Every behaviour of the library is one of ClientTable: at most NumSlots  *)
(* connections are served, one for each process but System, and each until *)
(* its client has closed it or the server stops.                           *)
(***************************************************************************)
THEOREM LibraryImplementsTable ==
  ASSUME "lateComplete" \notin Faults
  PROVE  Spec => ImplementsClientTable
<1>1. Init => Table!Init
  BY DEF Init, Table!Init, Served
<1>2. IInv /\ PortInv /\ [Next]_vars => [Table!Next]_(Table!vars)
  <2> SUFFICES ASSUME IInv, PortInv, [Next]_vars PROVE [Table!Next]_(Table!vars)
    OBVIOUS
  <2>1. CASE TableStutter
    BY <2>1 DEF TableStutter, Table!vars, Gone, Up
  <2> QED
    BY <2>1, ClientsRefine, AppRefines, ConnectRefines, CompleteRefines, PortClosedRefines,
       RestRefines DEF Next, Loop, Table!Next
<1> QED
  BY <1>1, <1>2, PortInvariant, PTL DEF Spec, ImplementsClientTable, Table!Spec
=============================================================================
