----------------------------- MODULE LinkListLib -----------------------------
(***************************************************************************)
(* CLinkListLib: a doubly linked list with a count, used by any number of  *)
(* threads under a CCriticalSection.                                       *)
(*                                                                         *)
(* The links are stored from both sides, link["f"] is Flink and link["b"]  *)
(* is Blink, so that what is done at the tail is what is done at the head  *)
(* seen from the other side.  Every write of a link that another thread    *)
(* could see is a step, and so is every node a search visits.              *)
(*                                                                         *)
(* The user keeps to three rules: an element is pushed only while nobody   *)
(* else has it, Start and Stop do not run beside other calls, and Stop is  *)
(* called once for each Start.                                             *)
(***************************************************************************)
EXTENDS CriticalSection, Sequences, FiniteSets, SequencesExt

CONSTANTS
    Elems,      \* ILinkListElements
    Head0,      \* m_ListHead
    Null

ASSUME ElemsAssumption ==
    /\ IsFiniteSet(Elems)
    /\ Null \notin Elems
    /\ Head0 \notin Elems
    /\ Head0 # Null

Nodes == Elems \cup {Head0}
Sides == {"f", "b"}
Other(s) == IF s = "f" THEN "b" ELSE "f"

VARIABLES
    link,       \* Flink and Blink of every node
    count,      \* m_NumberOfElements
    live,       \* m_Lock is a lock: between Start and Stop
    pc,         \* where each thread is
    op,         \* the operation it is in
    arg,        \* the element it pushes or searches
    cur,        \* Entry, or temp of a search
    near,       \* its neighbour, NextEntry or PrevEntry
    got         \* RetVal

listVars == <<link, count>>
localVars == <<pc, op, arg, cur, near, got>>
vars == <<lockVars, listVars, live, localVars>>

Pushes == {"pushHead", "pushTail"}
Pops == {"popHead", "popTail"}
Side(t) == IF op[t] \in {"pushTail", "popTail"} THEN "b" ELSE "f"

Init ==
    /\ LockInit
    /\ link = [s \in Sides |-> [n \in Nodes |-> Null]]
    /\ count = 0
    /\ live = FALSE
    /\ pc = [t \in Threads |-> "idle"]
    /\ op = [t \in Threads |-> "none"]
    /\ arg = [t \in Threads |-> Null]
    /\ cur = [t \in Threads |-> Null]
    /\ near = [t \in Threads |-> Null]
    /\ got = [t \in Threads |-> Null]

-----------------------------------------------------------------------------
(***************************************************************************)
(* The list as a sequence: the elements a side's links lead to, from the   *)
(* head on, until they leave the elements.                                 *)
(***************************************************************************)
Walk(s) ==
    LET node[i \in 0 .. Cardinality(Elems)] ==
            IF i = 0 THEN link[s][Head0]
            ELSE IF node[i - 1] \in Elems THEN link[s][node[i - 1]] ELSE node[i - 1]
    IN node

Chain(s) ==
    LET node == Walk(s)
        len == Cardinality({i \in 0 .. Cardinality(Elems) : node[i] \in Elems})
    IN [i \in 1 .. len |-> node[i - 1]]

List == IF live THEN Chain("f") ELSE <<>>

\* An element nobody has: the user may push it.
Unused(e) ==
    /\ e \notin ToSet(List)
    /\ \A t \in Threads : pc[t] # "idle" => cur[t] # e /\ (op[t] \in Pushes => arg[t] # e)

AllIdle == \A t \in Threads : pc[t] = "idle"

-----------------------------------------------------------------------------
\* Start: an empty list and, memory permitting, a lock.
Start ==
    /\ ~live
    /\ link' = [s \in Sides |-> [link[s] EXCEPT ![Head0] = Head0]]
    /\ count' = 0
    /\ live' \in BOOLEAN
    /\ UNCHANGED <<lockVars, localVars>>

\* Stop deletes the lock; the elements are left to the user.
Stop ==
    /\ live
    /\ AllIdle
    /\ live' = FALSE
    /\ UNCHANGED <<lockVars, listVars, localVars>>

Goto(t, to) == pc' = [pc EXCEPT ![t] = to]

\* A call begins: GetElement without Removal is "find", with it "take".
Call(t) ==
    /\ live
    /\ pc[t] = "idle"
    /\ \E o \in Pushes \cup Pops \cup {"find", "take"}, e \in Elems \cup {Null} :
        /\ o \in Pops <=> e = Null
        /\ o \in Pushes => Unused(e)
        /\ kernel /\ t \in Dispatch => o = "find"
        /\ op' = [op EXCEPT ![t] = o]
        /\ arg' = [arg EXCEPT ![t] = e]
        /\ Goto(t, IF o = "find" THEN "shared" ELSE "owner")
    /\ UNCHANGED <<lockVars, listVars, live, cur, near, got>>

-----------------------------------------------------------------------------
(***************************************************************************)
(* The lock, from the constructor and the destructor of CCriticalSection.  *)
(***************************************************************************)
Body(t) == IF op[t] \in {"find", "take"} THEN "search" ELSE "read"

\* A search begins at the first node.
EnterBody(t) ==
    /\ Goto(t, Body(t))
    /\ cur' = [cur EXCEPT ![t] = IF Body(t) = "search" THEN link["f"][Head0] ELSE Null]

EnterShared(t) ==
    /\ pc[t] = "shared"
    /\ AcquireShared(t)
    /\ EnterBody(t)
    /\ UNCHANGED <<listVars, live, op, arg, near, got>>

ResourceOnly(t) == \* mutant
    /\ pc[t] = "owner" /\ AcquireOwner(t) /\ EnterBody(t)
    /\ UNCHANGED <<listVars, live, op, arg, near, got>>
EnterOwner(t) ==
    /\ pc[t] = "owner"
    /\ AcquireOwner(t)
    /\ IF kernel THEN Goto(t, "spin") /\ UNCHANGED cur ELSE EnterBody(t)
    /\ UNCHANGED <<listVars, live, op, arg, near, got>>

EnterSpin(t) ==
    /\ pc[t] = "spin"
    /\ AcquireSpin(t)
    /\ EnterBody(t)
    /\ UNCHANGED <<listVars, live, op, arg, near, got>>

\* The caller has what is in got, and the locals are out of scope.
Return(t) ==
    /\ Goto(t, "idle")
    /\ op' = [op EXCEPT ![t] = "none"]
    /\ arg' = [arg EXCEPT ![t] = Null]
    /\ cur' = [cur EXCEPT ![t] = Null]
    /\ near' = [near EXCEPT ![t] = Null]
    /\ got' = [got EXCEPT ![t] = Null]
    /\ UNCHANGED <<listVars, live>>

LeaveShared(t) ==
    /\ pc[t] = "leave"
    /\ op[t] = "find"
    /\ ReleaseShared(t)
    /\ Return(t)

LeaveSpin(t) ==
    /\ pc[t] = "leave"
    /\ op[t] # "find"
    /\ kernel
    /\ ReleaseSpin(t)
    /\ Goto(t, "leaveOwner")
    /\ UNCHANGED <<listVars, live, op, arg, cur, near, got>>

LeaveOwner(t) ==
    /\ pc[t] = "leaveOwner" \/ (pc[t] = "leave" /\ op[t] # "find" /\ ~kernel)
    /\ ReleaseOwner(t)
    /\ Return(t)

-----------------------------------------------------------------------------
(***************************************************************************)
(* ListInsertHeadList, ListInsertTailList.                                 *)
(***************************************************************************)
PushRead(t) ==
    /\ pc[t] = "read"
    /\ op[t] \in Pushes
    /\ near' = [near EXCEPT ![t] = link[Side(t)][Head0]]
    /\ link' = [link EXCEPT ![Side(t)][arg[t]] = link[Side(t)][Head0],
                            ![Other(Side(t))][arg[t]] = Head0]
    /\ Goto(t, "link")
    /\ UNCHANGED <<lockVars, count, live, op, arg, cur, got>>

\* A corrupt list is left alone: the element is lost.
PushChecks(t) == link[Other(Side(t))][near[t]] = Head0

PushLink(t) ==
    /\ pc[t] = "link"
    /\ op[t] \in Pushes
    /\ IF PushChecks(t)
       THEN /\ link' = [link EXCEPT ![Other(Side(t))][near[t]] = arg[t]]
            /\ Goto(t, "finish")
       ELSE Goto(t, "leave") /\ UNCHANGED link
    /\ UNCHANGED <<lockVars, count, live, op, arg, cur, near, got>>

PushFinish(t) ==
    /\ pc[t] = "finish"
    /\ op[t] \in Pushes
    /\ link' = [link EXCEPT ![Side(t)][Head0] = arg[t]]
    /\ count' = count + 1
    /\ Goto(t, "leave")
    /\ UNCHANGED <<lockVars, live, op, arg, cur, near, got>>

-----------------------------------------------------------------------------
(***************************************************************************)
(* ListRemoveHeadList, ListRemoveTailList, if the list is not empty.       *)
(***************************************************************************)
NeverEmpty == FALSE \* mutant
IsListEmpty == link["f"][Head0] = Head0

PopRead(t) ==
    /\ pc[t] = "read"
    /\ op[t] \in Pops
    /\ LET entry == link[Side(t)][Head0]
       IN IF IsListEmpty THEN Goto(t, "leave") /\ UNCHANGED <<cur, near>>
          ELSE /\ cur' = [cur EXCEPT ![t] = entry]
               /\ near' = [near EXCEPT ![t] = link[Side(t)][entry]]
               /\ Goto(t, "link")
    /\ UNCHANGED <<lockVars, listVars, live, op, arg, got>>

PopChecks(t) ==
    /\ link[Other(Side(t))][cur[t]] = Head0
    /\ link[Other(Side(t))][near[t]] = cur[t]

\* Seen along Flink the element is gone after the first write at the head,
\* after the second at the tail; RetVal is set by the same step here.
PopLink(t) ==
    /\ pc[t] = "link"
    /\ op[t] \in Pops
    /\ IF PopChecks(t)
       THEN /\ link' = [link EXCEPT ![Side(t)][Head0] = near[t]]
            /\ got' = IF Side(t) = "f" THEN [got EXCEPT ![t] = cur[t]] ELSE got
            /\ Goto(t, "finish")
       ELSE Goto(t, "leave") /\ UNCHANGED <<link, got>>
    /\ UNCHANGED <<lockVars, count, live, op, arg, cur, near>>

OneLinkOnly(t) == UNCHANGED link \* mutant
SecondLink(t) == link' = [link EXCEPT ![Other(Side(t))][near[t]] = Head0]

NotCounted == UNCHANGED count \* mutant
Removed == count' = count - 1

PopFinish(t) ==
    /\ pc[t] = "finish"
    /\ op[t] \in Pops
    /\ SecondLink(t)
    /\ Removed
    /\ got' = [got EXCEPT ![t] = cur[t]]
    /\ Goto(t, "leave")
    /\ UNCHANGED <<lockVars, live, op, arg, cur, near>>

-----------------------------------------------------------------------------
(***************************************************************************)
(* GetElementCommon: the callback finds the element of the context.        *)
(***************************************************************************)
\* One node of the loop.
Search(t) ==
    /\ pc[t] = "search"
    /\ LET found == cur[t] = arg[t]
       IN /\ Goto(t, IF cur[t] = Head0 THEN "leave"
                     ELSE IF ~found THEN "search"
                     ELSE IF op[t] = "take" THEN "link" ELSE "leave")
          /\ cur' = IF cur[t] = Head0 \/ found THEN cur ELSE [cur EXCEPT ![t] = link["f"][cur[t]]]
          /\ got' = IF found /\ op[t] = "find" THEN [got EXCEPT ![t] = cur[t]] ELSE got
    /\ UNCHANGED <<lockVars, listVars, live, op, arg, near>>

TakeChecks(t) ==
    /\ link["b"][link["f"][cur[t]]] = cur[t]
    /\ link["f"][link["b"][cur[t]]] = cur[t]

\* RemoveElement; its result is ignored.
TakeLink(t) ==
    /\ pc[t] = "link"
    /\ op[t] = "take"
    /\ got' = [got EXCEPT ![t] = cur[t]]
    /\ IF TakeChecks(t)
       THEN /\ link' = [link EXCEPT !["f"][link["b"][cur[t]]] = link["f"][cur[t]]]
            /\ near' = [near EXCEPT ![t] = link["f"][cur[t]]]
            /\ Goto(t, "finish")
       ELSE Goto(t, "leave") /\ UNCHANGED <<link, near>>
    /\ UNCHANGED <<lockVars, count, live, op, arg, cur>>

TakeFinish(t) ==
    /\ pc[t] = "finish"
    /\ op[t] = "take"
    /\ link' = [link EXCEPT !["b"][near[t]] = link["b"][cur[t]]]
    /\ Removed
    /\ Goto(t, "leave")
    /\ UNCHANGED <<lockVars, live, op, arg, cur, near, got>>

-----------------------------------------------------------------------------
LockSteps(t) ==
    \/ EnterShared(t) \/ EnterOwner(t) \/ EnterSpin(t)
    \/ LeaveShared(t) \/ LeaveSpin(t) \/ LeaveOwner(t)

ListSteps(t) ==
    \/ PushRead(t) \/ PushLink(t) \/ PushFinish(t)
    \/ PopRead(t) \/ PopLink(t) \/ PopFinish(t)
    \/ Search(t) \/ TakeLink(t) \/ TakeFinish(t)

Next == Start \/ Stop \/ \E t \in Threads : Call(t) \/ LockSteps(t) \/ ListSteps(t)

Spec == Init /\ [][Next]_vars

(***************************************************************************)
(* A thread in a call runs on; both locks are granted in the order of the  *)
(* requests, so that nobody waits for ever.                                *)
(***************************************************************************)
FairSpec == Spec /\ \A t \in Threads : SF_vars(LockSteps(t) \/ ListSteps(t))

-----------------------------------------------------------------------------
TypeOK ==
    /\ LockTypeOK
    /\ link \in [Sides -> [Nodes -> Nodes \cup {Null}]]
    /\ count \in 0 .. Cardinality(Elems)
    /\ live \in BOOLEAN
    /\ pc \in [Threads -> {"idle", "shared", "owner", "spin", "read", "search", "link", "finish",
                           "leave", "leaveOwner"}]
    /\ op \in [Threads -> Pushes \cup Pops \cup {"none", "find", "take"}]
    /\ arg \in [Threads -> Elems \cup {Null}]
    /\ cur \in [Threads -> Nodes \cup {Null}]
    /\ near \in [Threads -> Nodes \cup {Null}]
    /\ got \in [Threads -> Elems \cup {Null}]

Inside(t) == pc[t] \in {"read", "search", "link", "finish", "leave"}
Writes(t) == Inside(t) /\ op[t] # "find"

(***************************************************************************)
(* A thread that may change the list is alone in it, although a reader at  *)
(* DISPATCH_LEVEL takes only the spin lock and another one only the        *)
(* resource.                                                               *)
(***************************************************************************)
WriterAlone == \A t, u \in Threads : t # u /\ Writes(t) => ~Inside(u)

(***************************************************************************)
(* A reader, and a thread that comes next, finds the list whole: Blink     *)
(* leads back along the way of Flink, the count is exact, and no check of  *)
(* a link that is about to be changed fails, so that no element is lost    *)
(* and no NULL is returned from a list that is not empty.                  *)
(***************************************************************************)
LinksSound ==
    /\ live /\ (\A t \in Threads : ~Writes(t)) => Chain("b") = Reverse(List) /\ count = Len(List)
    /\ \A t \in Threads : pc[t] = "link" =>
        CASE op[t] \in Pushes -> PushChecks(t)
          [] op[t] \in Pops -> PopChecks(t)
          [] OTHER -> TakeChecks(t)

(***************************************************************************)
(* A search that finds nothing, and a pop that returns NULL, are right:    *)
(* nothing of that kind was in the list when they looked.                  *)
(***************************************************************************)
NothingMissed ==
    \A t \in Threads : pc[t] = "leave" /\ got[t] = Null /\ op[t] \notin Pushes =>
        IF op[t] \in Pops THEN List = <<>> ELSE arg[t] \notin ToSet(List)

\* The list is whole, and nobody overlooks what is in it.
ListSound == LinksSound /\ NothingMissed

Abstract == INSTANCE SharedList WITH
    list <- List, want <- arg, got <- got, None <- Null

\* Every operation takes effect at one instant, on a sequence.
ImplementsSharedList == Abstract!Spec

\* Every call returns.
EveryCallReturns == \A t \in Threads : pc[t] # "idle" ~> pc[t] = "idle"
=============================================================================
