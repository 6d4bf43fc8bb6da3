----------------------------- MODULE MCRegUtils -----------------------------
(***************************************************************************)
(* RegUtils on three strings, of which a and A are the same to _wcsicmp,   *)
(* and a key with two sub keys, one of which has one itself.               *)
(***************************************************************************)
EXTENDS RegUtils

CONSTANTS t1, t2, a, A, b, root, left, right, below

MCLength == [s \in Strings |-> IF s = b THEN 2 ELSE 1]
MCFolded == [s \in Strings |-> IF s = A THEN a ELSE s]

MCParentOf == [k \in Keys \ {root} |-> IF k = below THEN left ELSE root]
MCKeyOrder == [k \in Keys |-> CASE k = left -> 1 [] k = right -> 2 [] OTHER -> 3]

\* Nothing is in the way, or one thing: below it a deletion is endless.
InTheWay(key, kind) == [k \in Keys |-> IF k = key THEN kind ELSE "none"]
MCObstacles ==
    {InTheWay(root, "none"), InTheWay(right, "open"), InTheWay(left, "enumerate"),
     InTheWay(right, "delete"), InTheWay(below, "open")}

\* One thread deletes, or takes the last string away; the other edits and
\* deletes.
AddFirst == [op |-> "add", str |-> b, after |-> Start]
AddAfter == [op |-> "add", str |-> b, after |-> a]
RemoveLast == [op |-> "remove", str |-> A, deleteOnEmpty |-> TRUE]
RemoveKeep == [op |-> "remove", str |-> b, deleteOnEmpty |-> FALSE]
DeleteAll == [op |-> "deleteAll"]

MCCallsOf ==
    [t \in Threads |-> IF t = t1 THEN {RemoveLast, DeleteAll}
                                 ELSE {AddFirst, AddAfter, RemoveKeep, DeleteAll}]

\* One thread, every call.
MCAllCalls == [t \in Threads |-> CallRecord]

MCValues == {<<Empty>>, <<b, a>>}

(***************************************************************************)
(* The multi-string functions agree with the reference on every list of at *)
(* most three strings, except where the copy is empty and the string is to *)
(* go to the end.                                                          *)
(***************************************************************************)
Lists == {<<Empty>>} \cup UNION {[1..n -> Strings] : n \in 1..3}

ASSUME DeleteMeetsReference ==
    \A m \in Lists, s \in Strings :
        {ListOf(copy) : copy \in CopyDelete(m, s)} = ListRemove(ListOf(m), s)

ASSUME AddMeetsReference ==
    \A m \in Lists, s \in Strings, after \in Places :
        after # End \/ Without(ListOf(m), s) # <<>> =>
            /\ {ListOf(copy) : copy \in CopyAdd(m, s, after)} = ListAdd(ListOf(m), s, after)
            /\ \A copy \in CopyAdd(m, s, after) : Proper(copy)
=============================================================================
