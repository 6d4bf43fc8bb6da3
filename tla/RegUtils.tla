------------------------------ MODULE RegUtils ------------------------------
(***************************************************************************)
(* CRegUtils: threads that edit one REG_MULTI_SZ value and delete the key  *)
(* it is in with everything below.                                         *)
(*                                                                         *)
(* Each call of the registry is a step, and so is each call of CRegUtils:  *)
(* the class has no lock.  An edit asks for the size of the value, reads   *)
(* it, and writes what it makes of it; RegDeleteAllKeys walks the key tree *)
(* with one stack frame per level.  The registry, memory and the caller's  *)
(* choice of calls are external.  A key may have an obstacle, which makes   *)
(* one kind of call fail for it whenever it is made; any other call of the *)
(* system may fail as long as there are "faults".                          *)
(***************************************************************************)
EXTENDS MultiString, FiniteSets

CONSTANTS
    Threads,
    CallsOf,        \* the calls that each thread makes, see CallRecord
    Keys,           \* the key with the value and the keys below it
    Root,           \* the key with the value
    ParentOf,       \* the key above each other key
    KeyOrder,       \* the place of each key in the order of ZwEnumerateKey
    Obstacles,      \* what may be in the way at which key
    Values,         \* the value at the beginning, and what unset memory may hold
    MaxFaults,      \* bound: how many calls of the system fail for once
    MaxStrings,     \* bound: a thread adds only to a value with fewer strings
    Null

CallRecord ==
    [op : {"add"}, str : Strings, after : Places]
    \cup [op : {"remove"}, str : Strings, deleteOnEmpty : BOOLEAN]
    \cup [op : {"deleteAll"}]

(***************************************************************************)
(* "open": the key cannot be opened for all access.  "enumerate": its name *)
(* does not fit into the 512 bytes that ZwEnumerateKey is given.           *)
(* "delete": ZwDeleteKey fails, also when nothing is below the key.        *)
(***************************************************************************)
ObstacleKinds == {"none", "open", "enumerate", "delete"}

ASSUME RegAssumption ==
    /\ CallsOf \in [Threads -> SUBSET CallRecord]
    /\ Root \in Keys
    /\ MaxFaults \in Nat
    /\ ParentOf \in [Keys \ {Root} -> Keys]
    /\ KeyOrder \in [Keys -> Nat]
    /\ Obstacles \subseteq {o \in [Keys -> ObstacleKinds] : o[Root] = "none"}
    /\ Null \notin CallRecord

\* A value: its strings and its length in WCHARs, or Null.  NoStrings is the
\* one zero that Remove writes when the last string has gone.
Stored(strs) == [strs |-> strs, len |-> GetMultiStringSize(strs)]
NoStrings == [strs |-> <<>>, len |-> 1]

VARIABLES
    value,      \* the value of Root, or Null
    keys,       \* the keys that exist
    obstacle,   \* what is in the way at each key
    faults,     \* how many more calls of the system may fail for once
    call,       \* what a thread is doing, or Null
    pc,         \* where it is in the call
    allocated,  \* WCHARs of its ParameterValue
    length,     \* its ParameterLength, in WCHARs
    buffer,     \* the strings in its ParameterValue
    stack,      \* its handles to keys, with the frames of RegDeleteAllSubKeys
                \* that they are in, the last one first
    found,      \* the name in keyInfo
    handles,    \* the key handles it has open
    pool,       \* the blocks of memory it has allocated
    success,    \* what the last call has returned
    seen        \* history: what a call has found, as long as it is undisturbed

registry == <<value, keys, obstacle>>
editVars == <<allocated, length, buffer>>
walkVars == <<stack, found>>
vars == <<registry, faults, call, pc, editVars, walkVars, handles, pool, success, seen>>

Init ==
    /\ keys = Keys
    /\ value \in {Null} \cup {Stored(v) : v \in Values}
    /\ obstacle \in Obstacles
    /\ faults = MaxFaults
    /\ call = [t \in Threads |-> Null]
    /\ pc = [t \in Threads |-> "idle"]
    /\ allocated = [t \in Threads |-> 0]
    /\ length = [t \in Threads |-> 0]
    /\ buffer = [t \in Threads |-> <<>>]
    /\ stack = [t \in Threads |-> <<>>]
    /\ found = [t \in Threads |-> Null]
    /\ handles = [t \in Threads |-> 0]
    /\ pool = [t \in Threads |-> 0]
    /\ success = FALSE
    /\ seen = [t \in Threads |-> Null]

-----------------------------------------------------------------------------
Goto(t, label) == pc' = [pc EXCEPT ![t] = label]
Opens(t, n) == handles' = [handles EXCEPT ![t] = @ + n]
Allocates(t, n) == pool' = [pool EXCEPT ![t] = @ + n]

\* A change of the registry disturbs the calls of the other threads.
Changes(t) == seen' = [u \in Threads |-> IF u = t THEN seen[u] ELSE Null]
ChangesLast == seen' = [u \in Threads |-> Null]

\* Leave: the thread's locals are gone.
Return(t, result) ==
    /\ success' = result
    /\ call' = [call EXCEPT ![t] = Null]
    /\ Goto(t, "idle")
    /\ allocated' = [allocated EXCEPT ![t] = 0]
    /\ length' = [length EXCEPT ![t] = 0]
    /\ buffer' = [buffer EXCEPT ![t] = <<>>]

\* Leave frees ParameterValue if there is one; MultiStringCopy lives for a step.
KeepsBuffer(t) == UNCHANGED pool \* mutant
FreeParameterValue(t) ==
    pool' = [pool EXCEPT ![t] = @ - (IF allocated[t] > 0 THEN 1 ELSE 0)]

Quiet == UNCHANGED <<registry, faults, seen>>

(***************************************************************************)
(* A call of the system fails, for a reason or not; with FailsLast the     *)
(* call of CRegUtils returns.  A fault disturbs the call it happens in.    *)
(***************************************************************************)
Fault(reason) == IF reason THEN UNCHANGED faults ELSE faults > 0 /\ faults' = faults - 1

Fails(t, reason) ==
    /\ Fault(reason)
    /\ seen' = IF reason THEN seen ELSE [seen EXCEPT ![t] = Null]
    /\ UNCHANGED registry

FailsLast(t, reason) ==
    /\ Fault(reason)
    /\ seen' = [seen EXCEPT ![t] = Null]
    /\ UNCHANGED registry

-----------------------------------------------------------------------------
(***************************************************************************)
(* A thread calls, and the first thing an edit does is RegGetValue with    *)
(* ParameterLength = 0: only the length comes back.                        *)
(***************************************************************************)
Calling(t, c) ==
    /\ call[t] = Null
    /\ call' = [call EXCEPT ![t] = c]
    /\ success' = FALSE

Finds(t) == seen' = [seen EXCEPT ![t] = [value |-> value, keys |-> keys]]

BeginEdit(t, c) ==
    /\ Calling(t, c)
    /\ c.op \in {"add", "remove"}
    /\ value # Null
    /\ c.op = "add" => Len(value.strs) < MaxStrings
    /\ Finds(t)
    /\ allocated' = [allocated EXCEPT ![t] = value.len]
    /\ length' = [length EXCEPT ![t] = value.len]
    /\ Allocates(t, IF value.len > 0 THEN 1 ELSE 0)
    /\ Goto(t, "getValue")
    /\ UNCHANGED <<registry, faults, buffer, walkVars, handles>>

(***************************************************************************)
(* RegGetValue fails: there is no value, or no answer.  Add makes a new    *)
(* one, of the string and two zeros; Remove returns its error and has done *)
(* nothing.                                                                *)
(***************************************************************************)
BeginNew(t, c) ==
    /\ Calling(t, c)
    /\ c.op = "add"
    /\ Fault(value = Null)
    /\ IF value = Null THEN Finds(t) ELSE UNCHANGED seen
    /\ allocated' = [allocated EXCEPT ![t] = Length[c.str] + 2]
    /\ length' = [length EXCEPT ![t] = Length[c.str] + 2]
    /\ Allocates(t, 1)
    /\ Goto(t, "writeNew")
    /\ UNCHANGED <<registry, buffer, walkVars, handles>>

(***************************************************************************)
(* There is no memory for ParameterValue: Add has done nothing, and leaves *)
(* with the status of RegGetValue, which is a success if there is a value. *)
(***************************************************************************)
NoMemory(t, c) ==
    /\ call[t] = Null
    /\ c.op = "add"
    /\ Fault(FALSE)
    /\ success' = (value # Null)
    /\ UNCHANGED <<registry, call, pc, editVars, walkVars, handles, pool, seen>>

(***************************************************************************)
(* A frame has a handle to its key: once the key is deleted the handle is  *)
(* to nothing (Forget), even if a key of that name is made again.          *)
(***************************************************************************)
NewFrame(key) == [key |-> key, index |-> 0]
Top(t) == Head(stack[t])

(***************************************************************************)
(* The caller of RegDeleteAllKeys has opened the key; RegDeleteAllSubKeys  *)
(* begins with the allocation of keyInfo.  Without memory it returns.      *)
(***************************************************************************)
BeginDelete(t, c) ==
    /\ Calling(t, c)
    /\ c.op = "deleteAll"
    /\ Root \in keys
    /\ Finds(t)
    /\ Goto(t, "enumerate")
    /\ Opens(t, 1)
    /\ Allocates(t, 1)
    /\ stack' = [stack EXCEPT ![t] = <<NewFrame(Root)>>]
    /\ UNCHANGED <<registry, faults, editVars, found>>

-----------------------------------------------------------------------------
(***************************************************************************)
(* RegGetValue with the buffer.  RegGetKeyValueQueryCallbackRoutine copies *)
(* only a value that fits, returns its length in any case and never fails. *)
(***************************************************************************)
OnlySmaller(t) == \* mutant
    IF value.len < allocated[t]
    THEN buffer' = [buffer EXCEPT ![t] = value.strs]
    ELSE \E v \in Values : buffer' = [buffer EXCEPT ![t] = v]

GetKeyValueCallback(t) ==
    IF value.len <= allocated[t]
    THEN buffer' = [buffer EXCEPT ![t] = value.strs]
    ELSE \E v \in Values : buffer' = [buffer EXCEPT ![t] = v]

GetValue(t) ==
    /\ pc[t] = "getValue"
    /\ value # Null
    /\ length' = [length EXCEPT ![t] = value.len]
    /\ GetKeyValueCallback(t)
    /\ Goto(t, "write")
    /\ Quiet
    /\ UNCHANGED <<call, allocated, walkVars, handles, pool, success>>

\* Remove looks at the status; Add does not, and its buffer is as allocated.
GetValueFails(t) ==
    /\ pc[t] = "getValue"
    /\ IF call[t].op = "add"
       THEN /\ Fails(t, value = Null)
            /\ \E v \in Values : buffer' = [buffer EXCEPT ![t] = v]
            /\ Goto(t, "write")
            /\ UNCHANGED <<call, allocated, length, pool, success>>
       ELSE FailsLast(t, value = Null) /\ Return(t, FALSE) /\ FreeParameterValue(t)
    /\ UNCHANGED <<walkVars, handles>>

(***************************************************************************)
(* What the utilities make of the buffer; nothing if a check fails.        *)
(***************************************************************************)
Edited(t) ==
    LET c == call[t]
    IN  IF ~CheckMultiString(buffer[t], length[t]) THEN {}
        ELSE IF c.op = "remove" THEN CopyDelete(buffer[t], c.str)
        ELSE CopyAdd(buffer[t], c.str, c.after)

EditedShort(t) ==
    IF /\ call[t].op = "add"
       /\ CheckMultiString(buffer[t], length[t])
    THEN CopyAddShort(buffer[t], call[t].str, call[t].after) ELSE {}

\* Remove writes a single zero, not two, when no string is left.
NewValue(t, copy) ==
    IF call[t].op = "remove" /\ copy = <<Empty>> THEN NoStrings ELSE Stored(copy)

\* RtlWriteRegistryValue: makes the key if it is not there.
KeyNotMade(v) == value' = v /\ UNCHANGED <<keys, obstacle>> /\ ChangesLast \* mutant
SetValue(v) ==
    /\ value' = v
    /\ keys' = keys \cup {Root}
    /\ UNCHANGED obstacle
    /\ ChangesLast

EditFails(t) ==
    /\ pc[t] = "write"
    /\ FailsLast(t, Edited(t) = {})
    /\ Return(t, FALSE)
    /\ FreeParameterValue(t)
    /\ UNCHANGED <<walkVars, handles>>

Write(t) ==
    /\ pc[t] = "write"
    /\ \E copy \in Edited(t) \cup EditedShort(t) :
          /\ ~(call[t].op = "remove" /\ call[t].deleteOnEmpty /\ copy = <<Empty>>)
          /\ Fault(copy \in Edited(t))
          /\ SetValue(NewValue(t, copy))
    /\ Return(t, TRUE)
    /\ FreeParameterValue(t)
    /\ UNCHANGED <<walkVars, handles>>

\* The value did not exist: RegSetValue of the string alone.
WriteNew(t) ==
    /\ pc[t] = "writeNew"
    /\ SetValue(Stored(<<call[t].str>>))
    /\ Return(t, TRUE)
    /\ FreeParameterValue(t)
    /\ UNCHANGED <<faults, walkVars, handles>>

WriteNewFails(t) ==
    /\ pc[t] = "writeNew"
    /\ FailsLast(t, FALSE)
    /\ Return(t, FALSE)
    /\ FreeParameterValue(t)
    /\ UNCHANGED <<walkVars, handles>>

(***************************************************************************)
(* ...DeleteIfEmpty: the key is opened, and then the value deleted in it,  *)
(* whatever it is by then, unless the key itself was deleted meanwhile.    *)
(***************************************************************************)
OpenToDelete(t) ==
    /\ pc[t] = "write"
    /\ call[t].op = "remove"
    /\ call[t].deleteOnEmpty
    /\ <<Empty>> \in Edited(t)
    /\ \/ /\ Root \in keys
          /\ Goto(t, "deleteValue")
          /\ Opens(t, 1)
          /\ stack' = [stack EXCEPT ![t] = <<NewFrame(Root)>>]
          /\ Quiet
          /\ UNCHANGED <<call, editVars, pool, success>>
       \/ /\ FailsLast(t, Root \notin keys)
          /\ Return(t, FALSE)
          /\ FreeParameterValue(t)
          /\ UNCHANGED <<handles, stack>>
    /\ UNCHANGED found

DeleteValue(t) ==
    /\ pc[t] = "deleteValue"
    /\ \/ /\ Top(t).key = Root
          /\ value # Null
          /\ value' = Null
          /\ ChangesLast
          /\ Return(t, TRUE)
          /\ UNCHANGED <<keys, obstacle, faults>>
       \/ FailsLast(t, Top(t).key # Root \/ value = Null) /\ Return(t, FALSE)
    /\ FreeParameterValue(t)
    /\ Opens(t, -1)
    /\ stack' = [stack EXCEPT ![t] = <<>>]
    /\ UNCHANGED found

-----------------------------------------------------------------------------
(***************************************************************************)
(* RegDeleteAllSubKeys, one frame for each level of the tree.              *)
(***************************************************************************)
Children(key) == {k \in keys \ {Root} : ParentOf[k] = key}

\* The sub key at an index has so many before it.
ChildAt(key, index) ==
    {k \in Children(key) :
        Cardinality({c \in Children(key) : KeyOrder[c] < KeyOrder[k]}) = index}
NextChild(t) == ChildAt(Top(t).key, Top(t).index)

NoIndex(t) == Head(stack[t]) \* mutant
NextIndex(t) == [Head(stack[t]) EXCEPT !.index = @ + 1]
SetTop(t, frame) == stack' = [stack EXCEPT ![t] = <<frame>> \o Tail(@)]

\* ZwEnumerateKey finds a sub key at the index, whose name fits.
Named(t) == {k \in NextChild(t) : obstacle[k] # "enumerate"}

Enumerate(t) ==
    /\ pc[t] = "enumerate"
    /\ \E child \in Named(t) : found' = [found EXCEPT ![t] = child]
    /\ Goto(t, "openChild")
    /\ Quiet
    /\ UNCHANGED <<call, editVars, stack, handles, pool, success>>

\* It finds none, or fails: the frame returns success either way.
EnumerateEnds(t) ==
    /\ pc[t] = "enumerate"
    /\ Fails(t, Named(t) = {})
    /\ Allocates(t, -1)
    /\ Goto(t, IF Len(stack[t]) = 1 THEN "deleteTop" ELSE "deleteChild")
    /\ UNCHANGED <<call, editVars, walkVars, handles, success>>

\* The child is opened and the function called for it.
Openable(key) == key \in keys /\ obstacle[key] # "open"

OpenChild(t) ==
    /\ pc[t] = "openChild"
    /\ Openable(found[t])
    /\ Opens(t, 1)
    /\ Allocates(t, 1)
    /\ stack' = [stack EXCEPT ![t] = <<NewFrame(found[t])>> \o @]
    /\ found' = [found EXCEPT ![t] = Null]
    /\ Goto(t, "enumerate")
    /\ Quiet
    /\ UNCHANGED <<call, editVars, success>>

\* ZwOpenKey fails, or there is no memory for the keyInfo of the call.
OpenChildFails(t) ==
    /\ pc[t] = "openChild"
    /\ Fails(t, ~Openable(found[t]))
    /\ SetTop(t, NextIndex(t))
    /\ found' = [found EXCEPT ![t] = Null]
    /\ Goto(t, "enumerate")
    /\ UNCHANGED <<call, editVars, handles, pool, success>>

\* ZwDeleteKey deletes a key without sub keys; every handle to it is then void.
Deletable(key) == key \in keys /\ Children(key) = {} /\ obstacle[key] # "delete"

Forget(s, key) ==
    [i \in DOMAIN s |-> IF s[i].key = key THEN [s[i] EXCEPT !.key = Null] ELSE s[i]]

DeleteKey(key) ==
    /\ keys' = keys \ {key}
    /\ value' = IF key = Root THEN Null ELSE value
    /\ UNCHANGED <<obstacle, faults>>

(***************************************************************************)
(* Back in the loop of the caller: ZwDeleteKey, ZwClose, and the index     *)
(* stays where it is, whether ZwDeleteKey has succeeded or not.            *)
(***************************************************************************)
SkipsNext(frame) == [frame EXCEPT !.index = @ + 1] \* mutant
AfterDelete(frame) == frame

CloseChild(t) == Opens(t, -1)

DeleteChild(t) ==
    /\ pc[t] = "deleteChild"
    /\ LET child == Top(t).key
           rest == <<AfterDelete(stack[t][2])>> \o Tail(Tail(stack[t]))
       IN  \/ /\ Deletable(child)
              /\ DeleteKey(child)
              /\ Changes(t)
              /\ stack' = [u \in Threads |-> Forget(IF u = t THEN rest ELSE stack[u], child)]
           \/ /\ Fails(t, ~Deletable(child))
              /\ stack' = [stack EXCEPT ![t] = rest]
    /\ CloseChild(t)
    /\ Goto(t, "enumerate")
    /\ UNCHANGED <<call, editVars, found, pool, success>>

\* RegDeleteAllKeys deletes the key itself; its caller closes the handle.
DeleteTop(t) ==
    /\ pc[t] = "deleteTop"
    /\ LET key == Top(t).key
       IN  \/ /\ Deletable(key)
              /\ DeleteKey(key)
              /\ ChangesLast
              /\ stack' = [u \in Threads |-> IF u = t THEN <<>> ELSE Forget(stack[u], key)]
              /\ Return(t, TRUE)
           \/ /\ FailsLast(t, ~Deletable(key))
              /\ stack' = [stack EXCEPT ![t] = <<>>]
              /\ Return(t, FALSE)
    /\ Opens(t, -1)
    /\ UNCHANGED <<found, pool>>

-----------------------------------------------------------------------------
Edit(t) ==
    \/ GetValue(t) \/ GetValueFails(t)
    \/ EditFails(t) \/ Write(t) \/ WriteNew(t) \/ WriteNewFails(t)
    \/ OpenToDelete(t) \/ DeleteValue(t)

Walk(t) ==
    \/ Enumerate(t) \/ EnumerateEnds(t)
    \/ OpenChild(t) \/ OpenChildFails(t)
    \/ DeleteChild(t) \/ DeleteTop(t)

Work(t) == Edit(t) \/ Walk(t)

Begin(t, c) == BeginEdit(t, c) \/ BeginNew(t, c) \/ NoMemory(t, c) \/ BeginDelete(t, c)

Next == \E t \in Threads : Work(t) \/ \E c \in CallsOf[t] : Begin(t, c)

Spec == Init /\ [][Next]_vars

\* A thread that is in a call is scheduled.
FairSpec == Spec /\ \A t \in Threads : WF_vars(Work(t))

-----------------------------------------------------------------------------
Frame == [key : Keys \cup {Null}, index : Nat]

TypeOK ==
    /\ value = Null \/ value = NoStrings \/ value.len = GetMultiStringSize(value.strs)
    /\ keys \subseteq Keys
    /\ value # Null => Root \in keys
    /\ \A t \in Threads :
          /\ call[t] \in CallsOf[t] \cup {Null}
          /\ call[t] = Null <=> pc[t] = "idle"
          /\ stack[t] \in Seq(Frame)
          /\ found[t] \in Keys \cup {Null}
          /\ handles[t] \in Nat
          /\ pool[t] \in Nat

(***************************************************************************)
(* A call that has returned keeps no memory and no key handle, whatever    *)
(* failed in it and however deep in the tree it was; one that walks has a  *)
(* handle and, but for the innermost level, a block for each level.        *)
(***************************************************************************)
NothingHeld ==
    \A t \in Threads :
        /\ call[t] = Null => handles[t] = 0 /\ pool[t] = 0
        /\ pc[t] \in {"enumerate", "openChild", "deleteChild", "deleteTop"} =>
              /\ handles[t] = Len(stack[t])
              /\ pool[t] \in {Len(stack[t]), Len(stack[t]) - 1}

(***************************************************************************)
(* An edit that no other change of the registry overlaps and in which no   *)
(* call fails is an operation on the list of strings, where the list alone *)
(* decides: the value becomes what the reference makes of the list, the    *)
(* call reports success exactly if the reference can, and else nothing     *)
(* changes.  No value at all, two zeros and one zero are all the empty     *)
(* list and are told apart only by the length.  So an edit that empties    *)
(* the value or finds none is a case of its own, in LastAndFirst; and two  *)
(* are not promised anything: an add to the start of a value of one zero   *)
(* (see AddAtStart) and to the end of an empty one (see StoredIsProper).   *)
(***************************************************************************)
Before(t) == seen[t].value
StringsBefore(t) == IF Before(t) = Null THEN <<>> ELSE ListOf(Before(t).strs)
Others(t) == Without(StringsBefore(t), call[t].str)

Promised(t) ==
    LET c == call[t]
    IN  IF c.op = "add" THEN ListAdd(StringsBefore(t), c.str, c.after)
        ELSE ListRemove(StringsBefore(t), c.str)

ListDecides(t) ==
    \/ Others(t) # <<>>
    \/ call[t].op = "remove" /\ Promised(t) = {}
    \/ /\ call[t].op = "add"
       /\ call[t].after # End
       /\ Before(t) \notin {Null, NoStrings}

\* A call that nothing has disturbed returns, and not because of a fault.
Returns(t) == call[t] # Null /\ call'[t] = Null /\ seen[t] # Null /\ UNCHANGED faults

EditsTheList ==
    [][\A t \in Threads :
          Returns(t) /\ call[t].op # "deleteAll" /\ ListDecides(t)
            => IF Promised(t) = {}
               THEN ~success' /\ UNCHANGED value
               ELSE success' /\ value' # Null /\ {ListOf(value'.strs)} = Promised(t)]_vars

(***************************************************************************)
(* The last string goes: alone or with the value, as the caller asked; and *)
(* the first comes to a value that is not there, wherever it was to go.    *)
(***************************************************************************)
LastAndFirst ==
    [][\A t \in Threads :
          Returns(t) /\ call[t].op # "deleteAll" /\ Others(t) = <<>>
            => /\ call[t].op = "remove" /\ Promised(t) # {} =>
                     /\ success'
                     /\ value' = IF call[t].deleteOnEmpty THEN Null ELSE NoStrings
               /\ call[t].op = "add" /\ Before(t) = Null =>
                     success' /\ value' = Stored(<<call[t].str>>)]_vars

\* What an edit that nothing disturbs makes of the value, but for the two cases.
UndisturbedEdit == EditsTheList /\ LastAndFirst

(***************************************************************************)
(* "If After is NULL will add at the start", IRegUtils.h:74: an add to the *)
(* start that nothing disturbs succeeds, whatever strings the value has.   *)
(* The code refuses it for a value of one zero, which Remove has left.     *)
(***************************************************************************)
AddAtStart ==
    [][\A t \in Threads :
          /\ Returns(t)
          /\ call[t].op = "add"
          /\ call[t].after = Start
          => success']_vars

(***************************************************************************)
(* RegDeleteAllKeys, undisturbed, deletes all it can: what is left is what *)
(* cannot be opened or has too long a name, what comes after such a name   *)
(* in the enumeration, and the keys above; and it reports success exactly  *)
(* if nothing is left.  (It may also never return, see Endless.)           *)
(***************************************************************************)
Above[k \in Keys] == IF k = Root THEN {Root} ELSE {k} \cup Above[ParentOf[k]]

Unreached(there) ==
    {k \in there \ {Root} :
        \E long \in there \ {Root} :
            /\ obstacle[long] = "enumerate"
            /\ ParentOf[long] = ParentOf[k]
            /\ KeyOrder[long] <= KeyOrder[k]}

Undeletable(there) ==
    LET stuck == Unreached(there) \cup {k \in there : obstacle[k] = "open"}
    IN  {k \in there : \E s \in stuck : k \in Above[s] \/ s \in Above[k]}

DeletesAllItCan ==
    [][\A t \in Threads :
          Returns(t) /\ call[t].op = "deleteAll"
            => keys' = Undeletable(seen[t].keys) /\ (success' <=> keys' = {})]_vars

(***************************************************************************)
(* Every call returns, whatever the other threads do and whichever calls   *)
(* of the system fail for once, no more than MaxFaults in all.  What is in *)
(* the way of a key for good must not make the deletion of a key below     *)
(* Root fail, which is then tried again and again: the key itself cannot   *)
(* be deleted, or a key below it cannot be opened or enumerated.  Endless  *)
(* is every tree with such a key, met or not.                              *)
(***************************************************************************)
Endless ==
    \E k \in Keys \ {Root} :
        \/ obstacle[k] = "delete"
        \/ obstacle[k] # "none" /\ ParentOf[k] # Root

EveryCallReturns ==
    \A t \in Threads : (~Endless /\ call[t] # Null) ~> call[t] = Null

(***************************************************************************)
(* The multi-string that is stored is properly formed.                     *)
(***************************************************************************)
StoredIsProper == value # Null => Proper(value.strs)
=============================================================================
