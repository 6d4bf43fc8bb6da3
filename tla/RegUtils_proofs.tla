--------------------------- MODULE RegUtils_proofs ---------------------------
(***************************************************************************)
(* Proofs about RegUtils, for any threads and calls, any tree of keys and  *)
(* any number of failing calls: no call keeps memory or a key handle, and  *)
(* the registry stays well formed.                                         *)
(***************************************************************************)
EXTENDS RegUtils, TLAPS, SequenceTheorems

Editing == {"getValue", "write", "writeNew"}
Walking == {"enumerate", "openChild", "deleteChild", "deleteTop"}

(***************************************************************************)
(* The registry: a value has the length of its strings, and a key.         *)
(***************************************************************************)
RegistryInv ==
    /\ value = Null \/ value = NoStrings \/ value.len = GetMultiStringSize(value.strs)
    /\ keys \subseteq Keys
    /\ value # Null => Root \in keys

(***************************************************************************)
(* The variables are functions on the threads.                             *)
(***************************************************************************)
Shapes ==
    /\ call \in [Threads -> CallRecord \cup {Null}]
    /\ pc \in [Threads -> {"idle", "deleteValue"} \cup Editing \cup Walking]
    /\ stack \in [Threads -> Seq(Frame)]
    /\ found \in [Threads -> Keys \cup {Null}]
    /\ handles \in [Threads -> Int]
    /\ pool \in [Threads -> Int]
    /\ allocated = [t \in Threads |-> allocated[t]]

(***************************************************************************)
(* What a thread holds, wherever it is in its call: a block for its        *)
(* ParameterValue, a handle for each level of its walk, and a block for    *)
(* each but the level that has just been left.                             *)
(***************************************************************************)
Block(t) == IF allocated[t] > 0 THEN 1 ELSE 0

Holds(t) ==
    /\ call[t] \in CallsOf[t] \cup {Null}
    /\ call[t] = Null <=> pc[t] = "idle"
    /\ pc[t] \notin Editing \cup {"deleteValue"} => allocated[t] = 0
    /\ pc[t] \in Editing \cup {"idle", "deleteValue"} => pool[t] = Block(t)
    /\ pc[t] \in Editing \cup {"idle"} => handles[t] = 0
    /\ pc[t] = "deleteValue" => handles[t] = 1 /\ Len(stack[t]) = 1
    /\ pc[t] \in Walking => handles[t] = Len(stack[t]) /\ Len(stack[t]) > 0
    /\ pc[t] \in {"enumerate", "openChild"} => pool[t] = Len(stack[t])
    /\ pc[t] \in {"deleteChild", "deleteTop"} => pool[t] = Len(stack[t]) - 1
    /\ pc[t] = "deleteChild" => Len(stack[t]) > 1
    /\ pc[t] = "deleteTop" => Len(stack[t]) = 1

HeldInv ==
    /\ RegistryInv
    /\ Shapes
    /\ \A t \in Threads : Holds(t)

-----------------------------------------------------------------------------
(***************************************************************************)
(* The registry.                                                           *)
(***************************************************************************)
LEMMA SetValueKeeps ==
    ASSUME RegistryInv, NEW v, SetValue(v),
           v = NoStrings \/ v.len = GetMultiStringSize(v.strs)
    PROVE  RegistryInv'
  BY RegAssumption DEF SetValue, RegistryInv

LEMMA NewValueLength ==
    ASSUME NEW t, NEW copy
    PROVE  LET v == NewValue(t, copy)
           IN  v = NoStrings \/ v.len = GetMultiStringSize(v.strs)
  BY DEF NewValue, Stored

LEMMA DeleteKeyKeeps ==
    ASSUME RegistryInv, NEW key, DeleteKey(key)
    PROVE  RegistryInv'
  BY DEF DeleteKey, RegistryInv

LEMMA RegistryStep == RegistryInv /\ [Next]_vars => RegistryInv'
<1> SUFFICES ASSUME RegistryInv, [Next]_vars PROVE RegistryInv'
  OBVIOUS
<1>1. CASE UNCHANGED registry
  BY <1>1 DEF registry, RegistryInv
<1>2. ASSUME NEW t \in Threads, Write(t) PROVE RegistryInv'
  BY <1>2, SetValueKeeps, NewValueLength DEF Write
<1>3. ASSUME NEW t \in Threads, WriteNew(t) PROVE RegistryInv'
  BY <1>3, SetValueKeeps DEF WriteNew, Stored
<1>4. ASSUME NEW t \in Threads, DeleteValue(t) PROVE RegistryInv'
  <2>1. UNCHANGED registry \/ (value' = Null /\ keys' = keys)
    BY <1>4 DEF DeleteValue, FailsLast, registry
  <2> QED
    BY <1>1, <2>1 DEF RegistryInv
<1>5. ASSUME NEW t \in Threads, DeleteChild(t) \/ DeleteTop(t) PROVE RegistryInv'
  <2>1. UNCHANGED registry \/ \E key : DeleteKey(key)
    BY <1>5 DEF DeleteChild, DeleteTop, Fails, FailsLast
  <2> QED
    BY <1>1, <2>1, DeleteKeyKeeps
<1>6. ASSUME NEW t \in Threads, NEW c, Begin(t, c) PROVE RegistryInv'
  BY <1>1, <1>6 DEF Begin, BeginEdit, BeginNew, NoMemory, BeginDelete
<1>7. ASSUME NEW t \in Threads, Work(t), ~Write(t), ~WriteNew(t), ~DeleteValue(t),
             ~DeleteChild(t), ~DeleteTop(t)
      PROVE  RegistryInv'
  BY <1>1, <1>7 DEF Work, Edit, Walk, GetValue, GetValueFails, EditFails, WriteNewFails, OpenToDelete,
     Enumerate, EnumerateEnds, OpenChild, OpenChildFails, Fails, FailsLast, Quiet
<1>8. CASE UNCHANGED vars
  BY <1>1, <1>8 DEF vars
<1> QED
  BY <1>2, <1>3, <1>4, <1>5, <1>6, <1>7, <1>8 DEF Next

-----------------------------------------------------------------------------
(***************************************************************************)
(* Frames.  Deleting a key changes no stack's height.                      *)
(***************************************************************************)
LEMMA ForgetKeeps ==
    ASSUME NEW s \in Seq(Frame), NEW key
    PROVE  Forget(s, key) \in Seq(Frame) /\ Len(Forget(s, key)) = Len(s)
<1>1. DOMAIN s = 1 .. Len(s) /\ Len(s) \in Nat /\ \A i \in 1 .. Len(s) : s[i] \in Frame
  OBVIOUS
<1>2. \A i \in DOMAIN s : Forget(s, key)[i] \in Frame
  BY <1>1 DEF Forget, Frame
<1>3. Forget(s, key) \in [1 .. Len(s) -> Frame]
  BY <1>1, <1>2 DEF Forget
<1> QED
  BY <1>1, <1>3, SeqDef, LenProperties

LEMMA FrameSteps ==
    ASSUME NEW s \in Seq(Frame), Len(s) > 0
    PROVE  /\ \A frame \in Frame :
                 /\ <<frame>> \o s \in Seq(Frame) /\ Len(<<frame>> \o s) = Len(s) + 1
                 /\ <<frame>> \o Tail(s) \in Seq(Frame) /\ Len(<<frame>> \o Tail(s)) = Len(s)
           /\ Head(s) \in Frame
           /\ [Head(s) EXCEPT !.index = @ + 1] \in Frame
           /\ Len(s) > 1 => \A frame \in Frame :
                 /\ s[2] \in Frame
                 /\ <<frame>> \o Tail(Tail(s)) \in Seq(Frame)
                 /\ Len(<<frame>> \o Tail(Tail(s))) = Len(s) - 1
<1>1. Head(s) \in Frame /\ Tail(s) \in Seq(Frame) /\ Len(Tail(s)) = Len(s) - 1 /\ Len(s) \in Nat
  OBVIOUS
<1>2. [Head(s) EXCEPT !.index = @ + 1] \in Frame
  BY <1>1 DEF Frame
<1>3. ASSUME NEW frame \in Frame, NEW r \in Seq(Frame)
      PROVE  <<frame>> \o r \in Seq(Frame) /\ Len(<<frame>> \o r) = Len(r) + 1
  <2>1. <<frame>> \in Seq(Frame) /\ Len(<<frame>>) = 1 /\ Len(r) \in Nat
    OBVIOUS
  <2> QED
    BY <2>1, ConcatProperties
<1>4. Len(s) > 1 => Tail(Tail(s)) \in Seq(Frame) /\ Len(Tail(Tail(s))) = Len(s) - 2 /\ s[2] \in Frame
  <2>1. ASSUME NEW r \in Seq(Frame), Len(r) > 0 PROVE Tail(r) \in Seq(Frame) /\ Len(Tail(r)) = Len(r) - 1
    BY <2>1
  <2>2. \A n \in Nat : n > 1 => n - 1 > 0 /\ (n - 1) - 1 = n - 2 /\ 2 \in 1 .. n
    OBVIOUS
  <2>3. \A i \in 1 .. Len(s) : s[i] \in Frame
    OBVIOUS
  <2> QED
    BY <1>1, <2>1, <2>2, <2>3
<1>5. \A n \in Nat : (n - 1) + 1 = n /\ (n - 2) + 1 = n - 1
  OBVIOUS
<1> QED
  BY <1>1, <1>2, <1>3, <1>4, <1>5

-----------------------------------------------------------------------------
(***************************************************************************)
(* A step of a thread disturbs no other: what it holds stays as it was,    *)
(* though a key that it is in may be gone.                                 *)
(***************************************************************************)
Undisturbed(u) ==
    /\ call'[u] = call[u] /\ pc'[u] = pc[u]
    /\ allocated'[u] = allocated[u] /\ handles'[u] = handles[u] /\ pool'[u] = pool[u]
    /\ Len(stack'[u]) = Len(stack[u])

LEMMA HoldsOn ==
    ASSUME NEW u \in Threads, Holds(u), Undisturbed(u)
    PROVE  Holds(u)'
  BY DEF Holds, Undisturbed, Block

LEMMA BeginKeeps ==
    ASSUME HeldInv, NEW t \in Threads, NEW c \in CallsOf[t], Begin(t, c)
    PROVE  Shapes' /\ Holds(t)' /\ \A u \in Threads \ {t} : Undisturbed(u)
<1> USE DEF Shapes, Holds, Block, Undisturbed, Goto, Opens, Allocates, Editing, Walking, editVars, walkVars
<1>1. Shapes /\ Holds(t) /\ c \in CallRecord /\ c # Null /\ RegistryInv
  BY RegAssumption DEF HeldInv
<1>2. CASE BeginEdit(t, c)
  <2>1. /\ call' = [call EXCEPT ![t] = c] /\ pc' = [pc EXCEPT ![t] = "getValue"]
        /\ allocated' = [allocated EXCEPT ![t] = value.len]
        /\ UNCHANGED <<stack, found, handles>>
        /\ call[t] = Null
    BY <1>2 DEF BeginEdit, Calling
  <2>2. pool' = [pool EXCEPT ![t] = IF value.len > 0 THEN 1 ELSE 0]
    <3>1. pool[t] = 0
      BY <1>1, <2>1
    <3> QED
      BY <1>2, <3>1 DEF BeginEdit
  <2>3. Shapes'
    <3>1. pool' \in [Threads -> Int]
      BY <1>1, <2>2
    <3>2. allocated' = [u \in Threads |-> allocated'[u]]
      BY <1>1, <2>1
    <3> QED
      BY <1>1, <2>1, <3>1, <3>2
  <2>4. pool'[t] = Block(t)'
    BY <1>1, <2>1, <2>2
  <2> HIDE DEF Block
  <2>5. Holds(t)'
    BY <1>1, <2>1, <2>4
  <2> QED
    BY <1>1, <2>1, <2>2, <2>3, <2>5
<1>3. CASE BeginNew(t, c)
  <2> DEFINE n == Length[c.str] + 2
  <2>1. n \in Nat /\ n > 0
    <3>1. c.str \in Strings
      BY <1>1, <1>3 DEF BeginNew, CallRecord
    <3>2. Length[c.str] \in Nat
      BY <3>1, StringsAssumption
    <3> QED
      BY <3>2
  <2>2. /\ call' = [call EXCEPT ![t] = c] /\ pc' = [pc EXCEPT ![t] = "writeNew"]
        /\ allocated' = [allocated EXCEPT ![t] = n]
        /\ UNCHANGED <<stack, found, handles>>
        /\ call[t] = Null
    BY <1>3 DEF BeginNew, Calling
  <2> HIDE DEF n
  <2>3. pool' = [pool EXCEPT ![t] = 1]
    <3>1. pool[t] = 0
      BY <1>1, <2>2
    <3> QED
      BY <1>3, <3>1 DEF BeginNew
  <2>4. Shapes'
    <3>1. pool' \in [Threads -> Int]
      BY <1>1, <2>3
    <3>2. allocated' = [u \in Threads |-> allocated'[u]]
      BY <1>1, <2>2
    <3> QED
      BY <1>1, <2>2, <3>1, <3>2
  <2>5. pool'[t] = Block(t)'
    BY <1>1, <2>1, <2>2, <2>3
  <2> HIDE DEF Block
  <2>6. Holds(t)'
    BY <1>1, <2>2, <2>5
  <2> QED
    BY <1>1, <2>2, <2>3, <2>4, <2>6
<1>4. CASE NoMemory(t, c)
  BY <1>1, <1>4 DEF NoMemory
<1>5. CASE BeginDelete(t, c)
  <2>1. <<NewFrame(Root)>> \in Seq(Frame) /\ Len(<<NewFrame(Root)>>) = 1
    BY RegAssumption DEF NewFrame, Frame
  <2> QED
    BY <1>1, <1>5, <2>1 DEF BeginDelete, Calling
<1> QED
  BY <1>2, <1>3, <1>4, <1>5 DEF Begin

LEMMA ReturnKeeps ==
    ASSUME HeldInv, NEW t \in Threads, pc[t] \in Editing \cup {"deleteValue"},
           NEW result, Return(t, result), FreeParameterValue(t), UNCHANGED found,
           IF pc[t] = "deleteValue" THEN Opens(t, -1) /\ stack' = [stack EXCEPT ![t] = <<>>]
                                    ELSE UNCHANGED <<handles, stack>>
    PROVE  Shapes' /\ Holds(t)' /\ \A u \in Threads \ {t} : Undisturbed(u)
<1> USE DEF Shapes, Holds, Undisturbed, Editing, Walking
<1>1. Shapes /\ Holds(t)
  BY DEF HeldInv
<1>2. /\ call' = [call EXCEPT ![t] = Null] /\ pc' = [pc EXCEPT ![t] = "idle"]
      /\ allocated' = [allocated EXCEPT ![t] = 0]
      /\ stack' \in [Threads -> Seq(Frame)]
      /\ \A u \in Threads \ {t} : Len(stack'[u]) = Len(stack[u])
  <2>1. stack' = stack \/ stack' = [stack EXCEPT ![t] = <<>>]
    OBVIOUS
  <2>2. /\ stack' \in [Threads -> Seq(Frame)]
        /\ \A u \in Threads \ {t} : stack'[u] = stack[u]
    <3>1. <<>> \in Seq(Frame) /\ stack \in [Threads -> Seq(Frame)]
      BY <1>1
    <3> QED
      BY <2>1, <3>1
  <2>3. /\ call' = [call EXCEPT ![t] = Null] /\ pc' = [pc EXCEPT ![t] = "idle"]
        /\ allocated' = [allocated EXCEPT ![t] = 0]
    BY DEF Return, Goto
  <2> QED
    BY <2>2, <2>3
<1>3. pool' = [pool EXCEPT ![t] = 0]
  <2>1. pool[t] = Block(t) /\ Block(t) \in {0, 1}
    BY <1>1 DEF Block
  <2>2. pool' = [pool EXCEPT ![t] = pool[t] - Block(t)]
    BY <1>1 DEF FreeParameterValue, Block
  <2>3. pool[t] - Block(t) = 0
    BY <2>1
  <2> QED
    BY <2>2, <2>3
<1>4. handles' = [handles EXCEPT ![t] = 0]
  <2>1. CASE pc[t] = "deleteValue"
    <3>1. handles[t] + -1 = 0
      BY <1>1, <2>1
    <3> QED
      BY <2>1, <3>1 DEF Opens
  <2>2. CASE pc[t] # "deleteValue"
    <3>1. handles[t] = 0
      BY <1>1, <2>2
    <3> QED
      BY <1>1, <2>2, <3>1
  <2> QED
    BY <2>1, <2>2
<1>5. Shapes'
  <2>1. /\ pool' \in [Threads -> Int] /\ handles' \in [Threads -> Int]
        /\ call' \in [Threads -> CallRecord \cup {Null}]
    BY <1>1, <1>2, <1>3, <1>4
  <2>2. allocated' = [u \in Threads |-> allocated'[u]]
    BY <1>1, <1>2
  <2> QED
    BY <1>1, <1>2, <2>1, <2>2
<1>6. /\ pool'[t] = 0 /\ handles'[t] = 0 /\ call'[t] = Null /\ pc'[t] = "idle"
      /\ allocated'[t] = 0 /\ Block(t)' = 0
  <2>1. allocated'[t] = 0
    BY <1>1, <1>2
  <2>2. Block(t)' = 0
    BY <2>1 DEF Block
  <2> QED
    BY <1>1, <1>2, <1>3, <1>4, <2>1, <2>2
<1>7. Holds(t)'
  BY <1>6
<1> QED
  BY <1>1, <1>2, <1>3, <1>4, <1>5, <1>7

LEMMA EditKeeps ==
    ASSUME HeldInv, NEW t \in Threads, Edit(t)
    PROVE  Shapes' /\ Holds(t)' /\ \A u \in Threads \ {t} : Undisturbed(u)
<1> USE DEF Editing
<1>1. Shapes /\ Holds(t)
  BY DEF HeldInv
<1>a. ASSUME pc[t] \in Editing, pc'[t] \in Editing, pc' = [pc EXCEPT ![t] = pc'[t]],
             UNCHANGED <<call, allocated, stack, found, handles, pool>>
      PROVE  Shapes' /\ Holds(t)' /\ \A u \in Threads \ {t} : Undisturbed(u)
  BY <1>1, <1>a DEF Shapes, Holds, Block, Undisturbed, Walking
<1>2. CASE GetValue(t)
  BY <1>1, <1>2, <1>a DEF GetValue, Goto, Shapes, walkVars
<1>3. CASE GetValueFails(t)
  <2>1. CASE call[t].op = "add"
    BY <1>1, <1>3, <1>a, <2>1 DEF GetValueFails, Goto, Shapes, walkVars
  <2>2. CASE call[t].op # "add"
    BY <1>3, <2>2, ReturnKeeps DEF GetValueFails, walkVars
  <2> QED
    BY <2>1, <2>2
<1>4. CASE EditFails(t) \/ Write(t)
  BY <1>4, ReturnKeeps DEF EditFails, Write, walkVars
<1>5. CASE WriteNew(t) \/ WriteNewFails(t)
  BY <1>5, ReturnKeeps DEF WriteNew, WriteNewFails, walkVars
<1>6. CASE OpenToDelete(t)
  <2>1. CASE /\ Goto(t, "deleteValue") /\ Opens(t, 1)
             /\ stack' = [stack EXCEPT ![t] = <<NewFrame(Root)>>]
             /\ UNCHANGED <<call, editVars, pool, found>>
    <3>1. <<NewFrame(Root)>> \in Seq(Frame) /\ Len(<<NewFrame(Root)>>) = 1
      BY RegAssumption DEF NewFrame, Frame
    <3> QED
      BY <1>1, <1>6, <2>1, <3>1 DEF OpenToDelete, Shapes, Holds, Block, Undisturbed, Goto, Opens, Walking,
       editVars, walkVars
  <2>2. CASE Return(t, FALSE) /\ FreeParameterValue(t) /\ UNCHANGED <<handles, stack, found>>
    BY <1>6, <2>2, ReturnKeeps DEF OpenToDelete
  <2> QED
    BY <1>6, <2>1, <2>2 DEF OpenToDelete
<1>7. CASE DeleteValue(t)
  BY <1>7, ReturnKeeps DEF DeleteValue
<1> QED
  BY <1>2, <1>3, <1>4, <1>5, <1>6, <1>7 DEF Edit

(***************************************************************************)
(* A step of a walk, given how high its stack is afterwards.               *)
(***************************************************************************)
LEMMA WalkKeeps ==
    ASSUME HeldInv, NEW t \in Threads, pc[t] \in Walking,
           NEW where \in Walking, pc' = [pc EXCEPT ![t] = where],
           NEW h \in Int, NEW p \in Int, NEW height \in Nat,
           handles' = [handles EXCEPT ![t] = h], pool' = [pool EXCEPT ![t] = p],
           UNCHANGED <<call, allocated>>,
           found' \in [Threads -> Keys \cup {Null}],
           stack' \in [Threads -> Seq(Frame)], Len(stack'[t]) = height,
           \A u \in Threads \ {t} : Len(stack'[u]) = Len(stack[u]),
           h = height, height > 0,
           where \in {"enumerate", "openChild"} => p = height,
           where \in {"deleteChild", "deleteTop"} => p = height - 1,
           where = "deleteChild" => height > 1,
           where = "deleteTop" => height = 1
    PROVE  Shapes' /\ Holds(t)' /\ \A u \in Threads \ {t} : Undisturbed(u)
<1>1. Shapes /\ Holds(t)
  BY DEF HeldInv
<1>2. Shapes'
  BY <1>1 DEF Shapes
<1>3. /\ pc'[t] = where /\ handles'[t] = h /\ pool'[t] = p /\ call'[t] = call[t] /\ allocated'[t] = allocated[t]
      /\ \A u \in Threads \ {t} : pc'[u] = pc[u] /\ handles'[u] = handles[u] /\ pool'[u] = pool[u]
  BY <1>1 DEF Shapes
<1>4. Holds(t)'
  BY <1>1, <1>3 DEF Holds, Walking, Editing
<1> QED
  BY <1>2, <1>3, <1>4 DEF Undisturbed

LEMMA WalkingFacts ==
    ASSUME HeldInv, NEW t \in Threads, pc[t] \in Walking
    PROVE  /\ Shapes /\ Holds(t)
           /\ stack[t] \in Seq(Frame) /\ Len(stack[t]) \in Nat /\ Len(stack[t]) > 0
           /\ handles[t] = Len(stack[t]) /\ pool[t] \in Int
           /\ handles = [handles EXCEPT ![t] = Len(stack[t])]
           /\ pool = [pool EXCEPT ![t] = pool[t]]
<1>1. Shapes /\ Holds(t)
  BY DEF HeldInv
<1>2. stack[t] \in Seq(Frame) /\ Len(stack[t]) \in Nat
  BY <1>1 DEF Shapes
<1>3. handles[t] = Len(stack[t]) /\ Len(stack[t]) > 0
  BY <1>1 DEF Holds
<1> QED
  BY <1>1, <1>2, <1>3 DEF Shapes

LEMMA EnumerateKeeps ==
    ASSUME HeldInv, NEW t \in Threads, Enumerate(t) \/ EnumerateEnds(t)
    PROVE  Shapes' /\ Holds(t)' /\ \A u \in Threads \ {t} : Undisturbed(u)
<1> DEFINE n == Len(stack[t])
<1>1. pc[t] \in Walking /\ pc[t] = "enumerate"
  BY DEF Enumerate, EnumerateEnds, Walking
<1>2. /\ Shapes /\ Holds(t) /\ n \in Nat /\ n > 0 /\ pool[t] = n
      /\ handles = [handles EXCEPT ![t] = n] /\ pool = [pool EXCEPT ![t] = n]
      /\ stack \in [Threads -> Seq(Frame)] /\ found \in [Threads -> Keys \cup {Null}]
  BY <1>1, WalkingFacts DEF Holds, Shapes
<1> HIDE DEF n
<1>3. CASE Enumerate(t)
  <2>1. PICK child \in NextChild(t) : found' = [found EXCEPT ![t] = child]
    BY <1>3 DEF Enumerate, Named
  <2>2. child \in Keys
    BY <2>1 DEF NextChild, ChildAt, Children, HeldInv, RegistryInv
  <2>3. found' \in [Threads -> Keys \cup {Null}]
    BY <1>2, <2>1, <2>2
  <2>4. /\ pc' = [pc EXCEPT ![t] = "openChild"] /\ UNCHANGED <<call, allocated>>
        /\ "openChild" \in Walking
    BY <1>3 DEF Enumerate, Goto, editVars, Walking
  <2>7. UNCHANGED <<stack, handles, pool>>
    BY <1>3 DEF Enumerate
  <2>5. n \in Int /\ n \in Nat /\ n > 0 /\ n = Len(stack'[t])
    BY <1>2, <2>7 DEF n
  <2>6. /\ handles' = [handles EXCEPT ![t] = n] /\ pool' = [pool EXCEPT ![t] = n]
        /\ stack' \in [Threads -> Seq(Frame)]
        /\ \A u \in Threads \ {t} : Len(stack'[u]) = Len(stack[u])
    BY <1>2, <2>7
  <2> QED
    BY <1>1, <2>3, <2>4, <2>5, <2>6, WalkKeeps
<1>4. CASE EnumerateEnds(t)
  <2> DEFINE where == IF n = 1 THEN "deleteTop" ELSE "deleteChild"
  <2>1. /\ pc' = [pc EXCEPT ![t] = where] /\ UNCHANGED <<call, allocated, stack, found, handles>>
    BY <1>4 DEF EnumerateEnds, Goto, editVars, walkVars, n
  <2>2. pool' = [pool EXCEPT ![t] = n - 1]
    <3>1. pool' = [pool EXCEPT ![t] = pool[t] + -1]
      BY <1>4 DEF EnumerateEnds, Allocates
    <3>2. pool[t] + -1 = n - 1
      BY <1>2
    <3> QED
      BY <3>1, <3>2
  <2>3. /\ n \in Int /\ n - 1 \in Int /\ where \in Walking
        /\ where = "deleteTop" => n = 1
        /\ where = "deleteChild" => n > 1
        /\ where \notin {"enumerate", "openChild"}
    BY <1>2 DEF Walking
  <2>4. n = Len(stack'[t]) /\ stack' \in [Threads -> Seq(Frame)] /\ found' \in [Threads -> Keys \cup {Null}]
        /\ \A u \in Threads \ {t} : Len(stack'[u]) = Len(stack[u])
    BY <1>2, <2>1 DEF n
  <2> HIDE DEF where
  <2> QED
    BY <1>1, <1>2, <2>1, <2>2, <2>3, <2>4, WalkKeeps
<1> QED
  BY <1>3, <1>4

LEMMA OpenKeeps ==
    ASSUME HeldInv, NEW t \in Threads, OpenChild(t) \/ OpenChildFails(t)
    PROVE  Shapes' /\ Holds(t)' /\ \A u \in Threads \ {t} : Undisturbed(u)
<1> DEFINE n == Len(stack[t])
<1>1. pc[t] \in Walking /\ pc[t] = "openChild" /\ "enumerate" \in Walking
  BY DEF OpenChild, OpenChildFails, Walking
<1>2. /\ Shapes /\ Holds(t) /\ n \in Nat /\ n > 0 /\ pool[t] = n /\ handles[t] = n
      /\ handles = [handles EXCEPT ![t] = n] /\ pool = [pool EXCEPT ![t] = n]
      /\ stack \in [Threads -> Seq(Frame)] /\ found \in [Threads -> Keys \cup {Null}]
      /\ stack[t] \in Seq(Frame)
  BY <1>1, WalkingFacts DEF Holds, Shapes
<1>3. /\ pc' = [pc EXCEPT ![t] = "enumerate"] /\ UNCHANGED <<call, allocated>>
      /\ found' = [found EXCEPT ![t] = Null]
  BY DEF OpenChild, OpenChildFails, Goto, editVars
<1>4. found' \in [Threads -> Keys \cup {Null}]
  BY <1>2, <1>3
<1>5. CASE OpenChild(t)
  <2>1. NewFrame(found[t]) \in Frame
    BY <1>5 DEF OpenChild, Openable, NewFrame, Frame, HeldInv, RegistryInv
  <2>2. /\ <<NewFrame(found[t])>> \o stack[t] \in Seq(Frame)
        /\ Len(<<NewFrame(found[t])>> \o stack[t]) = n + 1
    BY <1>2, <2>1, FrameSteps DEF n
  <2>3. stack' = [stack EXCEPT ![t] = <<NewFrame(found[t])>> \o stack[t]]
    BY <1>5 DEF OpenChild
  <2>4. /\ stack' \in [Threads -> Seq(Frame)] /\ Len(stack'[t]) = n + 1
        /\ \A u \in Threads \ {t} : Len(stack'[u]) = Len(stack[u])
    BY <1>2, <2>2, <2>3
  <2>5. handles' = [handles EXCEPT ![t] = n + 1] /\ pool' = [pool EXCEPT ![t] = n + 1]
    BY <1>2, <1>5 DEF OpenChild, Opens, Allocates
  <2> HIDE DEF n
  <2>6. n + 1 \in Int /\ n + 1 \in Nat /\ n + 1 > 0
    BY <1>2
  <2> QED
    BY <1>1, <1>3, <1>4, <2>4, <2>5, <2>6, WalkKeeps
<1>6. CASE OpenChildFails(t)
  <2>1. NextIndex(t) \in Frame
    BY <1>2, FrameSteps DEF NextIndex
  <2>2. /\ <<NextIndex(t)>> \o Tail(stack[t]) \in Seq(Frame)
        /\ Len(<<NextIndex(t)>> \o Tail(stack[t])) = n
    BY <1>2, <2>1, FrameSteps
  <2>3. stack' = [stack EXCEPT ![t] = <<NextIndex(t)>> \o Tail(stack[t])] /\ UNCHANGED <<handles, pool>>
    BY <1>6 DEF OpenChildFails, SetTop
  <2>4. /\ stack' \in [Threads -> Seq(Frame)] /\ Len(stack'[t]) = n
        /\ \A u \in Threads \ {t} : Len(stack'[u]) = Len(stack[u])
    BY <1>2, <2>2, <2>3
  <2> HIDE DEF n
  <2>6. n \in Int /\ n \in Nat /\ n > 0 /\ handles' = [handles EXCEPT ![t] = n] /\ pool' = [pool EXCEPT ![t] = n]
    BY <1>2, <2>3
  <2> QED
    BY <1>1, <1>3, <1>4, <2>4, <2>6, WalkKeeps
<1> QED
  BY <1>5, <1>6

LEMMA DeleteChildKeeps ==
    ASSUME HeldInv, NEW t \in Threads, DeleteChild(t)
    PROVE  Shapes' /\ Holds(t)' /\ \A u \in Threads \ {t} : Undisturbed(u)
<1> DEFINE n == Len(stack[t])
           rest == <<AfterDelete(stack[t][2])>> \o Tail(Tail(stack[t]))
<1>1. pc[t] \in Walking /\ pc[t] = "deleteChild" /\ "enumerate" \in Walking
  BY DEF DeleteChild, Walking
<1>2. /\ Shapes /\ Holds(t) /\ n \in Nat /\ n > 1 /\ pool[t] = n - 1 /\ handles[t] = n
      /\ stack \in [Threads -> Seq(Frame)] /\ found \in [Threads -> Keys \cup {Null}]
      /\ stack[t] \in Seq(Frame)
  BY <1>1, WalkingFacts DEF Holds, Shapes
<1>3. rest \in Seq(Frame) /\ Len(rest) = n - 1
  <2>1. stack[t][2] \in Frame
    BY <1>2, FrameSteps
  <2>2. rest = <<stack[t][2]>> \o Tail(Tail(stack[t]))
    BY DEF AfterDelete
  <2>3. Len(stack[t]) > 0 /\ Len(stack[t]) > 1
    BY <1>2
  <2> HIDE DEF rest
  <2>4. \A frame \in Frame :
           /\ <<frame>> \o Tail(Tail(stack[t])) \in Seq(Frame)
           /\ Len(<<frame>> \o Tail(Tail(stack[t]))) = Len(stack[t]) - 1
    BY <1>2, <2>3, FrameSteps
  <2> QED
    BY <2>1, <2>2, <2>4
<1>4. /\ pc' = [pc EXCEPT ![t] = "enumerate"] /\ UNCHANGED <<call, allocated>>
      /\ found' \in [Threads -> Keys \cup {Null}]
  BY <1>2 DEF DeleteChild, Goto, editVars
<1>5. /\ stack' \in [Threads -> Seq(Frame)] /\ Len(stack'[t]) = n - 1
      /\ \A u \in Threads \ {t} : Len(stack'[u]) = Len(stack[u])
  <2>1. CASE stack' = [stack EXCEPT ![t] = rest]
    <3> HIDE DEF rest, n
    <3> QED
      BY <1>2, <1>3, <2>1
  <2>2. CASE \E child : stack' = [u \in Threads |-> Forget(IF u = t THEN rest ELSE stack[u], child)]
    <3>1. PICK child : stack' = [u \in Threads |-> Forget(IF u = t THEN rest ELSE stack[u], child)]
      BY <2>2
    <3> HIDE DEF rest, n
    <3>2. \A u \in Threads : (IF u = t THEN rest ELSE stack[u]) \in Seq(Frame)
      BY <1>2, <1>3
    <3>3. \A u \in Threads : /\ stack'[u] \in Seq(Frame)
                             /\ Len(stack'[u]) = Len(IF u = t THEN rest ELSE stack[u])
      BY <3>1, <3>2, ForgetKeeps
    <3> QED
      BY <1>3, <3>1, <3>3
  <2> QED
    BY <2>1, <2>2 DEF DeleteChild
<1> HIDE DEF n, rest
<1>6. handles' = [handles EXCEPT ![t] = n - 1]
  <2>1. handles' = [handles EXCEPT ![t] = handles[t] + -1]
    BY DEF DeleteChild, CloseChild, Opens
  <2>2. handles[t] + -1 = n - 1
    BY <1>2
  <2> QED
    BY <2>1, <2>2
<1>7. pool' = [pool EXCEPT ![t] = n - 1]
  BY <1>2 DEF DeleteChild, Shapes
<1>8. n - 1 \in Int /\ n - 1 \in Nat /\ n - 1 > 0
  BY <1>2
<1> QED
  BY <1>1, <1>4, <1>5, <1>6, <1>7, <1>8, WalkKeeps

LEMMA DeleteTopKeeps ==
    ASSUME HeldInv, NEW t \in Threads, DeleteTop(t)
    PROVE  Shapes' /\ Holds(t)' /\ \A u \in Threads \ {t} : Undisturbed(u)
<1>1. pc[t] \in Walking /\ pc[t] = "deleteTop"
  BY DEF DeleteTop, Walking
<1>2. /\ Shapes /\ Holds(t) /\ pool[t] = 0 /\ handles[t] = 1 /\ allocated[t] = 0
      /\ stack \in [Threads -> Seq(Frame)]
  <2>1. Shapes /\ Holds(t) /\ stack \in [Threads -> Seq(Frame)]
    BY <1>1, WalkingFacts DEF Shapes
  <2>2. Len(stack[t]) = 1 /\ handles[t] = Len(stack[t]) /\ pool[t] = Len(stack[t]) - 1
    BY <1>1, <2>1 DEF Holds
  <2>3. allocated[t] = 0
    BY <1>1, <2>1 DEF Holds, Editing
  <2> QED
    BY <2>1, <2>2, <2>3
<1>3. /\ call' = [call EXCEPT ![t] = Null] /\ pc' = [pc EXCEPT ![t] = "idle"]
      /\ allocated' = [allocated EXCEPT ![t] = 0]
      /\ UNCHANGED <<found, pool>>
  BY DEF DeleteTop, Return, Goto
<1>4. handles' = [handles EXCEPT ![t] = 0]
  <2>1. handles' = [handles EXCEPT ![t] = handles[t] + -1]
    BY DEF DeleteTop, Opens
  <2>2. handles[t] + -1 = 0
    BY <1>2
  <2> QED
    BY <2>1, <2>2
<1>5. /\ stack' \in [Threads -> Seq(Frame)]
      /\ \A u \in Threads \ {t} : Len(stack'[u]) = Len(stack[u])
  <2>1. CASE stack' = [stack EXCEPT ![t] = <<>>]
    BY <1>2, <2>1
  <2>2. CASE \E key : stack' = [u \in Threads |-> IF u = t THEN <<>> ELSE Forget(stack[u], key)]
    BY <1>2, <2>2, ForgetKeeps
  <2> QED
    BY <2>1, <2>2 DEF DeleteTop
<1>6. Shapes'
  <2>1. call' \in [Threads -> CallRecord \cup {Null}] /\ handles' \in [Threads -> Int]
    BY <1>2, <1>3, <1>4 DEF Shapes
  <2>2. pc' \in [Threads -> {"idle", "deleteValue"} \cup Editing \cup Walking]
    BY <1>2, <1>3 DEF Shapes
  <2>3. allocated' = [u \in Threads |-> allocated'[u]]
    BY <1>2, <1>3 DEF Shapes
  <2> QED
    BY <1>2, <1>3, <1>5, <2>1, <2>2, <2>3 DEF Shapes
<1>7. /\ pool'[t] = 0 /\ handles'[t] = 0 /\ call'[t] = Null /\ pc'[t] = "idle" /\ allocated'[t] = 0
      /\ \A u \in Threads \ {t} : /\ call'[u] = call[u] /\ pc'[u] = pc[u] /\ pool'[u] = pool[u]
                                  /\ handles'[u] = handles[u] /\ allocated'[u] = allocated[u]
  BY <1>2, <1>3, <1>4 DEF Shapes
<1>8. Block(t)' = 0
  BY <1>7 DEF Block
<1>9. Holds(t)'
  BY <1>7, <1>8 DEF Holds, Editing, Walking
<1> QED
  BY <1>5, <1>6, <1>7, <1>9 DEF Undisturbed

-----------------------------------------------------------------------------
LEMMA HeldInvInit == Init => HeldInv
<1> SUFFICES ASSUME Init PROVE HeldInv
  OBVIOUS
<1>1. RegistryInv
  BY RegAssumption DEF Init, RegistryInv, Stored
<1>2. Shapes
  BY DEF Init, Shapes
<1>3. ASSUME NEW t \in Threads PROVE Holds(t)
  <2>1. Block(t) = 0
    BY DEF Init, Block
  <2> QED
    BY <2>1 DEF Init, Holds, Editing, Walking
<1> QED
  BY <1>1, <1>2, <1>3 DEF HeldInv

LEMMA HeldInvStep == HeldInv /\ [Next]_vars => HeldInv'
<1> SUFFICES ASSUME HeldInv, [Next]_vars PROVE HeldInv'
  OBVIOUS
<1>1. RegistryInv'
  BY RegistryStep DEF HeldInv
<1>2. CASE UNCHANGED vars
  <2>1. Shapes' /\ \A t \in Threads : Undisturbed(t)
    BY <1>2 DEF HeldInv, Shapes, Undisturbed, vars, editVars, walkVars
  <2> QED
    BY <1>1, <2>1, HoldsOn DEF HeldInv
<1>3. ASSUME NEW t \in Threads, Shapes' /\ Holds(t)' /\ \A u \in Threads \ {t} : Undisturbed(u)
      PROVE  HeldInv'
  BY <1>1, <1>3, HoldsOn DEF HeldInv
<1>4. ASSUME NEW t \in Threads, Walk(t) PROVE HeldInv'
  BY <1>3, <1>4, EnumerateKeeps, OpenKeeps, DeleteChildKeeps, DeleteTopKeeps DEF Walk
<1> QED
  BY <1>2, <1>3, <1>4, EditKeeps, BeginKeeps DEF Next, Work

(***************************************************************************)
(* The inductive invariant.                                                *)
(***************************************************************************)
THEOREM HeldInvariant == Spec => []HeldInv
  BY HeldInvInit, HeldInvStep, PTL DEF Spec

(***************************************************************************)
(* A call that has returned keeps no memory and no handle, whatever failed *)
(* in it, and whatever other threads delete under it.                      *)
(***************************************************************************)
THEOREM NothingStaysHeld == Spec => []NothingHeld
<1>1. HeldInv => NothingHeld
  <2> SUFFICES ASSUME HeldInv, NEW t \in Threads
      PROVE  /\ call[t] = Null => handles[t] = 0 /\ pool[t] = 0
             /\ pc[t] \in Walking =>
                   handles[t] = Len(stack[t]) /\ pool[t] \in {Len(stack[t]), Len(stack[t]) - 1}
    BY DEF NothingHeld, Walking
  <2>1. Holds(t)
    BY DEF HeldInv
  <2>2. ASSUME call[t] = Null PROVE handles[t] = 0 /\ pool[t] = 0
    BY <2>1, <2>2 DEF Holds, Block, Editing, Walking
  <2> QED
    BY <2>1, <2>2 DEF Holds, Walking
<1> QED
  BY <1>1, HeldInvariant, PTL

(***************************************************************************)
(* A value has the length of its strings, and a key; stacks and counts of  *)
(* handles and blocks are what they should be.                             *)
(***************************************************************************)
THEOREM TypeCorrect == Spec => []TypeOK
<1>1. HeldInv => TypeOK
  <2> SUFFICES ASSUME HeldInv PROVE TypeOK
    OBVIOUS
  <2>1. ASSUME NEW t \in Threads PROVE handles[t] \in Nat /\ pool[t] \in Nat
    <3>1. Holds(t) /\ Len(stack[t]) \in Nat /\ Block(t) \in Nat
      BY DEF HeldInv, Shapes, Block
    <3>2. pc[t] \in {"idle", "deleteValue"} \cup Editing \cup Walking
      BY DEF HeldInv, Shapes
    <3>3. CASE pc[t] \notin Walking
      BY <3>1, <3>2, <3>3 DEF Holds, Editing
    <3>4. CASE pc[t] \in Walking
      <4>1. handles[t] = Len(stack[t]) /\ Len(stack[t]) > 0
        BY <3>1, <3>4 DEF Holds
      <4>2. pool[t] = Len(stack[t]) \/ pool[t] = Len(stack[t]) - 1
        BY <3>1, <3>4 DEF Holds, Walking
      <4> QED
        BY <3>1, <4>1, <4>2
    <3> QED
      BY <3>3, <3>4
  <2>2. RegistryInv /\ Shapes /\ \A t \in Threads : Holds(t)
    BY DEF HeldInv
  <2> QED
    BY <2>1, <2>2 DEF TypeOK, RegistryInv, Shapes, Holds
<1> QED
  BY <1>1, HeldInvariant, PTL
=============================================================================
