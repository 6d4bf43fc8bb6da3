------------------------- MODULE LinkListLib_proofs -------------------------
(***************************************************************************)
(* Proofs about LinkListLib, for any threads and any finite set of         *)
(* elements: what the locks of CCriticalSection exclude, that the links    *)
(* are sound whenever a thread relies on them, and that every operation    *)
(* takes effect at one instant on a sequence.                              *)
(***************************************************************************)
EXTENDS LinkListLib, FiniteSetTheorems, WellFoundedInduction, TLAPS

USE ThreadsAssumption, ElemsAssumption

(***************************************************************************)
(* Where a thread holds which lock.                                        *)
(***************************************************************************)
HasOwner(t) ==
    \/ pc[t] \in {"spin", "leaveOwner"}
    \/ Inside(t) /\ (op[t] # "find" \/ ~kernel)
HasSpin(t) == kernel /\ Inside(t) /\ (op[t] # "find" \/ t \in Dispatch)
HasShare(t) == kernel /\ Inside(t) /\ op[t] = "find" /\ t \notin Dispatch

Places == {"idle", "shared", "owner", "spin", "read", "search", "link", "finish", "leave", "leaveOwner"}

PlacesOK ==
    /\ kernel \in BOOLEAN
    /\ live \in BOOLEAN
    /\ pc \in [Threads -> Places]
    /\ op \in [Threads -> Pushes \cup Pops \cup {"none", "find", "take"}]
    /\ sharers \subseteq Threads

PlaceOK(t) ==
    /\ pc[t] # "idle" => live
    /\ pc[t] = "shared" => op[t] = "find"
    /\ pc[t] \in {"owner", "spin", "leaveOwner"} => op[t] # "find"
    /\ pc[t] \in {"spin", "leaveOwner"} => kernel

LocksOK(t) ==
    /\ owner = t <=> HasOwner(t)
    /\ spin = t <=> HasSpin(t)
    /\ t \in sharers <=> HasShare(t)

\* A thread holds the locks of the place where it is, and nobody else's.
LInv ==
    /\ PlacesOK
    /\ \A t \in Threads : PlaceOK(t)
    /\ \A t \in Threads : LocksOK(t)
    /\ owner # NoThread => sharers = {}

-----------------------------------------------------------------------------
LEMMA LInvInit == Init => LInv
<1> SUFFICES ASSUME Init PROVE LInv
  OBVIOUS
<1>1. \A t \in Threads : pc[t] = "idle" /\ op[t] = "none" /\ t # NoThread
  BY DEF Init
<1> QED
  BY <1>1 DEF Init, LockInit, LInv, PlacesOK, Places, PlaceOK, LocksOK, HasOwner, HasSpin, HasShare, Inside

(***************************************************************************)
(* Entering the list, with the lock the kind of request calls for.         *)
(***************************************************************************)
LEMMA BodyPlace == \A t \in Threads : Body(t) \in {"read", "search"}
  BY DEF Body

LEMMA LInvEnter ==
    ASSUME LInv, NEW t \in Threads, EnterShared(t) \/ EnterOwner(t) \/ EnterSpin(t)
    PROVE  LInv'
<1> USE DEF LInv, PlacesOK, Places, PlaceOK, LocksOK, HasOwner, HasSpin, HasShare, Inside
<1>1. CASE EnterShared(t)
  <2> USE <1>1 DEF EnterShared, EnterBody, Goto
  <2>1. CASE ~kernel
    BY <2>1, BodyPlace DEF AcquireShared, SharedBy, AcquireOwner
  <2>2. CASE kernel /\ t \in Dispatch
    BY <2>2, BodyPlace DEF AcquireShared, SharedBy, AcquireSpin
  <2>3. CASE kernel /\ t \notin Dispatch
    BY <2>3, BodyPlace DEF AcquireShared, SharedBy, AcquireShare
  <2> QED
    BY <2>1, <2>2, <2>3
<1>2. CASE EnterOwner(t)
  BY <1>2, BodyPlace DEF EnterOwner, EnterBody, Goto, AcquireOwner
<1>3. CASE EnterSpin(t)
  BY <1>3, BodyPlace DEF EnterSpin, EnterBody, Goto, AcquireSpin
<1> QED
  BY <1>1, <1>2, <1>3

(***************************************************************************)
(* Leaving it: the lock given back is the one that was taken.              *)
(***************************************************************************)
LEMMA LInvLeave ==
    ASSUME LInv, NEW t \in Threads, LeaveShared(t) \/ LeaveSpin(t) \/ LeaveOwner(t)
    PROVE  LInv'
<1> USE DEF LInv, PlacesOK, Places, PlaceOK, LocksOK, HasOwner, HasSpin, HasShare, Inside
<1>1. CASE LeaveShared(t)
  <2> USE <1>1 DEF LeaveShared, Return, Goto
  <2>1. CASE ~kernel
    BY <2>1 DEF ReleaseShared, SharedBy, ReleaseOwner
  <2>2. CASE kernel /\ t \in Dispatch
    BY <2>2 DEF ReleaseShared, SharedBy, ReleaseSpin
  <2>3. CASE kernel /\ t \notin Dispatch
    BY <2>3 DEF ReleaseShared, SharedBy, ReleaseShare
  <2> QED
    BY <2>1, <2>2, <2>3
<1>2. CASE LeaveSpin(t)
  BY <1>2 DEF LeaveSpin, Goto, ReleaseSpin
<1>3. CASE LeaveOwner(t)
  BY <1>3 DEF LeaveOwner, Return, Goto, ReleaseOwner
<1> QED
  BY <1>1, <1>2, <1>3

(***************************************************************************)
(* Steps in the list stay in it and do not touch the locks.                *)
(***************************************************************************)
LEMMA StaysInside ==
    ASSUME LInv, NEW t \in Threads, ListSteps(t)
    PROVE  /\ Inside(t)
           /\ \E to \in {"search", "link", "finish", "leave"} : pc' = [pc EXCEPT ![t] = to]
           /\ UNCHANGED <<lockVars, live, op>>
<1>1. CASE PushRead(t) \/ PushLink(t) \/ PushFinish(t)
  BY <1>1 DEF PushRead, PushLink, PushFinish, Goto, Inside
<1>2. CASE PopRead(t) \/ PopLink(t) \/ PopFinish(t)
  BY <1>2 DEF PopRead, PopLink, PopFinish, Goto, Inside
<1>3. CASE Search(t)
  BY <1>3 DEF Search, Goto, Inside
<1>4. CASE TakeLink(t) \/ TakeFinish(t)
  BY <1>4 DEF TakeLink, TakeFinish, Goto, Inside
<1> QED
  BY <1>1, <1>2, <1>3, <1>4 DEF ListSteps

LEMMA LInvList ==
    ASSUME LInv, NEW t \in Threads, ListSteps(t)
    PROVE  LInv'
<1>1. PICK to \in {"search", "link", "finish", "leave"} : pc' = [pc EXCEPT ![t] = to]
  BY StaysInside
<1>2. Inside(t) /\ UNCHANGED <<kernel, owner, sharers, spin, live, op>>
  BY StaysInside DEF lockVars
<1>3. \A u \in Threads : Inside(u)' <=> Inside(u)
  BY <1>1, <1>2 DEF Inside, LInv, PlacesOK
<1>4. \A u \in Threads : pc'[u] # pc[u] => pc'[u] \in {"search", "link", "finish", "leave"} /\ Inside(u)
  BY <1>1, <1>2 DEF LInv, PlacesOK
<1>5. PlacesOK'
  BY <1>1, <1>2 DEF LInv, PlacesOK, Places
<1>6. \A u \in Threads : PlaceOK(u)'
  BY <1>2, <1>4 DEF LInv, PlaceOK, Inside
<1>7. \A u \in Threads : LocksOK(u)'
  BY <1>2, <1>3, <1>4 DEF LInv, LocksOK, HasOwner, HasSpin, HasShare, Inside
<1> QED
  BY <1>2, <1>5, <1>6, <1>7 DEF LInv

-----------------------------------------------------------------------------
LEMMA LInvNext == LInv /\ [Next]_vars => LInv'
<1> SUFFICES ASSUME LInv, [Next]_vars PROVE LInv'
  OBVIOUS
<1> USE DEF LInv, PlacesOK, Places, PlaceOK, LocksOK, HasOwner, HasSpin, HasShare, Inside
<1>1. CASE Start
  BY <1>1 DEF Start, lockVars, localVars
<1>2. CASE Stop
  BY <1>2 DEF Stop, AllIdle, lockVars, localVars
<1>3. ASSUME NEW t \in Threads, Call(t) PROVE LInv'
  BY <1>3 DEF Call, Goto, lockVars
<1>4. ASSUME NEW t \in Threads, LockSteps(t) PROVE LInv'
  BY <1>4, LInvEnter, LInvLeave DEF LockSteps
<1>5. ASSUME NEW t \in Threads, ListSteps(t) PROVE LInv'
  BY <1>5, LInvList
<1>6. CASE UNCHANGED vars
  BY <1>6 DEF vars, lockVars, localVars
<1> QED
  BY <1>1, <1>2, <1>3, <1>4, <1>5, <1>6 DEF Next

LEMMA LInvExcludes == LInv => WriterAlone
<1> SUFFICES ASSUME LInv, NEW t \in Threads, NEW u \in Threads, t # u, Writes(t) PROVE ~Inside(u)
  BY DEF WriterAlone
<1>1. owner = t /\ sharers = {} /\ (kernel => spin = t)
  BY DEF LInv, PlacesOK, LocksOK, HasOwner, HasSpin, Writes
<1> QED
  BY <1>1 DEF LInv, PlacesOK, LocksOK, HasOwner, HasSpin, HasShare

\* Whatever threads there are, each holds just the locks of its place.
THEOREM LockInvariant == Spec => []LInv
<1> QED
  BY LInvInit, LInvNext, PTL DEF Spec

(***************************************************************************)
(* A thread that may change the list is alone in it, in a driver and in a  *)
(* process, with any number of readers at any level.                       *)
(***************************************************************************)
THEOREM WritersAreAlone == Spec => []WriterAlone
<1> QED
  BY LockInvariant, LInvExcludes, PTL

-----------------------------------------------------------------------------
(***************************************************************************)
(* While GetElement searches without Removal, the list stays as it is.     *)
(***************************************************************************)
Reading == \E t \in Threads : Inside(t) /\ op[t] = "find"
ReadersKeepList == [][Reading => UNCHANGED listVars]_vars

LEMMA ReaderStep == LInv /\ WriterAlone /\ [Next]_vars => (Reading => UNCHANGED listVars)
<1> SUFFICES ASSUME LInv, WriterAlone, [Next]_vars,
                    NEW r \in Threads, Inside(r), op[r] = "find"
             PROVE  UNCHANGED listVars
  BY DEF Reading
<1>1. CASE Start
  BY <1>1 DEF Start, LInv, PlaceOK, Inside
<1>2. CASE Stop
  BY <1>2 DEF Stop
<1>3. ASSUME NEW t \in Threads, Call(t) PROVE UNCHANGED listVars
  BY <1>3 DEF Call
<1>4. ASSUME NEW t \in Threads, LockSteps(t) PROVE UNCHANGED listVars
  BY <1>4 DEF LockSteps, EnterShared, EnterOwner, EnterSpin, LeaveShared, LeaveSpin, LeaveOwner, Return,
              listVars
<1>5. ASSUME NEW t \in Threads, ListSteps(t) PROVE UNCHANGED listVars
  <2>1. op[t] = "find"
    BY <1>5, StaysInside DEF WriterAlone, Writes
  <2>2. Search(t)
    BY <1>5, <2>1 DEF ListSteps, PushRead, PushLink, PushFinish, PopRead, PopLink, PopFinish, TakeLink,
                      TakeFinish, Pushes, Pops
  <2> QED
    BY <2>2 DEF Search
<1>6. CASE UNCHANGED vars
  BY <1>6 DEF vars
<1> QED
  BY <1>1, <1>2, <1>3, <1>4, <1>5, <1>6 DEF Next

\* No search for reading ever sees the list change under it.
THEOREM ReadersDoNotWrite == Spec => ReadersKeepList
<1>1. LInv /\ WriterAlone /\ [Next]_vars => [Reading => UNCHANGED listVars]_vars
  BY ReaderStep
<1> QED
  BY <1>1, LockInvariant, WritersAreAlone, PTL DEF Spec, ReadersKeepList

-----------------------------------------------------------------------------
(***************************************************************************)
(* The facts about the walk along the links are proved by the least place  *)
(* at which they fail.                                                     *)
(***************************************************************************)
Less == {p \in Nat \X Nat : p[1] < p[2]}

\* A set of numbers that is not empty has a least one.
LEMMA Least ==
    ASSUME NEW T, T \subseteq Nat, T # {}
    PROVE  \E x \in T : \A y \in T : x <= y
<1>1. IsWellFoundedOn(Less, Nat)
  BY NatLessThanWellFounded DEF OpToRel, Less
<1>2. \E x \in T : \A y \in T : ~ (<<y, x>> \in Less)
  BY <1>1, WFMin
<1>3. \A x, y \in Nat : ~ (<<y, x>> \in Less) => x <= y
  BY DEF Less
<1> QED
  BY <1>2, <1>3

\* The sequences of elements in which none occurs twice.
Lists == {q \in Seq(Elems) : \A i, j \in 1 .. Len(q) : q[i] = q[j] => i = j}

\* The node at a place: the head is before the first and after the last.
At(q, i) == IF i \in 1 .. Len(q) THEN q[i] ELSE Head0

\* f leads from the head through q and around to it; or the same way back.
RingOf(f, q) == \A i \in 0 .. Len(q) : f[At(q, i)] = At(q, i + 1)
BackOf(f, q) == \A i \in 0 .. Len(q) : f[At(q, i + 1)] = At(q, i)

\* Such a sequence is no longer than there are elements.
LEMMA ListFits ==
    ASSUME NEW q \in Lists
    PROVE  Cardinality(Elems) \in Nat /\ Len(q) \in 0 .. Cardinality(Elems)
<1>1. Cardinality(Elems) \in Nat
  BY FS_CardinalityType
<1>2. Len(q) \in Nat /\ q \in [1 .. Len(q) -> Elems]
  BY DEF Lists
<1>3. IsFiniteSet(1 .. Len(q)) /\ Cardinality(1 .. Len(q)) = Len(q)
  BY <1>2, FS_Interval
<1>4. q \in Injection(1 .. Len(q), Elems)
  BY <1>2 DEF Lists, Injection, IsInjective
<1>5. Cardinality(1 .. Len(q)) <= Cardinality(Elems)
  BY <1>4, FS_Injection
<1> QED
  BY <1>1, <1>2, <1>3, <1>5

\* Along a ring the walk meets the elements in their order and stops at the head.
LEMMA WalkIs ==
    ASSUME NEW s \in Sides, NEW q \in Lists, RingOf(link[s], q)
    PROVE  Walk(s) = [i \in 0 .. Cardinality(Elems) |-> At(q, i + 1)]
<1> DEFINE S == 0 .. Cardinality(Elems)
           Step(f) == [i \in S |-> IF i = 0 THEN link[s][Head0]
                                   ELSE IF f[i - 1] \in Elems THEN link[s][f[i - 1]] ELSE f[i - 1]]
           g == [i \in S |-> At(q, i + 1)]
<1>1. Walk(s) = CHOOSE node : node = Step(node)
  BY DEF Walk
<1>2. Len(q) \in Nat /\ Cardinality(Elems) \in Nat /\ q \in [1 .. Len(q) -> Elems]
  BY ListFits DEF Lists
<1>3. g = Step(g)
  <2> SUFFICES ASSUME NEW i \in S
               PROVE  g[i] = IF i = 0 THEN link[s][Head0]
                             ELSE IF g[i - 1] \in Elems THEN link[s][g[i - 1]] ELSE g[i - 1]
    BY Zenon
  <2>1. CASE i = 0
    BY <1>2, <2>1 DEF RingOf, At
  <2>2. CASE i # 0
    <3>1. i \in Nat /\ i - 1 \in S /\ (i - 1) + 1 = i
      BY <1>2, <2>2
    <3>2. g[i - 1] = At(q, i) /\ g[i] = At(q, i + 1)
      BY <3>1, Zenon
    <3>3. CASE i <= Len(q)
      <4>1. At(q, i) \in Elems /\ link[s][At(q, i)] = At(q, i + 1)
        BY <1>2, <2>2, <3>1, <3>3 DEF RingOf, At
      <4> QED
        BY <2>2, <3>2, <4>1
    <3>4. CASE ~(i <= Len(q))
      <4>1. At(q, i) = Head0 /\ At(q, i + 1) = Head0
        BY <1>2, <3>1, <3>4 DEF At
      <4> QED
        BY <2>2, <3>2, <4>1
    <3> QED
      BY <3>3, <3>4
  <2> QED
    BY <2>1, <2>2
<1>4. Walk(s) = Step(Walk(s))
  BY <1>1, <1>3
<1> HIDE DEF g
<1>5. \A i \in S : Walk(s)[i] = g[i]
  <2> DEFINE T == {i \in S : Walk(s)[i] # g[i]}
  <2> SUFFICES ASSUME T # {} PROVE FALSE
    OBVIOUS
  <2>1. PICK x \in T : \A y \in T : x <= y
    <3>1. T \subseteq Nat
      OBVIOUS
    <3> HIDE DEF T
    <3> QED
      BY <3>1, Least
  <2>2. x \in S /\ Walk(s)[x] # g[x]
    OBVIOUS
  <2>3. x # 0
    <3>1. Walk(s)[0] = link[s][Head0] /\ g[0] = link[s][Head0]
      BY <1>2, <1>3, <1>4
    <3> QED
      BY <2>2, <3>1
  <2>4. x - 1 \in S /\ ~ (x <= x - 1)
    BY <1>2, <2>2, <2>3
  <2>5. Walk(s)[x - 1] = g[x - 1]
    BY <2>1, <2>4
  <2>6. /\ Walk(s)[x] = IF Walk(s)[x - 1] \in Elems THEN link[s][Walk(s)[x - 1]] ELSE Walk(s)[x - 1]
        /\ g[x] = IF g[x - 1] \in Elems THEN link[s][g[x - 1]] ELSE g[x - 1]
    BY <1>3, <1>4, <2>2, <2>3
  <2> QED
    BY <2>2, <2>5, <2>6
<1> QED
  BY <1>3, <1>4, <1>5 DEF g

\* So a ring is the sequence that the model reads from the links.
LEMMA ChainIs ==
    ASSUME NEW s \in Sides, NEW q \in Lists, RingOf(link[s], q)
    PROVE  Chain(s) = q
<1> DEFINE n == Cardinality(Elems)
<1>1. n \in Nat /\ Len(q) \in 0 .. n /\ q \in [1 .. Len(q) -> Elems]
  BY ListFits DEF Lists
<1>2. \A i \in 0 .. n : Walk(s)[i] = At(q, i + 1)
  BY WalkIs
<1>3. {i \in 0 .. n : Walk(s)[i] \in Elems} = 0 .. (Len(q) - 1)
  <2>1. \A i \in 0 .. n : At(q, i + 1) \in Elems <=> i \in 0 .. (Len(q) - 1)
    BY <1>1 DEF At
  <2>2. 0 .. (Len(q) - 1) \subseteq 0 .. n
    BY <1>1
  <2> HIDE DEF n
  <2> QED
    BY <1>2, <2>1, <2>2, Zenon
<1>4. Cardinality(0 .. (Len(q) - 1)) = Len(q)
  <2> DEFINE m == Len(q) - 1
  <2>1. m \in Int /\ 0 \in Int /\ Len(q) = m + 1 /\ m >= -1
    BY <1>1
  <2> HIDE DEF m
  <2>2. Cardinality(0 .. m) = IF 0 > m THEN 0 ELSE m - 0 + 1
    BY <2>1, FS_Interval
  <2>3. Cardinality(0 .. m) = m + 1
    BY <2>1, <2>2
  <2> QED
    BY <2>1, <2>3 DEF m
<1>5. Chain(s) = [i \in 1 .. Len(q) |-> Walk(s)[i - 1]]
  BY <1>3, <1>4 DEF Chain
<1>6. \A i \in 1 .. Len(q) : Walk(s)[i - 1] = q[i]
  BY <1>1, <1>2 DEF At
<1> QED
  BY <1>1, <1>5, <1>6

-----------------------------------------------------------------------------
\* A sequence with an element more at a place, and with one less.
With(q, i, e) ==
    [j \in 1 .. Len(q) + 1 |-> IF j < i THEN q[j] ELSE IF j = i THEN e ELSE q[j - 1]]
Without(q, i) ==
    [j \in 1 .. Len(q) - 1 |-> IF j < i THEN q[j] ELSE q[j + 1]]

\* Every node has one place; the head counts as the place before or as the one after.
LEMMA AtOnce ==
    ASSUME NEW q \in Lists
    PROVE  /\ \A j, k \in 0 .. Len(q) : At(q, j) = At(q, k) => j = k
           /\ \A j, k \in 1 .. Len(q) + 1 : At(q, j) = At(q, k) => j = k
           /\ \A k \in Nat : At(q, k) \in Nodes
           /\ Len(q) \in Nat /\ q \in [1 .. Len(q) -> Elems]
<1>1. Len(q) \in Nat /\ q \in [1 .. Len(q) -> Elems]
  BY DEF Lists
<1>2. \A j, k \in 1 .. Len(q) : q[j] = q[k] => j = k
  BY DEF Lists
<1> QED
  BY <1>1, <1>2 DEF At, Nodes

\* What is at which place after an insertion.
LEMMA WithIs ==
    ASSUME NEW q \in Lists, NEW i \in 1 .. Len(q) + 1, NEW e \in Elems \ ToSet(q)
    PROVE  /\ With(q, i, e) \in Lists
           /\ Len(With(q, i, e)) = Len(q) + 1
           /\ \A k \in 0 .. Len(q) + 2 :
                 At(With(q, i, e), k) = IF k < i THEN At(q, k) ELSE IF k = i THEN e ELSE At(q, k - 1)
           /\ ToSet(With(q, i, e)) = ToSet(q) \cup {e}
<1> DEFINE w == With(q, i, e)
<1>1. Len(q) \in Nat /\ q \in [1 .. Len(q) -> Elems]
  BY DEF Lists
<1>2. w \in [1 .. Len(q) + 1 -> Elems]
  BY <1>1 DEF With
<1>3. w \in Seq(Elems) /\ Len(w) = Len(q) + 1
  <2> HIDE DEF w
  <2>1. Len(q) + 1 \in Nat
    BY <1>1
  <2> QED
    BY <1>2, <2>1
<1>4. \A j \in 1 .. Len(q) + 1 : w[j] = IF j < i THEN q[j] ELSE IF j = i THEN e ELSE q[j - 1]
  BY DEF With
<1>5. \A j \in 1 .. Len(q) : q[j] # e
  BY <1>1 DEF ToSet
<1>6. \A j, k \in 1 .. Len(q) : q[j] = q[k] => j = k
  BY DEF Lists
<1> HIDE DEF w
<1>7. w \in Lists
  BY <1>1, <1>3, <1>4, <1>5, <1>6 DEF Lists
<1>8. \A k \in 0 .. Len(q) + 2 :
         At(w, k) = IF k < i THEN At(q, k) ELSE IF k = i THEN e ELSE At(q, k - 1)
  BY <1>1, <1>3, <1>4 DEF At
<1>9. ToSet(w) = ToSet(q) \cup {e}
  <2>1. ASSUME NEW j \in 1 .. Len(q) PROVE q[j] \in ToSet(w)
    <3>1. CASE j < i
      BY <1>1, <1>3, <1>4, <2>1, <3>1 DEF ToSet
    <3>2. CASE ~(j < i)
      <4>1. j + 1 \in 1 .. Len(w) /\ w[j + 1] = q[j]
        BY <1>1, <1>3, <1>4, <2>1, <3>2
      <4> QED
        BY <1>3, <4>1 DEF ToSet
    <3> QED
      BY <3>1, <3>2
  <2>2. i \in 1 .. Len(w) /\ w[i] = e
    BY <1>1, <1>3, <1>4
  <2>3. ASSUME NEW j \in 1 .. Len(w) PROVE w[j] \in ToSet(q) \cup {e}
    BY <1>1, <1>3, <1>4, <2>3 DEF ToSet
  <2>4. DOMAIN w = 1 .. Len(w) /\ DOMAIN q = 1 .. Len(q)
    BY <1>1, <1>3
  <2> QED
    BY <2>1, <2>2, <2>3, <2>4 DEF ToSet
<1> QED
  BY <1>3, <1>7, <1>8, <1>9 DEF w

\* What is at which place after a removal.
LEMMA WithoutIs ==
    ASSUME NEW q \in Lists, NEW i \in 1 .. Len(q)
    PROVE  /\ Without(q, i) \in Lists
           /\ Len(Without(q, i)) = Len(q) - 1
           /\ \A k \in 0 .. Len(q) :
                 At(Without(q, i), k) = IF k < i THEN At(q, k) ELSE At(q, k + 1)
           /\ ToSet(Without(q, i)) \subseteq ToSet(q)
<1> DEFINE w == Without(q, i)
<1>1. Len(q) \in Nat /\ q \in [1 .. Len(q) -> Elems] /\ Len(q) - 1 \in Nat
  BY DEF Lists
<1>2. w \in [1 .. Len(q) - 1 -> Elems]
  BY <1>1 DEF Without
<1>3. w \in Seq(Elems) /\ Len(w) = Len(q) - 1
  <2> DEFINE m == Len(q) - 1
  <2>1. m \in Nat /\ w \in [1 .. m -> Elems]
    BY <1>1, <1>2
  <2> HIDE DEF w, m
  <2>2. w \in Seq(Elems) /\ Len(w) = m
    BY <2>1
  <2> QED
    BY <2>2 DEF m
<1>4. \A j \in 1 .. Len(q) - 1 : w[j] = IF j < i THEN q[j] ELSE q[j + 1]
  BY DEF Without
<1>6. \A j, k \in 1 .. Len(q) : q[j] = q[k] => j = k
  BY DEF Lists
<1> HIDE DEF w
<1>7. w \in Lists
  BY <1>1, <1>3, <1>4, <1>6 DEF Lists
<1>8. \A k \in 0 .. Len(q) : At(w, k) = IF k < i THEN At(q, k) ELSE At(q, k + 1)
  BY <1>1, <1>3, <1>4 DEF At
<1>9. ToSet(w) \subseteq ToSet(q)
  <2>1. DOMAIN w = 1 .. Len(w) /\ DOMAIN q = 1 .. Len(q)
    BY <1>1, <1>3
  <2>2. ASSUME NEW j \in 1 .. Len(w) PROVE w[j] \in ToSet(q)
    BY <1>1, <1>3, <1>4, <2>1 DEF ToSet
  <2> QED
    BY <2>1, <2>2 DEF ToSet
<1> QED
  BY <1>3, <1>7, <1>8, <1>9 DEF w

(***************************************************************************)
(* One side of an insertion or a removal: two links of the side change for *)
(* an insertion, one for a removal, and what was a ring through q is one   *)
(* through the new sequence.                                               *)
(***************************************************************************)
LEMMA RingWith ==
    ASSUME NEW q \in Lists, NEW i \in 1 .. Len(q) + 1, NEW e \in Elems \ ToSet(q),
           NEW f, NEW g, RingOf(f, q),
           g[e] = At(q, i), g[At(q, i - 1)] = e,
           \A n \in Nodes : n # e /\ n # At(q, i - 1) => g[n] = f[n]
    PROVE  RingOf(g, With(q, i, e))
<1> DEFINE w == With(q, i, e)
<1>1. Len(w) = Len(q) + 1 /\ Len(q) \in Nat
  BY WithIs, AtOnce
<1>2. \A k \in 0 .. Len(q) + 2 : At(w, k) = IF k < i THEN At(q, k) ELSE IF k = i THEN e ELSE At(q, k - 1)
  BY WithIs
<1> HIDE DEF w
<1>3. \A k \in 0 .. Len(q) : k # i - 1 => At(q, k) # At(q, i - 1) /\ At(q, k) # e /\ At(q, k) \in Nodes
  BY <1>1, AtOnce DEF At, ToSet
<1>4. \A k \in 0 .. Len(q) : k # i - 1 => g[At(q, k)] = At(q, k + 1)
  BY <1>1, <1>3 DEF RingOf
<1>5. ASSUME NEW k \in 0 .. Len(w) PROVE g[At(w, k)] = At(w, k + 1)
  <2>1. At(w, k) = (IF k < i THEN At(q, k) ELSE IF k = i THEN e ELSE At(q, k - 1))
    BY <1>1, <1>2, <1>5
  <2>2. At(w, k + 1) = (IF k + 1 < i THEN At(q, k + 1) ELSE IF k + 1 = i THEN e ELSE At(q, k))
    <3>1. k + 1 \in 0 .. Len(q) + 2 /\ (k + 1) - 1 = k
      BY <1>1, <1>5
    <3> QED
      BY <3>1, <1>2
  <2>3. CASE k < i - 1
    BY <1>1, <1>4, <2>1, <2>2, <2>3
  <2>4. CASE k = i - 1
    BY <1>1, <2>1, <2>2, <2>4
  <2>5. CASE k = i
    BY <1>1, <2>1, <2>2, <2>5
  <2>6. CASE k > i
    <3>1. k - 1 \in 0 .. Len(q) /\ k - 1 # i - 1 /\ (k - 1) + 1 = k
      BY <1>1, <1>5, <2>6
    <3>2. g[At(q, k - 1)] = At(q, k)
      BY <1>4, <3>1
    <3> QED
      BY <1>1, <2>1, <2>2, <2>6, <3>2
  <2> QED
    BY <1>1, <2>3, <2>4, <2>5, <2>6
<1> QED
  BY <1>5 DEF RingOf, w

\* The same insertion seen along the other side.
LEMMA BackWith ==
    ASSUME NEW q \in Lists, NEW i \in 1 .. Len(q) + 1, NEW e \in Elems \ ToSet(q),
           NEW f, NEW g, BackOf(f, q),
           g[e] = At(q, i - 1), g[At(q, i)] = e,
           \A n \in Nodes : n # e /\ n # At(q, i) => g[n] = f[n]
    PROVE  BackOf(g, With(q, i, e))
<1> DEFINE w == With(q, i, e)
<1>1. Len(w) = Len(q) + 1 /\ Len(q) \in Nat
  BY WithIs, AtOnce
<1>2. \A k \in 0 .. Len(q) + 2 : At(w, k) = IF k < i THEN At(q, k) ELSE IF k = i THEN e ELSE At(q, k - 1)
  BY WithIs
<1> HIDE DEF w
<1>3. \A k \in 0 .. Len(q) : k + 1 # i =>
         At(q, k + 1) # At(q, i) /\ At(q, k + 1) # e /\ At(q, k + 1) \in Nodes
  <2>1. \A k \in 0 .. Len(q) : k + 1 \in 1 .. Len(q) + 1 /\ k + 1 \in Nat
    BY <1>1
  <2>2. \A k \in 1 .. Len(q) + 1 : At(q, k) # e
    BY <1>1, AtOnce DEF At, ToSet
  <2> QED
    BY <2>1, <2>2, AtOnce
<1>4. \A k \in 0 .. Len(q) : k + 1 # i => g[At(q, k + 1)] = At(q, k)
  BY <1>3 DEF BackOf
<1>5. ASSUME NEW k \in 0 .. Len(w) PROVE g[At(w, k + 1)] = At(w, k)
  <2>1. At(w, k) = (IF k < i THEN At(q, k) ELSE IF k = i THEN e ELSE At(q, k - 1))
    BY <1>1, <1>2, <1>5
  <2>2. At(w, k + 1) = (IF k + 1 < i THEN At(q, k + 1) ELSE IF k + 1 = i THEN e ELSE At(q, k))
    <3>1. k + 1 \in 0 .. Len(q) + 2 /\ (k + 1) - 1 = k
      BY <1>1, <1>5
    <3> QED
      BY <3>1, <1>2
  <2>3. CASE k < i - 1
    BY <1>1, <1>4, <2>1, <2>2, <2>3
  <2>4. CASE k = i - 1
    BY <1>1, <2>1, <2>2, <2>4
  <2>5. CASE k = i
    BY <1>1, <2>1, <2>2, <2>5
  <2>6. CASE k > i
    <3>1. k - 1 \in 0 .. Len(q) /\ (k - 1) + 1 = k /\ k # i
      BY <1>1, <1>5, <2>6
    <3>2. g[At(q, k)] = At(q, k - 1)
      BY <1>4, <3>1
    <3> QED
      BY <1>1, <2>1, <2>2, <2>6, <3>2
  <2> QED
    BY <1>1, <2>3, <2>4, <2>5, <2>6
<1> QED
  BY <1>5 DEF BackOf, w

\* A removal takes one link of a side.
LEMMA RingWithout ==
    ASSUME NEW q \in Lists, NEW i \in 1 .. Len(q),
           NEW f, NEW g, RingOf(f, q),
           g[At(q, i - 1)] = At(q, i + 1),
           \A n \in Nodes : n # At(q, i - 1) => g[n] = f[n]
    PROVE  RingOf(g, Without(q, i))
<1> DEFINE w == Without(q, i)
<1>1. Len(w) = Len(q) - 1 /\ Len(q) \in Nat
  BY WithoutIs, AtOnce
<1>2. \A k \in 0 .. Len(q) : At(w, k) = IF k < i THEN At(q, k) ELSE At(q, k + 1)
  BY WithoutIs
<1> HIDE DEF w
<1>3. \A k \in 0 .. Len(q) : k # i - 1 => At(q, k) # At(q, i - 1) /\ At(q, k) \in Nodes
  BY <1>1, AtOnce
<1>4. \A k \in 0 .. Len(q) : k # i - 1 => g[At(q, k)] = At(q, k + 1)
  BY <1>3 DEF RingOf
<1>5. ASSUME NEW k \in 0 .. Len(w) PROVE g[At(w, k)] = At(w, k + 1)
  <2>1. At(w, k) = (IF k < i THEN At(q, k) ELSE At(q, k + 1))
    BY <1>1, <1>2, <1>5
  <2>2. At(w, k + 1) = (IF k + 1 < i THEN At(q, k + 1) ELSE At(q, (k + 1) + 1))
    <3>1. k + 1 \in 0 .. Len(q)
      BY <1>1, <1>5
    <3> QED
      BY <3>1, <1>2
  <2>3. CASE k < i - 1
    BY <1>1, <1>4, <2>1, <2>2, <2>3
  <2>4. CASE k = i - 1
    <3>1. (k + 1) + 1 = i + 1
      BY <1>1, <2>4
    <3> QED
      BY <1>1, <2>1, <2>2, <2>4, <3>1
  <2>5. CASE k >= i
    <3>1. k + 1 \in 0 .. Len(q) /\ k + 1 # i - 1
      BY <1>1, <1>5, <2>5
    <3>2. g[At(q, k + 1)] = At(q, (k + 1) + 1)
      BY <1>4, <3>1
    <3> QED
      BY <1>1, <2>1, <2>2, <2>5, <3>2
  <2> QED
    BY <1>1, <2>3, <2>4, <2>5
<1> QED
  BY <1>5 DEF RingOf, w

\* The same removal seen along the other side.
LEMMA BackWithout ==
    ASSUME NEW q \in Lists, NEW i \in 1 .. Len(q),
           NEW f, NEW g, BackOf(f, q),
           g[At(q, i + 1)] = At(q, i - 1),
           \A n \in Nodes : n # At(q, i + 1) => g[n] = f[n]
    PROVE  BackOf(g, Without(q, i))
<1> DEFINE w == Without(q, i)
<1>1. Len(w) = Len(q) - 1 /\ Len(q) \in Nat
  BY WithoutIs, AtOnce
<1>2. \A k \in 0 .. Len(q) : At(w, k) = IF k < i THEN At(q, k) ELSE At(q, k + 1)
  BY WithoutIs
<1> HIDE DEF w
<1>3. \A k \in 0 .. Len(q) : k # i => At(q, k + 1) # At(q, i + 1) /\ At(q, k + 1) \in Nodes
  <2>1. \A k \in 0 .. Len(q) : k + 1 \in 1 .. Len(q) + 1 /\ k + 1 \in Nat
    BY <1>1
  <2>2. i \in 0 .. Len(q)
    BY <1>1
  <2> QED
    BY <2>1, <2>2, AtOnce
<1>4. \A k \in 0 .. Len(q) : k # i => g[At(q, k + 1)] = At(q, k)
  BY <1>3 DEF BackOf
<1>5. ASSUME NEW k \in 0 .. Len(w) PROVE g[At(w, k + 1)] = At(w, k)
  <2>1. At(w, k) = (IF k < i THEN At(q, k) ELSE At(q, k + 1))
    BY <1>1, <1>2, <1>5
  <2>2. At(w, k + 1) = (IF k + 1 < i THEN At(q, k + 1) ELSE At(q, (k + 1) + 1))
    <3>1. k + 1 \in 0 .. Len(q)
      BY <1>1, <1>5
    <3> QED
      BY <3>1, <1>2
  <2>3. CASE k < i - 1
    BY <1>1, <1>4, <2>1, <2>2, <2>3
  <2>4. CASE k = i - 1
    <3>1. (k + 1) + 1 = i + 1
      BY <1>1, <2>4
    <3> QED
      BY <1>1, <2>1, <2>2, <2>4, <3>1
  <2>5. CASE k >= i
    <3>1. k + 1 \in 0 .. Len(q) /\ k + 1 # i
      BY <1>1, <1>5, <2>5
    <3>2. g[At(q, (k + 1) + 1)] = At(q, k + 1)
      BY <1>4, <3>1
    <3> QED
      BY <1>1, <2>1, <2>2, <2>5, <3>2
  <2> QED
    BY <1>1, <2>3, <2>4, <2>5
<1> QED
  BY <1>5 DEF BackOf, w

\* The way back is a ring through the reversed sequence.
LEMMA ReverseIs ==
    ASSUME NEW q \in Lists, NEW f, BackOf(f, q)
    PROVE  Reverse(q) \in Lists /\ RingOf(f, Reverse(q))
<1> DEFINE w == Reverse(q)
<1>1. Len(q) \in Nat /\ q \in [1 .. Len(q) -> Elems]
  BY AtOnce
<1>2. w \in [1 .. Len(q) -> Elems]
  BY <1>1 DEF Reverse
<1>3. \A j \in 1 .. Len(q) : w[j] = q[(Len(q) - j) + 1]
  BY DEF Reverse
<1> HIDE DEF w
<1>4. w \in Seq(Elems) /\ Len(w) = Len(q)
  BY <1>1, <1>2
<1>5. \A j, k \in 1 .. Len(q) : q[j] = q[k] => j = k
  BY DEF Lists
<1>6. w \in Lists
  <2>1. \A j, k \in 1 .. Len(w) : w[j] = w[k] => (Len(q) - j) + 1 = (Len(q) - k) + 1
    <3>1. \A j \in 1 .. Len(w) : (Len(q) - j) + 1 \in 1 .. Len(q)
      BY <1>1, <1>4
    <3> QED
      BY <1>3, <1>4, <1>5, <3>1
  <2>2. \A j, k \in 1 .. Len(w) : (Len(q) - j) + 1 = (Len(q) - k) + 1 => j = k
    BY <1>1, <1>4
  <2> QED
    BY <1>4, <2>1, <2>2 DEF Lists
<1>7. \A k \in 0 .. Len(q) + 1 : At(w, k) = At(q, (Len(q) - k) + 1)
  BY <1>1, <1>3, <1>4 DEF At
<1>8. ASSUME NEW k \in 0 .. Len(w) PROVE f[At(w, k)] = At(w, k + 1)
  <2>1. Len(q) - k \in 0 .. Len(q) /\ k + 1 \in 0 .. Len(q) + 1 /\ (Len(q) - (k + 1)) + 1 = Len(q) - k
    BY <1>1, <1>4, <1>8
  <2>2. f[At(q, (Len(q) - k) + 1)] = At(q, Len(q) - k)
    BY <2>1 DEF BackOf
  <2>3. At(w, k) = At(q, (Len(q) - k) + 1)
    BY <1>1, <1>4, <1>7, <1>8
  <2>4. At(w, k + 1) = At(q, Len(q) - k)
    BY <1>7, <2>1
  <2> QED
    BY <2>2, <2>3, <2>4
<1> QED
  BY <1>6, <1>8 DEF RingOf, w

-----------------------------------------------------------------------------
(***************************************************************************)
(* Between two operations both sides are rings through the same sequence,  *)
(* and the count is its length.                                            *)
(***************************************************************************)
Forward(q) == RingOf(link["f"], q)
Backward(q) == BackOf(link["b"], q)
Rings(q) == Forward(q) /\ Backward(q) /\ count = Len(q)

Whole == List \in Lists /\ Rings(List)

\* The place where a thread inserts or removes.
Gap(t, q) == CASE op[t] \in {"pushHead", "popHead"} -> {1}
               [] op[t] = "pushTail" -> {Len(q) + 1}
               [] op[t] = "popTail" -> {Len(q)}
               [] OTHER -> {i \in 1 .. Len(q) : q[i] = arg[t]}

\* The links of an element about to be inserted already lead to its neighbours.
Linked(t, q, i) ==
    /\ link["f"][arg[t]] = At(q, i)
    /\ link["b"][arg[t]] = At(q, i - 1)

\* Before the first write of an insertion or a removal: the locals are those of the list.
ReadyToPush(t, q, i) ==
    /\ arg[t] \notin ToSet(q)
    /\ Linked(t, q, i)
    /\ near[t] = IF op[t] = "pushHead" THEN At(q, i) ELSE At(q, i - 1)

ReadyToRemove(t, q, i) ==
    /\ i \in 1 .. Len(q)
    /\ cur[t] = q[i]
    /\ op[t] = "popHead" => near[t] = At(q, i + 1)
    /\ op[t] = "popTail" => near[t] = At(q, i - 1)

Ready(t) == \E i \in Gap(t, List) :
    IF op[t] \in Pushes THEN ReadyToPush(t, List, i) ELSE ReadyToRemove(t, List, i)

(***************************************************************************)
(* Between the first and the second write one side is already a ring       *)
(* through the new sequence and the other one still through the old.       *)
(***************************************************************************)
Pushing(t, q, i) ==
    /\ arg[t] \notin ToSet(q)
    /\ IF op[t] = "pushHead"
       THEN Forward(q) /\ Backward(With(q, i, arg[t])) /\ link["f"][arg[t]] = At(q, i)
       ELSE Forward(With(q, i, arg[t])) /\ Backward(q) /\ link["b"][arg[t]] = At(q, i - 1)

Removing(t, q, i) ==
    /\ i \in 1 .. Len(q)
    /\ cur[t] = q[i]
    /\ IF op[t] = "popTail"
       THEN Forward(q) /\ Backward(Without(q, i)) /\ near[t] = At(q, i - 1)
       ELSE Forward(Without(q, i)) /\ Backward(q) /\ near[t] = At(q, i + 1) /\ got[t] = cur[t]

Turning(t) == \E q \in Lists : \E i \in Gap(t, q) :
    /\ count = Len(q)
    /\ IF op[t] \in Pushes THEN Pushing(t, q, i) ELSE Removing(t, q, i)

\* A search has passed the element it looks for nowhere yet.
Looking(t) == \E i \in 1 .. Len(List) + 1 :
    /\ cur[t] = At(List, i)
    /\ \A j \in 1 .. i - 1 : List[j] # arg[t]

\* The operation and its argument fit the place in the code.
Args(t) ==
    /\ op[t] \in Pushes \cup {"find", "take"} => arg[t] \in Elems
    /\ op[t] \in Pops => arg[t] = Null
    /\ pc[t] = "idle" <=> op[t] = "none"
    /\ pc[t] = "idle" => got[t] = Null
    /\ pc[t] = "read" => op[t] \in Pushes \cup Pops
    /\ pc[t] = "search" => op[t] \in {"find", "take"}
    /\ pc[t] \in {"link", "finish"} => op[t] \in Pushes \cup Pops \cup {"take"}

\* An element still to be inserted is in nobody's list.
ToCome(t) == op[t] \in Pushes /\ pc[t] \in {"owner", "spin", "read", "link"}

\* NothingMissed, of one thread.
Missed(t) ==
    pc[t] = "leave" /\ got[t] = Null /\ op[t] \notin Pushes =>
        IF op[t] \in Pops THEN List = <<>> ELSE arg[t] \notin ToSet(List)

\* What a thread can say of itself.
Own(t) ==
    /\ Args(t)
    /\ ToCome(t) => arg[t] \notin ToSet(List)
    /\ pc[t] = "search" => Looking(t)
    /\ pc[t] = "link" => Ready(t)
    /\ Missed(t)

\* The list is whole unless a writer is between its two writes; no two
\* threads push the same element.
Steady == live /\ (\A t \in Threads : pc[t] # "finish") => Whole
Midway == \A t \in Threads : pc[t] = "finish" => Turning(t)
Apart == \A t, u \in Threads : t # u /\ op[t] \in Pushes /\ op[u] \in Pushes => arg[t] # arg[u]

(***************************************************************************)
(* The inductive invariant. LinksSound and NothingMissed speak of the      *)
(* moments at which a thread looks; the invariant says what the links are  *)
(* in between, halfway through a change included.                          *)
(***************************************************************************)
SInv ==
    /\ TypeOK
    /\ \A t \in Threads : Own(t)
    /\ Steady
    /\ Midway
    /\ Apart

-----------------------------------------------------------------------------
\* A ring of the list in use is the list.
LEMMA ListIs == \A q \in Lists : live /\ Forward(q) => List = q
  BY ChainIs DEF Forward, List, Sides

\* The same after a step.
LEMMA ListIsNext == \A q \in Lists : live' /\ Forward(q)' => List' = q
<1>1. (\A q \in Lists : live /\ Forward(q) => List = q)'
  BY ListIs, PTL
<1> QED
  BY <1>1

\* The kinds of operation are distinct.
LEMMA OpsDiffer ==
    /\ Pushes \cap Pops = {}
    /\ "none" \notin Pushes \cup Pops
    /\ "find" \notin Pushes \cup Pops
    /\ "take" \notin Pushes \cup Pops
  BY DEF Pushes, Pops

\* The locals of a thread that does not move.
Same(u) ==
    /\ pc'[u] = pc[u] /\ op'[u] = op[u] /\ arg'[u] = arg[u]
    /\ cur'[u] = cur[u] /\ near'[u] = near[u] /\ got'[u] = got[u]

\* A step that writes no link leaves the sequence as it is,
LEMMA ListStays ==
    ASSUME UNCHANGED <<link, live>>
    PROVE  List' = List
  BY DEF List, Chain, Walk

\* ... so that a whole list stays whole,
LEMMA WholeStays ==
    ASSUME UNCHANGED <<link, count, live>>
    PROVE  Whole' = Whole
<1>1. List' = List
  BY ListStays
<1> QED
  BY <1>1 DEF Whole, Rings, Forward, Backward, RingOf, BackOf

\* ... a thread that does not move can still say of itself what it could,
LEMMA SameOwn ==
    ASSUME NEW u \in Threads, UNCHANGED <<link, count, live>>, Same(u)
    PROVE  Own(u) => Own(u)'
<1>1. List' = List
  BY ListStays
<1>2. Args(u) => Args(u)'
  BY DEF Same, Args
<1>3. Looking(u) => Looking(u)'
  BY <1>1 DEF Same, Looking
<1>4. Ready(u) => Ready(u)'
  BY <1>1 DEF Same, Ready, Gap, ReadyToPush, ReadyToRemove, Linked
<1>5. Missed(u) => Missed(u)'
  BY <1>1 DEF Same, Missed
<1> QED
  BY <1>1, <1>2, <1>3, <1>4, <1>5 DEF Own, Same, ToCome

\* ... and a writer between its two writes is still there.
LEMMA SameTurning ==
    ASSUME NEW u \in Threads, UNCHANGED <<link, count, live>>, Same(u)
    PROVE  Turning(u) => Turning(u)'
  BY DEF Same, Turning, Gap, Pushing, Removing, Forward, Backward

\* A step of one thread that writes no link keeps the invariant if it keeps its own part.
LEMMA QuietKeeps ==
    ASSUME SInv, TypeOK', NEW t \in Threads, UNCHANGED <<link, count, live>>,
           \A u \in Threads \ {t} : Same(u),
           pc[t] # "finish", pc'[t] # "finish",
           Own(t)',
           op'[t] \in Pushes => \A u \in Threads \ {t} : op[u] \in Pushes => arg[u] # arg'[t]
    PROVE  SInv'
<1>1. \A u \in Threads : Own(u)'
  BY SameOwn DEF SInv
<1>2. Steady'
  BY WholeStays DEF SInv, Steady, Same
<1>3. Midway'
  BY SameTurning DEF SInv, Midway, Same
<1>4. Apart'
  BY DEF SInv, Apart, Same
<1> QED
  BY <1>1, <1>2, <1>3, <1>4 DEF SInv

\* A step of a writer: it is alone in the list, so only its own part has to be shown.
LEMMA WriterKeeps ==
    ASSUME SInv, LInv, TypeOK', NEW t \in Threads, Writes(t),
           UNCHANGED <<live, op, arg>>,
           \A u \in Threads \ {t} : Same(u),
           pc[t] # "idle", pc'[t] # "idle",
           ToSet(List') \subseteq ToSet(List) \cup (IF op[t] \in Pushes THEN {arg[t]} ELSE {}),
           Own(t)',
           IF pc'[t] = "finish" THEN Turning(t)' ELSE Whole'
    PROVE  SInv'
<1>1. ASSUME NEW u \in Threads \ {t}
      PROVE  pc[u] \notin {"read", "search", "link", "finish", "leave"}
  BY LInvExcludes DEF WriterAlone, Inside
<1>2. ASSUME NEW u \in Threads \ {t} PROVE Own(u)'
  <2>1. Args(u)'
    BY DEF SInv, Own, Args, Same
  <2>2. ToCome(u) => arg[u] \notin ToSet(List')
    BY DEF SInv, Own, Apart, ToCome
  <2> QED
    BY <1>1, <2>1, <2>2 DEF Own, ToCome, Missed, Same
<1>3. Steady'
  BY DEF Steady
<1>4. Midway'
  BY <1>1 DEF Midway, Same
<1>5. Apart'
  BY DEF SInv, Apart
<1> QED
  BY <1>2, <1>3, <1>4, <1>5 DEF SInv

-----------------------------------------------------------------------------
(***************************************************************************)
(* Entering and leaving the list.                                          *)
(***************************************************************************)
LEMMA LInvExcludesNext == LInv' => WriterAlone'
  BY LInvExcludes, PTL

\* A thread that gets its lock finds the list whole.
LEMMA WholeAtEntry ==
    ASSUME SInv, LInv, LInv', NEW t \in Threads,
           pc[t] \in {"shared", "owner", "spin"}, Inside(t)',
           \A u \in Threads \ {t} : pc'[u] = pc[u] /\ op'[u] = op[u]
    PROVE  Whole
<1>1. live
  BY DEF LInv, PlaceOK
<1>2. ASSUME NEW u \in Threads, pc[u] = "finish" PROVE FALSE
  <2>1. u # t
    BY <1>2
  <2>2. Writes(u)'
    BY <1>2, <2>1, OpsDiffer DEF SInv, Own, Args, Writes, Inside
  <2> QED
    BY <2>1, <2>2, LInvExcludesNext DEF WriterAlone
<1> QED
  BY <1>1, <1>2 DEF SInv, Steady

\* What a whole list is, place by place.
LEMMA WholeIs ==
    ASSUME Whole
    PROVE  /\ List \in Lists /\ Len(List) \in Nat /\ count = Len(List)
           /\ \A i \in 0 .. Len(List) :
                 /\ link["f"][At(List, i)] = At(List, i + 1)
                 /\ link["b"][At(List, i + 1)] = At(List, i)
           /\ link["f"][Head0] = At(List, 1)
           /\ link["b"][Head0] = At(List, Len(List))
<1>1. Len(List) \in Nat
  BY DEF Whole, Lists
<1>2. At(List, 0) = Head0 /\ At(List, Len(List) + 1) = Head0
  BY <1>1 DEF At
<1>3. \A i \in 0 .. Len(List) :
                 /\ link["f"][At(List, i)] = At(List, i + 1)
                 /\ link["b"][At(List, i + 1)] = At(List, i)
  BY DEF Whole, Rings, Forward, Backward, RingOf, BackOf
<1>4. link["f"][At(List, 0)] = At(List, 0 + 1) /\ link["b"][At(List, Len(List) + 1)] = At(List, Len(List))
  BY <1>1, <1>3
<1> QED
  BY <1>1, <1>2, <1>3, <1>4 DEF Whole, Rings

\* A search starts at the first node, having passed none.
LEMMA EnterBodyOwn ==
    ASSUME SInv, LInv, LInv', NEW t \in Threads, EnterBody(t),
           pc[t] \in {"shared", "owner", "spin"},
           UNCHANGED <<link, count, live, op, arg, near, got>>
    PROVE  /\ Own(t)'
           /\ \A u \in Threads \ {t} : Same(u)
           /\ pc' \in [Threads -> Places] /\ pc'[t] # "finish"
           /\ cur' \in [Threads -> Nodes \cup {Null}]
<1>1. /\ pc' = [pc EXCEPT ![t] = Body(t)]
      /\ cur' = [cur EXCEPT ![t] = IF Body(t) = "search" THEN link["f"][Head0] ELSE Null]
  BY DEF EnterBody, Goto
<1>2. Body(t) \in {"read", "search"}
  BY BodyPlace
<1>3. pc \in [Threads -> Places] /\ cur \in [Threads -> Nodes \cup {Null}]
  BY DEF SInv, TypeOK, Places
<1>4. \A u \in Threads \ {t} : Same(u)
  BY <1>1, <1>3 DEF Same
<1>5. pc' \in [Threads -> Places] /\ pc'[t] = Body(t)
  BY <1>1, <1>2, <1>3 DEF Places
<1>6. cur' \in [Threads -> Nodes \cup {Null}]
  <2>1. link["f"][Head0] \in Nodes \cup {Null}
    BY DEF SInv, TypeOK, Sides, Nodes
  <2> QED
    BY <1>1, <1>3, <2>1
<1>7. op[t] \in Pushes \cup Pops \cup {"find", "take"}
  BY DEF SInv, TypeOK, Own, Args
<1>8. Args(t)'
  BY <1>2, <1>5, <1>7, OpsDiffer DEF SInv, Own, Args, Body
<1>9. List' = List
  BY ListStays
<1>10. ToCome(t)' => arg'[t] \notin ToSet(List')
  <2>1. pc[t] = "shared" => op[t] = "find"
    BY DEF LInv, PlaceOK
  <2> QED
    BY <1>9, <2>1, OpsDiffer DEF SInv, Own, ToCome
<1>11. pc'[t] = "search" => Looking(t)'
  <2> SUFFICES ASSUME pc'[t] = "search" PROVE Looking(t)'
    OBVIOUS
  <2>1. Whole
    BY <1>4, <1>5, WholeAtEntry DEF Inside, Same
  <2>2. cur'[t] = At(List, 1)
    BY <1>1, <1>3, <1>5, <2>1, WholeIs
  <2>3. Len(List) \in Nat
    BY <2>1, WholeIs
  <2>4. 1 \in 1 .. Len(List) + 1 /\ 1 .. 1 - 1 = {}
    BY <2>3
  <2> QED
    BY <1>9, <2>2, <2>4 DEF Looking
<1> QED
  BY <1>2, <1>4, <1>5, <1>6, <1>8, <1>10, <1>11 DEF Own, Missed

\* The steps of the locks keep their types.
LEMMA LockTypes ==
    ASSUME LockTypeOK, NEW t \in Threads
    PROVE  /\ AcquireShared(t) \/ ReleaseShared(t) => LockTypeOK'
           /\ AcquireOwner(t) \/ ReleaseOwner(t) => LockTypeOK'
           /\ AcquireSpin(t) \/ ReleaseSpin(t) => LockTypeOK'
<1> USE DEF LockTypeOK
<1>1. AcquireOwner(t) \/ ReleaseOwner(t) => LockTypeOK'
  BY DEF AcquireOwner, ReleaseOwner
<1>2. AcquireSpin(t) \/ ReleaseSpin(t) => LockTypeOK'
  BY DEF AcquireSpin, ReleaseSpin
<1>3. AcquireShare(t) \/ ReleaseShare(t) => LockTypeOK'
  BY DEF AcquireShare, ReleaseShare
<1> HIDE DEF LockTypeOK
<1> QED
  BY <1>1, <1>2, <1>3 DEF AcquireShared, ReleaseShared

\* Getting a lock changes no link.
LEMMA EnterKeeps ==
    ASSUME SInv, LInv, LInv', NEW t \in Threads, EnterShared(t) \/ EnterOwner(t) \/ EnterSpin(t)
    PROVE  SInv'
<1>1. /\ UNCHANGED <<link, count, live, op, arg, near, got>>
      /\ pc[t] \in {"shared", "owner", "spin"}
      /\ EnterBody(t) \/ (pc[t] = "owner" /\ Goto(t, "spin") /\ UNCHANGED cur)
  BY DEF EnterShared, EnterOwner, EnterSpin, listVars
<1>2. LockTypeOK'
  BY LockTypes DEF EnterShared, EnterOwner, EnterSpin, SInv, TypeOK
<1>3. op'[t] \in Pushes => \A u \in Threads \ {t} : op[u] \in Pushes => arg[u] # arg'[t]
  BY <1>1 DEF SInv, Apart
<1>4. CASE EnterBody(t)
  <2>1. TypeOK'
    BY <1>1, <1>2, <1>4, EnterBodyOwn DEF SInv, TypeOK, Places
  <2> QED
    BY <1>1, <1>3, <1>4, <2>1, EnterBodyOwn, QuietKeeps
<1>5. CASE pc[t] = "owner" /\ Goto(t, "spin") /\ UNCHANGED cur
  <2>1. pc \in [Threads -> Places]
    BY DEF SInv, TypeOK, Places
  <2>2. pc' \in [Threads -> Places] /\ pc'[t] = "spin" /\ \A u \in Threads \ {t} : Same(u)
    BY <1>1, <1>5, <2>1 DEF Goto, Places, Same
  <2>3. TypeOK'
    BY <1>1, <1>2, <1>5, <2>2 DEF SInv, TypeOK, Places
  <2>4. List' = List
    BY <1>1, ListStays
  <2>5. Own(t)'
    BY <1>1, <1>5, <2>2, <2>4 DEF SInv, Own, Args, ToCome, Missed
  <2> QED
    BY <1>1, <1>3, <1>5, <2>2, <2>3, <2>5, QuietKeeps
<1> QED
  BY <1>1, <1>4, <1>5

\* A thread that has returned has no locals.
LEMMA ReturnOwn ==
    ASSUME SInv, NEW t \in Threads, Return(t), LockTypeOK'
    PROVE  TypeOK' /\ Own(t)' /\ (\A u \in Threads \ {t} : Same(u)) /\ pc'[t] = "idle" /\ op'[t] = "none"
<1>1. /\ pc \in [Threads -> Places] /\ op \in [Threads -> Pushes \cup Pops \cup {"none", "find", "take"}]
      /\ arg \in [Threads -> Elems \cup {Null}] /\ cur \in [Threads -> Nodes \cup {Null}]
      /\ near \in [Threads -> Nodes \cup {Null}] /\ got \in [Threads -> Elems \cup {Null}]
  BY DEF SInv, TypeOK, Places
<1>2. /\ pc' = [pc EXCEPT ![t] = "idle"] /\ op' = [op EXCEPT ![t] = "none"]
      /\ arg' = [arg EXCEPT ![t] = Null] /\ cur' = [cur EXCEPT ![t] = Null]
      /\ near' = [near EXCEPT ![t] = Null] /\ got' = [got EXCEPT ![t] = Null]
      /\ UNCHANGED <<link, count, live>>
  BY DEF Return, Goto, listVars
<1>3. /\ pc' \in [Threads -> Places] /\ op' \in [Threads -> Pushes \cup Pops \cup {"none", "find", "take"}]
      /\ arg' \in [Threads -> Elems \cup {Null}] /\ cur' \in [Threads -> Nodes \cup {Null}]
      /\ near' \in [Threads -> Nodes \cup {Null}] /\ got' \in [Threads -> Elems \cup {Null}]
  BY <1>1, <1>2 DEF Places
<1>4. TypeOK'
  BY <1>2, <1>3 DEF SInv, TypeOK, Places
<1>5. pc'[t] = "idle" /\ op'[t] = "none" /\ got'[t] = Null /\ \A u \in Threads \ {t} : Same(u)
  BY <1>1, <1>2 DEF Same
<1>6. Own(t)'
  BY <1>5, OpsDiffer DEF Own, Args, ToCome, Missed
<1> QED
  BY <1>4, <1>5, <1>6

\* Giving a lock back changes no link.
LEMMA LeaveKeeps ==
    ASSUME SInv, NEW t \in Threads, LeaveShared(t) \/ LeaveSpin(t) \/ LeaveOwner(t)
    PROVE  SInv'
<1>1. LockTypeOK'
  BY LockTypes DEF LeaveShared, LeaveSpin, LeaveOwner, SInv, TypeOK
<1>2. CASE LeaveShared(t) \/ LeaveOwner(t)
  <2>1. Return(t) /\ pc[t] # "finish"
    BY <1>2 DEF LeaveShared, LeaveOwner
  <2>2. UNCHANGED <<link, count, live>>
    BY <2>1 DEF Return, listVars
  <2>3. TypeOK' /\ Own(t)' /\ (\A u \in Threads \ {t} : Same(u)) /\ pc'[t] = "idle" /\ op'[t] = "none"
    BY <1>1, <2>1, ReturnOwn
  <2>4. pc'[t] # "finish" /\ op'[t] \notin Pushes
    BY <2>3, OpsDiffer
  <2> QED
    BY <2>1, <2>2, <2>3, <2>4, QuietKeeps
<1>3. CASE LeaveSpin(t)
  <2>1. /\ pc[t] = "leave" /\ pc' = [pc EXCEPT ![t] = "leaveOwner"]
        /\ UNCHANGED <<link, count, live, op, arg, cur, near, got>>
    BY <1>3 DEF LeaveSpin, Goto, listVars
  <2>2. pc \in [Threads -> Places]
    BY DEF SInv, TypeOK, Places
  <2>3. pc' \in [Threads -> Places] /\ pc'[t] = "leaveOwner" /\ \A u \in Threads \ {t} : Same(u)
    BY <2>1, <2>2 DEF Places, Same
  <2>4. TypeOK'
    BY <1>1, <2>1, <2>3 DEF SInv, TypeOK, Places
  <2>5. Own(t)'
    BY <2>1, <2>3 DEF SInv, Own, Args, ToCome, Missed
  <2>6. op'[t] \in Pushes => \A u \in Threads \ {t} : op[u] \in Pushes => arg[u] # arg'[t]
    BY <2>1 DEF SInv, Apart
  <2> QED
    BY <2>1, <2>3, <2>4, <2>5, <2>6, QuietKeeps
<1> QED
  BY <1>2, <1>3

\* A call: an element is pushed only while nobody has it.
LEMMA CallKeeps ==
    ASSUME SInv, NEW t \in Threads, Call(t)
    PROVE  SInv'
<1>1. PICK o \in Pushes \cup Pops \cup {"find", "take"}, e \in Elems \cup {Null} :
        /\ o \in Pops <=> e = Null
        /\ o \in Pushes => Unused(e)
        /\ op' = [op EXCEPT ![t] = o]
        /\ arg' = [arg EXCEPT ![t] = e]
        /\ pc' = [pc EXCEPT ![t] = IF o = "find" THEN "shared" ELSE "owner"]
  BY DEF Call, Goto
<1>2. pc[t] = "idle" /\ got[t] = Null /\ UNCHANGED <<link, count, live, cur, near, got>>
  BY DEF Call, listVars, SInv, Own, Args
<1>3. pc \in [Threads -> Places] /\ op \in [Threads -> Pushes \cup Pops \cup {"none", "find", "take"}]
      /\ arg \in [Threads -> Elems \cup {Null}]
  BY DEF SInv, TypeOK, Places
<1>4. /\ pc' \in [Threads -> Places] /\ op' \in [Threads -> Pushes \cup Pops \cup {"none", "find", "take"}]
      /\ arg' \in [Threads -> Elems \cup {Null}]
      /\ pc'[t] = (IF o = "find" THEN "shared" ELSE "owner") /\ op'[t] = o /\ arg'[t] = e
      /\ \A u \in Threads \ {t} : Same(u)
  BY <1>1, <1>2, <1>3 DEF Places, Same
<1>5. TypeOK'
  <2>1. LockTypeOK'
    BY DEF Call, lockVars, SInv, TypeOK, LockTypeOK
  <2> QED
    BY <1>2, <1>4, <2>1 DEF SInv, TypeOK, Places
<1>6. List' = List
  BY <1>2, ListStays
<1>7. o \in Pushes => e \in Elems /\ e \notin ToSet(List)
  BY <1>1, OpsDiffer DEF Unused
<1>8. Own(t)'
  BY <1>1, <1>2, <1>4, <1>6, <1>7, OpsDiffer DEF Own, Args, ToCome, Missed
<1>9. op'[t] \in Pushes => \A u \in Threads \ {t} : op[u] \in Pushes => arg[u] # arg'[t]
  BY <1>1, <1>4, OpsDiffer DEF Unused, SInv, Own, Args
<1>10. pc[t] # "finish" /\ pc'[t] # "finish"
  BY <1>2, <1>4
<1> QED
  BY <1>2, <1>4, <1>5, <1>8, <1>9, <1>10, QuietKeeps

\* At first there is no list, and nobody is in a call.
LEMMA InitKeeps == Init => SInv
<1> SUFFICES ASSUME Init PROVE SInv
  OBVIOUS
<1>1. Cardinality(Elems) \in Nat
  BY FS_CardinalityType
<1>2. TypeOK
  <2>1. link \in [Sides -> [Nodes -> Nodes \cup {Null}]] /\ count \in 0 .. Cardinality(Elems)
    BY <1>1 DEF Init
  <2>2. LockTypeOK
    BY DEF Init, LockInit, LockTypeOK
  <2>3. op \in [Threads -> Pushes \cup Pops \cup {"none", "find", "take"}]
    BY DEF Init
  <2>4. pc \in [Threads -> Places] /\ live \in BOOLEAN
    BY DEF Init, Places
  <2>5. /\ arg \in [Threads -> Elems \cup {Null}] /\ got \in [Threads -> Elems \cup {Null}]
        /\ cur \in [Threads -> Nodes \cup {Null}] /\ near \in [Threads -> Nodes \cup {Null}]
    BY DEF Init
  <2> QED
    BY <2>1, <2>2, <2>3, <2>4, <2>5 DEF TypeOK, Places
<1>3. \A t \in Threads : pc[t] = "idle" /\ op[t] = "none" /\ got[t] = Null
  BY DEF Init
<1> QED
  BY <1>2, <1>3, OpsDiffer DEF SInv, Own, Args, ToCome, Missed, Steady, Midway, Apart, Init

\* Start makes the empty ring; Stop leaves no list to speak of.
LEMMA StartStopKeeps ==
    ASSUME SInv, LInv, Start \/ Stop
    PROVE  SInv'
<1>1. UNCHANGED <<lockVars, pc, op, arg, cur, near, got>>
  BY DEF Start, Stop, localVars
<1>2. \A t \in Threads : pc[t] = "idle"
  BY DEF Start, Stop, AllIdle, LInv, PlaceOK
<1>3. \A t \in Threads : Own(t)'
  BY <1>1, <1>2, OpsDiffer DEF SInv, Own, Args, ToCome, Missed
<1>4. Midway' /\ Apart'
  BY <1>1, <1>2 DEF SInv, Midway, Apart
<1>5. CASE Start
  <2>1. /\ link' = [s \in Sides |-> [link[s] EXCEPT ![Head0] = Head0]]
        /\ count' = 0 /\ live' \in BOOLEAN
    BY <1>5 DEF Start
  <2>2. Cardinality(Elems) \in Nat
    BY FS_CardinalityType
  <2>3. link' \in [Sides -> [Nodes -> Nodes \cup {Null}]]
    BY <2>1 DEF SInv, TypeOK, Nodes
  <2>4. TypeOK'
    BY <1>1, <2>1, <2>2, <2>3 DEF SInv, TypeOK, LockTypeOK, lockVars
  <2>5. link'["f"][Head0] = Head0 /\ link'["b"][Head0] = Head0
    BY <2>1 DEF SInv, TypeOK, Sides, Nodes
  <2>6. <<>> \in Lists /\ Len(<<>>) = 0
    BY DEF Lists
  <2>7. \A i : At(<<>>, i) = Head0
    BY DEF At
  <2>8. Forward(<<>>)' /\ Backward(<<>>)'
    BY <2>5, <2>6, <2>7 DEF Forward, Backward, RingOf, BackOf
  <2>9. live' => Whole'
    BY <2>1, <2>6, <2>8, ListIsNext DEF Whole, Rings
  <2> QED
    BY <1>3, <1>4, <2>4, <2>9 DEF SInv, Steady
<1>6. CASE Stop
  <2>1. ~live' /\ UNCHANGED <<link, count>>
    BY <1>6 DEF Stop, listVars
  <2>2. TypeOK'
    BY <1>1, <2>1, <1>6 DEF SInv, TypeOK, LockTypeOK, lockVars, Stop
  <2> QED
    BY <1>3, <1>4, <2>1, <2>2 DEF SInv, Steady
<1> QED
  BY <1>5, <1>6

-----------------------------------------------------------------------------
(***************************************************************************)
(* The steps in the list.                                                  *)
(***************************************************************************)
LEMMA ListStepFrame ==
    ASSUME SInv, NEW t \in Threads, ListSteps(t)
    PROVE  /\ UNCHANGED <<lockVars, live, op, arg>>
           /\ \A u \in Threads \ {t} : Same(u)
           /\ pc[t] \in {"read", "search", "link", "finish"}
           /\ pc'[t] \in {"search", "link", "finish", "leave"}
           /\ pc' \in [Threads -> Places]
<1>1. pc \in [Threads -> Places] /\ cur \in [Threads -> Nodes \cup {Null}]
      /\ near \in [Threads -> Nodes \cup {Null}] /\ got \in [Threads -> Elems \cup {Null}]
  BY DEF SInv, TypeOK, Places
<1>2. /\ \E to \in {"search", "link", "finish", "leave"} : pc' = [pc EXCEPT ![t] = to]
      /\ UNCHANGED <<lockVars, live, op, arg>>
      /\ pc[t] \in {"read", "search", "link", "finish"}
  <2>1. CASE PushRead(t) \/ PushLink(t) \/ PushFinish(t)
    BY <2>1 DEF PushRead, PushLink, PushFinish, Goto
  <2>2. CASE PopRead(t) \/ PopLink(t) \/ PopFinish(t)
    BY <2>2 DEF PopRead, PopLink, PopFinish, Goto
  <2>3. CASE Search(t)
    BY <2>3 DEF Search, Goto
  <2>4. CASE TakeLink(t) \/ TakeFinish(t)
    BY <2>4 DEF TakeLink, TakeFinish, Goto
  <2> QED
    BY <2>1, <2>2, <2>3, <2>4 DEF ListSteps
<1>3. /\ \E x : cur' = [cur EXCEPT ![t] = x] \/ cur' = cur
      /\ \E x : near' = [near EXCEPT ![t] = x] \/ near' = near
      /\ \E x : got' = [got EXCEPT ![t] = x] \/ got' = got
  <2>1. CASE PushRead(t) \/ PushLink(t) \/ PushFinish(t)
    BY <2>1 DEF PushRead, PushLink, PushFinish
  <2>2. CASE PopRead(t) \/ PopLink(t) \/ PopFinish(t)
    BY <2>2 DEF PopRead, PopLink, PopFinish
  <2>3. CASE Search(t)
    BY <2>3 DEF Search
  <2>4. CASE TakeLink(t) \/ TakeFinish(t)
    BY <2>4 DEF TakeLink, TakeFinish
  <2> QED
    BY <2>1, <2>2, <2>3, <2>4 DEF ListSteps
<1>4. \A u \in Threads \ {t} : pc'[u] = pc[u] /\ cur'[u] = cur[u] /\ near'[u] = near[u] /\ got'[u] = got[u]
  BY <1>1, <1>2, <1>3
<1> QED
  BY <1>1, <1>2, <1>4 DEF Same, Places

\* A search goes one node on in a list that stays as it is.
LEMMA SearchKeeps ==
    ASSUME SInv, NEW t \in Threads, Search(t), Whole
    PROVE  SInv' /\ List' = List
<1>1. /\ UNCHANGED <<lockVars, live, op, arg>>
      /\ \A u \in Threads \ {t} : Same(u)
      /\ pc' \in [Threads -> Places]
  BY ListStepFrame DEF ListSteps
<1>2. UNCHANGED <<link, count, near>>
  BY DEF Search, listVars
<1>3. List' = List
  BY <1>1, <1>2, ListStays
<1>4. PICK i \in 1 .. Len(List) + 1 :
         cur[t] = At(List, i) /\ \A j \in 1 .. i - 1 : List[j] # arg[t]
  BY DEF SInv, Own, Search, Looking
<1>5. List \in Lists /\ Len(List) \in Nat /\ List \in [1 .. Len(List) -> Elems]
  BY WholeIs, AtOnce
<1>6. op[t] \in {"find", "take"} /\ arg[t] \in Elems /\ pc[t] = "search"
  BY DEF SInv, Own, Args, Search
<1>7. /\ pc \in [Threads -> Places] /\ cur \in [Threads -> Nodes \cup {Null}]
      /\ got \in [Threads -> Elems \cup {Null}]
      /\ link \in [Sides -> [Nodes -> Nodes \cup {Null}]]
  BY DEF SInv, TypeOK, Places
<1>8. /\ pc'[t] = (IF cur[t] = Head0 THEN "leave"
                   ELSE IF cur[t] # arg[t] THEN "search"
                   ELSE IF op[t] = "take" THEN "link" ELSE "leave")
      /\ cur' = (IF cur[t] = Head0 \/ cur[t] = arg[t] THEN cur ELSE [cur EXCEPT ![t] = link["f"][cur[t]]])
      /\ got' = (IF cur[t] = arg[t] /\ op[t] = "find" THEN [got EXCEPT ![t] = cur[t]] ELSE got)
  BY <1>7 DEF Search, Goto
<1>9. CASE cur[t] = Head0
  <2>1. i = Len(List) + 1
    BY <1>4, <1>5, <1>9 DEF At
  <2>2. arg[t] \notin ToSet(List)
    BY <1>4, <1>5, <2>1 DEF ToSet
  <2>3. pc'[t] = "leave" /\ cur' = cur /\ got' = got
    BY <1>6, <1>8, <1>9
  <2>4. TypeOK'
    BY <1>1, <1>2, <2>3 DEF SInv, TypeOK, LockTypeOK, lockVars, Places
  <2>5. Own(t)'
    BY <1>1, <1>3, <1>6, <2>2, <2>3, OpsDiffer DEF Own, Args, ToCome, Missed
  <2>6. op'[t] \notin Pushes /\ pc[t] # "finish" /\ pc'[t] # "finish"
    BY <1>1, <1>6, <2>3, OpsDiffer
  <2> QED
    BY <1>1, <1>2, <1>3, <2>4, <2>5, <2>6, QuietKeeps
<1>10. CASE cur[t] = arg[t]
  <2>1. i \in 1 .. Len(List) /\ List[i] = arg[t]
    BY <1>4, <1>5, <1>6, <1>10 DEF At
  <2>2. cur' = cur /\ got' \in [Threads -> Elems \cup {Null}]
        /\ got'[t] = (IF op[t] = "find" THEN arg[t] ELSE got[t])
        /\ pc'[t] = (IF op[t] = "take" THEN "link" ELSE "leave")
    BY <1>6, <1>7, <1>8, <1>10
  <2>3. TypeOK'
    BY <1>1, <1>2, <2>2 DEF SInv, TypeOK, LockTypeOK, lockVars, Places
  <2>4. op[t] = "take" => Ready(t)'
    <3>1. op[t] = "take" => i \in Gap(t, List)
      BY <2>1, OpsDiffer DEF Gap
    <3>2. op[t] = "take" => ReadyToRemove(t, List, i)
      BY <1>10, <2>1 DEF ReadyToRemove
    <3> QED
      BY <1>1, <1>2, <1>3, <2>2, <3>1, <3>2, OpsDiffer DEF Ready, Gap, ReadyToRemove
  <2>5. Own(t)'
    BY <1>1, <1>3, <1>6, <2>2, <2>4, OpsDiffer DEF Own, Args, ToCome, Missed
  <2>6. op'[t] \notin Pushes /\ pc[t] # "finish" /\ pc'[t] # "finish"
    BY <1>1, <1>6, <2>2, OpsDiffer
  <2> QED
    BY <1>1, <1>2, <1>3, <2>3, <2>5, <2>6, QuietKeeps
<1>11. CASE cur[t] # Head0 /\ cur[t] # arg[t]
  <2>1. i \in 1 .. Len(List) /\ List[i] # arg[t] /\ cur[t] = List[i]
    BY <1>4, <1>5, <1>11 DEF At
  <2>2. link["f"][cur[t]] = At(List, i + 1)
    <3>1. i \in 0 .. Len(List) /\ At(List, i) = cur[t]
      BY <1>4, <1>5, <2>1
    <3> QED
      BY <3>1, WholeIs
  <2>3. pc'[t] = "search" /\ got' = got /\ cur' = [cur EXCEPT ![t] = At(List, i + 1)]
    BY <1>8, <1>11, <2>2
  <2>4. At(List, i + 1) \in Nodes
    BY <1>5, AtOnce
  <2>5. TypeOK'
    BY <1>1, <1>2, <1>7, <2>3, <2>4 DEF SInv, TypeOK, LockTypeOK, lockVars, Places
  <2>6. Looking(t)'
    <3>1. i + 1 \in 1 .. Len(List) + 1 /\ cur'[t] = At(List, i + 1)
      BY <1>5, <1>7, <2>1, <2>3
    <3>2. \A j \in 1 .. (i + 1) - 1 : List[j] # arg[t]
      BY <1>4, <1>5, <2>1
    <3> QED
      BY <1>1, <1>3, <3>1, <3>2 DEF Looking
  <2>7. Own(t)'
    BY <1>1, <1>3, <1>6, <2>3, <2>6, OpsDiffer DEF Own, Args, ToCome, Missed
  <2>8. op'[t] \notin Pushes /\ pc[t] # "finish" /\ pc'[t] # "finish"
    BY <1>1, <1>6, <2>3, OpsDiffer
  <2> QED
    BY <1>1, <1>2, <1>3, <2>5, <2>7, <2>8, QuietKeeps
<1> QED
  BY <1>9, <1>10, <1>11

\* Nobody is halfway through a write while another one is in the list.
LEMMA WholeInside ==
    ASSUME SInv, LInv, NEW t \in Threads, Inside(t), pc[t] # "finish"
    PROVE  Whole
<1>1. live
  BY DEF LInv, PlaceOK, Inside
<1>2. ASSUME NEW u \in Threads, pc[u] = "finish" PROVE FALSE
  <2>1. u # t /\ Writes(u)
    BY <1>2, OpsDiffer DEF SInv, Own, Args, Writes, Inside
  <2> QED
    BY <2>1, LInvExcludes DEF WriterAlone
<1> QED
  BY <1>1, <1>2 DEF SInv, Steady

\* A write of one link leaves the others alone.
LEMMA OneLink ==
    ASSUME link \in [Sides -> [Nodes -> Nodes \cup {Null}]],
           NEW s \in Sides, NEW n \in Nodes, NEW v \in Nodes \cup {Null},
           link' = [link EXCEPT ![s][n] = v]
    PROVE  /\ link' \in [Sides -> [Nodes -> Nodes \cup {Null}]]
           /\ link'[s][n] = v
           /\ \A m \in Nodes : m # n => link'[s][m] = link[s][m]
           /\ link'[Other(s)] = link[Other(s)]
  BY DEF Sides, Other

\* The two sides.
LEMMA SidesDiffer ==
    /\ Other("f") = "b" /\ Other("b") = "f" /\ "f" \in Sides /\ "b" \in Sides
    /\ \A t : op[t] \in {"pushTail", "popTail"} => Side(t) = "b"
    /\ \A t : op[t] \notin {"pushTail", "popTail"} => Side(t) = "f"
  BY DEF Other, Sides, Side

\* A ring is a matter of its own side.
LEMMA ForwardStays ==
    ASSUME NEW q, link'["f"] = link["f"]
    PROVE  Forward(q)' <=> Forward(q)
  BY DEF Forward, RingOf

\* And so is the way back.
LEMMA BackwardStays ==
    ASSUME NEW q, link'["b"] = link["b"]
    PROVE  Backward(q)' <=> Backward(q)
  BY DEF Backward, BackOf

\* Two rings through one sequence, and its length, are the list.
LEMMA WholeNext ==
    ASSUME NEW q \in Lists, live', RingOf(link'["f"], q), BackOf(link'["b"], q), count' = Len(q)
    PROVE  Whole' /\ List' = q
<1>1. List' = q
  BY ListIsNext DEF Forward
<1> QED
  BY <1>1 DEF Whole, Rings, Forward, Backward

\* The links of the new element are written before any other thread can see it.
LEMMA PushReadKeeps ==
    ASSUME SInv, LInv, NEW t \in Threads, PushRead(t)
    PROVE  SInv' /\ List' = List
<1>1. /\ UNCHANGED <<lockVars, live, op, arg>>
      /\ \A u \in Threads \ {t} : Same(u)
      /\ pc' \in [Threads -> Places]
  BY ListStepFrame DEF ListSteps
<1>2. /\ pc[t] = "read" /\ op[t] \in Pushes /\ UNCHANGED <<count, cur, got>>
      /\ near' = [near EXCEPT ![t] = link[Side(t)][Head0]]
      /\ link' = [link EXCEPT ![Side(t)][arg[t]] = link[Side(t)][Head0],
                              ![Other(Side(t))][arg[t]] = Head0]
      /\ pc' = [pc EXCEPT ![t] = "link"]
  BY DEF PushRead, Goto
<1>3. Writes(t) /\ live
  BY <1>2, OpsDiffer DEF Writes, Inside, LInv, PlaceOK
<1>4. Whole
  BY <1>2, <1>3, WholeInside DEF Writes
<1>5. List \in Lists /\ Len(List) \in Nat /\ \A k \in Nat : At(List, k) \in Nodes
  BY <1>4, WholeIs, AtOnce
<1>6. arg[t] \in Elems /\ arg[t] \notin ToSet(List)
  BY <1>2 DEF SInv, Own, Args, ToCome
<1>7. \A k \in Nat : At(List, k) # arg[t]
  BY <1>5, <1>6 DEF At, ToSet
<1>8. /\ pc \in [Threads -> Places] /\ near \in [Threads -> Nodes \cup {Null}]
      /\ link \in [Sides -> [Nodes -> Nodes \cup {Null}]]
  BY DEF SInv, TypeOK, Places
<1> DEFINE i == IF op[t] = "pushHead" THEN 1 ELSE Len(List) + 1
           h == link[Side(t)][Head0]
<1>9. /\ i \in Gap(t, List) /\ i \in Nat /\ i - 1 \in Nat
      /\ h = IF op[t] = "pushHead" THEN At(List, i) ELSE At(List, i - 1)
      /\ At(List, i) = IF op[t] = "pushHead" THEN h ELSE Head0
      /\ At(List, i - 1) = IF op[t] = "pushHead" THEN Head0 ELSE h
      /\ h \in Nodes
  <2>1. link["f"][Head0] = At(List, 1) /\ link["b"][Head0] = At(List, Len(List))
    BY <1>4, WholeIs
  <2>2. At(List, Len(List) + 1) = Head0 /\ At(List, 0) = Head0 /\ (Len(List) + 1) - 1 = Len(List) /\ 1 - 1 = 0
    BY <1>5 DEF At
  <2>3. CASE op[t] = "pushHead"
    BY <1>5, <2>1, <2>2, <2>3, SidesDiffer DEF Gap
  <2>4. CASE op[t] = "pushTail"
    BY <1>5, <2>1, <2>2, <2>4, SidesDiffer DEF Gap
  <2> QED
    BY <1>2, <2>3, <2>4 DEF Pushes
<1> HIDE DEF i, h
<1>10. /\ link' \in [Sides -> [Nodes -> Nodes \cup {Null}]]
       /\ link'[Side(t)][arg[t]] = h /\ link'[Other(Side(t))][arg[t]] = Head0
       /\ \A s \in Sides : \A n \in Nodes : n # arg[t] => link'[s][n] = link[s][n]
  <2>1. Side(t) \in Sides /\ Other(Side(t)) \in Sides /\ Side(t) # Other(Side(t))
    BY SidesDiffer
  <2>2. arg[t] \in Nodes /\ Head0 \in Nodes
    BY <1>6 DEF Nodes
  <2>3. link' = [link EXCEPT ![Side(t)][arg[t]] = h, ![Other(Side(t))][arg[t]] = Head0]
    BY <1>2 DEF h
  <2> QED
    BY <1>8, <1>9, <2>1, <2>2, <2>3
<1>11. link'["f"][arg[t]] = At(List, i) /\ link'["b"][arg[t]] = At(List, i - 1)
  <2>1. CASE op[t] = "pushHead"
    BY <1>9, <1>10, <2>1, SidesDiffer
  <2>2. CASE op[t] = "pushTail"
    BY <1>9, <1>10, <2>2, SidesDiffer
  <2> QED
    BY <1>2, <2>1, <2>2 DEF Pushes
<1>12. RingOf(link'["f"], List) /\ BackOf(link'["b"], List)
  <2>1. \A k \in 0 .. Len(List) : k \in Nat /\ k + 1 \in Nat
    BY <1>5
  <2>2. \A k \in 0 .. Len(List) :
            /\ link'["f"][At(List, k)] = link["f"][At(List, k)]
            /\ link'["b"][At(List, k + 1)] = link["b"][At(List, k + 1)]
    BY <1>5, <1>7, <1>10, <2>1, SidesDiffer
  <2> QED
    BY <1>4, <2>2, WholeIs DEF RingOf, BackOf
<1>13. Whole' /\ List' = List
  BY <1>1, <1>2, <1>3, <1>4, <1>5, <1>12, WholeIs, WholeNext
<1>14. near' \in [Threads -> Nodes \cup {Null}] /\ near'[t] = h /\ pc'[t] = "link"
  BY <1>2, <1>8, <1>9 DEF h
<1>15. TypeOK'
  BY <1>1, <1>2, <1>10, <1>14 DEF SInv, TypeOK, LockTypeOK, lockVars, Places
<1>16. Ready(t)'
  <2>1. ReadyToPush(t, List, i)'
    BY <1>1, <1>6, <1>9, <1>11, <1>13, <1>14 DEF ReadyToPush, Linked, i
  <2>2. i' = i /\ i \in Gap(t, List)'
    BY <1>1, <1>9, <1>13 DEF Gap, i
  <2> QED
    BY <1>1, <1>2, <2>1, <2>2 DEF Ready
<1>17. Own(t)'
  BY <1>1, <1>2, <1>6, <1>13, <1>14, <1>16, OpsDiffer DEF SInv, Own, Args, ToCome, Missed
<1> QED
  BY <1>1, <1>2, <1>3, <1>13, <1>14, <1>15, <1>17, WriterKeeps

\* The check of the neighbour before it is changed succeeds.
LEMMA PushReady ==
    ASSUME SInv, LInv, NEW t \in Threads, pc[t] = "link", op[t] \in Pushes
    PROVE  /\ Whole /\ Writes(t) /\ live /\ PushChecks(t)
           /\ arg[t] \in Elems /\ arg[t] \notin ToSet(List)
           /\ LET i == IF op[t] = "pushHead" THEN 1 ELSE Len(List) + 1
              IN  i \in 1 .. Len(List) + 1 /\ i \in Gap(t, List) /\ ReadyToPush(t, List, i)
<1> DEFINE i == IF op[t] = "pushHead" THEN 1 ELSE Len(List) + 1
<1>1. Writes(t) /\ live
  BY OpsDiffer DEF Writes, Inside, LInv, PlaceOK
<1>2. Whole
  BY <1>1, WholeInside DEF Writes
<1>3. List \in Lists /\ Len(List) \in Nat
  BY <1>2, WholeIs
<1>4. arg[t] \in Elems /\ arg[t] \notin ToSet(List)
  BY DEF SInv, Own, Args, ToCome
<1>5. Gap(t, List) = {i}
  BY DEF Gap, Pushes
<1>6. ReadyToPush(t, List, i)
  BY <1>5 DEF SInv, Own, Ready
<1>7. PushChecks(t)
  <2>1. At(List, 0) = Head0 /\ At(List, Len(List) + 1) = Head0 /\ (Len(List) + 1) - 1 = Len(List)
    BY <1>3 DEF At
  <2>2. CASE op[t] = "pushHead"
    <3>1. near[t] = At(List, 1)
      BY <1>6, <2>2 DEF ReadyToPush
    <3>2. link["b"][At(List, 0 + 1)] = At(List, 0)
      BY <1>2, <1>3, WholeIs
    <3> QED
      BY <2>1, <2>2, <3>1, <3>2, SidesDiffer DEF PushChecks
  <2>3. CASE op[t] = "pushTail"
    <3>1. near[t] = At(List, Len(List))
      BY <1>6, <2>1, <2>3 DEF ReadyToPush
    <3>2. link["f"][At(List, Len(List))] = At(List, Len(List) + 1)
      BY <1>2, <1>3, WholeIs
    <3> QED
      BY <2>1, <2>3, <3>1, <3>2, SidesDiffer DEF PushChecks
  <2> QED
    BY <2>2, <2>3 DEF Pushes
<1> QED
  BY <1>1, <1>2, <1>3, <1>4, <1>5, <1>6, <1>7

\* The first write of an insertion; at the tail it is the one Flink shows.
LEMMA PushLinkKeeps ==
    ASSUME SInv, LInv, NEW t \in Threads, PushLink(t)
    PROVE  /\ SInv'
           /\ List' = IF op[t] = "pushHead" THEN List ELSE With(List, Len(List) + 1, arg[t])
           /\ arg[t] \in Elems \ ToSet(List) /\ List \in Lists /\ got' = got
<1>1. /\ UNCHANGED <<lockVars, live, op, arg>>
      /\ \A u \in Threads \ {t} : Same(u)
      /\ pc' \in [Threads -> Places]
  BY ListStepFrame DEF ListSteps
<1>2. pc[t] = "link" /\ op[t] \in Pushes /\ UNCHANGED <<count, cur, near, got>>
  BY DEF PushLink
<1>3. /\ Whole /\ Writes(t) /\ live /\ PushChecks(t)
      /\ arg[t] \in Elems /\ arg[t] \notin ToSet(List)
  BY <1>2, PushReady
<1>4. PICK i : /\ i = IF op[t] = "pushHead" THEN 1 ELSE Len(List) + 1
               /\ i \in 1 .. Len(List) + 1 /\ i \in Gap(t, List) /\ ReadyToPush(t, List, i)
  BY <1>2, PushReady
<1>5. PICK q : q = List
  OBVIOUS
<1>6. q \in Lists /\ Len(q) \in Nat /\ count = Len(q) /\ RingOf(link["f"], q) /\ BackOf(link["b"], q)
  BY <1>3, <1>5, WholeIs DEF Whole, Rings, Forward, Backward
<1>7. /\ link' = [link EXCEPT ![Other(Side(t))][near[t]] = arg[t]]
      /\ pc' = [pc EXCEPT ![t] = "finish"]
  BY <1>3 DEF PushLink, Goto
<1>8. pc'[t] = "finish"
  BY <1>7 DEF SInv, TypeOK
<1>9. /\ near[t] = (IF op[t] = "pushHead" THEN At(q, i) ELSE At(q, i - 1))
      /\ link["f"][arg[t]] = At(q, i) /\ link["b"][arg[t]] = At(q, i - 1)
  BY <1>4, <1>5 DEF ReadyToPush, Linked
<1>10. /\ \A k \in Nat : At(q, k) \in Nodes /\ At(q, k) # arg[t]
       /\ i \in Nat /\ i - 1 \in Nat
  <2>1. \A k \in Nat : At(q, k) \in Nodes
    BY <1>6, AtOnce
  <2>2. \A k \in Nat : At(q, k) # arg[t]
    BY <1>3, <1>5, <1>6 DEF At, ToSet
  <2> QED
    BY <1>4, <1>5, <1>6, <2>1, <2>2
<1>11. /\ link' \in [Sides -> [Nodes -> Nodes \cup {Null}]]
       /\ link'[Other(Side(t))][near[t]] = arg[t]
       /\ \A m \in Nodes : m # near[t] => link'[Other(Side(t))][m] = link[Other(Side(t))][m]
       /\ link'[Side(t)] = link[Side(t)]
  <2>1. link \in [Sides -> [Nodes -> Nodes \cup {Null}]]
    BY DEF SInv, TypeOK
  <2>2. near[t] \in Nodes /\ arg[t] \in Nodes
    BY <1>3, <1>9, <1>10 DEF Nodes
  <2>3. Other(Side(t)) \in Sides /\ Other(Other(Side(t))) = Side(t)
    BY SidesDiffer
  <2> QED
    BY <1>7, <2>1, <2>2, <2>3, OneLink
<1>12. TypeOK'
  BY <1>1, <1>2, <1>11 DEF SInv, TypeOK, LockTypeOK, lockVars, Places
<1>13. Pushing(t, q, i)' /\ List' = IF op[t] = "pushHead" THEN q ELSE With(q, i, arg[t])
  <2>1. CASE op[t] = "pushHead"
    <3>1. link'["f"] = link["f"] /\ link'["b"][At(q, i)] = arg[t]
          /\ \A m \in Nodes : m # At(q, i) => link'["b"][m] = link["b"][m]
      BY <1>9, <1>11, <2>1, SidesDiffer
    <3>2. link'["b"][arg[t]] = At(q, i - 1)
      <4>1. arg[t] \in Nodes /\ arg[t] # At(q, i)
        BY <1>3, <1>10 DEF Nodes
      <4> QED
        BY <1>9, <3>1, <4>1
    <3>3. BackOf(link'["b"], With(q, i, arg[t]))
      <4>1. q \in Lists /\ i \in 1 .. Len(q) + 1 /\ arg[t] \in Elems \ ToSet(q) /\ BackOf(link["b"], q)
        BY <1>3, <1>4, <1>5, <1>6
      <4> QED
        BY <3>1, <3>2, <4>1, BackWith
    <3>4. RingOf(link'["f"], q)
      BY <1>6, <3>1
    <3>5. List' = q
      BY <1>1, <1>3, <1>6, <3>4, ListIsNext DEF Forward
    <3> QED
      BY <1>1, <1>3, <1>5, <1>9, <2>1, <3>1, <3>3, <3>4, <3>5 DEF Pushing, Forward, Backward
  <2>2. CASE op[t] = "pushTail"
    <3>1. link'["b"] = link["b"] /\ link'["f"][At(q, i - 1)] = arg[t]
          /\ \A m \in Nodes : m # At(q, i - 1) => link'["f"][m] = link["f"][m]
      BY <1>9, <1>11, <2>2, SidesDiffer
    <3>2. link'["f"][arg[t]] = At(q, i)
      <4>1. arg[t] \in Nodes /\ arg[t] # At(q, i - 1)
        BY <1>3, <1>10 DEF Nodes
      <4> QED
        BY <1>9, <3>1, <4>1
    <3>3. RingOf(link'["f"], With(q, i, arg[t]))
      <4>1. q \in Lists /\ i \in 1 .. Len(q) + 1 /\ arg[t] \in Elems \ ToSet(q) /\ RingOf(link["f"], q)
        BY <1>3, <1>4, <1>5, <1>6
      <4> QED
        BY <3>1, <3>2, <4>1, RingWith
    <3>4. BackOf(link'["b"], q)
      BY <1>6, <3>1
    <3>5. List' = With(q, i, arg[t])
      <4>1. With(q, i, arg[t]) \in Lists
        BY <1>3, <1>4, <1>5, <1>6, WithIs
      <4> QED
        BY <1>1, <1>3, <3>3, <4>1, ListIsNext DEF Forward
    <3> QED
      BY <1>1, <1>3, <1>5, <1>9, <2>2, <3>1, <3>3, <3>4, <3>5 DEF Pushing, Forward, Backward
  <2> QED
    BY <1>2, <2>1, <2>2 DEF Pushes
<1>14. Turning(t)'
  <2>1. i \in Gap(t, q)'
    BY <1>1, <1>4, <1>5 DEF Gap
  <2> QED
    BY <1>1, <1>2, <1>6, <1>13, <2>1 DEF Turning
<1>15. ToSet(List') \subseteq ToSet(List) \cup {arg[t]}
  <2>1. ToSet(With(q, i, arg[t])) = ToSet(q) \cup {arg[t]}
    BY <1>3, <1>4, <1>5, <1>6, WithIs
  <2> QED
    BY <1>5, <1>13, <2>1
<1>16. Own(t)'
  BY <1>1, <1>2, <1>3, <1>8, OpsDiffer DEF SInv, Own, Args, ToCome, Missed
<1>17. SInv'
  BY <1>1, <1>2, <1>3, <1>8, <1>12, <1>14, <1>15, <1>16, WriterKeeps
<1> QED
  BY <1>2, <1>3, <1>4, <1>5, <1>6, <1>13, <1>17

\* The second write; at the head it is the one Flink shows.
LEMMA PushFinishKeeps ==
    ASSUME SInv, LInv, NEW t \in Threads, PushFinish(t)
    PROVE  /\ SInv'
           /\ \/ List' = List
              \/ /\ List \in Lists /\ arg[t] \in Elems \ ToSet(List)
                 /\ List' = With(List, 1, arg[t])
           /\ got' = got
<1>1. /\ UNCHANGED <<lockVars, live, op, arg>>
      /\ \A u \in Threads \ {t} : Same(u)
      /\ pc' \in [Threads -> Places]
  BY ListStepFrame DEF ListSteps
<1>2. /\ pc[t] = "finish" /\ op[t] \in Pushes /\ UNCHANGED <<cur, near, got>>
      /\ link' = [link EXCEPT ![Side(t)][Head0] = arg[t]]
      /\ count' = count + 1
      /\ pc' = [pc EXCEPT ![t] = "leave"]
  BY DEF PushFinish, Goto
<1>3. Writes(t) /\ live
  BY <1>2, OpsDiffer DEF Writes, Inside, LInv, PlaceOK
<1>4. arg[t] \in Elems /\ pc'[t] = "leave"
  BY <1>2 DEF SInv, Own, Args, TypeOK
<1>5. PICK q \in Lists : \E i \in Gap(t, q) : count = Len(q) /\ Pushing(t, q, i)
  BY <1>2 DEF SInv, Midway, Turning
<1>6. PICK i \in Gap(t, q) : Pushing(t, q, i)
  BY <1>5
<1>7. count = Len(q) /\ Len(q) \in Nat
  BY <1>5, AtOnce
<1>8. i = (IF op[t] = "pushHead" THEN 1 ELSE Len(q) + 1) /\ i \in 1 .. Len(q) + 1
  BY <1>2, <1>6, <1>7 DEF Gap, Pushes
<1> DEFINE w == With(q, i, arg[t])
<1>9. w \in Lists /\ Len(w) = Len(q) + 1 /\ ToSet(w) = ToSet(q) \cup {arg[t]}
  <2>1. arg[t] \in Elems \ ToSet(q)
    BY <1>4, <1>6 DEF Pushing
  <2> QED
    BY <1>8, <2>1, WithIs
<1>10. /\ link' \in [Sides -> [Nodes -> Nodes \cup {Null}]]
       /\ link'[Side(t)][Head0] = arg[t]
       /\ \A m \in Nodes : m # Head0 => link'[Side(t)][m] = link[Side(t)][m]
       /\ link'[Other(Side(t))] = link[Other(Side(t))]
  <2>1. link \in [Sides -> [Nodes -> Nodes \cup {Null}]]
    BY DEF SInv, TypeOK
  <2>2. Head0 \in Nodes /\ arg[t] \in Nodes \cup {Null} /\ Side(t) \in Sides
    BY <1>4, SidesDiffer DEF Nodes
  <2> QED
    BY <1>2, <2>1, <2>2, OneLink
<1>11. At(q, 0) = Head0 /\ At(q, Len(q) + 1) = Head0 /\ arg[t] \in Nodes /\ arg[t] # Head0
  BY <1>4, <1>7 DEF At, Nodes
<1>12. RingOf(link'["f"], w) /\ BackOf(link'["b"], w) /\ List = IF op[t] = "pushHead" THEN q ELSE w
  <2>1. CASE op[t] = "pushHead"
    <3>1. /\ RingOf(link["f"], q) /\ BackOf(link["b"], w) /\ link["f"][arg[t]] = At(q, i)
          /\ arg[t] \notin ToSet(q)
      BY <1>6, <2>1 DEF Pushing, Forward, Backward
    <3>2. link'["b"] = link["b"] /\ link'["f"][arg[t]] = At(q, i) /\ link'["f"][At(q, i - 1)] = arg[t]
          /\ \A m \in Nodes : m # arg[t] /\ m # At(q, i - 1) => link'["f"][m] = link["f"][m]
      BY <1>8, <1>10, <1>11, <2>1, <3>1, SidesDiffer
    <3>3. RingOf(link'["f"], w)
      BY <1>4, <1>8, <3>1, <3>2, RingWith
    <3>4. List = q
      BY <1>3, <3>1, ListIs DEF Forward
    <3> QED
      BY <2>1, <3>1, <3>2, <3>3, <3>4
  <2>2. CASE op[t] = "pushTail"
    <3>1. /\ RingOf(link["f"], w) /\ BackOf(link["b"], q) /\ link["b"][arg[t]] = At(q, i - 1)
          /\ arg[t] \notin ToSet(q)
      BY <1>6, <2>2 DEF Pushing, Forward, Backward
    <3>2. link'["f"] = link["f"] /\ link'["b"][arg[t]] = At(q, i - 1) /\ link'["b"][At(q, i)] = arg[t]
          /\ \A m \in Nodes : m # arg[t] /\ m # At(q, i) => link'["b"][m] = link["b"][m]
      BY <1>8, <1>10, <1>11, <2>2, <3>1, SidesDiffer
    <3>3. BackOf(link'["b"], w)
      BY <1>4, <1>8, <3>1, <3>2, BackWith
    <3>4. List = w
      BY <1>3, <1>9, <3>1, ListIs DEF Forward
    <3> QED
      BY <2>2, <3>1, <3>2, <3>3, <3>4
  <2> QED
    BY <1>2, <2>1, <2>2 DEF Pushes
<1> HIDE DEF w
<1>13. Whole' /\ List' = w
  BY <1>1, <1>2, <1>3, <1>7, <1>9, <1>12, WholeNext
<1>14. TypeOK'
  <2>1. count' \in 0 .. Cardinality(Elems)
    BY <1>2, <1>7, <1>9, ListFits
  <2> QED
    BY <1>1, <1>2, <1>10, <2>1 DEF SInv, TypeOK, LockTypeOK, lockVars, Places
<1>15. ToSet(List') \subseteq ToSet(List) \cup {arg[t]}
  BY <1>9, <1>12, <1>13
<1>16. Own(t)'
  BY <1>1, <1>2, <1>4, OpsDiffer DEF SInv, Own, Args, ToCome, Missed
<1>17. SInv'
  BY <1>1, <1>2, <1>3, <1>4, <1>13, <1>14, <1>15, <1>16, WriterKeeps
<1>18. List' = List \/ (List \in Lists /\ arg[t] \in Elems \ ToSet(List) /\ List' = With(List, 1, arg[t]))
  BY <1>4, <1>6, <1>8, <1>12, <1>13 DEF w, Pushing
<1> QED
  BY <1>2, <1>17, <1>18

\* A pop of an empty list goes home, any other one knows its neighbours.
LEMMA PopReadKeeps ==
    ASSUME SInv, LInv, NEW t \in Threads, PopRead(t)
    PROVE  SInv' /\ List' = List /\ got' = got
<1>1. /\ UNCHANGED <<lockVars, live, op, arg>>
      /\ \A u \in Threads \ {t} : Same(u)
      /\ pc' \in [Threads -> Places]
  BY ListStepFrame DEF ListSteps
<1>2. pc[t] = "read" /\ op[t] \in Pops /\ UNCHANGED <<link, count, got>>
  BY DEF PopRead, listVars
<1>3. Whole
  BY <1>2, WholeInside DEF Inside
<1>4. List \in Lists /\ Len(List) \in Nat /\ List \in [1 .. Len(List) -> Elems]
      /\ link["f"][Head0] = At(List, 1) /\ link["b"][Head0] = At(List, Len(List))
  BY <1>3, WholeIs, AtOnce
<1>5. List' = List
  BY <1>1, <1>2, ListStays
<1>6. /\ pc \in [Threads -> Places] /\ cur \in [Threads -> Nodes \cup {Null}]
      /\ near \in [Threads -> Nodes \cup {Null}]
  BY DEF SInv, TypeOK, Places
<1>7. op'[t] \notin Pushes
  BY <1>1, <1>2, OpsDiffer DEF Pushes, Pops
<1>8. CASE IsListEmpty
  <2>1. Len(List) = 0
    BY <1>4, <1>8 DEF IsListEmpty, At
  <2>2. List = <<>>
    BY <1>4, <2>1
  <2>3. pc'[t] = "leave" /\ UNCHANGED <<cur, near>>
    BY <1>6, <1>8 DEF PopRead, Goto
  <2>4. TypeOK'
    BY <1>1, <1>2, <2>3 DEF SInv, TypeOK, LockTypeOK, lockVars, Places
  <2>5. Own(t)'
    BY <1>1, <1>2, <1>5, <1>7, <2>2, <2>3, OpsDiffer DEF SInv, Own, Args, ToCome, Missed
  <2> QED
    BY <1>1, <1>2, <1>5, <1>7, <2>3, <2>4, <2>5, QuietKeeps
<1>9. CASE ~IsListEmpty
  <2> DEFINE i == IF op[t] = "popHead" THEN 1 ELSE Len(List)
             entry == link[Side(t)][Head0]
             next == link[Side(t)][entry]
  <2>1. Len(List) # 0
    BY <1>4, <1>9 DEF IsListEmpty, At
  <2>2. i \in 1 .. Len(List) /\ i \in Gap(t, List)
    BY <1>2, <1>4, <2>1 DEF Gap, Pops
  <2>3. entry = At(List, i) /\ At(List, i) = List[i] /\ List[i] \in Nodes
    BY <1>2, <1>4, <2>2, SidesDiffer DEF Pops, At, Nodes
  <2>4. next = (IF op[t] = "popHead" THEN At(List, i + 1) ELSE At(List, i - 1)) /\ next \in Nodes
    <3>1. i \in 0 .. Len(List) /\ i - 1 \in 0 .. Len(List) /\ (i - 1) + 1 = i /\ i + 1 \in Nat /\ i - 1 \in Nat
      BY <1>4, <2>2
    <3>2. link["f"][At(List, i)] = At(List, i + 1) /\ link["b"][At(List, i)] = At(List, i - 1)
      BY <1>3, <3>1, WholeIs
    <3>3. At(List, i + 1) \in Nodes /\ At(List, i - 1) \in Nodes
      BY <1>4, <3>1, AtOnce
    <3> HIDE DEF entry
    <3> QED
      BY <1>2, <2>3, <3>2, <3>3, SidesDiffer DEF Pops
  <2>5. pc' = [pc EXCEPT ![t] = "link"] /\ cur' = [cur EXCEPT ![t] = entry] /\ near' = [near EXCEPT ![t] = next]
    BY <1>9 DEF PopRead, Goto
  <2> HIDE DEF entry, next
  <2>6. pc'[t] = "link" /\ cur'[t] = List[i] /\ near'[t] = next
        /\ cur' \in [Threads -> Nodes \cup {Null}] /\ near' \in [Threads -> Nodes \cup {Null}]
    BY <1>6, <2>3, <2>4, <2>5
  <2>7. TypeOK'
    BY <1>1, <1>2, <2>6 DEF SInv, TypeOK, LockTypeOK, lockVars, Places
  <2>8. Ready(t)'
    <3>1. PICK j : j = i
      OBVIOUS
    <3>2. j \in 1 .. Len(List) /\ j \in Gap(t, List) /\ cur'[t] = List[j]
          /\ near'[t] = (IF op[t] = "popHead" THEN At(List, j + 1) ELSE At(List, j - 1))
      BY <2>2, <2>4, <2>6, <3>1
    <3>3. ReadyToRemove(t, List, j)'
      BY <1>1, <1>2, <1>5, <3>2 DEF ReadyToRemove, Pops
    <3>4. j \in Gap(t, List)'
      BY <1>1, <1>5, <3>2 DEF Gap
    <3> QED
      BY <1>7, <3>3, <3>4 DEF Ready
  <2>9. Own(t)'
    BY <1>1, <1>2, <1>5, <1>7, <2>6, <2>8, OpsDiffer DEF SInv, Own, Args, ToCome, Missed
  <2> QED
    BY <1>1, <1>2, <1>5, <1>7, <2>6, <2>7, <2>9, QuietKeeps
<1> QED
  BY <1>8, <1>9

\* The checks of the neighbours before they are changed succeed.
LEMMA RemoveReady ==
    ASSUME SInv, LInv, NEW t \in Threads, pc[t] = "link", op[t] \in Pops \cup {"take"}
    PROVE  /\ Whole /\ Writes(t) /\ live
           /\ op[t] \in Pops => PopChecks(t)
           /\ op[t] = "take" => TakeChecks(t)
           /\ \E i \in 1 .. Len(List) :
                 /\ i \in Gap(t, List) /\ ReadyToRemove(t, List, i)
                 /\ link["f"][cur[t]] = At(List, i + 1)
                 /\ link["b"][cur[t]] = At(List, i - 1)
                 /\ At(List, i + 1) \in Nodes /\ At(List, i - 1) \in Nodes
<1>1. Writes(t) /\ live
  BY OpsDiffer DEF Writes, Inside, LInv, PlaceOK
<1>2. Whole
  BY <1>1, WholeInside DEF Writes
<1>3. List \in Lists /\ Len(List) \in Nat
  BY <1>2, WholeIs
<1>4. op[t] \notin Pushes
  BY DEF Pushes, Pops
<1>5. PICK i \in Gap(t, List) : ReadyToRemove(t, List, i)
  BY <1>4 DEF SInv, Own, Ready
<1>6. i \in 1 .. Len(List) /\ cur[t] = At(List, i)
  BY <1>5 DEF ReadyToRemove, At
<1>7. /\ i - 1 \in 0 .. Len(List) /\ i \in 0 .. Len(List) /\ (i - 1) + 1 = i
      /\ i + 1 \in Nat /\ i - 1 \in Nat
  BY <1>3, <1>6
<1>8. /\ link["f"][At(List, i - 1)] = At(List, i) /\ link["b"][At(List, i)] = At(List, i - 1)
      /\ link["f"][At(List, i)] = At(List, i + 1) /\ link["b"][At(List, i + 1)] = At(List, i)
  BY <1>2, <1>7, WholeIs
<1>9. At(List, i + 1) \in Nodes /\ At(List, i - 1) \in Nodes
  BY <1>3, <1>7, AtOnce
<1>10. At(List, 0) = Head0 /\ At(List, Len(List) + 1) = Head0
  BY <1>3 DEF At
<1>11. op[t] = "popHead" => PopChecks(t)
  BY <1>5, <1>6, <1>8, <1>10, SidesDiffer DEF PopChecks, ReadyToRemove, Gap
<1>12. op[t] = "popTail" => PopChecks(t)
  BY <1>5, <1>6, <1>8, <1>10, SidesDiffer DEF PopChecks, ReadyToRemove, Gap
<1>13. op[t] = "take" => TakeChecks(t)
  BY <1>6, <1>8 DEF TakeChecks
<1> QED
  BY <1>1, <1>2, <1>5, <1>6, <1>8, <1>9, <1>11, <1>12, <1>13 DEF Pops

\* The step at which an element leaves the sequence.
RemovedBy(t, i) ==
    /\ List \in Lists
    /\ i \in 1 .. Len(List)
    /\ i \in Gap(t, List)
    /\ List' = Without(List, i)
    /\ got' = [got EXCEPT ![t] = List[i]]

\* The first write of a pop; at the head it is the one Flink shows.
LEMMA PopLinkKeeps ==
    ASSUME SInv, LInv, NEW t \in Threads, PopLink(t)
    PROVE  /\ SInv'
           /\ (List' = List /\ got' = got) \/ \E i \in Nat : RemovedBy(t, i)
<1>1. /\ UNCHANGED <<lockVars, live, op, arg>>
      /\ \A u \in Threads \ {t} : Same(u)
      /\ pc' \in [Threads -> Places]
  BY ListStepFrame DEF ListSteps
<1>2. pc[t] = "link" /\ op[t] \in Pops /\ UNCHANGED <<count, cur, near>>
  BY DEF PopLink
<1>3. Whole /\ Writes(t) /\ live /\ PopChecks(t)
  BY <1>2, RemoveReady
<1>4. PICK q : q = List
  OBVIOUS
<1>5. /\ q \in Lists /\ Len(q) \in Nat /\ count = Len(q) /\ RingOf(link["f"], q) /\ BackOf(link["b"], q)
      /\ q \in [1 .. Len(q) -> Elems]
  BY <1>3, <1>4, WholeIs, AtOnce DEF Whole, Rings, Forward, Backward
<1>6. PICK i \in 1 .. Len(q) :
         /\ i \in Gap(t, q) /\ ReadyToRemove(t, q, i)
         /\ At(q, i + 1) \in Nodes /\ At(q, i - 1) \in Nodes
  BY <1>2, <1>4, RemoveReady
<1>7. /\ link' = [link EXCEPT ![Side(t)][Head0] = near[t]]
      /\ got' = (IF Side(t) = "f" THEN [got EXCEPT ![t] = cur[t]] ELSE got)
      /\ pc' = [pc EXCEPT ![t] = "finish"]
  BY <1>3 DEF PopLink, Goto
<1>8. /\ cur[t] = q[i] /\ q[i] \in Elems /\ pc'[t] = "finish"
      /\ got' \in [Threads -> Elems \cup {Null}]
  BY <1>5, <1>6, <1>7 DEF ReadyToRemove, SInv, TypeOK
<1>9. near[t] = (IF op[t] = "popHead" THEN At(q, i + 1) ELSE At(q, i - 1)) /\ near[t] \in Nodes
  BY <1>2, <1>6 DEF ReadyToRemove, Pops
<1>10. /\ link' \in [Sides -> [Nodes -> Nodes \cup {Null}]]
       /\ link'[Side(t)][Head0] = near[t]
       /\ \A m \in Nodes : m # Head0 => link'[Side(t)][m] = link[Side(t)][m]
       /\ link'[Other(Side(t))] = link[Other(Side(t))]
  <2>1. link \in [Sides -> [Nodes -> Nodes \cup {Null}]]
    BY DEF SInv, TypeOK
  <2>2. Head0 \in Nodes /\ Side(t) \in Sides
    BY SidesDiffer DEF Nodes
  <2> QED
    BY <1>7, <1>9, <2>1, <2>2, OneLink
<1>11. TypeOK'
  BY <1>1, <1>2, <1>8, <1>10 DEF SInv, TypeOK, LockTypeOK, lockVars, Places
<1>12. At(q, 0) = Head0 /\ At(q, Len(q) + 1) = Head0
  BY <1>5 DEF At
<1>13. Without(q, i) \in Lists /\ ToSet(Without(q, i)) \subseteq ToSet(q)
  BY <1>5, WithoutIs
<1>14. Removing(t, q, i)' /\ (IF op[t] = "popHead" THEN List' = Without(q, i) /\ got' = [got EXCEPT ![t] = q[i]]
                                                 ELSE List' = q /\ got' = got)
  <2>1. CASE op[t] = "popHead"
    <3>1. i = 1
      BY <1>6, <2>1 DEF Gap
    <3>2. link'["b"] = link["b"] /\ link'["f"][At(q, i - 1)] = At(q, i + 1)
          /\ \A m \in Nodes : m # At(q, i - 1) => link'["f"][m] = link["f"][m]
      BY <1>9, <1>10, <1>12, <2>1, <3>1, SidesDiffer
    <3>3. RingOf(link'["f"], Without(q, i)) /\ BackOf(link'["b"], q)
      BY <1>5, <3>2, RingWithout
    <3>4. List' = Without(q, i)
      BY <1>1, <1>3, <1>13, <3>3, ListIsNext DEF Forward
    <3>5. got' = [got EXCEPT ![t] = q[i]] /\ got'[t] = q[i]
      BY <1>7, <1>8, <2>1, SidesDiffer DEF SInv, TypeOK
    <3> QED
      BY <1>1, <1>2, <1>6, <1>8, <1>9, <2>1, <3>3, <3>4, <3>5 DEF Removing, Forward, Backward
  <2>2. CASE op[t] = "popTail"
    <3>1. i = Len(q)
      BY <1>6, <2>2 DEF Gap
    <3>2. link'["f"] = link["f"] /\ link'["b"][At(q, i + 1)] = At(q, i - 1)
          /\ \A m \in Nodes : m # At(q, i + 1) => link'["b"][m] = link["b"][m]
      BY <1>9, <1>10, <1>12, <2>2, <3>1, SidesDiffer
    <3>3. RingOf(link'["f"], q) /\ BackOf(link'["b"], Without(q, i))
      BY <1>5, <3>2, BackWithout
    <3>4. List' = q
      BY <1>1, <1>3, <1>5, <3>3, ListIsNext DEF Forward
    <3>5. got' = got
      BY <1>7, <2>2, SidesDiffer
    <3> QED
      BY <1>1, <1>2, <1>6, <1>8, <1>9, <2>2, <3>3, <3>4, <3>5 DEF Removing, Forward, Backward
  <2> QED
    BY <1>2, <2>1, <2>2 DEF Pops
<1>15. Turning(t)'
  <2>1. i \in Gap(t, q)'
    BY <1>1, <1>6 DEF Gap
  <2>2. op'[t] \notin Pushes
    BY <1>1, <1>2 DEF Pushes, Pops
  <2> QED
    BY <1>1, <1>2, <1>5, <1>14, <2>1, <2>2 DEF Turning
<1>16. ToSet(List') \subseteq ToSet(List)
  BY <1>4, <1>13, <1>14
<1>17. Own(t)'
  BY <1>1, <1>2, <1>8, OpsDiffer DEF SInv, Own, Args, ToCome, Missed
<1>18. SInv'
  BY <1>1, <1>2, <1>3, <1>8, <1>11, <1>15, <1>16, <1>17, WriterKeeps
<1>19. i \in Nat
  BY <1>5
<1> QED
  BY <1>4, <1>5, <1>6, <1>14, <1>18, <1>19 DEF RemovedBy

\* The first write of a removal by search.
LEMMA TakeLinkKeeps ==
    ASSUME SInv, LInv, NEW t \in Threads, TakeLink(t)
    PROVE  SInv' /\ \E i \in Nat : RemovedBy(t, i)
<1>1. /\ UNCHANGED <<lockVars, live, op, arg>>
      /\ \A u \in Threads \ {t} : Same(u)
      /\ pc' \in [Threads -> Places]
  BY ListStepFrame DEF ListSteps
<1>2. pc[t] = "link" /\ op[t] = "take" /\ UNCHANGED <<count, cur>>
  BY DEF TakeLink
<1>3. Whole /\ Writes(t) /\ live /\ TakeChecks(t)
  BY <1>2, RemoveReady
<1>4. PICK q : q = List
  OBVIOUS
<1>5. /\ q \in Lists /\ Len(q) \in Nat /\ count = Len(q) /\ RingOf(link["f"], q) /\ BackOf(link["b"], q)
      /\ q \in [1 .. Len(q) -> Elems]
  BY <1>3, <1>4, WholeIs, AtOnce DEF Whole, Rings, Forward, Backward
<1>6. PICK i \in 1 .. Len(q) :
         /\ i \in Gap(t, q) /\ ReadyToRemove(t, q, i)
         /\ link["f"][cur[t]] = At(q, i + 1) /\ link["b"][cur[t]] = At(q, i - 1)
         /\ At(q, i + 1) \in Nodes /\ At(q, i - 1) \in Nodes
  BY <1>2, <1>4, RemoveReady
<1>7. /\ link' = [link EXCEPT !["f"][At(q, i - 1)] = At(q, i + 1)]
      /\ near' = [near EXCEPT ![t] = At(q, i + 1)]
      /\ got' = [got EXCEPT ![t] = cur[t]]
      /\ pc' = [pc EXCEPT ![t] = "finish"]
  BY <1>3, <1>6 DEF TakeLink, Goto
<1>8. /\ cur[t] = q[i] /\ q[i] \in Elems /\ pc'[t] = "finish" /\ near'[t] = At(q, i + 1) /\ got'[t] = q[i]
      /\ got' \in [Threads -> Elems \cup {Null}] /\ near' \in [Threads -> Nodes \cup {Null}]
  BY <1>5, <1>6, <1>7 DEF ReadyToRemove, SInv, TypeOK
<1>9. /\ link' \in [Sides -> [Nodes -> Nodes \cup {Null}]]
      /\ link'["f"][At(q, i - 1)] = At(q, i + 1)
      /\ \A m \in Nodes : m # At(q, i - 1) => link'["f"][m] = link["f"][m]
      /\ link'["b"] = link["b"]
  <2>1. link \in [Sides -> [Nodes -> Nodes \cup {Null}]]
    BY DEF SInv, TypeOK
  <2> QED
    BY <1>6, <1>7, <2>1, OneLink, SidesDiffer
<1>10. TypeOK'
  BY <1>1, <1>2, <1>8, <1>9 DEF SInv, TypeOK, LockTypeOK, lockVars, Places
<1>11. Without(q, i) \in Lists /\ ToSet(Without(q, i)) \subseteq ToSet(q)
  BY <1>5, WithoutIs
<1>12. RingOf(link'["f"], Without(q, i)) /\ BackOf(link'["b"], q)
  BY <1>5, <1>9, RingWithout
<1>13. List' = Without(q, i)
  BY <1>1, <1>3, <1>11, <1>12, ListIsNext DEF Forward
<1>14. Turning(t)'
  <2>1. i \in Gap(t, q)'
    BY <1>1, <1>6 DEF Gap
  <2>2. op'[t] = "take" /\ op'[t] \notin Pushes
    BY <1>1, <1>2, OpsDiffer
  <2>3. Removing(t, q, i)'
    BY <1>2, <1>6, <1>8, <1>12, <2>2 DEF Removing, Forward, Backward
  <2> QED
    BY <1>2, <1>5, <2>1, <2>2, <2>3 DEF Turning
<1>15. ToSet(List') \subseteq ToSet(List)
  BY <1>4, <1>11, <1>13
<1>16. Own(t)'
  BY <1>1, <1>2, <1>8, OpsDiffer DEF SInv, Own, Args, ToCome, Missed
<1>17. SInv'
  BY <1>1, <1>2, <1>3, <1>8, <1>10, <1>14, <1>15, <1>16, WriterKeeps
<1>18. i \in Nat
  BY <1>5
<1> QED
  BY <1>4, <1>5, <1>6, <1>7, <1>8, <1>13, <1>17, <1>18 DEF RemovedBy

\* The second write of a removal; after a pop at the tail it is the one Flink shows.
LEMMA RemoveFinishes ==
    ASSUME SInv, LInv, NEW t \in Threads, PopFinish(t) \/ TakeFinish(t)
    PROVE  /\ SInv'
           /\ \/ List' = List /\ got' = got
              \/ \E i \in Nat : RemovedBy(t, i)
<1>1. /\ UNCHANGED <<lockVars, live, op, arg>>
      /\ \A u \in Threads \ {t} : Same(u)
      /\ pc' \in [Threads -> Places]
  BY ListStepFrame DEF ListSteps
<1>2. /\ pc[t] = "finish" /\ op[t] \in Pops \cup {"take"} /\ UNCHANGED <<cur, near>>
      /\ count' = count - 1
      /\ pc' = [pc EXCEPT ![t] = "leave"]
  BY DEF PopFinish, TakeFinish, Removed, Goto
<1>3. Writes(t) /\ live /\ op[t] \notin Pushes
  BY <1>2, OpsDiffer DEF Writes, Inside, LInv, PlaceOK, Pushes, Pops
<1>4. PICK q \in Lists : \E i \in Gap(t, q) : count = Len(q) /\ Removing(t, q, i)
  BY <1>2, <1>3 DEF SInv, Midway, Turning
<1>5. PICK i \in Gap(t, q) : count = Len(q) /\ Removing(t, q, i)
  BY <1>4
<1>6. /\ Len(q) \in Nat /\ q \in [1 .. Len(q) -> Elems] /\ i \in 1 .. Len(q)
      /\ cur[t] = q[i] /\ q[i] = At(q, i) /\ q[i] \in Elems
  BY <1>5, AtOnce DEF Removing, At
<1>7. /\ i - 1 \in 0 .. Len(q) /\ i \in 0 .. Len(q) /\ (i - 1) + 1 = i
      /\ i + 1 \in Nat /\ i - 1 \in Nat
  BY <1>6
<1>8. At(q, i + 1) \in Nodes /\ At(q, i - 1) \in Nodes
  BY <1>7, AtOnce
<1>9. At(q, 0) = Head0 /\ At(q, Len(q) + 1) = Head0
  BY <1>6 DEF At
<1> DEFINE w == Without(q, i)
<1>10. w \in Lists /\ Len(w) = Len(q) - 1 /\ ToSet(w) \subseteq ToSet(q)
  BY <1>6, WithoutIs
<1>11. link \in [Sides -> [Nodes -> Nodes \cup {Null}]] /\ got \in [Threads -> Elems \cup {Null}]
       /\ pc \in [Threads -> Places]
  BY DEF SInv, TypeOK, Places
<1>12. /\ RingOf(link'["f"], w) /\ BackOf(link'["b"], w)
       /\ link' \in [Sides -> [Nodes -> Nodes \cup {Null}]]
       /\ \/ List = w /\ got' = got /\ got'[t] = q[i]
          \/ List = q /\ got' = [got EXCEPT ![t] = q[i]]
  <2>1. CASE op[t] = "popTail"
    <3>1. /\ i = Len(q) /\ near[t] = At(q, i - 1)
          /\ RingOf(link["f"], q) /\ BackOf(link["b"], w)
      BY <1>5, <2>1, OpsDiffer DEF Removing, Gap, Forward, Backward
    <3>2. link' = [link EXCEPT !["f"][At(q, i - 1)] = At(q, i + 1)] /\ got' = [got EXCEPT ![t] = q[i]]
      <4>1. PopFinish(t)
        BY <2>1 DEF TakeFinish
      <4>2. Other(Side(t)) = "f"
        BY <2>1, SidesDiffer
      <4> QED
        BY <1>6, <1>9, <3>1, <4>1, <4>2 DEF PopFinish, SecondLink
    <3>3. /\ link' \in [Sides -> [Nodes -> Nodes \cup {Null}]]
          /\ link'["f"][At(q, i - 1)] = At(q, i + 1)
          /\ \A m \in Nodes : m # At(q, i - 1) => link'["f"][m] = link["f"][m]
          /\ link'["b"] = link["b"]
      BY <1>8, <1>11, <3>2, OneLink, SidesDiffer
    <3>4. RingOf(link'["f"], w)
      BY <1>6, <3>1, <3>3, RingWithout
    <3>5. List = q
      BY <1>3, <3>1, ListIs DEF Forward
    <3> QED
      BY <3>1, <3>2, <3>3, <3>4, <3>5
  <2>2. CASE op[t] # "popTail"
    <3>1. /\ near[t] = At(q, i + 1) /\ got[t] = q[i]
          /\ RingOf(link["f"], w) /\ BackOf(link["b"], q)
      BY <1>5, <1>6, <2>2 DEF Removing, Forward, Backward
    <3>2. link["b"][cur[t]] = At(q, i - 1)
      <4>1. link["b"][At(q, (i - 1) + 1)] = At(q, i - 1)
        BY <1>7, <3>1 DEF BackOf
      <4> QED
        BY <1>6, <1>7, <4>1
    <3>3. link' = [link EXCEPT !["b"][At(q, i + 1)] = At(q, i - 1)] /\ got' = got
      <4>1. CASE PopFinish(t)
        <5>1. op[t] = "popHead"
          BY <2>2, <4>1 DEF PopFinish, Pops
        <5>2. i = 1
          BY <5>1 DEF Gap
        <5>3. Other(Side(t)) = "b"
          BY <5>1, SidesDiffer
        <5>4. link' = [link EXCEPT !["b"][At(q, i + 1)] = At(q, i - 1)]
          <6>1. link' = [link EXCEPT !["b"][near[t]] = Head0]
            BY <4>1, <5>3 DEF PopFinish, SecondLink
          <6>2. i - 1 = 0
            BY <5>2
          <6>3. At(q, i - 1) = Head0
            BY <1>9, <6>2, Zenon
          <6> QED
            BY <3>1, <6>1, <6>3, Zenon
        <5>5. got' = got
          BY <1>6, <1>11, <3>1, <4>1 DEF PopFinish
        <5> QED
          BY <5>4, <5>5
      <4>2. CASE TakeFinish(t)
        BY <3>1, <3>2, <4>2 DEF TakeFinish
      <4> QED
        BY <4>1, <4>2
    <3>4. /\ link' \in [Sides -> [Nodes -> Nodes \cup {Null}]]
          /\ link'["b"][At(q, i + 1)] = At(q, i - 1)
          /\ \A m \in Nodes : m # At(q, i + 1) => link'["b"][m] = link["b"][m]
          /\ link'["f"] = link["f"]
      BY <1>8, <1>11, <3>3, OneLink, SidesDiffer
    <3>5. BackOf(link'["b"], w)
      BY <1>6, <3>1, <3>4, BackWithout
    <3>6. List = w
      BY <1>3, <1>10, <3>1, ListIs DEF Forward
    <3> QED
      BY <3>1, <3>3, <3>4, <3>5, <3>6
  <2> QED
    BY <2>1, <2>2
<1> HIDE DEF w
<1>13. count' = Len(w) /\ count' \in 0 .. Cardinality(Elems)
  BY <1>2, <1>5, <1>10, ListFits
<1>14. Whole' /\ List' = w
  BY <1>1, <1>3, <1>10, <1>12, <1>13, WholeNext
<1>15. got' \in [Threads -> Elems \cup {Null}] /\ got'[t] = q[i] /\ pc'[t] = "leave"
  BY <1>2, <1>6, <1>11, <1>12
<1>16. TypeOK'
  BY <1>1, <1>2, <1>12, <1>13, <1>15 DEF SInv, TypeOK, LockTypeOK, lockVars, Places
<1>17. ToSet(List') \subseteq ToSet(List)
  BY <1>10, <1>12, <1>14
<1>18. Own(t)'
  BY <1>1, <1>2, <1>3, <1>6, <1>15, OpsDiffer DEF SInv, Own, Args, ToCome, Missed
<1>19. SInv'
  BY <1>1, <1>2, <1>3, <1>14, <1>15, <1>16, <1>17, <1>18, WriterKeeps
<1>20. (List' = List /\ got' = got) \/ \E j \in Nat : RemovedBy(t, j)
  <2>1. i \in Nat /\ List' = Without(q, i)
    BY <1>6, <1>14 DEF w
  <2>2. CASE List = w /\ got' = got
    BY <1>14, <2>2
  <2>3. CASE List = q /\ got' = [got EXCEPT ![t] = q[i]]
    BY <1>5, <1>6, <2>1, <2>3 DEF RemovedBy
  <2> QED
    BY <1>12, <2>2, <2>3
<1> QED
  BY <1>19, <1>20

-----------------------------------------------------------------------------
\* Every step keeps the invariant.
LEMMA SInvNext == SInv /\ LInv /\ LInv' /\ [Next]_vars => SInv'
<1> SUFFICES ASSUME SInv, LInv, LInv', [Next]_vars PROVE SInv'
  OBVIOUS
<1>1. CASE Start \/ Stop
  BY <1>1, StartStopKeeps
<1>2. ASSUME NEW t \in Threads, Call(t) \/ LockSteps(t) PROVE SInv'
  BY <1>2, CallKeeps, EnterKeeps, LeaveKeeps DEF LockSteps
<1>3. ASSUME NEW t \in Threads, Search(t) PROVE SInv'
  <2>1. Whole
    BY <1>3, WholeInside DEF Search, Inside
  <2> QED
    BY <1>3, <2>1, SearchKeeps
<1>4. ASSUME NEW t \in Threads, ListSteps(t) PROVE SInv'
  BY <1>3, <1>4, PushReadKeeps, PushLinkKeeps, PushFinishKeeps, PopReadKeeps, PopLinkKeeps,
     TakeLinkKeeps, RemoveFinishes DEF ListSteps
<1>5. CASE UNCHANGED vars
  <2>1. /\ UNCHANGED <<link, count, live, kernel, owner, sharers, spin>>
        /\ UNCHANGED <<pc, op, arg, cur, near, got>>
    BY <1>5 DEF vars, lockVars, listVars, localVars
  <2>2. TypeOK'
    BY <2>1 DEF SInv, TypeOK, LockTypeOK
  <2>3. \A u \in Threads : Same(u)
    BY <2>1 DEF Same
  <2>4. \A u \in Threads : Own(u)'
    BY <2>1, <2>3, SameOwn DEF SInv
  <2>5. Steady'
    BY <2>1, WholeStays DEF SInv, Steady
  <2>6. Midway'
    BY <2>1, <2>3, SameTurning DEF SInv, Midway
  <2> QED
    BY <2>1, <2>2, <2>4, <2>5, <2>6 DEF SInv, Apart
<1> QED
  BY <1>1, <1>2, <1>4, <1>5 DEF Next

(***************************************************************************)
(* Whatever threads and elements there are, the links are rings through    *)
(* one sequence, or halfway from one to the next while a single writer is  *)
(* between its two writes.                                                 *)
(***************************************************************************)
THEOREM ListInvariant == Spec => []SInv
  BY InitKeeps, SInvNext, LockInvariant, PTL DEF Spec

(***************************************************************************)
(* The variables have their types; above all, the count is never below     *)
(* zero nor above the number of elements.                                  *)
(***************************************************************************)
THEOREM TypeCorrect == Spec => []TypeOK
<1>1. SInv => TypeOK
  BY DEF SInv
<1> QED
  BY <1>1, ListInvariant, PTL

(***************************************************************************)
(* A reader finds Blink the reverse of Flink and the count exact, no check *)
(* of a link about to be changed fails, and no search or pop overlooks     *)
(* what is there.                                                          *)
(***************************************************************************)
THEOREM ListIsSound == Spec => []ListSound
<1>1. SInv /\ LInv => LinksSound
  <2> SUFFICES ASSUME SInv, LInv PROVE LinksSound
    OBVIOUS
  <2>1. ASSUME live, \A t \in Threads : ~Writes(t)
        PROVE  Chain("b") = Reverse(List) /\ count = Len(List)
    <3>1. \A t \in Threads : pc[t] # "finish"
      BY <2>1, OpsDiffer DEF SInv, Own, Args, Writes, Inside
    <3>2. Whole
      BY <2>1, <3>1 DEF SInv, Steady
    <3>3. Reverse(List) \in Lists /\ RingOf(link["b"], Reverse(List))
      BY <3>2, ReverseIs DEF Whole, Rings, Backward
    <3> QED
      BY <3>2, <3>3, ChainIs DEF Whole, Rings, Sides
  <2>2. ASSUME NEW t \in Threads, pc[t] = "link"
        PROVE  CASE op[t] \in Pushes -> PushChecks(t)
                 [] op[t] \in Pops -> PopChecks(t)
                 [] OTHER -> TakeChecks(t)
    <3>1. op[t] \in Pushes \cup Pops \cup {"take"}
      BY <2>2 DEF SInv, Own, Args
    <3> QED
      BY <2>2, <3>1, PushReady, RemoveReady, OpsDiffer
  <2> QED
    BY <2>1, <2>2 DEF LinksSound
<1>2. SInv => NothingMissed
  BY DEF SInv, Own, Missed, NothingMissed
<1> QED
  BY <1>1, <1>2, ListInvariant, LockInvariant, PTL DEF ListSound

-----------------------------------------------------------------------------
(***************************************************************************)
(* The refinement: what an insertion and a removal are in terms of the     *)
(* operators that SharedList uses.                                         *)
(***************************************************************************)
LEMMA WithFirst ==
    ASSUME NEW q \in Lists, NEW e \in Elems \ ToSet(q)
    PROVE  With(q, 1, e) = <<e>> \o q
<1> DEFINE w == With(q, 1, e)
           v == <<e>> \o q
<1>1. Len(q) \in Nat /\ q \in Seq(Elems)
  BY DEF Lists
<1>2. w \in Seq(Elems) /\ Len(w) = Len(q) + 1
  BY <1>1, WithIs DEF Lists
<1>3. v \in Seq(Elems) /\ Len(v) = Len(q) + 1
  BY <1>1
<1>4. \A j \in 1 .. Len(q) + 1 : w[j] = v[j]
  BY <1>1 DEF With
<1> HIDE DEF w, v
<1>5. w = v
  BY <1>1, <1>2, <1>3, <1>4
<1> QED
  BY <1>5 DEF w, v

\* An insertion behind the last element.
LEMMA WithLast ==
    ASSUME NEW q \in Lists, NEW e \in Elems \ ToSet(q)
    PROVE  With(q, Len(q) + 1, e) = Append(q, e)
<1> DEFINE w == With(q, Len(q) + 1, e)
           v == Append(q, e)
<1>1. Len(q) \in Nat /\ q \in Seq(Elems)
  BY DEF Lists
<1>2. w \in Seq(Elems) /\ Len(w) = Len(q) + 1
  BY <1>1, WithIs DEF Lists
<1>3. v \in Seq(Elems) /\ Len(v) = Len(q) + 1
  BY <1>1
<1>4. \A j \in 1 .. Len(q) + 1 : w[j] = v[j]
  BY <1>1 DEF With
<1> HIDE DEF w, v
<1>5. w = v
  BY <1>1, <1>2, <1>3, <1>4
<1> QED
  BY <1>5 DEF w, v

\* The first element taken out.
LEMMA WithoutFirst ==
    ASSUME NEW q \in Lists, 1 \in 1 .. Len(q)
    PROVE  Without(q, 1) = Tail(q) /\ q[1] = Head(q) /\ q # <<>>
<1> DEFINE w == Without(q, 1)
           v == Tail(q)
<1>1. Len(q) \in Nat /\ q \in Seq(Elems) /\ q # <<>>
  BY DEF Lists
<1>2. w \in Seq(Elems) /\ Len(w) = Len(q) - 1
  BY <1>1, WithoutIs DEF Lists
<1>3. v \in Seq(Elems) /\ Len(v) = Len(q) - 1
  BY <1>1
<1>4. \A j \in 1 .. Len(q) - 1 : w[j] = v[j]
  BY <1>1 DEF Without
<1> HIDE DEF w, v
<1>5. w = v
  BY <1>1, <1>2, <1>3, <1>4
<1>6. q[1] = Head(q)
  BY <1>1
<1> QED
  BY <1>1, <1>5, <1>6 DEF w, v

\* The last element taken out.
LEMMA WithoutLast ==
    ASSUME NEW q \in Lists, Len(q) \in 1 .. Len(q)
    PROVE  Without(q, Len(q)) = SubSeq(q, 1, Len(q) - 1) /\ q # <<>>
<1> DEFINE w == Without(q, Len(q))
           v == SubSeq(q, 1, Len(q) - 1)
<1>1. Len(q) \in Nat /\ q \in Seq(Elems) /\ q # <<>>
  BY DEF Lists
<1>2. w \in Seq(Elems) /\ Len(w) = Len(q) - 1
  BY <1>1, WithoutIs DEF Lists
<1>3. v \in Seq(Elems) /\ Len(v) = Len(q) - 1
  <2> DEFINE m == Len(q) - 1
  <2>1. m \in 0 .. Len(q) /\ \A j \in 1 .. m : j \in 1 .. Len(q)
    BY <1>1
  <2> HIDE DEF m
  <2>2. SubSeq(q, 1, m) \in Seq(Elems) /\ Len(SubSeq(q, 1, m)) = m
    BY <1>1, <2>1
  <2> QED
    BY <2>2 DEF m
<1>4. \A j \in 1 .. Len(q) - 1 : w[j] = v[j]
  BY <1>1 DEF Without
<1> HIDE DEF w, v
<1>5. w = v
  BY <1>1, <1>2, <1>3, <1>4
<1> QED
  BY <1>1, <1>5 DEF w, v

\* Any element taken out.
LEMMA WithoutAny ==
    ASSUME NEW q \in Lists, NEW i \in 1 .. Len(q)
    PROVE  Without(q, i) = SubSeq(q, 1, i - 1) \o SubSeq(q, i + 1, Len(q))
<1> DEFINE w == Without(q, i)
           a == SubSeq(q, 1, i - 1)
           b == SubSeq(q, i + 1, Len(q))
           v == a \o b
<1>1. Len(q) \in Nat /\ q \in Seq(Elems) /\ q \in [1 .. Len(q) -> Elems]
  BY DEF Lists
<1>2. w \in Seq(Elems) /\ Len(w) = Len(q) - 1
  BY <1>1, WithoutIs DEF Lists
<1>3. a \in Seq(Elems) /\ Len(a) = i - 1 /\ \A j \in 1 .. i - 1 : a[j] = q[j]
  BY <1>1
<1>4. b \in Seq(Elems) /\ Len(b) = Len(q) - i /\ \A j \in 1 .. Len(q) - i : b[j] = q[i + j]
  <2>1. b \in Seq(Elems)
    BY <1>1
  <2>2. Len(b) = Len(q) - i
    <3> DEFINE k == i + 1
    <3>1. k \in 2 .. Len(q) + 1 /\ (Len(q) - k) + 1 = Len(q) - i
      BY <1>1
    <3> HIDE DEF k
    <3>2. Len(SubSeq(q, k, Len(q))) = (Len(q) - k) + 1
      BY <1>1, <3>1
    <3> QED
      BY <3>1, <3>2 DEF k
  <2>3. \A j \in 1 .. Len(q) - i : b[j] = q[i + j]
    BY <1>1
  <2> QED
    BY <2>1, <2>2, <2>3
<1>5. \A j \in 1 .. Len(q) - 1 : w[j] = IF j < i THEN q[j] ELSE q[j + 1]
  BY DEF Without
<1> HIDE DEF w, a, b
<1>6. v \in Seq(Elems) /\ Len(v) = Len(q) - 1
  <2>1. a \o b \in Seq(Elems) /\ Len(a \o b) = Len(a) + Len(b)
    <3>1. \A x, y \in Seq(Elems) : x \o y \in Seq(Elems) /\ Len(x \o y) = Len(x) + Len(y)
      OBVIOUS
    <3> QED
      BY <1>3, <1>4, <3>1, Zenon
  <2>2. (i - 1) + (Len(q) - i) = Len(q) - 1
    BY <1>1
  <2> QED
    BY <1>3, <1>4, <2>1, <2>2
<1>7. ASSUME NEW j \in 1 .. Len(q) - 1 PROVE w[j] = v[j]
  <2>1. CASE j < i
    BY <1>1, <1>3, <1>4, <1>5, <2>1
  <2>2. CASE ~(j < i)
    <3>1. j - (i - 1) \in 1 .. Len(q) - i /\ i + (j - (i - 1)) = j + 1
      BY <1>1, <2>2
    <3>2. v[j] = b[j - (i - 1)]
      BY <1>1, <1>3, <1>4, <2>2
    <3>3. b[j - (i - 1)] = q[j + 1]
      BY <1>4, <3>1
    <3> QED
      BY <1>5, <2>2, <3>2, <3>3
  <2> QED
    BY <2>1, <2>2
<1> HIDE DEF v
<1>8. w = v
  BY <1>1, <1>2, <1>6, <1>7
<1> QED
  BY <1>8 DEF w, v, a, b

-----------------------------------------------------------------------------
\* A step that SharedList does not see.
ListStutter == UNCHANGED <<List, arg, got>>

\* A removal is a pop or a take.
LEMMA RemovalRefines ==
    ASSUME SInv, NEW t \in Threads, op[t] \in Pops \cup {"take"}, UNCHANGED arg,
           NEW i \in Nat, RemovedBy(t, i)
    PROVE  Abstract!Pop(t) \/ Abstract!Take(t)
<1>1. PICK q : q = List
  OBVIOUS
<1>2. /\ q \in Lists /\ i \in 1 .. Len(q) /\ i \in Gap(t, q) /\ List' = Without(q, i)
      /\ got' = [got EXCEPT ![t] = q[i]] /\ Len(q) \in Nat
  BY <1>1, AtOnce DEF RemovedBy
<1>3. op[t] \in Pops => arg[t] = Null
  BY DEF SInv, Own, Args
<1>4. CASE op[t] = "popHead"
  <2>1. i = 1
    BY <1>2, <1>4 DEF Gap
  <2>2. List' = Tail(q) /\ got' = [got EXCEPT ![t] = Head(q)] /\ q # <<>>
    BY <1>2, <2>1, WithoutFirst
  <2> QED
    BY <1>1, <1>3, <1>4, <2>2 DEF Abstract!Pop, Pops
<1>5. CASE op[t] = "popTail"
  <2>1. i = Len(q)
    BY <1>2, <1>5 DEF Gap
  <2>2. List' = SubSeq(q, 1, Len(q) - 1) /\ got' = [got EXCEPT ![t] = q[Len(q)]] /\ q # <<>>
    BY <1>2, <2>1, WithoutLast
  <2> QED
    BY <1>1, <1>3, <1>5, <2>2 DEF Abstract!Pop, Abstract!Front, Abstract!Last, Pops
<1>6. CASE op[t] = "take"
  <2>1. q[i] = arg[t]
    BY <1>2, <1>6 DEF Gap
  <2>2. List' = SubSeq(q, 1, i - 1) \o SubSeq(q, i + 1, Len(q))
    BY <1>2, WithoutAny
  <2>3. i \in DOMAIN q
    BY <1>2, AtOnce
  <2> QED
    BY <1>1, <1>2, <2>1, <2>2, <2>3 DEF Abstract!Take, Abstract!RemoveAt
<1> QED
  BY <1>4, <1>5, <1>6 DEF Pops

\* An insertion is a push.
LEMMA PushRefines ==
    ASSUME NEW t \in Threads, UNCHANGED <<arg, got>>,
           List \in Lists, arg[t] \in Elems \ ToSet(List),
           List' \in {With(List, 1, arg[t]), With(List, Len(List) + 1, arg[t])}
    PROVE  Abstract!Push(t)
<1>1. List' = <<arg[t]>> \o List \/ List' = Append(List, arg[t])
  BY WithFirst, WithLast
<1>2. Abstract!ToSet(List) = ToSet(List)
  BY DEF Abstract!ToSet, ToSet
<1> QED
  BY <1>1, <1>2 DEF Abstract!Push

\* A search that has found its element is a find: the element is in the list then.
LEMMA SearchRefines ==
    ASSUME SInv, LInv, NEW t \in Threads, Search(t)
    PROVE  ListStutter \/ Abstract!Find(t)
<1>1. Whole
  BY WholeInside DEF Search, Inside
<1>2. List' = List
  BY <1>1, SearchKeeps
<1>3. arg' = arg /\ (got' = got \/ (cur[t] = arg[t] /\ got' = [got EXCEPT ![t] = arg[t]]))
  BY DEF Search
<1>4. CASE got' = got
  BY <1>2, <1>3, <1>4 DEF ListStutter
<1>5. CASE cur[t] = arg[t] /\ got' = [got EXCEPT ![t] = arg[t]]
  <2>1. PICK i \in 1 .. Len(List) + 1 : cur[t] = At(List, i)
    BY DEF SInv, Own, Search, Looking
  <2>2. arg[t] \in Elems
    BY OpsDiffer DEF SInv, Own, Args, Search
  <2>3. List \in Lists /\ Len(List) \in Nat
    BY <1>1, WholeIs
  <2>4. i \in DOMAIN List /\ List[i] = arg[t]
    BY <1>5, <2>1, <2>2, <2>3, AtOnce DEF At
  <2>5. arg[t] \in Abstract!ToSet(List)
    BY <2>4 DEF Abstract!ToSet
  <2> QED
    BY <1>2, <1>3, <1>5, <2>5 DEF Abstract!Find
<1> QED
  BY <1>3, <1>4, <1>5

\* Only the call and the return are seen of the rest.
LEMMA CallRefines ==
    ASSUME SInv, NEW t \in Threads, Call(t) \/ LockSteps(t)
    PROVE  ListStutter \/ Abstract!Call(t)
<1>1. UNCHANGED <<link, live>>
  BY DEF Call, LockSteps, EnterShared, EnterOwner, EnterSpin, LeaveShared, LeaveSpin, LeaveOwner, Return,
         listVars
<1>2. List' = List
  BY <1>1, ListStays
<1>3. CASE Call(t)
  <2>1. PICK e \in Elems \cup {Null} : arg' = [arg EXCEPT ![t] = e]
    BY <1>3 DEF Call
  <2>2. got' = got /\ got[t] = Null
    BY <1>3 DEF Call, SInv, Own, Args
  <2>3. got' = [got EXCEPT ![t] = Null]
    BY <2>2 DEF SInv, TypeOK
  <2> QED
    BY <1>2, <2>1, <2>3 DEF Abstract!Call
<1>4. CASE LeaveShared(t) \/ LeaveOwner(t)
  <2>1. arg' = [arg EXCEPT ![t] = Null] /\ got' = [got EXCEPT ![t] = Null]
    BY <1>4 DEF LeaveShared, LeaveOwner, Return
  <2> QED
    BY <1>2, <2>1 DEF Abstract!Call
<1>5. CASE EnterShared(t) \/ EnterOwner(t) \/ EnterSpin(t) \/ LeaveSpin(t)
  BY <1>2, <1>5 DEF EnterShared, EnterOwner, EnterSpin, LeaveSpin, ListStutter
<1> QED
  BY <1>3, <1>4, <1>5 DEF LockSteps

\* Which step of an operation is the one instant.
LEMMA ListStepRefines ==
    ASSUME SInv, LInv, NEW t \in Threads, ListSteps(t)
    PROVE  ListStutter \/ Abstract!Push(t) \/ Abstract!Pop(t) \/ Abstract!Take(t) \/ Abstract!Find(t)
<1>1. arg' = arg
  BY ListStepFrame
<1>2. CASE PushRead(t) \/ PopRead(t)
  <2>1. List' = List /\ got' = got
    BY <1>2, PushReadKeeps, PopReadKeeps DEF PushRead
  <2> QED
    BY <1>1, <2>1 DEF ListStutter
<1>3. CASE PushLink(t) \/ PushFinish(t)
  <2>1. /\ got' = got
        /\ List' = List \/ (/\ List \in Lists /\ arg[t] \in Elems \ ToSet(List)
                            /\ List' \in {With(List, 1, arg[t]), With(List, Len(List) + 1, arg[t])})
    BY <1>3, PushLinkKeeps, PushFinishKeeps
  <2> QED
    BY <1>1, <2>1, PushRefines DEF ListStutter
<1>4. CASE PopLink(t) \/ PopFinish(t) \/ TakeLink(t) \/ TakeFinish(t)
  <2>1. op[t] \in Pops \cup {"take"}
    BY <1>4 DEF PopLink, PopFinish, TakeLink, TakeFinish
  <2>2. (List' = List /\ got' = got) \/ \E i \in Nat : RemovedBy(t, i)
    BY <1>4, PopLinkKeeps, TakeLinkKeeps, RemoveFinishes
  <2> QED
    BY <1>1, <2>1, <2>2, RemovalRefines DEF ListStutter
<1>5. CASE Search(t)
  BY <1>5, SearchRefines
<1> QED
  BY <1>2, <1>3, <1>4, <1>5 DEF ListSteps

\* Start and Stop clear the list.
LEMMA StartStopRefines ==
    ASSUME SInv, LInv, Start \/ Stop
    PROVE  Abstract!Clear
<1>1. UNCHANGED <<arg, got>>
  BY DEF Start, Stop, localVars
<1>2. CASE ~live'
  BY <1>1, <1>2 DEF Abstract!Clear, List
<1>3. CASE live'
  <2>1. link' = [s \in Sides |-> [link[s] EXCEPT ![Head0] = Head0]]
    BY <1>3 DEF Start, Stop
  <2>2. link'["f"][Head0] = Head0
    BY <2>1 DEF SInv, TypeOK, Sides, Nodes
  <2>3. <<>> \in Lists /\ Len(<<>>) = 0
    BY DEF Lists
  <2>4. \A i : At(<<>>, i) = Head0
    BY DEF At
  <2>5. Forward(<<>>)'
    BY <2>2, <2>3, <2>4 DEF Forward, RingOf
  <2>6. List' = <<>>
    BY <1>3, <2>3, <2>5, ListIsNext
  <2> QED
    BY <1>1, <2>6 DEF Abstract!Clear
<1> QED
  BY <1>2, <1>3

(***************************************************************************)
(* Every behaviour of the list is one of SharedList: for every reader and  *)
(* writer at any level each operation takes effect at one instant,         *)
(* although it is several writes of links, under one of two locks.         *)
(***************************************************************************)
THEOREM ListIsASequence == Spec => ImplementsSharedList
<1>1. Init => Abstract!Init
  BY DEF Init, Abstract!Init, List
<1>2. SInv /\ LInv /\ [Next]_vars => [Abstract!Next]_<<List, arg, got>>
  <2> SUFFICES ASSUME SInv, LInv, [Next]_vars PROVE [Abstract!Next]_<<List, arg, got>>
    OBVIOUS
  <2>1. CASE ListStutter
    BY <2>1 DEF ListStutter
  <2>2. CASE UNCHANGED vars
    <3>1. UNCHANGED <<link, live, arg, got>>
      BY <2>2 DEF vars, listVars, localVars
    <3> QED
      BY <3>1, ListStays
  <2>3. CASE Start \/ Stop
    BY <2>3, StartStopRefines DEF Abstract!Next
  <2>4. ASSUME NEW t \in Threads, Call(t) \/ LockSteps(t) PROVE [Abstract!Next]_<<List, arg, got>>
    BY <2>1, <2>4, CallRefines DEF Abstract!Next
  <2>5. ASSUME NEW t \in Threads, ListSteps(t) PROVE [Abstract!Next]_<<List, arg, got>>
    BY <2>1, <2>5, ListStepRefines DEF Abstract!Next
  <2> QED
    BY <2>2, <2>3, <2>4, <2>5 DEF Next
<1> QED
  BY <1>1, <1>2, ListInvariant, LockInvariant, PTL DEF Spec, ImplementsSharedList, Abstract!Spec
=============================================================================
