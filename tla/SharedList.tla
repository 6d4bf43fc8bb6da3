----------------------------- MODULE SharedList -----------------------------
(***************************************************************************)
(* What CLinkListLib promises: a sequence of elements that each operation  *)
(* changes or reads at one instant, whoever else is using it.              *)
(***************************************************************************)
EXTENDS Naturals, Sequences, SequencesExt

CONSTANTS Threads, Elems, None

VARIABLES
    list,   \* the elements, from the head
    want,   \* what each thread's call is about
    got     \* what it has got

Init ==
    /\ list = <<>>
    /\ want = [t \in Threads |-> None]
    /\ got = [t \in Threads |-> None]

\* A call begins or ends.
Call(t) ==
    /\ want' \in {[want EXCEPT ![t] = e] : e \in Elems \cup {None}}
    /\ got' = [got EXCEPT ![t] = None]
    /\ UNCHANGED list

Push(t) ==
    /\ want[t] \in Elems \ ToSet(list)
    /\ list' \in {<<want[t]>> \o list, Append(list, want[t])}
    /\ UNCHANGED <<want, got>>

Pop(t) ==
    /\ want[t] = None
    /\ list # <<>>
    /\ \/ list' = Tail(list) /\ got' = [got EXCEPT ![t] = Head(list)]
       \/ list' = Front(list) /\ got' = [got EXCEPT ![t] = Last(list)]
    /\ UNCHANGED want

Take(t) ==
    /\ \E i \in DOMAIN list : list[i] = want[t] /\ list' = RemoveAt(list, i)
    /\ got' = [got EXCEPT ![t] = want[t]]
    /\ UNCHANGED want

Find(t) ==
    /\ want[t] \in ToSet(list)
    /\ got' = [got EXCEPT ![t] = want[t]]
    /\ UNCHANGED <<list, want>>

\* After Stop the list holds nothing.
Clear == list' = <<>> /\ UNCHANGED <<want, got>>

Next == Clear \/ \E t \in Threads : Call(t) \/ Push(t) \/ Pop(t) \/ Take(t) \/ Find(t)

Spec == Init /\ [][Next]_<<list, want, got>>
=============================================================================
