---------------------------- MODULE ClientTable ----------------------------
(***************************************************************************)
(* What the LPC server library promises: a table of at most NumSlots       *)
(* connections, with one connection per process except for System, that a  *)
(* connection leaves only after its client has closed it or when the       *)
(* server stops.                                                           *)
(***************************************************************************)
EXTENDS Naturals, FiniteSets

CONSTANTS Conns, PidOf, SystemPid, NumSlots

VARIABLES
    table,  \* the connections being served
    gone,   \* the connections closed by their clients
    up      \* the server is running

vars == <<table, gone, up>>

Init == table = {} /\ gone = {} /\ ~up

\* A client may go away at any time, connected or not.
ClientGone(c) ==
    /\ c \notin gone
    /\ gone' = gone \cup {c}
    /\ UNCHANGED <<table, up>>

\* Room in the table, and no connection of the same process unless System.
CanAdmit(c) ==
    /\ Cardinality(table) < NumSlots
    /\ PidOf[c] = SystemPid \/ \A d \in table : PidOf[d] # PidOf[c]

Admit(c) ==
    /\ up
    /\ c \notin table
    /\ CanAdmit(c)
    /\ table' = table \cup {c}
    /\ UNCHANGED <<gone, up>>

\* The server learns that a client is gone.
Drop(c) ==
    /\ c \in table \cap gone
    /\ table' = table \ {c}
    /\ UNCHANGED <<gone, up>>

Start == ~up /\ up' = TRUE /\ UNCHANGED <<table, gone>>

Stop == up /\ up' = FALSE /\ table' = {} /\ UNCHANGED gone

Next ==
    \/ \E c \in Conns : ClientGone(c) \/ Admit(c) \/ Drop(c)
    \/ Start
    \/ Stop

Spec == Init /\ [][Next]_vars
=============================================================================
