--------------------------- MODULE MCLpcServLib ---------------------------
(***************************************************************************)
(* LpcServLib with a table of two slots.                                   *)
(***************************************************************************)
EXTENDS LpcServLib, TLC

CONSTANTS c1, c2, c3, a1, a2, a3, sys, p1

\* The process p1 opens every connection but c3, which is System's.
MCPidOf == [c \in Conns |-> IF c = c3 THEN sys ELSE p1]

\* Addresses are only compared.
MCSymmetry == Permutations(Addrs)
=============================================================================
