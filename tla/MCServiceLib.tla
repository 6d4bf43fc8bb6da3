---------------------------- MODULE MCServiceLib ----------------------------
(***************************************************************************)
(* ServiceLib with the LPC server's clients in two processes.              *)
(***************************************************************************)
EXTENDS ServiceLib

CONSTANTS c1, c2, a1, a2, sys, p1

\* The process p1 opens c1, System c2.
MCPidOf == [c \in Conns |-> IF c = c2 THEN sys ELSE p1]
=============================================================================
