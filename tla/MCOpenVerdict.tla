---------------------------- MODULE MCOpenVerdict ----------------------------
(***************************************************************************)
(* OpenVerdict with two threads opening files: threads of one process, in  *)
(* which a port handle means the same to both (p1 = p2 in the .cfg), or of *)
(* two.  The symmetry is sound for threads of one process.                 *)
(***************************************************************************)
EXTENDS OpenVerdict, TLC

CONSTANTS sys, p1, p2, t1, t2, drv

MCPidOf == [t \in Threads |-> IF t = drv THEN sys ELSE IF t = t1 THEN p1 ELSE p2]

MCSymmetry ==
    Permutations(Openers) \cup Permutations(Objs) \cup Permutations(Conns) \cup Permutations(FileHandles)
=============================================================================
