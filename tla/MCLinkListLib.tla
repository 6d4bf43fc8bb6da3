--------------------------- MODULE MCLinkListLib ---------------------------
(***************************************************************************)
(* LinkListLib with two threads below DISPATCH_LEVEL and one at it.  They  *)
(* are alike but for the level, and so are the elements; but the run also  *)
(* checks that every call returns, for which a symmetry is not sound.      *)
(***************************************************************************)
EXTENDS LinkListLib
=============================================================================
