----------------------------- MODULE MCDevFilter -----------------------------
(***************************************************************************)
(* DevFilter with two devices.                                             *)
(***************************************************************************)
EXTENDS DevFilter
=============================================================================
