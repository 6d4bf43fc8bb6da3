--------------------------- MODULE MCDriverEntry ---------------------------
(***************************************************************************)
(* DriverEntry with two devices and two minifilter callbacks at a time.    *)
(***************************************************************************)
EXTENDS DriverEntry
=============================================================================
