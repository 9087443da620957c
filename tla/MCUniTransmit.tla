--------------------------- MODULE MCUniTransmit ---------------------------
(***************************************************************************)
(* Instances of the facade for TLC: their constants are in the .cfg files. *)
(***************************************************************************)
EXTENDS UniTransmit
=============================================================================
