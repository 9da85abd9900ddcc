------------------------------- MODULE MCRoom -------------------------------
(***************************************************************************)
(* Finite instances of Room for TLC.                                       *)
(***************************************************************************)
EXTENDS Room, TLC
=============================================================================
