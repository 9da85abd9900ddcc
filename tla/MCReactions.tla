---------------------------- MODULE MCReactions ----------------------------
(***************************************************************************)
(* Finite instances of Reactions for TLC.                                  *)
(***************************************************************************)
EXTENDS Reactions, TLC

OneEach == [class \in Classes |-> 1]
=============================================================================
