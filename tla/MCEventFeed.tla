---------------------------- MODULE MCEventFeed ----------------------------
(***************************************************************************)
(* Finite instances of EventFeed for TLC.                                  *)
(***************************************************************************)
EXTENDS EventFeed, TLC

CONSTANTS s1, s2

\* Streams are alike.
Alike == Permutations(Stream)
=============================================================================
