-------------------------- MODULE MCTurnController --------------------------
(***************************************************************************)
(* Finite instances of TurnController for TLC; the constants are given     *)
(* their values in the Turn*.cfg files.                                    *)
(***************************************************************************)
EXTENDS TurnController, TLC

CONSTANTS n1, n2, n3, n4

AllQueue == [n \in Node |-> "queue"]
QueueAndDebounce == n1 :> "queue" @@ n2 :> "debounce"
TheOtherModes == n1 :> "batch" @@ n2 :> "debounce" @@ n3 :> "skip" @@ n4 :> "preempt"

\* Instances of one mode are interchangeable (used by runs without liveness).
Symmetry == Permutations(Node)
=============================================================================
