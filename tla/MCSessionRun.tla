---------------------------- MODULE MCSessionRun ----------------------------
(***************************************************************************)
(* Finite instances of SessionRun for TLC.                                 *)
(***************************************************************************)
EXTENDS SessionRun, TLC

CONSTANTS n1, n2
\* What is interrupted on n2 may run on n1.
Elsewhere == [x \in Sent \cup Interrupter |-> IF x \in Sent THEN n1 ELSE n2]
=============================================================================
