------------------------- MODULE MCApprovalResumer -------------------------
(***************************************************************************)
(* Finite instances of ApprovalResumer for TLC.                            *)
(***************************************************************************)
EXTENDS ApprovalResumer, TLC

CONSTANTS Alice, Bob, Carol

People == {Alice, Bob, Carol}
Staff == Alice :> "editor" @@ Bob :> "owner" @@ Carol :> "viewer"

OneOf == QuorumOf(1, [k \in {} |-> Unset])
=============================================================================
