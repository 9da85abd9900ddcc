--------------------------- MODULE MCApprovalGate ---------------------------
(***************************************************************************)
(* Finite instances of ApprovalGate for TLC: three people and the policies *)
(* the Gate*.cfg files choose from.                                        *)
(***************************************************************************)
EXTENDS ApprovalGate, TLC

CONSTANTS Alice, Bob, Carol

People == {Alice, Bob, Carol}
\* Alice asks; Carol may vote only where the policy lists her.
Staff == Alice :> "editor" @@ Bob :> "owner" @@ Carol :> "viewer"
Editors == Alice :> "editor" @@ Bob :> "owner" @@ Carol :> "approver"

\* A denial ends nothing, silence consents, and a key is left undefined.
TwoOfThree == QuorumOf(2, [allowedParticipants |-> {Carol}, denyIsFinal |-> FALSE,
                           onExpiry |-> "approve", excludeRequester |-> Unset])
MakerChecker == FourEyes([allowedParticipants |-> {Carol}])
OneOf == QuorumOf(1, [k \in {} |-> Unset])
\* fourEyes({ quorum: config.approvers }), with approvers unset.
FromConfig == FourEyes([quorum |-> Unset])

Symmetry == Permutations(Voter) \cup Permutations(Sweeper)
=============================================================================
