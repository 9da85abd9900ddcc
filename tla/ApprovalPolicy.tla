--------------------------- MODULE ApprovalPolicy ---------------------------
(***************************************************************************)
(* src/approvals/policy.ts: how many must approve, who may vote, what a    *)
(* "no" means and what silence means.  Pure operators.  A policy as a      *)
(* caller writes it may leave keys out or set them to undefined (Unset).   *)
(* The deadline itself is left to the module that uses this one.           *)
(***************************************************************************)
EXTENDS Naturals, FiniteSets

CONSTANTS Person,     \* who may turn up with a vote
          RoleOf,     \* role in the session, or "absent"
          Unset       \* undefined

Roles == {"owner", "editor", "approver", "viewer"}
Keys == {"quorum", "excludeRequester", "allowedRoles", "allowedParticipants",
         "denyIsFinal", "onExpiry"}

ASSUME PolicyAssumption == RoleOf \in [Person -> Roles \cup {"absent"}]

Decisions == {"approve", "deny"}
\* ("cancelled" is declared, and nothing sets it.)
Statuses == {"pending", "approved", "denied", "expired"}

\* A vote: who, what, and whether the deadline had passed (votedAt).
Vote == [by : Person, decision : Decisions, late : BOOLEAN]

\* What a key may be set to, and a policy with every key set.
ValueOf(key) == CASE key = "quorum" -> Nat
                  [] key \in {"excludeRequester", "denyIsFinal"} -> BOOLEAN
                  [] key = "allowedRoles" -> SUBSET Roles
                  [] key = "allowedParticipants" -> SUBSET Person
                  [] key = "onExpiry" -> {"deny", "approve"}
ResolvedPolicy == [quorum : Nat, excludeRequester : BOOLEAN,
                   allowedRoles : SUBSET Roles,
                   allowedParticipants : SUBSET Person,
                   denyIsFinal : BOOLEAN, onExpiry : {"deny", "approve"}]

\* A policy as a caller may write it.
IsPolicy(policy) ==
  /\ DOMAIN policy \subseteq Keys
  /\ \A k \in DOMAIN policy : policy[k] = Unset \/ policy[k] \in ValueOf(k)

DefaultPolicy == [quorum |-> 1, excludeRequester |-> FALSE,
                  allowedRoles |-> {"owner", "editor", "approver"},
                  allowedParticipants |-> {},
                  denyIsFinal |-> TRUE, onExpiry |-> "deny"]

\* policy, spread over base: keys that are present win, undefined or not.
Spread(base, policy) ==
  [k \in Keys |-> IF k \in DOMAIN policy THEN policy[k] ELSE base[k]]

\* Mutant: a plain spread over the defaults.
MergeBySpread(policy) == Spread(DefaultPolicy, policy)

\* Keys that are undefined keep their default.
MergePolicy(policy) ==
  [k \in Keys |-> IF k \in DOMAIN policy /\ policy[k] # Unset
                    THEN policy[k] ELSE DefaultPolicy[k]]

NoKeys == [k \in Keys |-> Unset]
FourEyes(overrides) ==
  Spread(Spread(NoKeys, [quorum |-> 2, excludeRequester |-> TRUE]), overrides)
QuorumOf(n, overrides) == Spread(Spread(NoKeys, [quorum |-> n]), overrides)
ApproverOnly(overrides) ==
  Spread(Spread(NoKeys, [quorum |-> 1, allowedRoles |-> {"approver", "owner"}]),
         overrides)

\* Whether the role, the list and the requester rule let p vote at all.
Eligible(policy, requester, p) ==
  /\ ~(policy.excludeRequester /\ p = requester)
  /\ RoleOf[p] \in policy.allowedRoles \/ p \in policy.allowedParticipants

Voted(votes, p) == \E i \in DOMAIN votes : votes[i].by = p

\* Mutant: nobody looks whether p has voted.
CanVoteAgain(policy, requester, request, p) ==
  Eligible(policy, requester, p) /\ request.status = "pending"

CanVote(policy, requester, request, p) ==
  /\ Eligible(policy, requester, p)
  /\ ~Voted(request.votes, p)
  /\ request.status = "pending"

Count(votes, decision) ==
  Cardinality({i \in DOMAIN votes : votes[i].decision = decision})

Denied(policy, votes) == policy.denyIsFinal /\ Count(votes, "deny") > 0
Approved(policy, votes) == Count(votes, "approve") >= policy.quorum
Silence(policy) == IF policy.onExpiry = "approve" THEN "approved" ELSE "expired"

\* Mutants: one more vote than the quorum is asked for ...
EvaluateMore(policy, request, late) ==
  IF request.status # "pending" THEN request.status
  ELSE IF Denied(policy, request.votes) THEN "denied"
  ELSE IF Count(request.votes, "approve") > policy.quorum THEN "approved"
  ELSE IF late THEN Silence(policy) ELSE "pending"

\* ... or the clock is never looked at.
EvaluateTimeless(policy, request, late) ==
  IF request.status # "pending" THEN request.status
  ELSE IF Denied(policy, request.votes) THEN "denied"
  ELSE IF Approved(policy, request.votes) THEN "approved" ELSE "pending"

\* What a request with these votes has come to.
Evaluate(policy, request, late) ==
  IF request.status # "pending" THEN request.status
  ELSE IF Denied(policy, request.votes) THEN "denied"
  ELSE IF Approved(policy, request.votes) THEN "approved"
  ELSE IF late THEN Silence(policy) ELSE "pending"
=============================================================================
