-------------------------- MODULE ApprovalDecision --------------------------
(***************************************************************************)
(* What an approval promises (docs/APPROVALS.md): those entitled to vote   *)
(* do so at most once, a request is decided once, by its votes or by       *)
(* silence, and neither the decision nor any vote is ever taken back.      *)
(***************************************************************************)
EXTENDS Naturals, FiniteSets

CONSTANTS Electorate,    \* who may vote
          Quorum, DenyIsFinal,
          OnSilence      \* what the request comes to when its time is over

VARIABLES status, ballots

decisionVars == <<status, ballots>>

Yes(b) == Cardinality({v \in b : v.decision = "approve"})
Nos(b) == {v \in b : v.decision = "deny"}

\* What the ballots alone decide.
Outcome(b) == IF DenyIsFinal /\ Nos(b) # {} THEN "denied"
              ELSE IF Yes(b) >= Quorum THEN "approved" ELSE "pending"

Init == status = "none" /\ ballots = {}

Ask == status = "none" /\ status' = "pending" /\ UNCHANGED ballots

\* Decided by the ballots, or by silence where they do not decide.
Settles == \/ status' = Outcome(ballots')
           \/ Outcome(ballots') = "pending" /\ status' = OnSilence

Cast(p, d) ==
  /\ status = "pending"
  /\ \A v \in ballots : v.by # p
  /\ ballots' = ballots \cup {[by |-> p, decision |-> d]}
  /\ Settles

\* Nobody votes, and somebody looks: at a clock, or at a quorum of nobody.
Lapse == status = "pending" /\ UNCHANGED ballots /\ Settles

Next == \/ Ask \/ Lapse
        \/ \E p \in Electorate, d \in {"approve", "deny"} : Cast(p, d)

Spec == Init /\ [][Next]_decisionVars
=============================================================================
