------------------------- MODULE ApprovalGateProofs -------------------------
(***************************************************************************)
(* Proofs about ApprovalGate, for any policy, any people, any number of    *)
(* overlapping calls and any number of failures.                           *)
(***************************************************************************)
EXTENDS ApprovalGate, FiniteSetTheorems, SequenceTheorems, TLAPS

(***************************************************************************)
(* The policy and the count of the votes.                                  *)
(***************************************************************************)
LEMMA MergeType ==
  ASSUME NEW policy, IsPolicy(policy)
  PROVE  MergePolicy(policy) \in ResolvedPolicy
<1> DEFINE m == MergePolicy(policy)
<1>1. DefaultPolicy \in ResolvedPolicy
  BY DEF DefaultPolicy, ResolvedPolicy, Roles
<1>2. \A k \in Keys : DefaultPolicy[k] \in ValueOf(k)
  BY <1>1 DEF ResolvedPolicy, ValueOf, Keys
<1>3. \A k \in Keys : m[k] \in ValueOf(k)
  BY <1>2 DEF MergePolicy, IsPolicy
<1>4. /\ m["quorum"] \in Nat /\ m["excludeRequester"] \in BOOLEAN
      /\ m["allowedRoles"] \in SUBSET Roles
      /\ m["allowedParticipants"] \in SUBSET Person
      /\ m["denyIsFinal"] \in BOOLEAN /\ m["onExpiry"] \in {"deny", "approve"}
  BY <1>3 DEF ValueOf, Keys
<1>5. m = [k \in Keys |-> m[k]]
  BY DEF MergePolicy
<1>6. m = [quorum |-> m["quorum"], excludeRequester |-> m["excludeRequester"],
           allowedRoles |-> m["allowedRoles"],
           allowedParticipants |-> m["allowedParticipants"],
           denyIsFinal |-> m["denyIsFinal"], onExpiry |-> m["onExpiry"]]
  BY <1>5 DEF Keys
<1> HIDE DEF m
<1> QED  BY <1>4, <1>6 DEF ResolvedPolicy, m

LEMMA NewType == NewRequest \in Request /\ NewRequest.policy = MergePolicy(Policy)
<1>1. MergePolicy(Policy) \in ResolvedPolicy
  BY MergeType, GateAssumption
<1> QED  BY <1>1, EmptySeq DEF NewRequest, Request, Statuses

\* Where nobody votes twice, counting votes is counting people.
LEMMA CountPeople ==
  ASSUME NEW votes \in Seq(Vote),
         \A i, j \in DOMAIN votes : votes[i].by = votes[j].by => i = j
  PROVE  /\ Count(votes, "approve") = Cardinality(Approvers(votes))
         /\ Count(votes, "approve") \in Nat
<1> DEFINE S == {i \in DOMAIN votes : votes[i].decision = "approve"}
           f == [i \in S |-> votes[i].by]
<1>1. IsFiniteSet(S)
  <2>1. DOMAIN votes = 1 .. Len(votes) /\ Len(votes) \in Nat
    OBVIOUS
  <2>2. IsFiniteSet(1 .. Len(votes))
    BY <2>1, FS_Interval
  <2> QED  BY <2>1, <2>2, FS_Subset
<1>2. f \in Bijection(S, Approvers(votes))
  <2>1. f \in [S -> Approvers(votes)]
    BY DEF Approvers
  <2>2. \A i, j \in S : f[i] = f[j] => i = j
    OBVIOUS
  <2>3. \A p \in Approvers(votes) : \E i \in S : f[i] = p
    <3> SUFFICES ASSUME NEW p \in Approvers(votes) PROVE \E i \in S : f[i] = p
      OBVIOUS
    <3>1. PICK i \in S : votes[i].by = p
      BY DEF Approvers
    <3>2. f[i] = votes[i].by
      OBVIOUS
    <3> HIDE DEF f, S
    <3> QED  BY <3>1, <3>2
  <2> HIDE DEF f, S
  <2> QED  BY <2>1, <2>2, <2>3 DEF Bijection, Injection, IsInjective, Surjection
<1>3. ExistsBijection(S, Approvers(votes))
  BY <1>2 DEF ExistsBijection
<1>4. Cardinality(S) = Cardinality(Approvers(votes)) /\ Cardinality(S) \in Nat
  BY <1>1, <1>3, FS_Bijection, FS_CardinalityType
<1> QED  BY <1>4 DEF Count

LEMMA CountDenials ==
  ASSUME NEW votes \in Seq(Vote)
  PROVE  Count(votes, "deny") > 0 <=> Naysayers(votes) # {}
<1> DEFINE S == {i \in DOMAIN votes : votes[i].decision = "deny"}
<1>1. IsFiniteSet(S)
  <2>1. DOMAIN votes = 1 .. Len(votes) /\ Len(votes) \in Nat
    OBVIOUS
  <2>2. IsFiniteSet(1 .. Len(votes))
    BY <2>1, FS_Interval
  <2> QED  BY <2>1, <2>2, FS_Subset
<1>2. Cardinality(S) \in Nat /\ (Cardinality(S) = 0 <=> S = {})
  BY <1>1, FS_CardinalityType, FS_EmptySet
<1>3. S = {} <=> Naysayers(votes) = {}
  BY DEF Naysayers
<1> QED  BY <1>2, <1>3 DEF Count

LEMMA EvaluateType ==
  ASSUME NEW policy, NEW r, r.status \in Statuses, NEW l
  PROVE  Evaluate(policy, r, l) \in Statuses
BY DEF Evaluate, Silence, Statuses

(***************************************************************************)
(* What a call makes of a justified, pending record is justified.          *)
(***************************************************************************)
\* The record a vote is about to save.
Counted(r, p, decision) ==
  [r EXCEPT !.votes = Append(r.votes, [by |-> p, decision |-> decision, late |-> late])]

LEMMA CountedType ==
  ASSUME NEW r \in Request, NEW p \in Person, NEW decision \in Decisions, late \in BOOLEAN
  PROVE  /\ Counted(r, p, decision) \in Request
         /\ Counted(r, p, decision).votes =
              Append(r.votes, [by |-> p, decision |-> decision, late |-> late])
         /\ Counted(r, p, decision).policy = r.policy
         /\ Counted(r, p, decision).status = r.status
         /\ Counted(r, p, decision).votes # <<>>
<1> DEFINE ballot == [by |-> p, decision |-> decision, late |-> late]
<1>1. ballot \in Vote
  BY DEF Vote
<1>2. r.votes \in Seq(Vote)
  BY DEF Request
<1>3. Append(r.votes, ballot) \in Seq(Vote) /\ Append(r.votes, ballot) # <<>>
  BY <1>1, <1>2, AppendProperties
<1> QED  BY <1>3 DEF Counted, Request

\* Voters stay different, and allowed to vote.
LEMMA CountedVoters ==
  ASSUME NEW r \in Request, NEW p \in Person, NEW decision \in Decisions,
         late \in BOOLEAN, Justified(r, late), CanVote(r.policy, Requester, r, p),
         NEW votes, votes = Counted(r, p, decision).votes
  PROVE  /\ \A i, j \in DOMAIN votes : votes[i].by = votes[j].by => i = j
         /\ \A i \in DOMAIN votes : Eligible(r.policy, Requester, votes[i].by)
<1> DEFINE ballot == [by |-> p, decision |-> decision, late |-> late]
           old == r.votes
<1>1. old \in Seq(Vote) /\ votes = Append(old, ballot)
  BY CountedType DEF Request
<1>2. /\ DOMAIN votes = 1 .. Len(old) + 1 /\ DOMAIN old = 1 .. Len(old)
      /\ Len(old) \in Nat
      /\ \A i \in DOMAIN old : votes[i] = old[i]
      /\ votes[Len(old) + 1] = ballot
  BY <1>1, AppendProperties
<1>3. \A i \in DOMAIN old : old[i].by # p
  BY DEF CanVote, Voted
<1>4. \A i, j \in DOMAIN old : old[i].by = old[j].by => i = j
  BY DEF Justified
<1>5. /\ \A i \in DOMAIN old : Eligible(r.policy, Requester, old[i].by)
      /\ Eligible(r.policy, Requester, p)
  BY DEF Justified, CanVote
<1>6. \A i \in DOMAIN votes : i \in DOMAIN old \/ i = Len(old) + 1
  BY <1>2
<1>7. ballot.by = p
  OBVIOUS
<1> HIDE DEF ballot, old
<1>8. \A i, j \in DOMAIN votes : votes[i].by = votes[j].by => i = j
  BY <1>2, <1>3, <1>4, <1>6, <1>7
<1>9. \A i \in DOMAIN votes : Eligible(r.policy, Requester, votes[i].by)
  BY <1>2, <1>5, <1>6, <1>7
<1> QED  BY <1>8, <1>9

\* A pending record with lawful votes is justified once it is evaluated.
LEMMA EvaluatedJustified ==
  ASSUME NEW r \in Request, r.status = "pending", late \in BOOLEAN,
         \A i, j \in DOMAIN r.votes : r.votes[i].by = r.votes[j].by => i = j,
         \A i \in DOMAIN r.votes : Eligible(r.policy, Requester, r.votes[i].by),
         NEW resolvedAt \in {"never", "deadline", "now"}
  PROVE  LET s == [r EXCEPT !.status = Evaluate(r.policy, r, late),
                            !.resolvedAt = resolvedAt]
         IN  s \in Request /\ Justified(s, late) /\ s.policy = r.policy /\ s.votes = r.votes
<1> DEFINE status == Evaluate(r.policy, r, late)
           s == [r EXCEPT !.status = status, !.resolvedAt = resolvedAt]
<1>1. status \in Statuses
  BY EvaluateType DEF Request
<1>2. s \in Request /\ s.policy = r.policy /\ s.votes = r.votes /\ s.status = status
  BY <1>1 DEF Request
<1>3. r.votes \in Seq(Vote) /\ r.policy \in ResolvedPolicy
  BY DEF Request
<1>4. r.policy.quorum \in Nat /\ r.policy.onExpiry \in {"deny", "approve"}
      /\ r.policy.denyIsFinal \in BOOLEAN
  BY <1>3 DEF ResolvedPolicy
<1>5. Approved(r.policy, r.votes) <=> Cardinality(Approvers(r.votes)) >= r.policy.quorum
  BY <1>3, CountPeople DEF Approved
<1>6. Denied(r.policy, r.votes) <=> r.policy.denyIsFinal /\ Naysayers(r.votes) # {}
  BY <1>3, CountDenials DEF Denied
<1>7. Cardinality(Approvers(r.votes)) \in Nat
  BY <1>3, CountPeople
<1>8. status = IF Denied(r.policy, r.votes) THEN "denied"
               ELSE IF Approved(r.policy, r.votes) THEN "approved"
               ELSE IF late THEN (IF r.policy.onExpiry = "approve" THEN "approved"
                                  ELSE "expired")
               ELSE "pending"
  BY DEF Evaluate, Silence
<1> HIDE DEF s, status
<1>9. Justified(s, late)
  <2>1. status = "approved" =>
          /\ \/ Cardinality(Approvers(r.votes)) >= r.policy.quorum
             \/ late /\ r.policy.onExpiry = "approve"
          /\ r.policy.denyIsFinal => Naysayers(r.votes) = {}
    BY <1>4, <1>5, <1>6, <1>8
  <2>2. status = "denied" => r.policy.denyIsFinal /\ Naysayers(r.votes) # {}
    BY <1>6, <1>8
  <2>3. status = "expired" => late /\ r.policy.onExpiry # "approve"
    BY <1>8
  <2>4. status = "pending" =>
          /\ Cardinality(Approvers(r.votes)) < r.policy.quorum
          /\ r.policy.denyIsFinal => Naysayers(r.votes) = {}
    BY <1>4, <1>5, <1>6, <1>7, <1>8
  <2> QED  BY <1>2, <2>1, <2>2, <2>3, <2>4 DEF Justified
<1> QED  BY <1>2, <1>9 DEF s, status

(***************************************************************************)
(* The invariant.  GateTypeOK is proved together with the rest.            *)
(***************************************************************************)
LEMMA InitInv == Init => GateInv
<1> SUFFICES ASSUME Init PROVE GateInv
  OBVIOUS
<1>1. GateTypeOK
  BY DEF Init, GateTypeOK, Record, Places
<1>2. DecisionJustified /\ AnnouncedWasStored
  BY DEF Init, DecisionJustified, AnnouncedWasStored
<1>3. \A c \in Caller : CallInv(c)
  BY DEF Init, CallInv
<1> QED  BY <1>1, <1>2, <1>3 DEF Init, GateInv

\* Time only makes records more justified.
LEMMA JustifiedLater ==
  ASSUME NEW r, NEW l, NEW m, Justified(r, l), l => m
  PROVE  Justified(r, m)
BY DEF Justified

\* A call that does not move, while records and entries are only added.
LEMMA CallKept ==
  ASSUME NEW c \in Caller, CallInv(c), at'[c] = at[c], copy'[c] = copy[c],
         saved \subseteq saved', ledger \subseteq ledger', late => late'
  PROVE  CallInv(c)'
<1>1. Justified(copy[c], late) => Justified(copy'[c], late')
  BY JustifiedLater
<1> QED  BY <1>1 DEF CallInv

\* A call that ended.
LEMMA Ended ==
  ASSUME GateTypeOK, NEW c \in Caller, Ends(c)
  PROVE  /\ at' \in [Caller -> Places] /\ copy' \in [Caller -> Record]
         /\ at'[c] \in {"idle", "done"}
         /\ \A d \in Caller \ {c} : at'[d] = at[d] /\ copy'[d] = copy[d]
BY DEF GateTypeOK, Ends, Goes, Holds, Places, Record

LEMMA EndedInv == ASSUME NEW c, at'[c] \in {"idle", "done"} PROVE CallInv(c)'
BY DEF CallInv

\* What the invariant says besides CallInv.
Shared ==
  /\ stored # NoRequest => stored \in saved
  /\ DecisionJustified
  /\ AnnouncedWasStored
  /\ asked # "save" => NewRequest \in saved
  /\ asked = "save" => stored = NoRequest /\ saved = {}

LEMMA InvParts == GateInv <=> GateTypeOK /\ Shared /\ \A c \in Caller : CallInv(c)
BY DEF GateInv, Shared

\* A step of a call that only moves: nothing shared changes, and the others stay.
LEMMA CallMoves ==
  ASSUME GateInv, NEW c \in Caller,
         UNCHANGED <<stored, asked, late, outside, saved>>, faults' \in Nat,
         at' \in [Caller -> Places], copy' \in [Caller -> Record],
         \A d \in Caller \ {c} : at'[d] = at[d] /\ copy'[d] = copy[d],
         CallInv(c)'
  PROVE  GateInv'
<1>1. GateTypeOK'
  BY DEF GateInv, GateTypeOK, outside
<1>2. Shared'
  BY InvParts DEF Shared, DecisionJustified, AnnouncedWasStored, outside
<1>3. ASSUME NEW d \in Caller PROVE CallInv(d)'
  <2>1. CASE d = c
    BY <2>1 DEF CallInv
  <2>2. CASE d # c
    BY <2>2, InvParts, CallKept DEF outside
  <2> QED  BY <2>1, <2>2
<1> QED  BY <1>1, <1>2, <1>3 DEF GateInv, Shared

LEMMA ReadsInv ==
  ASSUME GateInv, NEW c \in Caller, NEW next \in {"participant", "clock"},
         next = "clock" => c \notin Voter, Reads(c, next)
  PROVE  GateInv'
<1>1. CASE ~IsPending /\ Ends(c)
  <2>1. /\ at' \in [Caller -> Places] /\ copy' \in [Caller -> Record]
        /\ \A d \in Caller \ {c} : at'[d] = at[d] /\ copy'[d] = copy[d]
        /\ CallInv(c)'
    BY <1>1, Ended, EndedInv DEF GateInv
  <2> QED  BY <2>1, CallMoves DEF Reads, GateInv, GateTypeOK
<1>2. CASE IsPending /\ Goes(c, next) /\ Holds(c, stored)
  <2>1. /\ at' \in [Caller -> Places] /\ copy' \in [Caller -> Record]
        /\ \A d \in Caller \ {c} : at'[d] = at[d] /\ copy'[d] = copy[d]
        /\ at'[c] = next /\ copy'[c] = stored
    BY <1>2 DEF GateInv, GateTypeOK, Goes, Holds, Places
  <2>2. stored \in saved /\ stored.status = "pending" /\ saved' = saved
    BY <1>2 DEF GateInv, IsPending, Reads
  <2>3. CallInv(c)'
    BY <2>1, <2>2 DEF CallInv
  <2> QED  BY <2>1, <2>3, CallMoves DEF Reads, GateInv, GateTypeOK
<1> QED  BY <1>1, <1>2 DEF Reads

LEMMA VoteDecidesInv ==
  ASSUME GateInv, NEW c \in Caller, NEW p \in Person, NEW decision \in Decisions,
         VoteDecides(c, p, decision)
  PROVE  GateInv'
<1> DEFINE r == copy[c]
           counted == Counted(r, p, decision)
           status == Evaluate(r.policy, counted, late)
           resolvedAt == CASE status = "pending" -> "never"
                           [] status = "expired" -> "deadline"
                           [] OTHER -> "now"
           new == [counted EXCEPT !.status = status, !.resolvedAt = resolvedAt]
<1>1. r \in saved /\ r.status = "pending" /\ r \in Request /\ Justified(r, late)
      /\ r.policy = MergePolicy(Policy) /\ late \in BOOLEAN
  BY DEF GateInv, CallInv, GateTypeOK, VoteDecides, DecisionJustified
<1>2. CASE ~CanVote(r.policy, Requester, r, p) /\ Ends(c)
  <2>1. /\ at' \in [Caller -> Places] /\ copy' \in [Caller -> Record]
        /\ \A d \in Caller \ {c} : at'[d] = at[d] /\ copy'[d] = copy[d]
        /\ CallInv(c)'
    BY <1>2, Ended, EndedInv DEF GateInv
  <2> QED  BY <2>1, CallMoves DEF VoteDecides, GateInv, GateTypeOK
<1>3. CASE CanVote(r.policy, Requester, r, p) /\ Goes(c, "save") /\ Holds(c, new)
  <2>1. /\ counted \in Request /\ counted.policy = r.policy
        /\ counted.status = "pending" /\ counted.votes # <<>>
    BY <1>1, CountedType
  <2>2. /\ \A i, j \in DOMAIN counted.votes :
             counted.votes[i].by = counted.votes[j].by => i = j
        /\ \A i \in DOMAIN counted.votes :
             Eligible(counted.policy, Requester, counted.votes[i].by)
    <3>1. \A i \in DOMAIN counted.votes :
            Eligible(r.policy, Requester, counted.votes[i].by)
      BY <1>1, <1>3, CountedVoters
    <3>2. \A i, j \in DOMAIN counted.votes :
             counted.votes[i].by = counted.votes[j].by => i = j
      BY <1>1, <1>3, CountedVoters
    <3> HIDE DEF counted
    <3> QED  BY <2>1, <3>1, <3>2
  <2>3. resolvedAt \in {"never", "deadline", "now"}
    OBVIOUS
  <2>4. new \in Request /\ Justified(new, late) /\ new.policy = r.policy
        /\ new.votes = counted.votes
    <3> HIDE DEF counted, resolvedAt
    <3> QED  BY <1>1, <2>1, <2>2, <2>3, EvaluatedJustified
  <2> HIDE DEF new
  <2>5. /\ at' \in [Caller -> Places] /\ copy' \in [Caller -> Record]
        /\ \A d \in Caller \ {c} : at'[d] = at[d] /\ copy'[d] = copy[d]
        /\ at'[c] = "save" /\ copy'[c] = new
    BY <1>3, <2>4 DEF GateInv, GateTypeOK, Goes, Holds, Places, Record
  <2>6. late' = late /\ saved' = saved
    BY DEF VoteDecides
  <2>7. CallInv(c)'
    BY <1>1, <2>1, <2>4, <2>5, <2>6 DEF CallInv
  <2> QED  BY <2>5, <2>7, CallMoves DEF VoteDecides, GateInv, GateTypeOK
<1> QED  BY <1>2, <1>3 DEF VoteDecides, Counted

LEMMA RefreshDecidesInv ==
  ASSUME GateInv, NEW c \in Caller, RefreshDecides(c)
  PROVE  GateInv'
<1> DEFINE r == copy[c]
           status == Evaluate(r.policy, r, late)
           new == [r EXCEPT !.status = status, !.resolvedAt = "deadline"]
<1>1. r \in saved /\ r.status = "pending" /\ r \in Request /\ Justified(r, late)
      /\ r.policy = MergePolicy(Policy) /\ late \in BOOLEAN
  BY DEF GateInv, CallInv, GateTypeOK, RefreshDecides, DecisionJustified
<1>0. c \notin Voter
  BY DEF GateInv, CallInv, RefreshDecides
<1>2. CASE Ends(c)
  <2>1. /\ at' \in [Caller -> Places] /\ copy' \in [Caller -> Record]
        /\ \A d \in Caller \ {c} : at'[d] = at[d] /\ copy'[d] = copy[d]
        /\ CallInv(c)'
    BY <1>2, Ended, EndedInv DEF GateInv
  <2> QED  BY <2>1, CallMoves DEF RefreshDecides, GateInv, GateTypeOK
<1>3. CASE Goes(c, "save") /\ Holds(c, new)
  <2>1. new \in Request /\ Justified(new, late) /\ new.policy = r.policy
    BY <1>1, EvaluatedJustified DEF Justified
  <2> HIDE DEF new
  <2>2. /\ at' \in [Caller -> Places] /\ copy' \in [Caller -> Record]
        /\ \A d \in Caller \ {c} : at'[d] = at[d] /\ copy'[d] = copy[d]
        /\ at'[c] = "save" /\ copy'[c] = new
    BY <1>3, <2>1 DEF GateInv, GateTypeOK, Goes, Holds, Places, Record
  <2>3. late' = late /\ saved' = saved
    BY DEF RefreshDecides
  <2>4. CallInv(c)'
    BY <1>0, <1>1, <2>1, <2>2, <2>3 DEF CallInv
  <2> QED  BY <2>2, <2>4, CallMoves DEF RefreshDecides, GateInv, GateTypeOK
<1> QED  BY <1>2, <1>3 DEF RefreshDecides

LEMMA SavesInv == ASSUME GateInv, NEW c \in Caller, Saves(c) PROVE GateInv'
<1>1. /\ at[c] = "save" /\ stored' = copy[c] /\ saved' = saved \cup {copy[c]}
      /\ late' = late /\ UNCHANGED <<asked, copy, outside, faults>>
  BY DEF Saves
<1>2. /\ copy[c] \in Request /\ Justified(copy[c], late)
      /\ copy[c].policy = MergePolicy(Policy)
      /\ c \in Voter => copy[c].votes # <<>>
  BY <1>1 DEF GateInv, CallInv
<1>3. /\ at' \in [Caller -> Places] /\ at'[c] = AfterSave(c)
      /\ \A d \in Caller \ {c} : at'[d] = at[d]
  BY DEF Saves, Goes, AfterSave, Places, GateInv, GateTypeOK
<1>4. GateTypeOK'
  BY <1>1, <1>2, <1>3 DEF GateInv, GateTypeOK, Record, outside
<1>5. Shared'
  <2>1. DecisionJustified'
    BY <1>1, <1>2 DEF GateInv, DecisionJustified
  <2>2. AnnouncedWasStored'
    BY <1>1 DEF GateInv, AnnouncedWasStored, outside
  <2>3. asked # "save"
    BY <1>1 DEF GateInv, CallInv
  <2> QED  BY <1>1, <2>1, <2>2, <2>3 DEF GateInv, Shared
<1>6. CallInv(c)'
  <2>1. AfterSave(c) \in {"ledger_vote", "publish"}
    BY DEF AfterSave
  <2>2. AfterSave(c) = "ledger_vote" => c \in Voter
    BY DEF AfterSave
  <2> QED  BY <1>1, <1>2, <1>3, <2>1, <2>2 DEF CallInv
<1>7. ASSUME NEW d \in Caller, d # c PROVE CallInv(d)'
  BY <1>1, <1>3, <1>7, CallKept DEF GateInv, outside
<1> QED  BY <1>4, <1>5, <1>6, <1>7 DEF GateInv, Shared

\* A call past saving, or the request: entries and copies are only added.
LEMMA VoteLedgeredInv ==
  ASSUME GateInv, NEW c \in Caller, VoteLedgered(c)
  PROVE  GateInv'
<1> DEFINE r == copy[c]
           entry == [call |-> c, action |-> "voted", by |-> r.votes[Len(r.votes)].by,
                     status |-> r.status]
<1>1. /\ at[c] = "ledger_vote" /\ ledger' = ledger \cup {entry}
      /\ UNCHANGED <<stored, asked, late, copy, room, told, faults, saved>>
  BY DEF VoteLedgered, Enters
<1>2. r \in saved /\ r \in Request /\ r.votes # <<>>
  BY <1>1 DEF GateInv, CallInv, GateTypeOK
<1>3. /\ r.votes \in Seq(Vote) /\ r.status \in Statuses
  BY <1>2 DEF Request
<1>4. Len(r.votes) \in DOMAIN r.votes /\ r.votes[Len(r.votes)] \in Vote
  BY <1>2, <1>3
<1>5. entry \in Entry /\ entry.action = "voted" /\ entry.status = r.status
      /\ Voted(r.votes, entry.by)
  BY <1>3, <1>4 DEF Entry, Vote, Voted
<1> HIDE DEF entry
<1>6. /\ at' \in [Caller -> Places] /\ at'[c] = "publish"
      /\ \A d \in Caller \ {c} : at'[d] = at[d]
  BY DEF VoteLedgered, Goes, Places, GateInv, GateTypeOK
<1>7. GateTypeOK'
  BY <1>1, <1>5, <1>6 DEF GateInv, GateTypeOK
<1>8. DecisionJustified'
  BY <1>1 DEF GateInv, DecisionJustified
<1>9. AnnouncedWasStored'
  BY <1>1, <1>2, <1>5 DEF GateInv, AnnouncedWasStored
<1>10. CallInv(c)'
  BY <1>1, <1>2, <1>6 DEF CallInv
<1>11. ASSUME NEW d \in Caller, d # c PROVE CallInv(d)'
  BY <1>1, <1>6, <1>11, CallKept DEF GateInv
<1> QED  BY <1>1, <1>7, <1>8, <1>9, <1>10, <1>11 DEF GateInv

LEMMA PublishesInv == ASSUME GateInv, NEW c \in Caller, Publishes(c) PROVE GateInv'
<1>1. /\ at[c] = "publish" /\ room' = room \cup {copy[c]}
      /\ UNCHANGED <<stored, asked, late, ledger, told, faults, saved>>
  BY DEF Publishes
<1>2. copy[c] \in saved /\ copy[c] \in Request
  BY <1>1 DEF GateInv, CallInv, GateTypeOK
<1>3. /\ at' \in [Caller -> Places] /\ copy' \in [Caller -> Record]
      /\ \/ at'[c] \in {"idle", "done"}
         \/ at'[c] = "ledger_resolved" /\ copy'[c] = copy[c]
      /\ \A d \in Caller \ {c} : at'[d] = at[d] /\ copy'[d] = copy[d]
  <2>1. CASE Ends(c)
    <3>1. GateTypeOK
      BY DEF GateInv
    <3> QED  BY <2>1, <3>1, Ended
  <2>2. CASE Goes(c, "ledger_resolved") /\ UNCHANGED copy
    BY <2>2 DEF Goes, Places, GateInv, GateTypeOK
  <2> QED  BY <2>1, <2>2 DEF Publishes
<1>4. GateTypeOK'
  BY <1>1, <1>2, <1>3 DEF GateInv, GateTypeOK
<1>5. DecisionJustified'
  BY <1>1 DEF GateInv, DecisionJustified
<1>6. AnnouncedWasStored'
  BY <1>1, <1>2 DEF GateInv, AnnouncedWasStored
<1>7. CallInv(c)'
  BY <1>1, <1>2, <1>3 DEF CallInv
<1>8. ASSUME NEW d \in Caller, d # c PROVE CallInv(d)'
  BY <1>1, <1>3, <1>8, CallKept DEF GateInv
<1> QED  BY <1>1, <1>4, <1>5, <1>6, <1>7, <1>8 DEF GateInv

LEMMA ResolutionLedgeredInv ==
  ASSUME GateInv, NEW c \in Caller, ResolutionLedgered(c)
  PROVE  GateInv'
<1> DEFINE entry == [call |-> c, action |-> "resolved", by |-> NoRequest,
                     status |-> copy[c].status]
<1>1. /\ at[c] = "ledger_resolved" /\ ledger' = ledger \cup {entry}
      /\ UNCHANGED <<stored, asked, late, copy, room, told, faults, saved>>
  BY DEF ResolutionLedgered, Enters
<1>2. copy[c] \in saved /\ copy[c] \in Request
  BY <1>1 DEF GateInv, CallInv, GateTypeOK
<1>3. entry \in Entry /\ entry.action = "resolved" /\ entry.call = c
      /\ entry.status = copy[c].status
  BY <1>2 DEF Entry, Request
<1> HIDE DEF entry
<1>4. /\ at' \in [Caller -> Places] /\ at'[c] = "notify"
      /\ \A d \in Caller \ {c} : at'[d] = at[d]
  BY DEF ResolutionLedgered, Goes, Places, GateInv, GateTypeOK
<1>5. GateTypeOK'
  BY <1>1, <1>3, <1>4 DEF GateInv, GateTypeOK
<1>6. DecisionJustified'
  BY <1>1 DEF GateInv, DecisionJustified
<1>7. AnnouncedWasStored'
  BY <1>1, <1>3 DEF GateInv, AnnouncedWasStored
<1>8. CallInv(c)'
  BY <1>1, <1>2, <1>3, <1>4 DEF CallInv
<1>9. ASSUME NEW d \in Caller, d # c PROVE CallInv(d)'
  BY <1>1, <1>4, <1>9, CallKept DEF GateInv
<1> QED  BY <1>1, <1>5, <1>6, <1>7, <1>8, <1>9 DEF GateInv

LEMMA NotifiesInv == ASSUME GateInv, NEW c \in Caller, Notifies(c) PROVE GateInv'
<1> DEFINE word == [call |-> c, request |-> copy[c]]
<1>1. /\ at[c] = "notify" /\ told' = told \cup {word} /\ Ends(c)
      /\ UNCHANGED <<stored, asked, late, ledger, room, faults, saved>>
  BY DEF Notifies
<1>2. /\ copy[c] \in saved /\ copy[c] \in Request
      /\ \E e \in ledger : e.call = c /\ e.action = "resolved" /\ e.status = copy[c].status
  BY <1>1 DEF GateInv, CallInv, GateTypeOK
<1>3. /\ at' \in [Caller -> Places] /\ copy' \in [Caller -> Record]
      /\ \A d \in Caller \ {c} : at'[d] = at[d] /\ copy'[d] = copy[d]
      /\ CallInv(c)'
  BY <1>1, Ended, EndedInv DEF GateInv
<1>4. GateTypeOK'
  BY <1>1, <1>2, <1>3 DEF GateInv, GateTypeOK
<1>5. DecisionJustified'
  BY <1>1 DEF GateInv, DecisionJustified
<1>6. AnnouncedWasStored'
  BY <1>1, <1>2 DEF GateInv, AnnouncedWasStored
<1>7. ASSUME NEW d \in Caller, d # c PROVE CallInv(d)'
  BY <1>1, <1>3, <1>7, CallKept DEF GateInv
<1> QED  BY <1>1, <1>3, <1>4, <1>5, <1>6, <1>7 DEF GateInv

LEMMA FailsInv == ASSUME GateInv, NEW c \in Caller, Fails(c) PROVE GateInv'
<1>1. /\ at' \in [Caller -> Places] /\ copy' \in [Caller -> Record]
      /\ \A d \in Caller \ {c} : at'[d] = at[d] /\ copy'[d] = copy[d]
      /\ CallInv(c)'
  BY Ended, EndedInv DEF Fails, GateInv
<1>2. faults' \in Nat
  BY DEF Fails, GateInv, GateTypeOK
<1> QED  BY <1>1, <1>2, CallMoves DEF Fails

\* The steps of request, and the clock.
LEMMA RequestInv ==
  ASSUME GateInv,
         RequestSaved \/ RequestLedgered \/ RequestPublished \/ RequestFails \/ DeadlinePasses
  PROVE  GateInv'
<1>1. NewRequest \in Request /\ NewRequest.policy = MergePolicy(Policy)
  BY NewType
<1>2. /\ at' = at /\ copy' = copy /\ told' = told
      /\ late => late'
      /\ late' \in BOOLEAN /\ faults' \in Nat
  <2>1. late \in BOOLEAN /\ faults \in Nat
    BY DEF GateInv, GateTypeOK
  <2>2. at' = at /\ copy' = copy /\ told' = told
    BY DEF RequestSaved, RequestLedgered, RequestPublished, RequestFails,
           DeadlinePasses, calls, outside
  <2>3. late' = late \/ late' = TRUE
    BY DEF RequestSaved, RequestLedgered, RequestPublished, RequestFails, DeadlinePasses
  <2>4. faults' = faults \/ faults' = faults + 1
    BY DEF RequestSaved, RequestLedgered, RequestPublished, RequestFails, DeadlinePasses
  <2>5. (late => late') /\ late' \in BOOLEAN
    BY <2>1, <2>3
  <2>6. faults' \in Nat
    BY <2>1, <2>4
  <2> QED  BY <2>2, <2>5, <2>6
<1>3. /\ saved \subseteq saved' /\ saved' \subseteq saved \cup {NewRequest}
      /\ stored' \in {stored, NewRequest}
      /\ stored' # stored => NewRequest \in saved'
      /\ asked' \in Places
      /\ asked' # "save" => NewRequest \in saved'
      /\ asked' = "save" => stored' = stored /\ saved' = saved /\ asked = "save"
  <2>1. /\ asked # "save" => NewRequest \in saved
        /\ asked = "save" => saved = {}
        /\ asked \in Places
    BY DEF GateInv, GateTypeOK
  <2> QED  BY <2>1 DEF RequestSaved, RequestLedgered, RequestPublished, RequestFails,
                       DeadlinePasses, Places
<1>4. /\ ledger \subseteq ledger'
      /\ \A e \in ledger' : e \in ledger \/ (e \in Entry /\ e.action = "requested")
  <2>1. CASE RequestLedgered
    BY <2>1, GateAssumption DEF RequestLedgered, Enters, Entry, Statuses
  <2>2. CASE ~RequestLedgered
    BY <2>2 DEF RequestSaved, RequestPublished, RequestFails, DeadlinePasses, outside
  <2> QED  BY <2>1, <2>2
<1>5. room' \subseteq room \cup {NewRequest} /\ (room' # room => asked # "save")
  BY DEF RequestSaved, RequestLedgered, RequestPublished, RequestFails,
         DeadlinePasses, outside
<1>6. GateTypeOK'
  BY <1>1, <1>2, <1>3, <1>4, <1>5 DEF GateInv, GateTypeOK, Record
<1>7. DecisionJustified'
  <2>1. Justified(NewRequest, late')
    <3>1. /\ NewRequest.votes = <<>> /\ NewRequest.status = "pending"
      BY DEF NewRequest
    <3>2. Naysayers(<<>>) = {}
      BY DEF Naysayers
    <3> QED  BY <3>1, <3>2 DEF Justified
  <2>2. ASSUME NEW r \in saved'
        PROVE  Justified(r, late') /\ r.policy = MergePolicy(Policy)
    BY <1>1, <1>2, <1>3, <2>1, JustifiedLater DEF GateInv, DecisionJustified
  <2> QED  BY <2>2 DEF DecisionJustified
<1>8. AnnouncedWasStored'
  BY <1>2, <1>3, <1>4, <1>5 DEF GateInv, AnnouncedWasStored
<1>9. ASSUME NEW d \in Caller PROVE CallInv(d)'
  BY <1>2, <1>3, <1>4, CallKept DEF GateInv
<1> QED  BY <1>3, <1>6, <1>7, <1>8, <1>9 DEF GateInv

LEMMA StutterInv == ASSUME GateInv, UNCHANGED vars PROVE GateInv'
<1>1. GateTypeOK'
  BY DEF GateInv, GateTypeOK, vars, calls, outside
<1>2. DecisionJustified'
  BY DEF GateInv, DecisionJustified, vars
<1>3. AnnouncedWasStored'
  BY DEF GateInv, AnnouncedWasStored, vars, outside
<1>4. ASSUME NEW d \in Caller PROVE CallInv(d)'
  BY CallKept DEF GateInv, vars, calls, outside
<1> QED  BY <1>1, <1>2, <1>3, <1>4 DEF GateInv, vars

LEMMA NextInv == ASSUME GateInv, [Next]_vars PROVE GateInv'
<1>1. CASE RequestSaved \/ RequestLedgered \/ RequestPublished \/ RequestFails
           \/ DeadlinePasses
  BY <1>1, RequestInv
<1>2. ASSUME NEW c \in Voter, VoteReads(c) PROVE GateInv'
  BY <1>2, ReadsInv DEF VoteReads, Caller
<1>3. ASSUME NEW c \in Sweeper, RefreshReads(c) PROVE GateInv'
  <2>1. c \notin Voter
    BY GateAssumption
  <2> QED  BY <1>3, <2>1, ReadsInv DEF RefreshReads, Caller
<1>4. ASSUME NEW c \in Caller, Continues(c) PROVE GateInv'
  <2>1. ASSUME NEW p \in Person, NEW decision \in Decisions, VoteDecides(c, p, decision)
        PROVE  GateInv'
    BY <2>1, VoteDecidesInv
  <2>2. CASE RefreshDecides(c)
    BY <2>2, RefreshDecidesInv
  <2>3. CASE Saves(c)
    BY <2>3, SavesInv
  <2>4. CASE VoteLedgered(c)
    BY <2>4, VoteLedgeredInv
  <2>5. CASE Publishes(c)
    BY <2>5, PublishesInv
  <2>6. CASE ResolutionLedgered(c)
    BY <2>6, ResolutionLedgeredInv
  <2>7. CASE Notifies(c)
    BY <2>7, NotifiesInv
  <2> QED  BY <1>4, <2>1, <2>2, <2>3, <2>4, <2>5, <2>6, <2>7 DEF Continues
<1>5. ASSUME NEW c \in Caller, Fails(c) PROVE GateInv'
  BY <1>5, FailsInv
<1>6. CASE UNCHANGED vars
  BY <1>6, StutterInv
<1> QED  BY <1>1, <1>2, <1>3, <1>4, <1>5, <1>6 DEF Next

(***************************************************************************)
(* The theorems.                                                           *)
(***************************************************************************)
\* The invariant holds in every reachable state.
THEOREM GateInvHolds == Spec => []GateInv
BY InitInv, NextInv, PTL DEF Spec

\* The record, the copies of the calls, the ledger, the room and what the
\* handlers are told have their types: mergePolicy leaves no key undefined.
THEOREM GateTypeCorrect == Spec => []GateTypeOK
<1>1. GateInv => GateTypeOK
  BY DEF GateInv
<1> QED  BY <1>1, GateInvHolds, PTL

\* Every record that ApprovalGate ever stores is justified by its own votes
\* under the policy it was asked with, however votes and sweeps overlap.
THEOREM AlwaysJustified == Spec => []DecisionJustified
<1>1. GateInv => DecisionJustified
  BY DEF GateInv
<1> QED  BY <1>1, GateInvHolds, PTL

\* What vote and refresh announce they stored first, and no handler is told of
\* a decision that the ledger lacks.
THEOREM AnnouncedAfterStored == Spec => []AnnouncedWasStored
<1>1. GateInv => AnnouncedWasStored
  BY DEF GateInv
<1> QED  BY <1>1, GateInvHolds, PTL

\* fourEyes keeps its word in a policy that keeps its quorum: two different
\* people who are not the requester approve what is approved.
THEOREM FourEyesHolds ==
  ASSUME MergePolicy(Policy).quorum >= 2, MergePolicy(Policy).excludeRequester,
         MergePolicy(Policy).onExpiry = "deny"
  PROVE  Spec => []TwoSignOff
<1>1. ASSUME GateInv PROVE TwoSignOff
  <2> SUFFICES ASSUME NEW r \in saved, r.status = "approved"
               PROVE  Cardinality(Approvers(r.votes) \ {Requester}) >= 2
    BY DEF TwoSignOff
  <2>1. /\ Justified(r, late) /\ r.policy = MergePolicy(Policy) /\ r \in Request
    BY <1>1 DEF GateInv, DecisionJustified, GateTypeOK
  <2>2. r.votes \in Seq(Vote) /\ r.policy.quorum \in Nat
    BY <2>1 DEF Request, ResolvedPolicy
  <2>3. Cardinality(Approvers(r.votes)) >= r.policy.quorum
    BY <2>1 DEF Justified
  <2>4. Cardinality(Approvers(r.votes)) \in Nat
    BY <2>1, <2>2, CountPeople DEF Justified
  <2>5. Requester \notin Approvers(r.votes)
    BY <2>1 DEF Justified, Eligible, Approvers
  <2>6. Approvers(r.votes) \ {Requester} = Approvers(r.votes)
    BY <2>5
  <2>7. Cardinality(Approvers(r.votes)) >= 2
    BY <2>1, <2>2, <2>3, <2>4
  <2> QED  BY <2>6, <2>7
<1> QED  BY <1>1, GateInvHolds, PTL

(***************************************************************************)
(* Where at most one call at a time is between reading and saving the      *)
(* record: for any policy, any people, any number of calls, any of which   *)
(* may die.                                                                *)
(***************************************************************************)
(***************************************************************************)
(* Votes.                                                                  *)
(***************************************************************************)
VotedMore(old, b, votes) == \A p : Voted(votes, p) <=> Voted(old, p) \/ p = b.by

LEMMA OneVoteMore ==
  ASSUME NEW old \in Seq(Vote), NEW b \in Vote, NEW votes, votes = Append(old, b)
  PROVE  /\ votes \in Seq(Vote)
         /\ DOMAIN votes = DOMAIN old \cup {Len(votes)} /\ Len(votes) \notin DOMAIN old
         /\ \A i \in DOMAIN old : votes[i] = old[i]
         /\ votes[Len(votes)] = b
         /\ VotedMore(old, b, votes)
<1>1. /\ votes \in Seq(Vote) /\ Len(votes) = Len(old) + 1 /\ Len(old) \in Nat
      /\ DOMAIN votes = 1 .. Len(votes) /\ DOMAIN old = 1 .. Len(old)
      /\ \A i \in DOMAIN old : votes[i] = old[i]
      /\ votes[Len(votes)] = b
  BY AppendProperties
<1>2. DOMAIN votes = DOMAIN old \cup {Len(votes)} /\ Len(votes) \notin DOMAIN old
  BY <1>1
<1> QED  BY <1>1, <1>2 DEF Voted, VotedMore

\* Who voted stays one who voted, and the call that adds a vote adds a new one.
LEMMA Replaced ==
  ASSUME NEW r \in Request, NEW s \in Request, MayReplace(r, s)
  PROVE  /\ \A p : Voted(r.votes, p) => Voted(s.votes, p)
         /\ Votes(r, s) => /\ Voted(s.votes, NewVoter(s))
                           /\ ~Voted(r.votes, NewVoter(s))
<1>1. r.votes \in Seq(Vote)
  BY DEF Request
<1>2. CASE s.votes = r.votes /\ ~Votes(r, s)
  BY <1>2
<1>3. CASE Votes(r, s)
  <2>1. PICK b \in Vote : ~Voted(r.votes, b.by) /\ s.votes = Append(r.votes, b)
    BY <1>3 DEF Votes
  <2>2. s.votes[Len(s.votes)] = b /\ VotedMore(r.votes, b, s.votes)
    BY <1>1, <2>1, OneVoteMore
  <2>3. NewVoter(s) = b.by
    BY <2>2 DEF NewVoter
  <2> QED  BY <2>1, <2>2, <2>3 DEF VotedMore
<1> QED  BY <1>2, <1>3 DEF MayReplace

(***************************************************************************)
(* The invariant.                                                          *)
(***************************************************************************)
LEMMA InitSerial == Init => SerialInv
<1> SUFFICES ASSUME Init PROVE SerialInv
  OBVIOUS
<1>1. Holding = {}
  BY DEF Init, Holding
<1>2. \A c \in Caller : HolderInv(c)
  BY DEF Init, HolderInv
<1>3. VotesInv
  BY DEF Init, VotesInv, LedgerVotesKept
<1>4. ResolvesInv
  BY DEF Init, ResolvesInv, ToldOnce, Unresolved, Resolving
<1> QED  BY <1>1, <1>2, <1>3, <1>4 DEF Init, SerialInv

\* What a call does that leaves the record, the votes in the ledger and what
\* the handlers know: it does not begin to resolve.
Moves(d) ==
  /\ at'[d] # "ledger_vote"
  /\ Resolving(d)' => /\ Resolving(d) /\ copy'[d] = copy[d]
                      /\ at[d] # "notify" /\ at'[d] # "notify"
Stays(d) == at'[d] = at[d] /\ copy'[d] = copy[d]

LEMMA Carried ==
  ASSUME SerialInv, stored' = stored, told' = told,
         stored' = NoRequest => asked' = "save",
         ledger \subseteq ledger', \A e \in ledger' \ ledger : e.action = "requested",
         (\A c, d \in Holding : c = d)',
         \A d \in Caller : Stays(d) \/ (Moves(d) /\ HolderInv(d)')
  PROVE  SerialInv'
<1>1. ASSUME NEW d \in Caller PROVE HolderInv(d)'
  BY DEF SerialInv, HolderInv, Stays
<1>2. \A e \in ledger' : e.action \in {"voted", "resolved"} => e \in ledger
  OBVIOUS
<1>3. \A d \in Caller : at'[d] = "ledger_vote" => at[d] = "ledger_vote" /\ copy'[d] = copy[d]
  BY DEF Stays, Moves
<1>4. VotesInv'
  <2>1. LedgerVotesKept'
    BY <1>2 DEF SerialInv, VotesInv, LedgerVotesKept
  <2>2. ASSUME NEW d \in Caller, at'[d] = "ledger_vote"
        PROVE  \A e \in ledger' : e.action = "voted" => e.by # NewVoter(copy'[d])
    BY <1>2, <1>3, <2>2 DEF SerialInv, VotesInv
  <2>3. ASSUME NEW d \in Caller, at'[d] = "ledger_vote"
        PROVE  Voted(stored'.votes, NewVoter(copy'[d]))
    BY <1>3, <2>3 DEF SerialInv, VotesInv
  <2>4. ASSUME NEW c \in Caller, NEW d \in Caller,
               at'[c] = "ledger_vote", at'[d] = "ledger_vote",
               NewVoter(copy'[d]) = NewVoter(copy'[c])
        PROVE  d = c
    BY <1>3, <2>4 DEF SerialInv, VotesInv
  <2> QED  BY <2>1, <2>2, <2>3, <2>4 DEF VotesInv, NewVoter
<1>5. \A d \in Caller : Resolving(d)' =>
        Resolving(d) /\ copy'[d] = copy[d] /\ (at'[d] # "notify" => at[d] # "notify")
  BY DEF Stays, Moves, Resolving
<1>6. ResolvesInv'
  <2>1. ToldOnce'
    BY <1>2 DEF SerialInv, ResolvesInv, ToldOnce
  <2>2. Unresolved => Unresolved'
    BY <1>2 DEF Unresolved
  <2>3. (stored = NoRequest \/ stored.status = "pending" => told = {} /\ Unresolved)'
    BY <2>2 DEF SerialInv, ResolvesInv
  <2>4. ASSUME NEW d \in Caller, Resolving(d)'
        PROVE  /\ copy'[d] = stored' /\ told' = {}
               /\ at'[d] # "notify" => Unresolved'
               /\ \A c \in Caller : Resolving(c)' => c = d
    BY <1>5, <2>2, <2>4 DEF SerialInv, ResolvesInv
  <2> QED  BY <2>1, <2>3, <2>4 DEF ResolvesInv
<1> QED  BY <1>1, <1>4, <1>6 DEF SerialInv

\* Where one call moves and the others do not.
LEMMA OneMoves ==
  ASSUME SerialInv, NEW c \in Caller, Moves(c), HolderInv(c)',
         \A d \in Caller \ {c} : at'[d] = at[d] /\ copy'[d] = copy[d],
         at'[c] \in {"participant", "clock", "save"} => Holding \subseteq {c},
         UNCHANGED <<stored, asked, ledger, told>>
  PROVE  SerialInv'
<1>1. \A d \in Caller : Stays(d) \/ (Moves(d) /\ HolderInv(d)')
  BY DEF Stays
<1>2. (\A d, e \in Holding : d = e)'
  BY DEF Holding, SerialInv
<1>3. stored' = NoRequest => asked' = "save"
  BY DEF SerialInv
<1> QED  BY <1>1, <1>2, <1>3, Carried

LEMMA EndedMoves ==
  ASSUME NEW c, at'[c] \in {"idle", "done"}
  PROVE  Moves(c) /\ HolderInv(c)'
BY DEF Moves, HolderInv, Resolving

\* A call reads only when no other has the record in hand.
LEMMA NoneHolds ==
  ASSUME SerialInv, Overlap \in Nat, Overlap <= 1, Cardinality(Holding) < Overlap
  PROVE  Holding = {}
<1> SUFFICES ASSUME NEW c \in Holding PROVE FALSE
  OBVIOUS
<1>1. Holding = {c}
  BY DEF SerialInv
<1>2. Cardinality(Holding) = 1
  BY <1>1, FS_Singleton
<1> QED  BY <1>2

LEMMA ReadsSerial ==
  ASSUME GateInv, SerialInv, Overlap <= 1, NEW c \in Caller,
         NEW next \in {"participant", "clock"}, Reads(c, next)
  PROVE  SerialInv'
<1>1. UNCHANGED <<stored, asked, ledger, told>>
  BY DEF Reads, outside
<1>2. Holding = {}
  BY NoneHolds, GateAssumption DEF Reads
<1>3. CASE ~IsPending /\ Ends(c)
  BY <1>1, <1>3, Ended, EndedMoves, OneMoves DEF GateInv
<1>4. CASE IsPending /\ Goes(c, next) /\ Holds(c, stored)
  <2>1. /\ \A d \in Caller \ {c} : at'[d] = at[d] /\ copy'[d] = copy[d]
        /\ at'[c] = next /\ copy'[c] = stored
    BY <1>4 DEF GateInv, GateTypeOK, Goes, Holds
  <2>2. HolderInv(c)' /\ Moves(c)
    BY <1>1, <2>1 DEF HolderInv, Moves, Resolving
  <2> QED  BY <1>1, <1>2, <2>1, <2>2, OneMoves
<1> QED  BY <1>3, <1>4 DEF Reads

LEMMA VoteDecidesSerial ==
  ASSUME GateInv, SerialInv, NEW c \in Caller, NEW p \in Person, NEW decision \in Decisions,
         VoteDecides(c, p, decision)
  PROVE  SerialInv'
<1> DEFINE r == copy[c]
           ballot == [by |-> p, decision |-> decision, late |-> late]
           counted == Counted(r, p, decision)
           status == Evaluate(r.policy, counted, late)
           resolvedAt == CASE status = "pending" -> "never"
                           [] status = "expired" -> "deadline"
                           [] OTHER -> "now"
           new == [counted EXCEPT !.status = status, !.resolvedAt = resolvedAt]
<1>1. /\ at[c] = "participant" /\ r = stored /\ r \in Request /\ r.status = "pending"
      /\ late \in BOOLEAN
  BY DEF VoteDecides, SerialInv, HolderInv, GateInv, CallInv, GateTypeOK
<1>2. UNCHANGED <<stored, asked, ledger, told>>
  BY DEF VoteDecides, outside
<1>3. Holding \subseteq {c}
  BY <1>1 DEF Holding, SerialInv
<1>4. CASE ~CanVote(r.policy, Requester, r, p) /\ Ends(c)
  BY <1>2, <1>4, Ended, EndedMoves, OneMoves DEF GateInv
<1>5. CASE CanVote(r.policy, Requester, r, p) /\ Goes(c, "save") /\ Holds(c, new)
  <2>1. /\ \A d \in Caller \ {c} : at'[d] = at[d] /\ copy'[d] = copy[d]
        /\ at'[c] = "save" /\ copy'[c] = new
    BY <1>5 DEF GateInv, GateTypeOK, Goes, Holds
  <2>2. counted \in Request /\ counted.votes = Append(r.votes, ballot)
    BY <1>1, CountedType
  <2>3. /\ new.votes = Append(r.votes, ballot) /\ new.status = status
        /\ counted = [r EXCEPT !.votes = Append(r.votes, ballot)]
    <3>1. counted = [r EXCEPT !.votes = Append(r.votes, ballot)]
      BY DEF Counted
    <3> HIDE DEF counted, status, resolvedAt
    <3> QED  BY <2>2, <3>1 DEF Request
  <2>4. ballot \in Vote /\ ~Voted(r.votes, ballot.by)
    BY <1>1, <1>5 DEF Vote, CanVote
  <2>5. Votes(r, new)
    <3> HIDE DEF new, ballot
    <3> QED  BY <2>3, <2>4 DEF Votes
  <2>6. new.status = Evaluate(r.policy, [r EXCEPT !.votes = new.votes], late)
    <3> HIDE DEF new, counted, r
    <3> QED  BY <2>3
  <2>7. MayReplace(r, new)
    <3> HIDE DEF new, r
    <3> QED  BY <1>1, <2>5, <2>6, GateAssumption DEF MayReplace
  <2>8. HolderInv(c)' /\ Moves(c)
    <3> HIDE DEF new, r
    <3> QED  BY <1>1, <1>2, <2>1, <2>5, <2>7 DEF HolderInv, Moves, Resolving
  <2> QED  BY <1>2, <1>3, <2>1, <2>8, OneMoves
<1> QED  BY <1>4, <1>5 DEF VoteDecides, Counted

LEMMA RefreshDecidesSerial ==
  ASSUME GateInv, SerialInv, NEW c \in Caller, RefreshDecides(c)
  PROVE  SerialInv'
<1> DEFINE r == copy[c]
           status == Evaluate(r.policy, r, late)
           new == [r EXCEPT !.status = status, !.resolvedAt = "deadline"]
<1>1. /\ at[c] = "clock" /\ r = stored /\ r \in Request /\ r.status = "pending"
      /\ late \in BOOLEAN /\ c \notin Voter
  BY DEF RefreshDecides, SerialInv, HolderInv, GateInv, CallInv, GateTypeOK
<1>2. UNCHANGED <<stored, asked, ledger, told>>
  BY DEF RefreshDecides, outside
<1>3. Holding \subseteq {c}
  BY <1>1 DEF Holding, SerialInv
<1>4. CASE status = "pending" /\ Ends(c)
  BY <1>2, <1>4, Ended, EndedMoves, OneMoves DEF GateInv
<1>5. CASE status # "pending" /\ Goes(c, "save") /\ Holds(c, new)
  <2>1. /\ \A d \in Caller \ {c} : at'[d] = at[d] /\ copy'[d] = copy[d]
        /\ at'[c] = "save" /\ copy'[c] = new
    BY <1>5 DEF GateInv, GateTypeOK, Goes, Holds
  <2>2. new.votes = r.votes /\ new.status = status
    <3> HIDE DEF status
    <3> QED  BY <1>1 DEF Request
  <2>3. r = [r EXCEPT !.votes = r.votes]
    BY <1>1 DEF Request
  <2>4. new.status = Evaluate(r.policy, [r EXCEPT !.votes = new.votes], late)
    <3> HIDE DEF new, r
    <3> QED  BY <2>2, <2>3 DEF status
  <2>5. MayReplace(r, new)
    <3> HIDE DEF new, r, status
    <3> QED  BY <1>1, <2>2, <2>4, GateAssumption DEF MayReplace
  <2>6. HolderInv(c)' /\ Moves(c)
    <3> HIDE DEF new, r
    <3> QED  BY <1>1, <1>2, <2>1, <2>5 DEF HolderInv, Moves, Resolving
  <2> QED  BY <1>2, <1>3, <2>1, <2>6, OneMoves
<1> QED  BY <1>4, <1>5 DEF RefreshDecides

LEMMA SavesSerial == ASSUME GateInv, SerialInv, NEW c \in Caller, Saves(c) PROVE SerialInv'
<1> DEFINE s == copy[c]
<1>1. /\ at[c] = "save" /\ stored' = s /\ UNCHANGED <<asked, copy, ledger, told>>
      /\ at' = [at EXCEPT ![c] = AfterSave(c)]
  BY DEF Saves, outside, Goes
<1>2. /\ s \in Request /\ stored \in Request /\ stored.status = "pending"
      /\ MayReplace(stored, s) /\ (c \in Voter => Votes(stored, s))
  BY <1>1 DEF GateInv, GateTypeOK, Record, CallInv, SerialInv, HolderInv, MayReplace
<1>3. /\ \A p : Voted(stored.votes, p) => Voted(stored'.votes, p)
      /\ c \in Voter => Voted(stored'.votes, NewVoter(s)) /\ ~Voted(stored.votes, NewVoter(s))
  BY <1>1, <1>2, Replaced
<1>4. /\ \A d \in Caller \ {c} : at'[d] = at[d]
      /\ at'[c] = IF c \in Voter THEN "ledger_vote" ELSE "publish"
  BY <1>1 DEF GateInv, GateTypeOK, AfterSave
<1>5. Holding' = {}
  BY <1>1, <1>4 DEF Holding, SerialInv
<1>6. stored' # NoRequest
  BY <1>1, <1>2, GateAssumption
<1>7. ASSUME NEW d \in Caller PROVE HolderInv(d)'
  BY <1>1, <1>4, <1>5 DEF Holding, SerialInv, HolderInv
<1>8. VotesInv'
  <2>1. LedgerVotesKept'
    BY <1>1, <1>3 DEF SerialInv, VotesInv, LedgerVotesKept
  <2>2. \A d \in Caller : at'[d] = "ledger_vote" =>
          /\ d = c => c \in Voter
          /\ d # c => at[d] = "ledger_vote" /\ Voted(stored.votes, NewVoter(copy[d]))
    BY <1>4 DEF SerialInv, VotesInv
  <2>3. \A e \in ledger : e.action = "voted" => Voted(stored.votes, e.by)
    BY DEF SerialInv, VotesInv, LedgerVotesKept
  <2>4. ASSUME NEW d \in Caller, at'[d] = "ledger_vote"
        PROVE  /\ Voted(stored'.votes, NewVoter(copy'[d]))
               /\ \A e \in ledger' : e.action = "voted" => e.by # NewVoter(copy'[d])
    <3>1. CASE d = c
      BY <1>1, <1>3, <2>2, <2>3, <2>4, <3>1
    <3>2. CASE d # c
      BY <1>1, <1>3, <2>2, <2>4, <3>2 DEF SerialInv, VotesInv
    <3> QED  BY <3>1, <3>2
  <2>5. ASSUME NEW d \in Caller, NEW e \in Caller,
               at'[d] = "ledger_vote", at'[e] = "ledger_vote",
               NewVoter(copy'[e]) = NewVoter(copy'[d])
        PROVE  e = d
    BY <1>1, <1>3, <2>2, <2>5 DEF SerialInv, VotesInv
  <2> QED  BY <2>1, <2>4, <2>5 DEF VotesInv, NewVoter
<1>9. ResolvesInv'
  <2>1. told' = {} /\ Unresolved'
    BY <1>1, <1>2 DEF SerialInv, ResolvesInv, Unresolved
  <2>2. ToldOnce'
    BY <2>1 DEF ToldOnce, Unresolved
  <2>3. ASSUME NEW d \in Caller, Resolving(d)' PROVE d = c
    BY <1>1, <1>2, <1>4, <2>3 DEF SerialInv, ResolvesInv, Resolving
  <2> QED  BY <1>1, <2>1, <2>2, <2>3 DEF ResolvesInv
<1> QED  BY <1>5, <1>6, <1>7, <1>8, <1>9 DEF SerialInv

LEMMA VoteLedgeredSerial ==
  ASSUME GateInv, SerialInv, NEW c \in Caller, VoteLedgered(c)
  PROVE  SerialInv'
<1> DEFINE entry == [call |-> c, action |-> "voted", by |-> NewVoter(copy[c]),
                     status |-> copy[c].status]
<1>1. /\ at[c] = "ledger_vote" /\ ledger' = ledger \cup {entry}
      /\ UNCHANGED <<stored, asked, copy, told>>
  BY DEF VoteLedgered, Enters, NewVoter
<1>2. entry.action = "voted" /\ entry.by = NewVoter(copy[c])
  OBVIOUS
<1> HIDE DEF entry
<1>3. at'[c] = "publish" /\ \A d \in Caller \ {c} : at'[d] = at[d]
  BY DEF VoteLedgered, Goes, GateInv, GateTypeOK
<1>4. \A d, e \in Holding' : d = e
  BY <1>3 DEF SerialInv, Holding
<1>5. ASSUME NEW d \in Caller PROVE HolderInv(d)'
  BY <1>1, <1>3 DEF SerialInv, HolderInv
<1>6. VotesInv'
  <2>1. /\ Voted(stored.votes, NewVoter(copy[c]))
        /\ \A e \in ledger : e.action = "voted" => e.by # NewVoter(copy[c])
        /\ \A d \in Caller : at[d] = "ledger_vote" /\ NewVoter(copy[d]) = NewVoter(copy[c]) => d = c
    BY <1>1 DEF SerialInv, VotesInv
  <2>2. LedgerVotesKept'
    BY <1>1, <1>2, <2>1 DEF SerialInv, VotesInv, LedgerVotesKept
  <2>3. ASSUME NEW d \in Caller, at'[d] = "ledger_vote"
        PROVE  /\ Voted(stored'.votes, NewVoter(copy'[d]))
               /\ \A e \in ledger' : e.action = "voted" => e.by # NewVoter(copy'[d])
    BY <1>1, <1>2, <1>3, <2>1, <2>3 DEF SerialInv, VotesInv
  <2>4. ASSUME NEW d \in Caller, NEW e \in Caller,
               at'[d] = "ledger_vote", at'[e] = "ledger_vote",
               NewVoter(copy'[e]) = NewVoter(copy'[d])
        PROVE  e = d
    BY <1>1, <1>3, <2>4 DEF SerialInv, VotesInv
  <2> QED  BY <2>2, <2>3, <2>4 DEF VotesInv, NewVoter
<1>7. ResolvesInv'
  <2>1. Unresolved => Unresolved'
    BY <1>1, <1>2 DEF Unresolved
  <2>2. \A d \in Caller : Resolving(d)' => Resolving(d) /\ (at'[d] # "notify" => at[d] # "notify")
    BY <1>1, <1>3 DEF Resolving
  <2>3. ToldOnce'
    BY <1>1, <1>2 DEF SerialInv, ResolvesInv, ToldOnce
  <2> QED  BY <1>1, <2>1, <2>2, <2>3 DEF SerialInv, ResolvesInv
<1> QED  BY <1>1, <1>4, <1>5, <1>6, <1>7 DEF SerialInv

LEMMA PublishesSerial ==
  ASSUME GateInv, SerialInv, NEW c \in Caller, Publishes(c)
  PROVE  SerialInv'
<1>1. at[c] = "publish" /\ UNCHANGED <<stored, asked, ledger, told>>
  BY DEF Publishes
<1>2. CASE Ends(c)
  BY <1>1, <1>2, Ended, EndedMoves, OneMoves DEF GateInv
<1>3. CASE copy[c].status # "pending" /\ Goes(c, "ledger_resolved") /\ UNCHANGED copy
  <2>1. /\ \A d \in Caller \ {c} : at'[d] = at[d] /\ copy'[d] = copy[d]
        /\ at'[c] = "ledger_resolved" /\ copy'[c] = copy[c]
    BY <1>3 DEF GateInv, GateTypeOK, Goes
  <2>2. HolderInv(c)' /\ Moves(c)
    BY <1>1, <1>3, <2>1 DEF HolderInv, Moves, Resolving
  <2> QED  BY <1>1, <2>1, <2>2, OneMoves
<1> QED  BY <1>2, <1>3 DEF Publishes

LEMMA ResolutionLedgeredSerial ==
  ASSUME GateInv, SerialInv, NEW c \in Caller, ResolutionLedgered(c)
  PROVE  SerialInv'
<1> DEFINE entry == [call |-> c, action |-> "resolved", by |-> NoRequest,
                     status |-> copy[c].status]
<1>1. /\ at[c] = "ledger_resolved" /\ ledger' = ledger \cup {entry}
      /\ UNCHANGED <<stored, asked, copy, told>>
  BY DEF ResolutionLedgered, Enters
<1>2. entry.action = "resolved"
  OBVIOUS
<1> HIDE DEF entry
<1>3. at'[c] = "notify" /\ \A d \in Caller \ {c} : at'[d] = at[d]
  BY DEF ResolutionLedgered, Goes, GateInv, GateTypeOK
<1>4. \A d, e \in Holding' : d = e
  BY <1>3 DEF SerialInv, Holding
<1>5. ASSUME NEW d \in Caller PROVE HolderInv(d)'
  BY <1>1, <1>3 DEF SerialInv, HolderInv
<1>6. VotesInv'
  <2>1. LedgerVotesKept'
    BY <1>1, <1>2 DEF SerialInv, VotesInv, LedgerVotesKept
  <2>2. \A d \in Caller : at'[d] = "ledger_vote" => at[d] = "ledger_vote"
    BY <1>3
  <2>3. \A e \in ledger' : e.action = "voted" => e \in ledger
    BY <1>1, <1>2
  <2>4. ASSUME NEW d \in Caller, at'[d] = "ledger_vote"
        PROVE  /\ Voted(stored'.votes, NewVoter(copy'[d]))
               /\ \A e \in ledger' : e.action = "voted" => e.by # NewVoter(copy'[d])
               /\ \A e \in Caller : at'[e] = "ledger_vote" /\ NewVoter(copy'[e]) = NewVoter(copy'[d])
                     => e = d
    BY <1>1, <2>2, <2>3, <2>4 DEF SerialInv, VotesInv
  <2> QED  BY <2>1, <2>4 DEF VotesInv, NewVoter
<1>7. ResolvesInv'
  <2>1. Resolving(c) /\ copy[c] = stored /\ told = {} /\ Unresolved
    BY <1>1 DEF SerialInv, HolderInv, ResolvesInv, Resolving
  <2>2. stored # NoRequest /\ stored.status # "pending"
    BY <2>1, GateAssumption DEF Resolving, SerialInv, ResolvesInv, GateInv, CallInv, GateTypeOK
  <2>3. ToldOnce'
    BY <1>1, <2>1 DEF ToldOnce, Unresolved
  <2>4. \A d \in Caller : Resolving(d)' => Resolving(d)
    BY <1>1, <1>3 DEF Resolving
  <2>5. \A d \in Caller : Resolving(d) => d = c
    BY <2>1 DEF SerialInv, ResolvesInv
  <2> QED  BY <1>1, <1>3, <2>1, <2>2, <2>3, <2>4, <2>5 DEF ResolvesInv
<1> QED  BY <1>1, <1>4, <1>5, <1>6, <1>7 DEF SerialInv

LEMMA NotifiesSerial == ASSUME GateInv, SerialInv, NEW c \in Caller, Notifies(c) PROVE SerialInv'
<1> DEFINE word == [call |-> c, request |-> copy[c]]
<1>1. /\ at[c] = "notify" /\ told' = told \cup {word} /\ UNCHANGED <<stored, asked, ledger>>
      /\ Ends(c)
  BY DEF Notifies
<1>2. word.request = copy[c]
  OBVIOUS
<1> HIDE DEF word
<1>3. /\ \A d \in Caller \ {c} : at'[d] = at[d] /\ copy'[d] = copy[d]
      /\ at'[c] \in {"idle", "done"}
  BY <1>1, Ended DEF GateInv
<1>4. \A d, e \in Holding' : d = e
  BY <1>3 DEF SerialInv, Holding
<1>5. ASSUME NEW d \in Caller PROVE HolderInv(d)'
  BY <1>1, <1>3 DEF SerialInv, HolderInv
<1>6. VotesInv'
  <2>1. LedgerVotesKept'
    BY <1>1 DEF SerialInv, VotesInv, LedgerVotesKept
  <2>2. \A d \in Caller : at'[d] = "ledger_vote" => at[d] = "ledger_vote" /\ copy'[d] = copy[d]
    BY <1>3
  <2>4. ASSUME NEW d \in Caller, at'[d] = "ledger_vote"
        PROVE  /\ Voted(stored'.votes, NewVoter(copy'[d]))
               /\ \A e \in ledger' : e.action = "voted" => e.by # NewVoter(copy'[d])
    BY <1>1, <2>2, <2>4 DEF SerialInv, VotesInv
  <2>5. ASSUME NEW d \in Caller, NEW e \in Caller,
               at'[d] = "ledger_vote", at'[e] = "ledger_vote",
               NewVoter(copy'[e]) = NewVoter(copy'[d])
        PROVE  e = d
    BY <2>2, <2>5 DEF SerialInv, VotesInv
  <2> QED  BY <2>1, <2>4, <2>5 DEF VotesInv, NewVoter
<1>7. ResolvesInv'
  <2>1. Resolving(c) /\ copy[c] = stored /\ told = {}
    BY <1>1 DEF SerialInv, HolderInv, ResolvesInv, Resolving
  <2>2. stored # NoRequest /\ stored.status # "pending"
    BY <2>1, GateAssumption DEF Resolving, SerialInv, ResolvesInv, GateInv, CallInv, GateTypeOK
  <2>3. ToldOnce'
    BY <1>1, <1>2, <2>1 DEF ToldOnce, SerialInv, ResolvesInv
  <2>4. \A d \in Caller : ~Resolving(d)'
    BY <1>3, <2>1 DEF Resolving, SerialInv, ResolvesInv
  <2> QED  BY <1>1, <2>2, <2>3, <2>4 DEF ResolvesInv
<1> QED  BY <1>1, <1>4, <1>5, <1>6, <1>7 DEF SerialInv

LEMMA FailsSerial == ASSUME GateInv, SerialInv, NEW c \in Caller, Fails(c) PROVE SerialInv'
BY Ended, EndedMoves, OneMoves DEF Fails, GateInv, outside

LEMMA RequestSerial ==
  ASSUME GateInv, SerialInv,
         RequestSaved \/ RequestLedgered \/ RequestPublished \/ RequestFails \/ DeadlinePasses
  PROVE  SerialInv'
<1>1. at' = at /\ copy' = copy /\ told' = told
  BY DEF RequestSaved, RequestLedgered, RequestPublished, RequestFails,
         DeadlinePasses, calls, outside
<1>2. \A c, d \in Holding' : c = d
  BY <1>1 DEF SerialInv, Holding
<1>3. CASE ~RequestSaved
  <2>1. stored' = stored
    BY <1>3 DEF RequestSaved, RequestLedgered, RequestPublished, RequestFails, DeadlinePasses
  <2>2. stored' = NoRequest => asked' = "save"
    BY <1>3 DEF RequestSaved, RequestLedgered, RequestPublished, RequestFails,
                DeadlinePasses, SerialInv
  <2>3. ledger \subseteq ledger' /\ \A e \in ledger' \ ledger : e.action = "requested"
    BY <1>3 DEF RequestSaved, RequestLedgered, RequestPublished, RequestFails,
                DeadlinePasses, outside, Enters
  <2> QED  BY <1>1, <1>2, <2>1, <2>2, <2>3, Carried DEF Stays
<1>4. CASE RequestSaved
  <2>1. /\ stored = NoRequest /\ saved = {} /\ stored' = NewRequest /\ ledger' = ledger
    BY <1>4 DEF RequestSaved, GateInv, outside
  <2>2. /\ NewRequest # NoRequest /\ NewRequest.status = "pending"
    BY NewType, GateAssumption DEF NewRequest
  <2>3. \A c \in Caller : at[c] \notin {"participant", "clock", "save", "ledger_vote", "publish",
                                     "ledger_resolved", "notify"}
    BY <2>1 DEF GateInv, CallInv
  <2>4. \A c \in Caller : HolderInv(c)'
    BY <1>1, <2>3 DEF HolderInv
  <2>5. VotesInv'
    <3>1. \A e \in ledger : e.action # "voted"
      BY <2>1 DEF GateInv, AnnouncedWasStored
    <3> QED  BY <1>1, <2>1, <2>3, <3>1 DEF VotesInv, LedgerVotesKept
  <2>6. ResolvesInv'
    <3>1. told' = {} /\ Unresolved'
      BY <1>1, <2>1 DEF SerialInv, ResolvesInv, Unresolved
    <3> QED  BY <1>1, <2>1, <2>3, <3>1 DEF ResolvesInv, ToldOnce, Unresolved, Resolving
  <2> QED  BY <1>2, <2>1, <2>2, <2>4, <2>5, <2>6 DEF SerialInv
<1> QED  BY <1>3, <1>4

LEMMA NextSerial ==
  ASSUME GateInv, SerialInv, Overlap <= 1, [Next]_vars
  PROVE  SerialInv'
<1>1. CASE RequestSaved \/ RequestLedgered \/ RequestPublished \/ RequestFails
           \/ DeadlinePasses
  BY <1>1, RequestSerial
<1>2. ASSUME NEW c \in Voter, VoteReads(c) PROVE SerialInv'
  BY <1>2, ReadsSerial DEF VoteReads, Caller
<1>3. ASSUME NEW c \in Sweeper, RefreshReads(c) PROVE SerialInv'
  BY <1>3, ReadsSerial DEF RefreshReads, Caller
<1>4. ASSUME NEW c \in Caller, Continues(c) PROVE SerialInv'
  <2>1. ASSUME NEW p \in Person, NEW decision \in Decisions, VoteDecides(c, p, decision)
        PROVE  SerialInv'
    BY <2>1, VoteDecidesSerial
  <2>2. CASE RefreshDecides(c)
    BY <2>2, RefreshDecidesSerial
  <2>3. CASE Saves(c)
    BY <2>3, SavesSerial
  <2>4. CASE VoteLedgered(c)
    BY <2>4, VoteLedgeredSerial
  <2>5. CASE Publishes(c)
    BY <2>5, PublishesSerial
  <2>6. CASE ResolutionLedgered(c)
    BY <2>6, ResolutionLedgeredSerial
  <2>7. CASE Notifies(c)
    BY <2>7, NotifiesSerial
  <2> QED  BY <1>4, <2>1, <2>2, <2>3, <2>4, <2>5, <2>6, <2>7 DEF Continues
<1>5. ASSUME NEW c \in Caller, Fails(c) PROVE SerialInv'
  BY <1>5, FailsSerial
<1>6. CASE UNCHANGED vars
  <2>1. \A c, d \in Holding' : c = d
    BY <1>6 DEF SerialInv, Holding, vars, calls
  <2> QED  BY <1>6, <2>1, Carried DEF SerialInv, Stays, vars, calls, outside
<1> QED  BY <1>1, <1>2, <1>3, <1>4, <1>5, <1>6 DEF Next

(***************************************************************************)
(* The decision: what the ballots of a record come to.                     *)
(***************************************************************************)
\* A ballot of the decision is a vote without its date.
Ballot(v) == [by |-> v.by, decision |-> v.decision]

LEMMA SameCardinality == ASSUME NEW S PROVE Decision!Cardinality(S) = Cardinality(S)
BY DEF Decision!Cardinality, Cardinality

LEMMA BallotsOf ==
  ASSUME NEW r \in Request, \A i, j \in DOMAIN r.votes : r.votes[i].by = r.votes[j].by => i = j
  PROVE  /\ Decision!Yes(Ballots(r)) = Count(r.votes, "approve")
         /\ Decision!Nos(Ballots(r)) # {} <=> Count(r.votes, "deny") > 0
<1> DEFINE S == {i \in DOMAIN r.votes : r.votes[i].decision = "approve"}
           T == {v \in Ballots(r) : v.decision = "approve"}
           f == [i \in S |-> Ballot(r.votes[i])]
<1>1. r.votes \in Seq(Vote) /\ Ballots(r) = {Ballot(r.votes[i]) : i \in DOMAIN r.votes}
  BY DEF Request, Ballots, Ballot
<1>2. \A v : Ballot(v).by = v.by /\ Ballot(v).decision = v.decision
  BY DEF Ballot
<1>3. IsFiniteSet(S)
  <2>1. DOMAIN r.votes = 1 .. Len(r.votes) /\ Len(r.votes) \in Nat
    BY <1>1
  <2>2. IsFiniteSet(1 .. Len(r.votes))
    BY <2>1, FS_Interval
  <2> QED  BY <2>1, <2>2, FS_Subset
<1>4. f \in Bijection(S, T)
  <2>1. f \in [S -> T]
    BY <1>1, <1>2
  <2>2. \A i, j \in S : f[i] = f[j] => i = j
    BY <1>2
  <2>3. \A v \in T : \E i \in S : f[i] = v
    BY <1>1, <1>2
  <2> HIDE DEF f, S, T
  <2> QED  BY <2>1, <2>2, <2>3 DEF Bijection, Injection, IsInjective, Surjection
<1>5. ExistsBijection(S, T)
  BY <1>4 DEF ExistsBijection
<1>6. Cardinality(S) = Cardinality(T)
  BY <1>3, <1>5, FS_Bijection
<1>7. Decision!Nos(Ballots(r)) # {} <=> \E i \in DOMAIN r.votes : r.votes[i].decision = "deny"
  BY <1>1, <1>2 DEF Decision!Nos
<1>8. Naysayers(r.votes) # {} <=> \E i \in DOMAIN r.votes : r.votes[i].decision = "deny"
  BY DEF Naysayers
<1>9. Decision!Yes(Ballots(r)) = Cardinality(T) /\ Count(r.votes, "approve") = Cardinality(S)
  BY SameCardinality DEF Decision!Yes, Count
<1> QED  BY <1>1, <1>6, <1>7, <1>8, <1>9, CountDenials

\* What MayReplace makes of the status is what the ballots come to, or silence.
LEMMA OutcomeOf ==
  ASSUME NEW r \in Request, NEW s \in Request, MayReplace(r, s),
         r.policy = NewRequest.policy,
         \A i, j \in DOMAIN s.votes : s.votes[i].by = s.votes[j].by => i = j
  PROVE  \/ s.status = Decision!Outcome(Ballots(s))
         \/ /\ Decision!Outcome(Ballots(s)) = "pending"
            /\ s.status = Silence(NewRequest.policy)
<1>1. PICK l \in BOOLEAN : s.status = Evaluate(r.policy, [r EXCEPT !.votes = s.votes], l)
  BY DEF MayReplace
<1>2. LET e == [r EXCEPT !.votes = s.votes]
      IN  e.status = "pending" /\ e.votes = s.votes
  BY DEF Request, MayReplace
<1>3. s.status = IF Denied(r.policy, s.votes) THEN "denied"
                 ELSE IF Approved(r.policy, s.votes) THEN "approved"
                 ELSE IF l THEN Silence(r.policy) ELSE "pending"
  BY <1>1, <1>2 DEF Evaluate
<1>4. /\ Denied(r.policy, s.votes) <=> r.policy.denyIsFinal /\ Decision!Nos(Ballots(s)) # {}
      /\ Approved(r.policy, s.votes) <=> Decision!Yes(Ballots(s)) >= r.policy.quorum
  BY BallotsOf DEF Denied, Approved
<1>5. Decision!Outcome(Ballots(s)) = IF Denied(r.policy, s.votes) THEN "denied"
                                     ELSE IF Approved(r.policy, s.votes) THEN "approved"
                                     ELSE "pending"
  BY <1>4 DEF Decision!Outcome
<1> QED  BY <1>3, <1>5

(***************************************************************************)
(* The refinement, action by action: only request and a save touch the     *)
(* record.                                                                 *)
(***************************************************************************)
LEMMA InitDecides == Init => Decision!Init
BY DEF Init, Decision!Init

LEMMA AskDecides == ASSUME GateInv, RequestSaved PROVE Decision!Ask
<1>1. stored = NoRequest /\ stored' = NewRequest /\ NewRequest # NoRequest
  BY NewType, GateAssumption DEF RequestSaved, GateInv
<1>2. Ballots(NewRequest) = {} /\ NewRequest.status = "pending"
  BY DEF NewRequest, Ballots
<1> QED  BY <1>1, <1>2 DEF Decision!Ask

LEMMA BallotAdded ==
  ASSUME NEW r \in Request, NEW s \in Request, NEW b \in Vote,
         s.votes = Append(r.votes, b)
  PROVE  Ballots(s) = Ballots(r) \cup {Ballot(b)}
<1>1. r.votes \in Seq(Vote)
  BY DEF Request
<1>2. /\ DOMAIN s.votes = DOMAIN r.votes \cup {Len(s.votes)}
      /\ \A i \in DOMAIN r.votes : s.votes[i] = r.votes[i]
      /\ s.votes[Len(s.votes)] = b
  BY <1>1, OneVoteMore
<1>3. /\ Ballots(s) = {Ballot(s.votes[i]) : i \in DOMAIN s.votes}
      /\ Ballots(r) = {Ballot(r.votes[i]) : i \in DOMAIN r.votes}
  BY DEF Ballots, Ballot
<1> QED  BY <1>2, <1>3

LEMMA SaveDecides ==
  ASSUME GateInv, SerialInv, NEW c \in Caller, Saves(c)
  PROVE  [Decision!Next]_(Decision!decisionVars)
<1> DEFINE r == stored
           s == copy[c]
           Settled == \/ s.status = Decision!Outcome(Ballots(s))
                      \/ /\ Decision!Outcome(Ballots(s)) = "pending"
                         /\ s.status = Silence(NewRequest.policy)
<1>1. /\ at[c] = "save" /\ stored' = s /\ s \in Request /\ r \in Request
      /\ MayReplace(r, s) /\ r.status = "pending" /\ Justified(s, late)
      /\ r.policy = NewRequest.policy /\ s.policy = NewRequest.policy
      /\ r # NoRequest /\ s # NoRequest
  <2>1. at[c] = "save" /\ stored' = s /\ MayReplace(r, s)
    BY DEF Saves, SerialInv, HolderInv
  <2>2. r # NoRequest /\ r.status = "pending" /\ r \in saved /\ r \in Request
    BY <2>1 DEF MayReplace, GateInv, GateTypeOK
  <2>3. s \in Request /\ Justified(s, late) /\ s.policy = NewRequest.policy
    BY <2>1, NewType DEF GateInv, CallInv
  <2>4. r.policy = NewRequest.policy
    BY <2>2, NewType DEF GateInv, DecisionJustified
  <2> QED  BY <2>1, <2>2, <2>3, <2>4, GateAssumption
<1>2. Settled
  BY <1>1, OutcomeOf DEF Justified
<1>3. CASE s.votes = r.votes
  <2>1. Ballots(s) = Ballots(r)
    BY <1>3 DEF Ballots
  <2>2. Decision!Lapse
    <3> HIDE DEF r, s
    <3> QED  BY <1>1, <1>2, <2>1 DEF Decision!Lapse, Decision!Settles, r
  <2> QED  BY <2>2 DEF Decision!Next
<1>4. CASE Votes(r, s)
  <2>1. PICK b \in Vote : ~Voted(r.votes, b.by) /\ s.votes = Append(r.votes, b)
    BY <1>4 DEF Votes
  <2>2. Ballots(s) = Ballots(r) \cup {Ballot(b)}
    BY <1>1, <2>1, BallotAdded
  <2>3. \A v \in Ballots(r) : v.by # b.by
    BY <2>1 DEF Ballots, Voted
  <2>4. b.by \in Person /\ b.decision \in {"approve", "deny"}
    BY DEF Vote, Decisions
  <2>5. Eligible(NewRequest.policy, Requester, b.by)
    <3>1. r.votes \in Seq(Vote)
      BY <1>1 DEF Request
    <3>2. s.votes[Len(s.votes)] = b /\ Len(s.votes) \in DOMAIN s.votes
      BY <2>1, <3>1, OneVoteMore
    <3> QED  BY <1>1, <3>2 DEF Justified
  <2>6. Decision!Cast(b.by, b.decision)
    <3> HIDE DEF r, s
    <3> QED  BY <1>1, <1>2, <2>2, <2>3 DEF Decision!Cast, Decision!Settles, Ballot, r
  <2>7. b.by \in {p \in Person : Eligible(NewRequest.policy, Requester, p)}
    BY <2>4, <2>5
  <2> QED  BY <2>4, <2>6, <2>7 DEF Decision!Next
<1> QED  BY <1>1, <1>3, <1>4 DEF MayReplace

LEMMA NextDecides ==
  ASSUME GateInv, SerialInv, [Next]_vars
  PROVE  [Decision!Next]_(Decision!decisionVars)
<1>1. CASE RequestSaved
  BY <1>1, AskDecides DEF Decision!Next
<1>2. ASSUME NEW c \in Caller, Saves(c) PROVE [Decision!Next]_(Decision!decisionVars)
  BY <1>2, SaveDecides
<1>3. CASE stored' = stored
  BY <1>3 DEF Decision!decisionVars
<1>4. \/ RequestSaved \/ \E c \in Caller : Saves(c)
      \/ stored' = stored
  BY DEF Next, vars, RequestLedgered, RequestPublished, RequestFails, DeadlinePasses,
         VoteReads, RefreshReads, Reads, Continues, VoteDecides, RefreshDecides,
         VoteLedgered, Publishes, ResolutionLedgered, Notifies, Fails, Caller
<1> QED  BY <1>1, <1>2, <1>3, <1>4

(***************************************************************************)
(* The theorems.                                                           *)
(***************************************************************************)
\* Where calls of vote and refresh do not overlap: the invariant.
THEOREM SerialInvHolds == ASSUME Overlap <= 1 PROVE Spec => []SerialInv
<1>1. GateInv /\ SerialInv /\ [Next]_vars => SerialInv'
  BY NextSerial
<1> QED  BY <1>1, InitSerial, GateInvHolds, PTL DEF Spec

\* Where they do not overlap, the ledger names each voter once, and nobody whose
\* vote is not in the record, whichever calls die between saving and entering.
THEOREM VotesAreKept == ASSUME Overlap <= 1 PROVE Spec => []LedgerVotesKept
<1>1. SerialInv => LedgerVotesKept
  BY DEF SerialInv, VotesInv
<1> QED  BY <1>1, SerialInvHolds, PTL

\* Where they do not overlap, the handlers of a process and the ledger hear of
\* one decision, once, and it is the one that is in the store.
THEOREM DecisionIsToldOnce == ASSUME Overlap <= 1 PROVE Spec => []ToldOnce
<1>1. SerialInv => ToldOnce
  BY DEF SerialInv, ResolvesInv
<1> QED  BY <1>1, SerialInvHolds, PTL

\* Where they do not overlap, ApprovalGate implements ApprovalDecision: those
\* entitled to vote do so once, the request is decided once, by its ballots or
\* by silence, and neither the decision nor a ballot is ever taken back.
THEOREM GateDecides == ASSUME Overlap <= 1 PROVE Spec => Decides
<1>1. GateInv /\ SerialInv /\ [Next]_vars => [Decision!Next]_(Decision!decisionVars)
  BY NextDecides
<1> QED  BY <1>1, InitDecides, SerialInvHolds, GateInvHolds, PTL
         DEF Spec, Decides, Decision!Spec
=============================================================================
