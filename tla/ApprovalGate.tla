---------------------------- MODULE ApprovalGate ----------------------------
(***************************************************************************)
(* ApprovalGate of src/approvals/index.ts, on a shared store: the life of  *)
(* ONE request.  Calls of vote and refresh, from any process, read the     *)
(* record, work on their copy, and replace the whole record; nothing but   *)
(* the record's status keeps two of them apart.  A step is the code        *)
(* between two awaits, or one command of the store or the bus.             *)
(***************************************************************************)
EXTENDS ApprovalPolicy, Sequences

CONSTANTS Policy,      \* what the caller of request passes
          Requester,   \* requestedBy
          Voter,       \* calls of vote; each is made at most once
          Sweeper,     \* those that call refresh, again and again
          NoRequest,   \* the store has no such record
          Overlap,     \* calls at once between reading and saving the record
          MaxFaults    \* calls that die on the way: a bound of the model

Caller == Voter \cup Sweeper

\* The record.  resolvedAt is "never", "deadline" (expiresAt) or "now".
Request == [policy : ResolvedPolicy, votes : Seq(Vote), status : Statuses,
            resolvedAt : {"never", "deadline", "now"}]

ASSUME GateAssumption ==
         /\ IsPolicy(Policy)
         /\ Requester \in Person
         /\ Voter \cap Sweeper = {}
         /\ Overlap \in Nat /\ MaxFaults \in Nat
         /\ NoRequest \notin Request

\* Where a call is: before its next command, in the order of the code.
Places == {"idle", "participant", "clock", "save", "ledger_vote", "publish",
           "ledger_resolved", "notify", "done"}

\* A row of the ledger: the call that wrote it ("request" for the first), what
\* for, on whose behalf, and the status it gives.  Its id is random.
Entry == [call : Caller \cup {NoRequest}, action : {"requested", "voted", "resolved"},
          by : Person \cup {NoRequest}, status : Statuses]

VARIABLES
  stored,    \* the record in the store
  asked,     \* how far the call of request is
  late,      \* the deadline has passed
  at,        \* where each call is
  copy,      \* each call's copy of the record
  ledger,    \* the audit entries of the request
  room,      \* the copies published on the bus
  told,      \* the calls whose copy the local handlers were given, with it
  faults,
  saved      \* history: every record that was ever stored

calls == <<at, copy>>
outside == <<ledger, room, told>>
vars == <<stored, asked, late, calls, outside, faults, saved>>

NewRequest == [policy |-> MergePolicy(Policy), votes |-> <<>>,
               status |-> "pending", resolvedAt |-> "never"]

Record == Request \cup {NoRequest}
GateTypeOK ==
  /\ stored \in Record
  /\ asked \in Places
  /\ late \in BOOLEAN
  /\ at \in [Caller -> Places]
  /\ copy \in [Caller -> Record]
  /\ ledger \subseteq Entry
  /\ room \subseteq Request
  /\ told \subseteq [call : Caller, request : Request]
  /\ faults \in Nat
  /\ saved \subseteq Request

Init ==
  /\ stored = NoRequest
  /\ asked = "save"
  /\ late = FALSE
  /\ at = [c \in Caller |-> "idle"]
  /\ copy = [c \in Caller |-> NoRequest]
  /\ ledger = {}
  /\ room = {}
  /\ told = {}
  /\ faults = 0
  /\ saved = {}

Goes(c, place) == at' = [at EXCEPT ![c] = place]
Holds(c, r) == copy' = [copy EXCEPT ![c] = r]
Ends(c) == Goes(c, IF c \in Voter THEN "done" ELSE "idle") /\ Holds(c, NoRequest)
Enters(call, action, by, status) ==
  ledger' = ledger \cup
    {[call |-> call, action |-> action, by |-> by, status |-> status]}

-----------------------------------------------------------------------------
(* request: save, ledger, bus.                                             *)

RequestSaved ==
  /\ asked = "save"
  /\ asked' = "ledger_vote"
  /\ stored' = NewRequest
  /\ saved' = {NewRequest}
  /\ UNCHANGED <<late, calls, outside, faults>>

RequestLedgered ==
  /\ asked = "ledger_vote"
  /\ asked' = "publish"
  /\ Enters(NoRequest, "requested", Requester, "pending")
  /\ UNCHANGED <<stored, late, calls, room, told, faults, saved>>

RequestPublished ==
  /\ asked = "publish"
  /\ asked' = "done"
  /\ room' = room \cup {NewRequest}
  /\ UNCHANGED <<stored, late, calls, ledger, told, faults, saved>>

\* Date.now() reaches expiresAt.
DeadlinePasses ==
  /\ stored # NoRequest /\ ~late
  /\ late' = TRUE
  /\ UNCHANGED <<stored, asked, calls, outside, faults, saved>>

-----------------------------------------------------------------------------
(* vote and refresh.                                                       *)

Holding == {c \in Caller : at[c] \in {"participant", "clock", "save"}}

IsPending == stored # NoRequest /\ stored.status = "pending"

\* Mutant: whatever the status, the call goes on.
ReadsAnyway(c, next) ==
  /\ at[c] = "idle"
  /\ Cardinality(Holding) < Overlap
  /\ \/ stored = NoRequest /\ Ends(c)
     \/ stored # NoRequest /\ Goes(c, next) /\ Holds(c, stored)
  /\ UNCHANGED <<stored, asked, late, outside, faults, saved>>

\* getApproval: nothing to do unless the request is pending.
Reads(c, next) ==
  /\ at[c] = "idle"
  /\ Cardinality(Holding) < Overlap
  /\ \/ ~IsPending /\ Ends(c)
     \/ IsPending /\ Goes(c, next) /\ Holds(c, stored)
  /\ UNCHANGED <<stored, asked, late, outside, faults, saved>>

VoteReads(c) == Reads(c, "participant")
RefreshReads(c) == Reads(c, "clock")

\* The participant is known: the vote is refused, or counted on the copy.
\* Whose vote it is, and which, is chosen only here: nothing looks before.
VoteDecides(c, p, decision) ==
  /\ at[c] = "participant"
  /\ LET r == copy[c]
         ballot == [by |-> p, decision |-> decision, late |-> late]
         counted == [r EXCEPT !.votes = Append(r.votes, ballot)]
         status == Evaluate(r.policy, counted, late)
         resolvedAt == CASE status = "pending" -> "never"
                         [] status = "expired" -> "deadline"
                         [] OTHER -> "now"
     IN  \/ ~CanVote(r.policy, Requester, r, p) /\ Ends(c)
         \/ /\ CanVote(r.policy, Requester, r, p)
            /\ Goes(c, "save")
            /\ Holds(c, [counted EXCEPT !.status = status, !.resolvedAt = resolvedAt])
  /\ UNCHANGED <<stored, asked, late, outside, faults, saved>>

\* Re-evaluated against the clock: nothing, or resolved at the deadline.
RefreshDecides(c) ==
  /\ at[c] = "clock"
  /\ LET r == copy[c]
         status == Evaluate(r.policy, r, late)
     IN  \/ status = "pending" /\ Ends(c)
         \/ /\ status # "pending"
            /\ Goes(c, "save")
            /\ Holds(c, [r EXCEPT !.status = status, !.resolvedAt = "deadline"])
  /\ UNCHANGED <<stored, asked, late, outside, faults, saved>>

AfterSave(c) == IF c \in Voter THEN "ledger_vote" ELSE "publish"

\* Mutant: the vote is announced, and entered in the ledger, but not saved.
SavesNothing(c) ==
  /\ at[c] = "save"
  /\ Goes(c, AfterSave(c))
  /\ UNCHANGED <<stored, asked, late, copy, outside, faults, saved>>

\* saveApproval replaces the whole record.
Saves(c) ==
  /\ at[c] = "save"
  /\ stored' = copy[c]
  /\ saved' = saved \cup {copy[c]}
  /\ Goes(c, AfterSave(c))
  /\ UNCHANGED <<asked, late, copy, outside, faults>>

\* The voter is the last one in the copy.
VoteLedgered(c) ==
  /\ at[c] = "ledger_vote"
  /\ Enters(c, "voted", copy[c].votes[Len(copy[c].votes)].by, copy[c].status)
  /\ Goes(c, "publish")
  /\ UNCHANGED <<stored, asked, late, copy, room, told, faults, saved>>

\* "approval.resolved" or "approval.updated", by the status of the copy.
Publishes(c) ==
  /\ at[c] = "publish"
  /\ room' = room \cup {copy[c]}
  /\ \/ copy[c].status = "pending" /\ Ends(c)
     \/ copy[c].status # "pending" /\ Goes(c, "ledger_resolved") /\ UNCHANGED copy
  /\ UNCHANGED <<stored, asked, late, ledger, told, faults, saved>>

ResolutionLedgered(c) ==
  /\ at[c] = "ledger_resolved"
  /\ Enters(c, "resolved", NoRequest, copy[c].status)
  /\ Goes(c, "notify")
  /\ UNCHANGED <<stored, asked, late, copy, room, told, faults, saved>>

\* notifyResolved: the handlers of this process.
Notifies(c) ==
  /\ at[c] = "notify"
  /\ told' = told \cup {[call |-> c, request |-> copy[c]]}
  /\ Ends(c)
  /\ UNCHANGED <<stored, asked, late, ledger, room, faults, saved>>

\* The process dies, or a command of the store or the bus throws.
Fails(c) ==
  /\ at[c] \notin {"idle", "done"}
  /\ faults < MaxFaults
  /\ faults' = faults + 1
  /\ Ends(c)
  /\ UNCHANGED <<stored, asked, late, outside, saved>>

RequestFails ==
  /\ asked \in {"ledger_vote", "publish"}
  /\ faults < MaxFaults
  /\ faults' = faults + 1
  /\ asked' = "done"
  /\ UNCHANGED <<stored, late, calls, outside, saved>>

Continues(c) ==
  \/ \E p \in Person, decision \in Decisions : VoteDecides(c, p, decision)
  \/ RefreshDecides(c) \/ Saves(c) \/ VoteLedgered(c)
  \/ Publishes(c) \/ ResolutionLedgered(c) \/ Notifies(c)

Next ==
  \/ RequestSaved \/ RequestLedgered \/ RequestPublished \/ RequestFails
  \/ DeadlinePasses
  \/ \E c \in Voter : VoteReads(c)
  \/ \E c \in Sweeper : RefreshReads(c)
  \/ \E c \in Caller : Continues(c) \/ Fails(c)

Spec == Init /\ [][Next]_vars

\* Calls that were made go on; sweeps are made again and again; time passes.
FairSpec ==
  /\ Spec
  /\ \A c \in Caller : WF_vars(Continues(c))
  /\ \A c \in Sweeper : SF_vars(RefreshReads(c))
  /\ WF_vars(RequestSaved) /\ WF_vars(DeadlinePasses)

-----------------------------------------------------------------------------
(* Properties.                                                             *)

Approvers(votes) == {votes[i].by : i \in {j \in DOMAIN votes : votes[j].decision = "approve"}}
Naysayers(votes) == {votes[i].by : i \in {j \in DOMAIN votes : votes[j].decision = "deny"}}

\* What the votes in a record say of its status: enough different people, all
\* allowed to vote, approved what is approved, nobody denied it, and what
\* expired had its deadline behind it (after); and nothing decided is left pending.
Justified(r, after) ==
  /\ \A i, j \in DOMAIN r.votes : r.votes[i].by = r.votes[j].by => i = j
  /\ \A i \in DOMAIN r.votes : Eligible(r.policy, Requester, r.votes[i].by)
  /\ r.status = "approved" =>
       /\ \/ Cardinality(Approvers(r.votes)) >= r.policy.quorum
          \/ after /\ r.policy.onExpiry = "approve"
       /\ r.policy.denyIsFinal => Naysayers(r.votes) = {}
  /\ r.status = "denied" => r.policy.denyIsFinal /\ Naysayers(r.votes) # {}
  /\ r.status = "expired" => after /\ r.policy.onExpiry # "approve"
  /\ r.status = "pending" =>
       /\ r.votes # <<>> => Cardinality(Approvers(r.votes)) < r.policy.quorum
       /\ r.policy.denyIsFinal => Naysayers(r.votes) = {}

\* However calls overlap, overwrite each other and die, every record that was
\* ever stored is justified by its own votes under the policy it was asked with.
DecisionJustified ==
  \A r \in saved : Justified(r, late) /\ r.policy = MergePolicy(Policy)

\* The room, the handlers and the ledger hear only of what was stored before;
\* and a handler is told of a decision only when the ledger has it.
AnnouncedWasStored ==
  /\ room \subseteq saved
  /\ \A e \in ledger : e.action = "voted" =>
       \E r \in saved : r.status = e.status /\ Voted(r.votes, e.by)
  /\ \A t \in told :
       /\ t.request \in saved
       /\ \E e \in ledger : e.call = t.call /\ e.action = "resolved"
                             /\ e.status = t.request.status

\* What keeps these two true: a call that is to save holds a record that is as
\* justified as a stored one, on top of one that was stored and pending; past
\* saving it holds what it stored.
CallInv(c) ==
  /\ at[c] \in {"participant", "clock"} =>
       copy[c] \in saved /\ copy[c].status = "pending"
  /\ at[c] = "clock" => c \notin Voter
  /\ at[c] = "save" =>
       /\ saved # {} /\ copy[c] \in Request /\ Justified(copy[c], late)
       /\ copy[c].policy = MergePolicy(Policy)
       /\ c \in Voter => copy[c].votes # <<>>
  /\ at[c] \in {"ledger_vote", "publish", "ledger_resolved", "notify"} =>
       copy[c] \in saved
  /\ at[c] = "ledger_vote" => copy[c].votes # <<>>
  /\ at[c] = "notify" => \E e \in ledger :
       e.call = c /\ e.action = "resolved" /\ e.status = copy[c].status

GateInv ==
  /\ GateTypeOK
  /\ stored # NoRequest => stored \in saved
  /\ DecisionJustified
  /\ AnnouncedWasStored
  /\ asked # "save" => NewRequest \in saved
  /\ asked = "save" => stored = NoRequest /\ saved = {}
  /\ \A c \in Caller : CallInv(c)

\* With calls that do not overlap: the ledger names no voter whose vote is not
\* in the record, and nobody twice.
LedgerVotesKept ==
  \A e \in ledger : e.action = "voted" =>
    /\ Voted(stored.votes, e.by)
    /\ \A f \in ledger : f.action = "voted" /\ f.by = e.by => f = e

\* With calls that do not overlap: the handlers hear of one decision, once,
\* and it is the one in the store; and so does the ledger.
ToldOnce ==
  /\ \A t, u \in told : t = u
  /\ \A t \in told : t.request = stored
  /\ \A e, f \in ledger : e.action = "resolved" /\ f.action = "resolved" => e = f

\* With calls that do not overlap, the gate implements ApprovalDecision.
Ballots(r) == {[by |-> r.votes[i].by, decision |-> r.votes[i].decision] : i \in DOMAIN r.votes}
Decision == INSTANCE ApprovalDecision WITH
              Electorate <- {p \in Person : Eligible(NewRequest.policy, Requester, p)},
              Quorum <- NewRequest.policy.quorum,
              DenyIsFinal <- NewRequest.policy.denyIsFinal,
              OnSilence <- Silence(NewRequest.policy),
              status <- IF stored = NoRequest THEN "none" ELSE stored.status,
              ballots <- IF stored = NoRequest THEN {} ELSE Ballots(stored)
Decides == Decision!Spec

\* The request does not stay undecided for ever, whoever votes or dies.
EventuallyDecided == <>[](stored # NoRequest /\ ~IsPending)

\* Claimed, and not kept where calls overlap.  docs/APPROVALS.md: "Deny is
\* final. One 'no' resolves the request."
DenyIsFinal ==
  [][stored # NoRequest /\ stored.status = "denied" /\ stored.policy.denyIsFinal
       => stored'.status = "denied"]_vars

\* Claimed, and not kept.  index.ts, in vote: "A vote that lands after expiry
\* resolves the request as of the expiry, not as of the late vote."
LateVotesExpire ==
  \A r \in saved : \A i \in DOMAIN r.votes :
    r.votes[i].late => r.resolvedAt # "now"

\* Kept as long as the quorum of fourEyes is not set to undefined.  policy.ts, of
\* fourEyes: "Two different people must sign off. The requester is not one
\* of them."
TwoSignOff ==
  \A r \in saved :
    r.status = "approved" => Cardinality(Approvers(r.votes) \ {Requester}) >= 2
-----------------------------------------------------------------------------
(* The inductive invariant behind LedgerVotesKept, ToldOnce and Decides, for *)
(* Overlap = 1; the proofs are in ApprovalGateProofs.                        *)

\* s is what vote, or refresh, makes of r: one vote more, or none.
Votes(r, s) == \E b \in Vote : ~Voted(r.votes, b.by) /\ s.votes = Append(r.votes, b)
MayReplace(r, s) ==
  /\ r # NoRequest /\ r.status = "pending"
  /\ Votes(r, s) \/ s.votes = r.votes
  /\ \E l \in BOOLEAN : s.status = Evaluate(r.policy, [r EXCEPT !.votes = s.votes], l)

\* Nobody else has the record in hand, so it is still what was read.
HolderInv(c) ==
  /\ at[c] \in {"participant", "clock"} => copy[c] = stored
  /\ at[c] = "save" => MayReplace(stored, copy[c]) /\ (c \in Voter => Votes(stored, copy[c]))
  /\ at[c] \in {"ledger_resolved", "notify"} => copy[c].status # "pending"

\* A vote that is saved and not yet in the ledger is entered by one call.
NewVoter(r) == r.votes[Len(r.votes)].by
VotesInv ==
  /\ LedgerVotesKept
  /\ \A c \in Caller : at[c] = "ledger_vote" =>
       /\ Voted(stored.votes, NewVoter(copy[c]))
       /\ \A e \in ledger : e.action = "voted" => e.by # NewVoter(copy[c])
       /\ \A d \in Caller : at[d] = "ledger_vote" /\ NewVoter(copy[d]) = NewVoter(copy[c]) => d = c

\* One call resolves the request, and it alone tells of it.
Resolving(c) == /\ at[c] \in {"ledger_vote", "publish", "ledger_resolved", "notify"}
                /\ copy[c].status # "pending"
Unresolved == \A e \in ledger : e.action # "resolved"
ResolvesInv ==
  /\ ToldOnce
  /\ stored = NoRequest \/ stored.status = "pending" => told = {} /\ Unresolved
  /\ \A c \in Caller : Resolving(c) =>
       /\ copy[c] = stored
       /\ told = {}
       /\ at[c] # "notify" => Unresolved
       /\ \A d \in Caller : Resolving(d) => d = c

SerialInv ==
  /\ stored = NoRequest => asked = "save"
  /\ \A c, d \in Holding : c = d
  /\ \A c \in Caller : HolderInv(c)
  /\ VotesInv
  /\ ResolvesInv
=============================================================================
