-------------------------- MODULE ApprovalResumer --------------------------
(***************************************************************************)
(* src/workflows/index.ts: approvalStep, which suspends a workflow run on  *)
(* a request, and ApprovalResumer, which wakes the run when the request is *)
(* decided.  Composed of ApprovalGate (the request) and TurnLease (the     *)
(* lease approval:<id> that keeps resumers apart).  The workflow engine is *)
(* external: it persists a suspension after execute has returned, and      *)
(* refuses to resume a run that is not suspended.                          *)
(***************************************************************************)
EXTENDS ApprovalGate, TurnLease

\* Calls of resume(), by onResolved or by reconcile: of each instance, one at
\* a time of a kind.
Job == Node \X {"heard", "swept"}

VARIABLES
  run,        \* the workflow run, as the engine has it
  resumedAt,  \* the stored request carries that field ...
  carried,    \* ... and so does a call's copy of it
  up,         \* the instances whose resumer listens
  job,        \* where each resume() is
  held        \* the record it is about to save with resumedAt

resumers == <<up, job, held>>
gate == <<asked, late, calls, outside>>       \* the rest: stored, saved, faults
all == <<vars, run, resumedAt, carried, resumers, leaseVars>>

ResumerTypeOK ==
  /\ GateTypeOK /\ LeaseTypeOK
  /\ run \in {"running", "suspended", "resumed", "done", "bailed", "failed"}
  /\ resumedAt \in BOOLEAN /\ carried \in [Caller -> BOOLEAN]
  /\ up \subseteq Node
  /\ job \in [Job -> {"idle", "acquire", "look", "wake", "awaiting", "read", "save", "release"}]
  /\ held \in [Job -> Record]

ResumerInit ==
  /\ Init /\ LeaseInit
  /\ run = "running"
  /\ resumedAt = FALSE /\ carried = [c \in Caller |-> FALSE]
  /\ up = Node /\ job = [j \in Job |-> "idle"] /\ held = [j \in Job |-> NoRequest]

Faulty == faults < MaxFaults /\ faults' = faults + 1
JobGoes(j, place) == job' = [job EXCEPT ![j] = place]

-----------------------------------------------------------------------------
(* approvalStep.execute without resumeData, and the calls of the gate.     *)

StepAsks ==
  /\ RequestSaved \/ RequestLedgered \/ RequestPublished
  /\ UNCHANGED <<run, resumedAt, carried, resumers, leaseVars>>

StepFails ==
  /\ RequestFails
  /\ run' = "failed"
  /\ UNCHANGED <<resumedAt, carried, resumers, leaseVars>>

\* suspend(): persisted by the engine when execute has returned.
StepSuspends ==
  /\ asked = "done" /\ run = "running"
  /\ run' = "suspended"
  /\ UNCHANGED <<vars, resumedAt, carried, resumers, leaseVars>>

CallReads(c) ==
  /\ IF c \in Voter THEN VoteReads(c) ELSE RefreshReads(c)
  /\ carried' = [carried EXCEPT ![c] = resumedAt]
  /\ UNCHANGED <<run, resumedAt, resumers, leaseVars>>

\* The whole record is replaced, resumedAt with it.
CallSaves(c) ==
  /\ Saves(c)
  /\ resumedAt' = carried[c]
  /\ UNCHANGED <<run, carried, resumers, leaseVars>>

\* The call runs in the process of some instance i; its resumer may listen.
CallNotifies(c) ==
  /\ Notifies(c)
  /\ \E i \in Node :
       IF i \in up THEN job[i, "heard"] = "idle" /\ JobGoes(<<i, "heard">>, "acquire")
                   ELSE UNCHANGED job
  /\ UNCHANGED <<run, resumedAt, carried, up, held, leaseVars>>

CallGoesOn(c) ==
  /\ \/ \E p \in Person, decision \in Decisions : VoteDecides(c, p, decision)
     \/ RefreshDecides(c) \/ VoteLedgered(c) \/ Publishes(c) \/ ResolutionLedgered(c)
  /\ UNCHANGED <<run, resumedAt, carried, resumers, leaseVars>>

Elsewhere ==
  /\ DeadlinePasses \/ \E c \in Caller : Fails(c)
  /\ UNCHANGED <<run, resumedAt, carried, resumers, leaseVars>>

-----------------------------------------------------------------------------
(* ApprovalResumer.                                                        *)

Begins(i) ==
  /\ i \in up /\ job[i, "swept"] = "idle"
  /\ JobGoes(<<i, "swept">>, "acquire")
  /\ UNCHANGED <<vars, run, resumedAt, carried, up, held, leaseVars>>

\* Mutant: what is pending is not skipped.
ReconcileAll(i) == Begins(i) /\ stored # NoRequest /\ ~resumedAt

\* reconcileSession
Reconcile(i) == Begins(i) /\ stored # NoRequest /\ ~IsPending /\ ~resumedAt

\* resume: the lease is granted, refused, or throws.
TakesLease(j) ==
  /\ job[j] = "acquire"
  /\ \/ \E granted \in BOOLEAN : /\ Acquire(j[1], granted)
                                 /\ JobGoes(j, IF granted THEN "look" ELSE "idle")
                                 /\ UNCHANGED faults
     \/ Faulty /\ JobGoes(j, "idle") /\ UNCHANGED leaseVars
  /\ UNCHANGED <<gate, stored, saved, run, resumedAt, carried, up, held>>

\* isResumable
Resumable == run = "suspended"

\* resumeUnderLease up to isResumable.  When the workflow is not registered or
\* its run cannot be read, nothing is marked.
Looks(j) ==
  /\ job[j] = "look"
  /\ \/ Faulty /\ JobGoes(j, "release")
     \/ JobGoes(j, IF Resumable THEN "wake" ELSE "read") /\ UNCHANGED faults
  /\ UNCHANGED <<gate, stored, saved, run, resumedAt, carried, up, held, leaseVars>>

\* run.resume(): the engine takes the run, or the call throws.
Wakes(j, thrown) ==
  /\ job[j] = "wake"
  /\ \/ /\ run = "suspended" /\ run' = "resumed"
        /\ JobGoes(j, "awaiting") /\ UNCHANGED faults
     \/ /\ IF run = "suspended" THEN Faulty ELSE UNCHANGED faults
        /\ JobGoes(j, thrown) /\ UNCHANGED run
  /\ UNCHANGED <<gate, stored, saved, resumedAt, carried, up, held, leaseVars>>

\* Mutant: a call that threw is marked like one that did not.
WakesAndMarks(j) == Wakes(j, "read")
WakesRun(j) == Wakes(j, "release")

\* Mutant: the step believes whoever woke it.
StepGoesOnTrusting(same) ==
  /\ run = "resumed"
  /\ run' = IF same THEN "done" ELSE "failed"
  /\ UNCHANGED <<vars, resumedAt, carried, resumers, leaseVars>>

\* execute with resumeData: the request is read again, and its tool and
\* arguments compared (same) with those about to be used.
StepGoesOn(same) ==
  /\ run = "resumed"
  /\ run' = IF ~same THEN "failed" ELSE IF stored.status = "approved" THEN "done" ELSE "bailed"
  /\ UNCHANGED <<vars, resumedAt, carried, resumers, leaseVars>>

\* run.resume() returns when the workflow has ended.
RunReturns(j) ==
  /\ job[j] = "awaiting" /\ run # "resumed"
  /\ JobGoes(j, "read")
  /\ UNCHANGED <<vars, run, resumedAt, carried, up, held, leaseVars>>

\* markResumed: read, then save; a failure is swallowed.
MarkReads(j) ==
  /\ job[j] = "read"
  /\ held' = [held EXCEPT ![j] = stored]
  /\ JobGoes(j, "save")
  /\ UNCHANGED <<vars, run, resumedAt, carried, up, leaseVars>>

MarkSaves(j) ==
  /\ job[j] = "save"
  /\ \/ stored' = held[j] /\ resumedAt' = TRUE /\ UNCHANGED faults
     \/ Faulty /\ UNCHANGED <<stored, resumedAt>>
  /\ held' = [held EXCEPT ![j] = NoRequest]
  /\ JobGoes(j, "release")
  /\ UNCHANGED <<gate, saved, run, carried, up, leaseVars>>

Releases(j) ==
  /\ job[j] = "release"
  /\ Release(j[1])
  /\ JobGoes(j, "idle")
  /\ UNCHANGED <<vars, run, resumedAt, carried, up, held>>

\* The lease is not renewed: a run may outlast it.
LeaseExpires ==
  /\ Expire
  /\ UNCHANGED <<vars, run, resumedAt, carried, resumers>>

\* The process of i dies, and the run it was carrying on with it.
Crashes(i) ==
  /\ i \in up /\ Faulty
  /\ up' = up \ {i}
  /\ Orphan(i)
  /\ run' = IF \E j \in Job : j[1] = i /\ job[j] = "awaiting" /\ run = "resumed"
              THEN "failed" ELSE run
  /\ job' = [j \in Job |-> IF j[1] = i THEN "idle" ELSE job[j]]
  /\ held' = [j \in Job |-> IF j[1] = i THEN NoRequest ELSE held[j]]
  /\ UNCHANGED <<gate, stored, saved, resumedAt, carried>>

\* stop(): what is in flight goes on.
Stops(i) ==
  /\ i \in up
  /\ up' = up \ {i}
  /\ UNCHANGED <<vars, run, resumedAt, carried, job, held, leaseVars>>

\* start(), which reconciles, as a timer does later.
Starts(i) ==
  /\ i \notin up
  /\ up' = up \cup {i}
  /\ UNCHANGED <<vars, run, resumedAt, carried, job, held, leaseVars>>

CallContinues(c) == CallSaves(c) \/ CallNotifies(c) \/ CallGoesOn(c)
JobContinues(j) ==
  \/ TakesLease(j) \/ Looks(j) \/ WakesRun(j) \/ RunReturns(j)
  \/ MarkReads(j) \/ MarkSaves(j) \/ Releases(j)

ResumerNext ==
  \/ StepAsks \/ StepFails \/ StepSuspends \/ \E same \in BOOLEAN : StepGoesOn(same)
  \/ \E c \in Caller : CallReads(c) \/ CallContinues(c)
  \/ Elsewhere
  \/ \E j \in Job : JobContinues(j)
  \/ \E i \in Node : Reconcile(i) \/ Crashes(i) \/ Stops(i) \/ Starts(i)
  \/ LeaseExpires

ResumerSpec == ResumerInit /\ [][ResumerNext]_all

\* Calls that were made go on, keys expire, resumers are started again, and
\* expiries and decided requests are swept again and again.
FairResumerSpec ==
  /\ ResumerSpec
  /\ \A c \in Caller : WF_all(CallContinues(c))
  /\ \A c \in Sweeper : SF_all(CallReads(c))
  /\ \A j \in Job : WF_all(JobContinues(j))
  /\ \A i \in Node : SF_all(Reconcile(i)) /\ WF_all(Starts(i))
  /\ WF_all(LeaseExpires) /\ WF_all(Elsewhere /\ faults' = faults)
  /\ WF_all(StepGoesOn(TRUE))

-----------------------------------------------------------------------------
(* Properties, with calls of the gate that do not overlap.                 *)

\* A gated step goes on only on an approval, and bails only on a refusal or on
\* silence, that the record justifies: not on what some caller was told.
StepObeysDecision ==
  /\ run = "done" => stored.status = "approved" /\ Justified(stored, late)
  /\ run = "bailed" => stored.status \in {"denied", "expired"}

\* A resume() is under way only for a request that was decided, and what it is
\* about to save with resumedAt is that decision; while it waits for the run,
\* nobody finds the run suspended.
ResumerInv ==
  /\ ResumerTypeOK
  /\ \A j \in Job :
       /\ job[j] # "idle" => stored # NoRequest /\ ~IsPending
       /\ job[j] = "save" => held[j] = stored
       /\ job[j] = "awaiting" => run \notin {"running", "suspended"}

\* A run that suspended before its request was decided is woken, or fails,
\* once it is, whatever calls, resumers and processes die on the way, and
\* however two of them race.
DecidedIsWoken == run = "suspended" /\ IsPending ~> run # "suspended"

\* Claimed, and not kept.  Of reconcile, index.ts: "an approval whose run has
\* been dealt with is never looked at again"; a request decided before the run
\* has suspended is marked, and the run suspends for good.
MarkedIsDealtWith == resumedAt => run # "suspended"
=============================================================================
