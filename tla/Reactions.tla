------------------------------ MODULE Reactions ------------------------------
(***************************************************************************)
(* Durable reactions of one session: the store (src/reactions/memory.ts),  *)
(* the burst policy (policy.ts), and workers that call runNext (bus.ts) to *)
(* run what is due (session-runner.ts).  A call of claimDue has two steps, *)
(* before and after it awaits the policy.  Times are relative: how old an  *)
(* event is, how long a lease or a wait still lasts.                       *)
(***************************************************************************)
EXTENDS FiniteSetsExt, Sequences, Integers

CONSTANTS
  Worker, NoWorker,
  Quiet, AddressedDelay, MaxWait, MaxBatch,   \* options of the policy
  RespondToAmbient,
  Lease, RetryDelay,
  Limit,                            \* budgetLimits, of both classes
  EventKinds,                       \* of the events that come in
  Overlap,                          \* how many claimDue may be under way at once
  MaxEvents, MaxChanges, MaxFaults  \* bounds of the model

Classes == {"solicited", "unsolicited"}
Times == {Quiet, AddressedDelay, MaxWait, Lease, RetryDelay}

ASSUME ReactionAssumption ==
  /\ NoWorker \notin Worker /\ EventKinds \subseteq {"plain", "addressed", "urgent", "emoji"}
  /\ Times \subseteq Nat /\ MaxBatch \in Nat \ {0} /\ Limit \in [Classes -> Nat]
  /\ RespondToAmbient \in BOOLEAN
  /\ Overlap \in Nat /\ MaxEvents \in Nat /\ MaxChanges \in Nat /\ MaxFaults \in Nat

VARIABLES
  events,    \* ingested, each once, in the order of their cursors
  consumed,  \* cursors
  state,     \* consent and roster revision, as one, and paused
  deferred,  \* how long until deferredUntil
  batches,   \* by id, which is the set of its cursors
  call,      \* where each worker's runNext is
  silenced,  \* history: what was suppressed
  faults

vars == <<events, consumed, state, deferred, batches, call, silenced, faults>>
inputs == <<events, state, silenced>>

Cursors == DOMAIN events
Horizon == Max(Times)
Idle == [at |-> "idle", batch |-> {}, decision |-> "none", left |-> 0, intents |-> 0,
         class |-> "solicited", age |-> 0]

ReactionTypeOK ==
  /\ events \in Seq([kind : EventKinds, age : 0..MaxWait])
  /\ consumed \subseteq Cursors
  /\ state \in [revision : 0..MaxChanges, paused : BOOLEAN]
  /\ deferred \in 0..Horizon
  /\ DOMAIN batches \subseteq SUBSET Cursors
  /\ \A b \in DOMAIN batches :
       batches[b] \in [status : {"ready", "active", "committed"},
                       holder : Worker \cup {NoWorker}, left : 0..Lease, retry : 0..RetryDelay,
                       intents : {0, 1}, class : Classes, revision : 0..MaxChanges,
                       replied : BOOLEAN]
  /\ call \in [Worker -> [at : {"idle", "deciding", "running"}, batch : SUBSET Cursors,
                          decision : {"none", "wait", "consume", "run"}, left : 0..MaxWait,
                          intents : {0, 1}, class : Classes, age : 0..Horizon]]

Init ==
  /\ events = <<>> /\ consumed = {}
  /\ state = [revision |-> 0, paused |-> FALSE]
  /\ deferred = 0
  /\ batches = << >>
  /\ call = [w \in Worker |-> Idle]
  /\ silenced = {} /\ faults = 0

Disturbs == faults < MaxFaults /\ faults' = faults + 1
Later(time) == IF time > 0 THEN time - 1 ELSE 0

-----------------------------------------------------------------------------
(* The burst policy, of the pending events, decided now.                   *)

Bounded(items) == {c \in items : Cardinality({d \in items : d < c}) < MaxBatch}
Least(a, b) == IF a <= b THEN a ELSE b

Decide(items) ==
  LET bounded == Bounded(items)
      some(kind) == \E c \in bounded : events[c].kind = kind
      full == Cardinality(bounded) >= MaxBatch
      quietLeft == (IF some("addressed") THEN AddressedDelay ELSE Quiet) - events[Max(bounded)].age
      left == Least(quietLeft, MaxWait - events[Min(items)].age)
      decided == [Idle EXCEPT !.at = "deciding", !.batch = bounded]
  IN  IF state.paused \/ \A c \in bounded : events[c].kind = "emoji"
        THEN [decided EXCEPT !.decision = "consume"]
      ELSE IF ~some("urgent") /\ ~full /\ left > 0
        THEN [decided EXCEPT !.decision = "wait", !.left = left]
      ELSE [decided EXCEPT !.decision = "run",
              !.intents = IF some("addressed") \/ RespondToAmbient THEN 1 ELSE 0,
              !.class = IF some("addressed") THEN "solicited" ELSE "unsolicited"]

-----------------------------------------------------------------------------
(* The store: what comes in, and time.                                     *)

\* ingest; a duplicate changes nothing.
Ingest(kind) ==
  /\ Len(events) < MaxEvents
  /\ events' = Append(events, [kind |-> kind, age |-> 0])
  /\ deferred' = 0
  /\ UNCHANGED <<consumed, state, batches, call, silenced, faults>>

SetSessionState ==
  /\ state.revision < MaxChanges
  /\ \E paused \in BOOLEAN : state' = [revision |-> state.revision + 1, paused |-> paused]
  /\ UNCHANGED <<events, consumed, deferred, batches, call, silenced, faults>>

Tick ==
  /\ events' = [c \in Cursors |-> [events[c] EXCEPT !.age = Least(@ + 1, MaxWait)]]
  /\ deferred' = Later(deferred)
  /\ batches' = [b \in DOMAIN batches |-> [batches[b] EXCEPT !.left = Later(@), !.retry = Later(@)]]
  /\ call' = [w \in Worker |-> IF call[w].at = "deciding"
                                 THEN [call[w] EXCEPT !.age = Least(@ + 1, Horizon)] ELSE call[w]]
  /\ UNCHANGED <<consumed, state, silenced, faults>>

-----------------------------------------------------------------------------
(* claimDue.                                                               *)

Open(b) == batches[b].status # "committed"
Expired(b) == batches[b].status = "active" /\ batches[b].left = 0
Retriable(b) == Expired(b) \/ (batches[b].status = "ready" /\ batches[b].retry = 0)

Activated(record, w, elapsed) ==
  [record EXCEPT !.status = "active", !.holder = w, !.left = Max({0, Lease - elapsed})]
Runs(w, b) == call' = [call EXCEPT ![w] = [Idle EXCEPT !.at = "running", !.batch = b]]

\* claimRetry; every lease that has run out is taken back on the way.
ClaimsRetry(w) ==
  /\ call[w].at = "idle"
  /\ \E b \in DOMAIN batches :
       /\ Retriable(b)
       /\ Runs(w, b)
       /\ batches' = [d \in DOMAIN batches |->
            IF d = b THEN Activated(batches[b], w, 0)
            ELSE IF Expired(d) THEN [batches[d] EXCEPT !.status = "ready"] ELSE batches[d]]
  /\ UNCHANGED <<inputs, consumed, deferred, faults>>

Waiting == Cursors \ consumed

\* pending, without regard to a batch that is still open.
PendingAnyway == Waiting
Pending == IF \E b \in DOMAIN batches : Open(b) THEN {} ELSE Waiting

\* A snapshot of the session is put to the policy.
Asks(w) ==
  /\ call[w].at = "idle" /\ Cardinality({v \in Worker : call[v].at = "deciding"}) < Overlap
  /\ ~\E b \in DOMAIN batches : Retriable(b)
  /\ Pending # {} /\ deferred = 0
  /\ call' = [call EXCEPT ![w] = Decide(Pending)]
  /\ UNCHANGED <<inputs, consumed, deferred, batches, faults>>

\* Mutant: with a batch goes what came in since it was made.
ConsumeAll(cursors) ==
  /\ consumed' = Cursors /\ deferred' = 0
  /\ events' = [c \in Cursors |-> [events[c] EXCEPT !.age = MaxWait]]

\* How old a consumed event is does not matter any more.
Consume(cursors) ==
  /\ consumed' = consumed \cup cursors /\ deferred' = 0
  /\ events' = [c \in Cursors |->
                  IF c \in cursors THEN [events[c] EXCEPT !.age = MaxWait] ELSE events[c]]
Returns(w) == call' = [call EXCEPT ![w] = Idle]

\* wait, or suppress to defer.
Waits(w) ==
  /\ call[w].at = "deciding" /\ call[w].decision = "wait"
  /\ deferred' = Max({deferred, call[w].left - call[w].age})
  /\ Returns(w)
  /\ UNCHANGED <<inputs, consumed, batches, faults>>

Suppresses(w) ==
  /\ call[w].at = "deciding" /\ call[w].decision = "consume"
  /\ Consume(call[w].batch)
  /\ silenced' = silenced \cup call[w].batch
  /\ Returns(w)
  /\ UNCHANGED <<state, batches, faults>>

Answered(class) ==
  {b \in DOMAIN batches : /\ batches[b].class = class /\ batches[b].intents = 1
                          /\ Open(b) \/ batches[b].replied}
Usage(class) == Cardinality(Answered(class))

\* Mutant: the answer that is about to be given is not counted.
ReserveLate(intents, class) == intents = 0 \/ Usage(class) <= Limit[class]
ReserveBudget(intents, class) == intents = 0 \/ Usage(class) < Limit[class]

\* A batch is made, over one of the same id if there is one; or there is no
\* budget for it.
Claims(w) ==
  /\ call[w].at = "deciding" /\ call[w].decision = "run"
  /\ LET b == call[w].batch
         record == [status |-> "ready", holder |-> NoWorker, left |-> 0, retry |-> 0,
                    intents |-> call[w].intents, class |-> call[w].class,
                    revision |-> state.revision, replied |-> FALSE]
     IN  IF ReserveBudget(call[w].intents, call[w].class)
           THEN /\ batches' = [d \in DOMAIN batches \cup {b} |->
                                 IF d = b THEN Activated(record, w, call[w].age) ELSE batches[d]]
                /\ Runs(w, b)
           ELSE Returns(w) /\ UNCHANGED batches
  /\ UNCHANGED <<inputs, consumed, deferred, faults>>

-----------------------------------------------------------------------------
(* The run, and how it ends.                                               *)

Running(w) == call[w].at = "running" /\ call[w].batch \in DOMAIN batches
\* The attempt is the one the record knows of.  A worker has one at a time: its
\* name stands for worker, attempt and fence.
IsOwner(w) == /\ Running(w)
              /\ LET record == batches[call[w].batch]
                 IN  record.status = "active" /\ record.holder = w
\* Mutant: the owner is not asked for.
OwnsAsActive(w) == Running(w) /\ batches[call[w].batch].status = "active"
Owns(w) == IsOwner(w) /\ batches[call[w].batch].left > 0

Renew(w) ==
  /\ Owns(w)
  /\ batches' = [batches EXCEPT ![call[w].batch].left = Lease]
  /\ UNCHANGED <<inputs, consumed, deferred, call, faults>>

\* release, also after the lease has run out, by whoever still has it.
Release(w) ==
  batches' = IF ~IsOwner(w) THEN batches
             ELSE [batches EXCEPT ![call[w].batch] =
                     [@ EXCEPT !.status = "ready", !.retry = RetryDelay,
                               !.holder = NoWorker, !.left = 0]]

\* The session is busy, or the run failed or was interrupted.
RunFails(w) ==
  /\ call[w].at = "running" /\ Disturbs
  /\ Release(w)
  /\ Returns(w)
  /\ UNCHANGED <<inputs, consumed, deferred>>

\* complete, by an attempt that has lost the batch: it is gone, committed, or
\* another's; or its lease has run out.
CompletesLate(w) ==
  /\ call[w].at = "running" /\ ~Owns(w)
  /\ batches' = IF ~IsOwner(w) THEN batches
                ELSE [batches EXCEPT ![call[w].batch] = [@ EXCEPT !.status = "ready", !.retry = 0]]
  /\ Returns(w)
  /\ UNCHANGED <<inputs, consumed, deferred, faults>>

\* Mutant: a batch of an earlier state of the session is tried again as it is.
Keeping(b) == batches
Without(b) == [d \in DOMAIN batches \ {b} |-> batches[d]]

Changed(record) == record.revision # state.revision \/ state.paused

\* complete, by the owner: the batch is dropped when the session has changed; it
\* is given back when the runner answers without leave, and else committed.
Completes(w, replies) ==
  /\ Owns(w)
  /\ LET b == call[w].batch
         record == batches[b]
     IN  IF Changed(record)
           THEN /\ batches' = Without(b)
                /\ UNCHANGED <<events, consumed, deferred>>
         ELSE IF replies /\ record.intents = 0
           THEN Release(w) /\ UNCHANGED <<events, consumed, deferred>>
         ELSE /\ batches' = [batches EXCEPT ![b] =
                    [@ EXCEPT !.status = "committed", !.replied = replies, !.left = 0, !.retry = 0]]
              /\ Consume(b)
  /\ Returns(w)
  /\ UNCHANGED <<state, silenced, faults>>

\* The runner returns, with a text for the room or without.
RunEnds(w) == \E replies \in BOOLEAN : Completes(w, replies)

GoesOn(w) == Waits(w) \/ Suppresses(w) \/ Claims(w) \/ CompletesLate(w)

Next ==
  \/ \E kind \in EventKinds : Ingest(kind)
  \/ SetSessionState \/ Tick
  \/ \E w \in Worker :
       \/ ClaimsRetry(w) \/ Asks(w) \/ GoesOn(w)
       \/ Renew(w) \/ RunEnds(w) \/ RunFails(w)

Spec == Init /\ [][Next]_vars

\* Time passes, a scheduler calls runNext again and again, and of runs that are
\* begun time and again one ends under its lease.
FairSpec ==
  /\ Spec
  /\ WF_vars(Tick)
  /\ \A w \in Worker : /\ WF_vars(ClaimsRetry(w) \/ Asks(w) \/ GoesOn(w))
                       /\ SF_vars(Completes(w, FALSE))

-----------------------------------------------------------------------------
(* Properties, with one claimDue at a time.                                *)

\* What is consumed is a prefix, whatever was suppressed, dropped or tried again.
\* At most one batch is open, and then the policy is not asked; its events are the
\* next ones, without a gap.
ReactionInv ==
  /\ ReactionTypeOK
  /\ \A c \in consumed : \A d \in Cursors : d < c => d \in consumed
  /\ \A b \in {b \in DOMAIN batches : Open(b)} :
       /\ b # {} /\ b \cap consumed = {}
       /\ \A c \in b : \A d \in Waiting : d < c => d \in b
       /\ \A d \in DOMAIN batches \ {b} : ~Open(d)
       /\ \A w \in Worker : call[w].at # "deciding"

\* Every event that is consumed was answered in one batch, or silenced: nobody is
\* answered twice, and what comes in while a batch runs is not lost with it.
AnsweredOnce ==
  LET committed == {b \in DOMAIN batches : ~Open(b)}
  IN  /\ \A b, d \in committed : b # d => b \cap d = {}
      /\ \A b \in committed : b \cap silenced = {}
      /\ consumed = silenced \cup UNION committed

\* A batch is committed by the worker that was given it last, in the state of the
\* session it was given it in: whoever was slow commits nothing.
CommittedByOwner ==
  [][\A b \in DOMAIN batches \cap DOMAIN batches' :
       Open(b) /\ batches'[b].status = "committed" =>
         /\ batches[b].status = "active" /\ batches[b].revision = state.revision
         /\ call[batches[b].holder].batch = b /\ call'[batches[b].holder] = Idle]_vars

\* What is promised and what was answered stay within the limit, together.
WithinBudget == \A class \in Classes : Usage(class) <= Limit[class]

\* Every event is dealt with in the end, however runs fail, leases run out and
\* the session changes on the way; unless a budget has been spent.
Spent(class) == Cardinality({b \in Answered(class) : ~Open(b)}) = Limit[class]
EventuallyConsumed ==
  \A c \in 1..MaxEvents : c \in Cursors ~> c \in consumed \/ \E class \in Classes : Spent(class)

\* Claimed, and not kept.  Of ingest, memory.ts: "A new contribution can shorten or
\* extend the policy deadline (for example, a trusted urgent message arriving
\* during a quiet wait)."  A claimDue that asked the policy before the message
\* came in puts the old deadline back.
UrgentIsDue ==
  (\E c \in Bounded(Waiting) : events[c].kind = "urgent") => deferred = 0
=============================================================================
