--------------------------- MODULE TurnController ---------------------------
(***************************************************************************)
(* TurnController of src/concurrency/index.ts: several instances of the    *)
(* server schedule the messages of ONE session into agent turns.           *)
(*                                                                         *)
(* JavaScript runs one callback at a time, so a step here is the code      *)
(* between two awaits.  Commands to the lease are asynchronous: a command  *)
(* is sent, executed by the backend later, and its answer is handled later *)
(* still.  Commands of one instance keep their order (one connection, or a *)
(* synchronous map); those of two instances interleave freely.             *)
(***************************************************************************)
EXTENDS Naturals, Sequences, FiniteSets, TurnLease

CONSTANTS Mode,           \* options.mode, of each instance
          MaxBatchSize,   \* options.maxBatchSize
          Host,           \* the batch a durable host gives to runExplicit
          Undefined,      \* JavaScript's undefined
          \* Bounds of the model, none of them in the code:
          MaxMessages,    \* messages submitted in the whole behaviour
          MaxRenewals,    \* renewals of one instance on their way at once
          MaxExplicits,   \* calls of runExplicit that pass its first check
          MaxInterrupts,  \* calls of interrupt
          MaxFaults,      \* lease commands whose answer is an error
          MaxStalls,      \* leases that expire under an instance using them
          MaxCrashes      \* restarts of an instance

Modes == {"queue", "debounce", "batch", "skip", "preempt"}
Limit == [explicits |-> MaxExplicits, interrupts |-> MaxInterrupts,
          faults |-> MaxFaults, stalls |-> MaxStalls, crashes |-> MaxCrashes]
Budget == {"explicits", "interrupts", "faults", "stalls", "crashes"}

\* A message is its arrival number.
Message == 1..MaxMessages
NoTurn == 0

ASSUME ControllerAssumption ==
         /\ Mode \in [Node -> Modes]
         /\ MaxBatchSize \in Nat \ {0}
         /\ MaxMessages \in Nat
         /\ MaxRenewals \in Nat
         /\ Limit \in [Budget -> Nat]
         /\ Host \notin Nat /\ Undefined \notin Nat /\ Host # Undefined

VARIABLES
  running, queue, pending, timer, retry, abort,   \* SessionState, per instance
  turns,      \* the runner calls in progress on each instance
  turnNo,     \* how many turns each instance has started
  renewing,   \* the turns whose renewal interval is armed
  sent,       \* lease commands not yet executed by the backend
  answers,    \* their answers, not yet handled by the instance
  arrivals,   \* messages submitted so far
  used,       \* how much of each bound is used up
  ran,        \* history: the messages each instance ran, in order
  dropped     \* history: messages given up on purpose (or by a restart)

local == <<running, queue, pending, timer, retry, abort, turns, turnNo,
           renewing>>
wire == <<sent, answers>>
history == <<ran, dropped>>
vars == <<local, wire, leaseVars, arrivals, used, history>>

Acquires == {"acquire", "acquire_explicit"}
Command == [op : Acquires \cup {"renew", "release"}, turn : Nat]
Answer == [op : Acquires \cup {"renew", "release"}, turn : Nat,
           says : {"yes", "no", "error"}]
Signals == {"live", "preempted", "interrupted", "lease_lost"}
Turn == [id : Nat, msgs : Seq(Message \cup {Host, Undefined}), signal : Signals]

Elements(s) == {s[i] : i \in DOMAIN s}

TypeOK ==
  /\ LeaseTypeOK
  /\ running \in [Node -> BOOLEAN]
  /\ queue \in [Node -> Seq(Message)]
  /\ pending \in [Node -> Seq(Message)]
  /\ timer \in [Node -> BOOLEAN]
  /\ retry \in [Node -> BOOLEAN]
  /\ abort \in [Node -> Nat]
  /\ turns \in [Node -> SUBSET Turn]
  /\ turnNo \in [Node -> Nat]
  /\ renewing \in [Node -> SUBSET Nat]
  /\ sent \in [Node -> Seq(Command)]
  /\ answers \in [Node -> Seq(Answer)]
  /\ arrivals \in 0..MaxMessages
  /\ used \in [Budget -> Nat]
  /\ ran \in [Node -> Seq(Message)]
  /\ dropped \subseteq Message

Init ==
  /\ LeaseInit
  /\ running = [n \in Node |-> FALSE]
  /\ queue = [n \in Node |-> <<>>]
  /\ pending = [n \in Node |-> <<>>]
  /\ timer = [n \in Node |-> FALSE]
  /\ retry = [n \in Node |-> FALSE]
  /\ abort = [n \in Node |-> NoTurn]
  /\ turns = [n \in Node |-> {}]
  /\ turnNo = [n \in Node |-> 0]
  /\ renewing = [n \in Node |-> {}]
  /\ sent = [n \in Node |-> <<>>]
  /\ answers = [n \in Node |-> <<>>]
  /\ arrivals = 0
  /\ used = [b \in Budget |-> 0]
  /\ ran = [n \in Node |-> <<>>]
  /\ dropped = {}

-----------------------------------------------------------------------------
(* Parts of the actions.                                                   *)

Spend(what) == /\ used[what] < Limit[what]
               /\ used' = [used EXCEPT ![what] = @ + 1]

Send(n, op, turn) ==
  sent' = [sent EXCEPT ![n] = Append(@, [op |-> op, turn |-> turn])]

\* Definitions marked "Mutant" are forms of the operator below them with one
\* plausible mistake; no action uses them.

\* Mutant: a later reason replaces the first.
AbortingAgain(n, why) ==
  [turns EXCEPT ![n] = {IF t.id = abort[n] THEN [t EXCEPT !.signal = why]
                                           ELSE t : t \in @}]

\* state.abort?.abort(why): the current controller, whose first reason stays.
Aborting(n, why) ==
  [turns EXCEPT ![n] = {IF t.id = abort[n] /\ t.signal = "live"
                          THEN [t EXCEPT !.signal = why] ELSE t : t \in @}]

\* Mutant: the local slot is claimed only after the await.
DrainUnclaimed(n, q) ==
  /\ queue' = [queue EXCEPT ![n] = q]
  /\ IF running[n] \/ q = <<>> THEN UNCHANGED sent ELSE Send(n, "acquire", NoTurn)
  /\ UNCHANGED running

\* Mutant: the empty queue is not checked.
DrainEmpty(n, q) ==
  /\ queue' = [queue EXCEPT ![n] = q]
  /\ IF running[n] THEN UNCHANGED <<running, sent>>
                   ELSE /\ running' = [running EXCEPT ![n] = TRUE]
                        /\ Send(n, "acquire", NoTurn)

\* drain up to its first await, the queue being q: returns while a turn or
\* an acquisition is on, else claims the local slot and asks for the lease.
Drain(n, q) ==
  /\ queue' = [queue EXCEPT ![n] = q]
  /\ IF running[n] \/ q = <<>>
       THEN UNCHANGED <<running, sent>>
       ELSE /\ running' = [running EXCEPT ![n] = TRUE]
            /\ Send(n, "acquire", NoTurn)

\* new AbortController, startRenewing, and the call of the runner.
StartTurn(n, msgs) ==
  /\ turnNo' = [turnNo EXCEPT ![n] = @ + 1]
  /\ abort' = [abort EXCEPT ![n] = turnNo[n] + 1]
  /\ renewing' = [renewing EXCEPT ![n] = @ \cup {turnNo[n] + 1}]
  /\ turns' = [turns EXCEPT ![n] =
                 @ \cup {[id |-> turnNo[n] + 1, msgs |-> msgs,
                          signal |-> "live"]}]

-----------------------------------------------------------------------------
(* submit.                                                                 *)

\* Mutant: skip forgets to return.
SubmitUnskipped(n, m) ==
  /\ Mode[n] \in {"queue", "skip", "preempt"}
  /\ dropped' = IF running[n] THEN dropped \cup {m} ELSE dropped
  /\ Drain(n, Append(queue[n], m))
  /\ UNCHANGED <<turns, pending, timer>>

\* queue, skip and preempt: to the queue, then drain.
SubmitToQueue(n, m) ==
  /\ Mode[n] \in {"queue", "skip", "preempt"}
  /\ IF Mode[n] = "skip" /\ running[n]
       THEN /\ dropped' = dropped \cup {m}
            /\ UNCHANGED <<queue, running, sent, turns>>
       ELSE /\ turns' = IF Mode[n] = "preempt" /\ running[n]
                          THEN Aborting(n, "preempted") ELSE turns
            /\ Drain(n, Append(queue[n], m))
            /\ UNCHANGED dropped
  /\ UNCHANGED <<pending, timer>>

\* debounce and batch: to the window, the oldest out when it is full.
SubmitToWindow(n, m) ==
  /\ Mode[n] \in {"debounce", "batch"}
  /\ LET p == Append(pending[n], m)
         full == Len(p) > MaxBatchSize
     IN  /\ pending' = [pending EXCEPT ![n] = IF full THEN Tail(p) ELSE p]
         /\ dropped' = IF full THEN dropped \cup {Head(p)} ELSE dropped
  /\ timer' = [timer EXCEPT ![n] = TRUE]
  /\ UNCHANGED <<queue, running, sent, turns>>

Submit(n) ==
  /\ arrivals < MaxMessages
  /\ arrivals' = arrivals + 1
  /\ SubmitToQueue(n, arrivals + 1) \/ SubmitToWindow(n, arrivals + 1)
  /\ UNCHANGED <<retry, abort, turnNo, renewing, answers, leaseVars, used,
                 ran>>

\* Mutant: the window's messages go before those that wait.
WindowClosesFirst(n) ==
  /\ timer[n]
  /\ timer' = [timer EXCEPT ![n] = FALSE]
  /\ pending' = [pending EXCEPT ![n] = <<>>]
  /\ pending[n] # <<>> /\ Drain(n, pending[n] \o queue[n])
  /\ UNCHANGED <<retry, abort, turns, turnNo, renewing, answers, leaseVars,
                 arrivals, used, ran, dropped>>

\* The callback of resetWindow.
WindowCloses(n) ==
  /\ timer[n]
  /\ timer' = [timer EXCEPT ![n] = FALSE]
  /\ pending' = [pending EXCEPT ![n] = <<>>]
  /\ LET p == pending[n]
         kept == IF Mode[n] = "debounce" /\ p # <<>> THEN <<p[Len(p)]>> ELSE p
     IN  /\ dropped' = dropped \cup (Elements(p) \ Elements(kept))
         /\ IF p = <<>> THEN UNCHANGED <<queue, running, sent>>
                        ELSE Drain(n, queue[n] \o kept)
  /\ UNCHANGED <<retry, abort, turns, turnNo, renewing, answers, leaseVars,
                 arrivals, used, ran>>

\* runExplicit, past the checks that answer "busy" at once.
RunExplicit(n) ==
  /\ ~running[n] /\ queue[n] = <<>> /\ pending[n] = <<>>
  /\ ~timer[n] /\ ~retry[n]
  /\ Spend("explicits")
  /\ running' = [running EXCEPT ![n] = TRUE]
  /\ Send(n, "acquire_explicit", NoTurn)
  /\ UNCHANGED <<queue, pending, timer, retry, abort, turns, turnNo, renewing,
                 answers, leaseVars, arrivals, history>>

\* Mutant: interrupt stops the timer but keeps the window.
InterruptKeepsWindow(n) ==
  /\ Spend("interrupts")
  /\ turns' = Aborting(n, "interrupted")
  /\ queue' = [queue EXCEPT ![n] = <<>>]
  /\ timer' = [timer EXCEPT ![n] = FALSE]
  /\ retry' = [retry EXCEPT ![n] = FALSE]
  /\ dropped' = dropped \cup Elements(queue[n])
  /\ UNCHANGED <<running, pending, abort, turnNo, renewing, wire, leaseVars,
                 arrivals, ran>>

Interrupt(n) ==
  /\ Spend("interrupts")
  /\ turns' = Aborting(n, "interrupted")
  /\ queue' = [queue EXCEPT ![n] = <<>>]
  /\ pending' = [pending EXCEPT ![n] = <<>>]
  /\ timer' = [timer EXCEPT ![n] = FALSE]
  /\ retry' = [retry EXCEPT ![n] = FALSE]
  /\ dropped' = dropped \cup Elements(queue[n]) \cup Elements(pending[n])
  /\ UNCHANGED <<running, abort, turnNo, renewing, wire, leaseVars, arrivals,
                 ran>>

-----------------------------------------------------------------------------
(* The lease, and what is done with its answers.                           *)

Executes(n, op, yes) ==
  \/ op \in Acquires /\ Acquire(n, yes)
  \/ op = "renew" /\ Renew(n, yes)
  \/ op = "release" /\ yes /\ Release(n)

\* The backend takes the oldest command of n.  A command that fails may or
\* may not have been executed.
Serve(n) ==
  /\ sent[n] # <<>>
  /\ sent' = [sent EXCEPT ![n] = Tail(@)]
  /\ LET c == Head(sent[n])
         Says(word) == answers' = [answers EXCEPT ![n] =
                         Append(@, [op |-> c.op, turn |-> c.turn,
                                    says |-> word])]
     IN  \/ /\ \E yes \in BOOLEAN : /\ Executes(n, c.op, yes)
                                    /\ Says(IF yes THEN "yes" ELSE "no")
            /\ UNCHANGED used
         \/ /\ Spend("faults")
            /\ Says("error")
            /\ UNCHANGED leaseVars \/ \E yes \in BOOLEAN : Executes(n, c.op, yes)
  /\ UNCHANGED <<local, arrivals, history>>

Answered(n, ops) == answers[n] # <<>> /\ Head(answers[n]).op \in ops
Consume(n) == answers' = [answers EXCEPT ![n] = Tail(@)]

\* drain after acquireLease succeeded: takes the messages, starts the turn.
DrainRuns(n) ==
  /\ Answered(n, {"acquire"}) /\ Head(answers[n]).says = "yes"
  /\ Consume(n)
  /\ LET q == queue[n]
         taken == IF Mode[n] = "batch" \/ q = <<>> THEN q ELSE <<Head(q)>>
     IN  /\ StartTurn(n, IF Mode[n] # "batch" /\ q = <<>> THEN <<Undefined>>
                                                       ELSE taken)
         /\ queue' = [queue EXCEPT ![n] = SubSeq(q, Len(taken) + 1, Len(q))]
         /\ ran' = [ran EXCEPT ![n] = @ \o taken]
  /\ UNCHANGED <<running, pending, timer, retry, sent, leaseVars, arrivals,
                 used, dropped>>

\* Mutant: the message was taken before the lease was asked for.
DrainForgets(n) ==
  /\ Answered(n, {"acquire"}) /\ Head(answers[n]).says # "yes"
  /\ Consume(n)
  /\ retry' = [retry EXCEPT ![n] = TRUE]
  /\ running' = [running EXCEPT ![n] = FALSE]
  /\ queue' = [queue EXCEPT ![n] = IF @ = <<>> THEN @ ELSE Tail(@)]
  /\ UNCHANGED <<pending, timer, abort, turns, turnNo, renewing, sent,
                 leaseVars, arrivals, used, history>>

\* acquireLease failed: a retry is armed unless one is, and drain returns.
DrainWaits(n) ==
  /\ Answered(n, {"acquire"}) /\ Head(answers[n]).says # "yes"
  /\ Consume(n)
  /\ retry' = [retry EXCEPT ![n] = TRUE]
  /\ running' = [running EXCEPT ![n] = FALSE]
  /\ UNCHANGED <<queue, pending, timer, abort, turns, turnNo, renewing, sent,
                 leaseVars, arrivals, used, history>>

RetryFires(n) ==
  /\ retry[n]
  /\ retry' = [retry EXCEPT ![n] = FALSE]
  /\ Drain(n, queue[n])
  /\ UNCHANGED <<pending, timer, abort, turns, turnNo, renewing, answers,
                 leaseVars, arrivals, used, history>>

ExplicitRuns(n) ==
  /\ Answered(n, {"acquire_explicit"}) /\ Head(answers[n]).says = "yes"
  /\ Consume(n)
  /\ StartTurn(n, <<Host>>)
  /\ UNCHANGED <<running, queue, pending, timer, retry, sent, leaseVars,
                 arrivals, used, history>>

\* runExplicit answers "busy" or "unavailable".
ExplicitRefused(n) ==
  /\ Answered(n, {"acquire_explicit"}) /\ Head(answers[n]).says # "yes"
  /\ Consume(n)
  /\ running' = [running EXCEPT ![n] = FALSE]
  /\ UNCHANGED <<queue, pending, timer, retry, abort, turns, turnNo, renewing,
                 sent, leaseVars, arrivals, used, history>>

\* The interval of startRenewing fires.
RenewTick(n) ==
  \E id \in renewing[n] :
    /\ Cardinality({i \in DOMAIN sent[n] : sent[n][i].op = "renew"})
       + Cardinality({i \in DOMAIN answers[n] : answers[n][i].op = "renew"})
         < MaxRenewals
    /\ Send(n, "renew", id)
    /\ UNCHANGED <<local, answers, leaseVars, arrivals, used, history>>

\* Mutant: a renewal that fails is ignored.
RenewIgnored(n) ==
  /\ Answered(n, {"renew"})
  /\ Consume(n)
  /\ UNCHANGED <<local, sent, leaseVars, arrivals, used, history>>

\* The answer to a renewal: any but "held" aborts the CURRENT controller.
RenewAnswered(n) ==
  /\ Answered(n, {"renew"})
  /\ Consume(n)
  /\ turns' = IF Head(answers[n]).says = "yes" THEN turns
                                               ELSE Aborting(n, "lease_lost")
  /\ UNCHANGED <<running, queue, pending, timer, retry, abort, turnNo,
                 renewing, sent, leaseVars, arrivals, used, history>>

\* Mutant: the renewal interval is not cleared.
RunEndsRenewing(n, t) ==
  /\ turns' = [turns EXCEPT ![n] = @ \ {t}]
  /\ running' = [running EXCEPT ![n] = FALSE]
  /\ abort' = [abort EXCEPT ![n] = NoTurn]
  /\ Send(n, "release", t.id)
  /\ UNCHANGED <<queue, pending, timer, retry, turnNo, renewing, answers,
                 leaseVars, arrivals, used, history>>

\* The runner of turn t returns or throws: releaseClaim up to its await.
RunEnds(n, t) ==
  /\ turns' = [turns EXCEPT ![n] = @ \ {t}]
  /\ renewing' = [renewing EXCEPT ![n] = @ \ {t.id}]
  /\ running' = [running EXCEPT ![n] = FALSE]
  /\ abort' = [abort EXCEPT ![n] = NoTurn]
  /\ Send(n, "release", t.id)
  /\ UNCHANGED <<queue, pending, timer, retry, turnNo, answers, leaseVars,
                 arrivals, used, history>>

\* Mutant: nothing is drained after a turn.
ReleasedOnly(n) ==
  /\ Answered(n, {"release"})
  /\ Consume(n)
  /\ UNCHANGED <<local, sent, leaseVars, arrivals, used, history>>

\* releaseClaim is done, with or without an error: drain what is waiting.
Released(n) ==
  /\ Answered(n, {"release"})
  /\ Consume(n)
  /\ Drain(n, queue[n])
  /\ UNCHANGED <<pending, timer, retry, abort, turns, turnNo, renewing,
                 leaseVars, arrivals, used, history>>

-----------------------------------------------------------------------------
(* The environment: time and crashes.                                      *)

\* h is using the lease it was granted, or is about to.
Using(h) == \/ turns[h] # {}
            \/ \E i \in DOMAIN answers[h] : /\ answers[h][i].op \in Acquires
                                            /\ answers[h][i].says = "yes"

\* The TTL passes under an instance that uses the lease: it stalled.
LeaseLapses ==
  /\ holder \in Node /\ Using(holder)
  /\ Expire
  /\ Spend("stalls")
  /\ UNCHANGED <<local, wire, arrivals, history>>

\* The TTL of a lease that nobody renews passes.
OrphanExpires ==
  /\ holder \in Node => ~Using(holder)
  /\ Expire
  /\ UNCHANGED <<local, wire, arrivals, used, history>>

\* The process of n dies and restarts with a new holder id and empty memory.
\* A command on its way is lost, unless the backend executes it just then.
Crash(n) ==
  /\ Spend("crashes")
  /\ \/ Orphan(n)
     \/ /\ sent[n] # <<>> /\ sent[n][Len(sent[n])].op \in Acquires
        /\ holder = NoOne /\ holder' = Gone /\ lapsed' = lapsed \ {n}
     \/ /\ sent[n] # <<>> /\ sent[n][Len(sent[n])].op = "release"
        /\ holder = n /\ holder' = NoOne /\ lapsed' = lapsed \ {n}
  /\ running' = [running EXCEPT ![n] = FALSE]
  /\ queue' = [queue EXCEPT ![n] = <<>>]
  /\ pending' = [pending EXCEPT ![n] = <<>>]
  /\ timer' = [timer EXCEPT ![n] = FALSE]
  /\ retry' = [retry EXCEPT ![n] = FALSE]
  /\ abort' = [abort EXCEPT ![n] = NoTurn]
  /\ turns' = [turns EXCEPT ![n] = {}]
  /\ renewing' = [renewing EXCEPT ![n] = {}]
  /\ sent' = [sent EXCEPT ![n] = <<>>]
  /\ answers' = [answers EXCEPT ![n] = <<>>]
  /\ dropped' = dropped \cup Elements(queue[n]) \cup Elements(pending[n])
  /\ UNCHANGED <<turnNo, arrivals, ran>>

Instance(n) ==
  \/ Submit(n) \/ WindowCloses(n) \/ RunExplicit(n) \/ Interrupt(n)
  \/ Serve(n)
  \/ DrainRuns(n) \/ DrainWaits(n) \/ RetryFires(n)
  \/ ExplicitRuns(n) \/ ExplicitRefused(n)
  \/ RenewTick(n) \/ RenewAnswered(n)
  \/ \E t \in turns[n] : RunEnds(n, t)
  \/ Released(n)
  \/ Crash(n)

Next == (\E n \in Node : Instance(n)) \/ LeaseLapses \/ OrphanExpires

Spec == Init /\ [][Next]_vars
\* Timers fire, the backend answers, answers are handled, runners return and
\* unrenewed leases expire.  Nothing is assumed of users, hosts or failures.
Fairness ==
  /\ \A n \in Node :
       /\ WF_vars(WindowCloses(n)) /\ WF_vars(RetryFires(n))
       /\ WF_vars(Serve(n))
       /\ WF_vars(DrainRuns(n) \/ DrainWaits(n) \/ ExplicitRuns(n)
                  \/ ExplicitRefused(n) \/ RenewAnswered(n) \/ Released(n))
       /\ WF_vars(\E t \in turns[n] : RunEnds(n, t))
  /\ WF_vars(OrphanExpires)

FairSpec == Spec /\ Fairness

\* The same with runners that may stream for ever unless they are aborted
\* (they check signal.aborted between deltas), and renewal intervals that fire.
SlowRunnerSpec ==
  /\ Spec
  /\ \A n \in Node :
       /\ WF_vars(Serve(n)) /\ WF_vars(RenewTick(n))
       /\ WF_vars(DrainRuns(n) \/ DrainWaits(n) \/ ExplicitRuns(n)
                  \/ ExplicitRefused(n) \/ RenewAnswered(n) \/ Released(n))
       /\ WF_vars(\E t \in turns[n] : t.signal # "live" /\ RunEnds(n, t))

-----------------------------------------------------------------------------
(* Properties.                                                             *)

Running(n) == turns[n] # {}

\* Two instances run turns of the session at the same time only if the lease
\* expired under one of them.
OneRunnerPerLease ==
  \A n, k \in Node : Running(n) /\ Running(k) /\ n # k
                       => n \in lapsed \/ k \in lapsed

\* One instance never runs two turns of the session at once, however submits,
\* window and retry callbacks, explicit turns and releases interleave.
OneTurnPerInstance == \A n \in Node : \A t, u \in turns[n] : t = u

\* While a turn runs, every renewal of its instance that is still under way is
\* that turn's own: a late answer to an earlier turn's renewal cannot abort it,
\* though RenewAnswered aborts whatever controller is current.
OnlyOwnRenewals ==
  \A n \in Node : \A t \in turns[n] :
    /\ \A i \in DOMAIN sent[n] : sent[n][i].turn = t.id
    /\ \A i \in DOMAIN answers[n] : answers[n][i].turn = t.id

\* An instance runs its messages in the order they arrived.
ArrivalOrder ==
  \A n \in Node : \A i, j \in DOMAIN ran[n] : i < j => ran[n][i] < ran[n][j]

\* The places a message can be in: on an instance, or given up.
PlacesOn(n, m) ==
       {<<"queue", n, i>> : i \in {j \in DOMAIN queue[n] : queue[n][j] = m}}
  \cup {<<"window", n, i>> : i \in {j \in DOMAIN pending[n] : pending[n][j] = m}}
  \cup {<<"ran", n, i>> : i \in {j \in DOMAIN ran[n] : ran[n][j] = m}}
Places(m) == (UNION {PlacesOn(n, m) : n \in Node})
             \cup {<<"dropped", d>> : d \in dropped \cap {m}}

\* Every submitted message waits once, ran once or was given up: none is lost
\* by a refused or failed lease, and none is run twice or after it was cleared.
EveryMessageOnce == \A m \in 1..arrivals : Cardinality(Places(m)) = 1

\* A message that waits has something that will run it: the window's timer, a
\* turn or acquisition in progress, an armed retry or the release in progress.
ReleaseOnItsWay(n) ==
  \/ \E i \in DOMAIN sent[n] : sent[n][i].op = "release"
  \/ \E i \in DOMAIN answers[n] : answers[n][i].op = "release"
NothingStranded ==
  \A n \in Node :
    /\ pending[n] # <<>> => timer[n]
    /\ queue[n] # <<>> => running[n] \/ retry[n] \/ ReleaseOnItsWay(n)

\* Every turn is given at least one message, and only real ones.
TurnsCarryMessages ==
  \A n \in Node : \A t \in turns[n] :
    t.msgs # <<>> /\ Undefined \notin Elements(t.msgs)

\* In preempt mode no run goes on unaborted while a newer message waits.
NewestPreempts ==
  \A n \in Node : \A t \in turns[n] :
    Mode[n] = "preempt" /\ t.signal = "live" => queue[n] = <<>>

\* A turn is aborted for a lost lease only when one of its own renewals was
\* refused or failed, and never a second time or for another reason after.
LeaseLostOnlyByOwnRenewal ==
  [][\A n \in Node : \A t \in turns[n] : \A u \in turns'[n] :
       t.id = u.id /\ t.signal # u.signal =>
         /\ t.signal = "live"
         /\ u.signal = "lease_lost" => /\ Answered(n, {"renew"})
                                       /\ Head(answers[n]).turn = t.id]_vars

\* Seen from outside, instances take turns.
Owners == {n \in Node : Running(n) /\ n \notin lapsed}
Taking == INSTANCE TurnTaking WITH
            owner <- IF Owners = {} THEN NoOne ELSE CHOOSE n \in Owners : TRUE,
            overrun <- {n \in Node : Running(n) /\ n \in lapsed}
TakesTurns == Taking!Spec

\* Every submitted message is run, or given up the way its mode or an
\* interrupt says.
EveryMessageSettles ==
  \A m \in Message :
    m <= arrivals ~> m \in dropped \cup UNION {Elements(ran[n]) : n \in Node}

\* Two runs at once are a passing state: the renewal of the instance that
\* lost the lease aborts its run.
OverlapEnds ==
  \A n, k \in Node :
    n # k => (Running(n) /\ Running(k)) ~> ~(Running(n) /\ Running(k))

-----------------------------------------------------------------------------
(* The inductive invariant behind the properties of one instance's slot and *)
(* of the lease; the proofs are in TurnControllerProofs.                    *)

Contains(s, ops) == \E i \in DOMAIN s : s[i].op \in ops
AllRenewalsOf(s, id) == \A i \in DOMAIN s : s[i].op = "renew" /\ s[i].turn = id
OnlyLast(s) == \A i \in DOMAIN s : s[i].op \in Acquires => i = Len(s)

\* One instance: its running flag, turns, commands, answers, armed intervals
\* and controller.  On its way to and from the lease are, in this order, the
\* renewals of a turn, that turn's release and the acquisition of the next.
SlotOf(flag, T, out, in, armed, controller) ==
  /\ T # {} => flag
  /\ T # {} \/ ~flag => ~Contains(out, Acquires) /\ ~Contains(in, Acquires)
  /\ \A t \in T : /\ AllRenewalsOf(out, t.id) /\ AllRenewalsOf(in, t.id)
                  /\ controller = t.id
  /\ OnlyLast(out) /\ OnlyLast(in)
  /\ Contains(in, Acquires) => out = <<>>
  /\ armed = {t.id : t \in T}
  /\ \A t, u \in T : t = u

Slot(n) == SlotOf(running[n], turns[n], sent[n], answers[n], renewing[n], abort[n])
SlotInv == \A n \in Node : Slot(n)

\* Who uses a lease that has not lapsed is the holder.
LeaseInv == \A n \in Node : Using(n) /\ n \notin lapsed => holder = n

TurnInv == TypeOK /\ SlotInv /\ LeaseInv

\* The inductive invariant behind ArrivalOrder and EveryMessageOnce; the proofs
\* are in TurnMessagesProofs.
Sorted(s) == \A i, j \in DOMAIN s : i < j => s[i] < s[j]
Before(S, T) == \A a \in S, b \in T : a < b

\* One instance: what it ran is older than what is queued, and that is older
\* than what is in the window, which only two modes have.
InOrder(n) ==
  /\ Sorted(ran[n]) /\ Sorted(queue[n]) /\ Sorted(pending[n])
  /\ Before(Elements(ran[n]), Elements(queue[n]))
  /\ Before(Elements(ran[n]), Elements(pending[n]))
  /\ Before(Elements(queue[n]), Elements(pending[n]))
  /\ Mode[n] \notin {"debounce", "batch"} => pending[n] = <<>>

\* All instances: the messages that an instance has or ran, and those given
\* up, share out the submitted messages.
Held(n) == Elements(ran[n]) \cup Elements(queue[n]) \cup Elements(pending[n])
SharedOut ==
  /\ \A n, k \in Node : n # k => Held(n) \cap Held(k) = {}
  /\ \A n \in Node : Held(n) \cap dropped = {}
  /\ dropped \cup UNION {Held(n) : n \in Node} = 1..arrivals

MessagesInv == (\A n \in Node : InOrder(n)) /\ SharedOut
=============================================================================
