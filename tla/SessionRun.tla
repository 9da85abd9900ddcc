----------------------------- MODULE SessionRun -----------------------------
(***************************************************************************)
(* MultiplayerSession (src/session.ts) of one session on several           *)
(* instances: send, runBatch, interrupt, and runTurn with the interrupt    *)
(* listener it keeps on the bus.  Whose turn it is comes from TurnTaking,  *)
(* which TurnController implements.  Every instance hears the bus in its   *)
(* order, in its own time, its own events included.  A run is named after  *)
(* the one message its turn carries.                                       *)
(***************************************************************************)
EXTENDS TurnTaking, Sequences, Naturals

CONSTANTS Sent, Batch,   \* messages given to send, and to runBatch
          Addressed,     \* those sent to the agent; the others only to the room
          Interrupter,   \* calls of interrupt
          Home,          \* the instance that send or interrupt is called on
          NoRun, Unknown,
          MaxDeltas, MaxFaults   \* bounds of the model: a run's deltas; disturbances

Run == Sent \cup Batch
ASSUME SessionAssumption == /\ Sent \cap Batch = {} /\ NoRun \notin Run /\ Unknown \notin Run
                            /\ NoRun \notin Interrupter /\ NoOne \notin Node
                            /\ Home \in [Sent \cup Interrupter -> Node]
                            /\ MaxDeltas \in Nat /\ MaxFaults \in Nat

VARIABLES
  sending,       \* where each call of send is
  queue,         \* per instance: messages that wait for a turn
  turn,          \* per instance: its turn
  runningRunId,  \* in the session's record
  bus,           \* the events published, in the order of their seq
  ledger,        \* the audit entries
  listens,       \* the instances with a listener of interrupts, and ...
  heard,         \* ... how far into the bus it was told
  calling,       \* where each call of interrupt is
  result,        \* what runTurn returned for each run
  faults,
  spoiled        \* history: instances that keep a listener for good

turns == <<queue, turn, result>>
outside == <<runningRunId, bus, ledger>>
listening == <<listens, heard, spoiled>>
callers == <<sending, calling>>
svars == <<ttVars, turns, outside, listening, callers, faults>>

EventTypes == {"message", "started", "delta", "reply", "finished", "failed", "interrupted"}
Event == [type : EventTypes, run : Run \cup {Unknown}, by : Interrupter \cup {NoRun}]
Signals == {"none", "interrupted", "lost"}
Phases == {"idle", "mark", "announce", "audit", "prepare", "stream", "unmark", "close",
           "audit_close"}
Idle == [at |-> "idle", run |-> NoRun, signal |-> "none", said |-> 0, failed |-> FALSE,
         closing |-> <<>>]

Turn == [at : Phases, run : Run \cup {NoRun}, signal : Signals, said : 0..MaxDeltas,
         failed : BOOLEAN, closing : Seq(EventTypes)]
Call == [at : {"call", "read", "publish", "done"}, named : Run \cup {Unknown}]

SessionTypeOK ==
  /\ owner \in Node \cup {NoOne} /\ overrun \subseteq Node
  /\ sending \in [Sent -> {"publish", "submit", "done"}]
  /\ queue \in [Node -> SUBSET Sent]
  /\ turn \in [Node -> Turn]
  /\ runningRunId \in Run \cup {NoRun}
  /\ bus \in Seq(Event)
  /\ listens \subseteq Node /\ spoiled \subseteq Node /\ heard \in [Node -> Nat]
  /\ calling \in [Interrupter -> Call]
  /\ result \in [Run -> {"none", "busy", "completed", "failed", "interrupted", "threw"}]

SessionInit ==
  /\ Init
  /\ sending = [m \in Sent |-> "publish"]
  /\ queue = [n \in Node |-> {}]
  /\ turn = [n \in Node |-> Idle]
  /\ runningRunId = NoRun
  /\ bus = <<>> /\ ledger = {}
  /\ listens = {} /\ spoiled = {} /\ heard = [n \in Node |-> 0]
  /\ calling = [i \in Interrupter |-> [at |-> "call", named |-> Unknown]]
  /\ result = [r \in Run |-> "none"]
  /\ faults = 0

Publishes(type, r, by) == bus' = Append(bus, [type |-> type, run |-> r, by |-> by])
Audits(action, who) == ledger' = ledger \cup {<<action, who>>}
\* A failure or a lapse.
Disturbs == faults < MaxFaults /\ faults' = faults + 1
Active(n) == turn[n].at # "idle"
Phase(n, from, to) == turn[n].at = from /\ turn' = [turn EXCEPT ![n].at = to]

-----------------------------------------------------------------------------
(* send and runBatch.                                                      *)

SendPublishes(m) ==
  /\ sending[m] = "publish"
  /\ sending' = [sending EXCEPT ![m] = "submit"]
  /\ Publishes("message", m, NoRun)
  /\ UNCHANGED <<ttVars, turns, runningRunId, ledger, listening, calling, faults>>

\* turns.submit; a message not addressed to the agent ends here.
SendSubmits(m) ==
  /\ sending[m] = "submit"
  /\ sending' = [sending EXCEPT ![m] = "done"]
  /\ Audits("message.sent", m)
  /\ queue' = [queue EXCEPT ![Home[m]] = @ \cup ({m} \cap Addressed)]
  /\ UNCHANGED <<ttVars, turn, result, runningRunId, bus, listening, calling, faults>>

Starts(n, r) ==
  /\ ~Active(n) /\ Begin(n)
  /\ turn' = [turn EXCEPT ![n] = [Idle EXCEPT !.at = "mark", !.run = r]]
  /\ UNCHANGED <<outside, listening, callers, faults>>

\* drain: the next message's turn (runTurn reads the session and the roster).
TurnStarts(n, m) ==
  /\ m \in queue[n]
  /\ queue' = [queue EXCEPT ![n] = @ \ {m}]
  /\ Starts(n, m)
  /\ UNCHANGED result

\* runBatch: runExplicit, which does not wait.
BatchStarts(n, b) ==
  /\ result[b] = "none" /\ \A k \in Node : turn[k].run # b
  /\ \/ Starts(n, b) /\ UNCHANGED result
     \/ /\ Active(n) \/ owner # NoOne
        /\ result' = [result EXCEPT ![b] = "busy"]
        /\ UNCHANGED <<ttVars, turn, outside, listening, callers, faults>>
  /\ UNCHANGED queue

-----------------------------------------------------------------------------
(* interrupt, here and on the bus; the lease.                              *)

Aborted(t, reason) == IF t.at # "idle" /\ t.signal = "none" THEN [t EXCEPT !.signal = reason] ELSE t

\* turns.interrupt: the queue is emptied and whatever runs here is aborted.
InterruptsTurns(n) ==
  /\ queue' = [queue EXCEPT ![n] = {}]
  /\ turn' = [turn EXCEPT ![n] = Aborted(@, "interrupted")]
  /\ UNCHANGED result

InterruptCalled(i) ==
  /\ calling[i].at = "call"
  /\ calling' = [calling EXCEPT ![i].at = "read"]
  /\ InterruptsTurns(Home[i])
  /\ UNCHANGED <<ttVars, outside, listening, sending, faults>>

InterruptReads(i) ==
  /\ calling[i].at = "read"
  /\ calling' = [calling EXCEPT ![i] =
       [at |-> "publish", named |-> IF runningRunId = NoRun THEN Unknown ELSE runningRunId]]
  /\ UNCHANGED <<ttVars, turns, outside, listening, sending, faults>>

InterruptPublishes(i) ==
  /\ calling[i].at = "publish"
  /\ calling' = [calling EXCEPT ![i].at = "done"]
  /\ Publishes("interrupted", calling[i].named, i)
  /\ Audits("agent.run.interrupted", i)
  /\ UNCHANGED <<ttVars, turns, runningRunId, listening, sending, faults>>

\* The listener's next event that is an interrupt; it heeds those that name one of runs.
HearsOf(n, runs) ==
  /\ n \in listens
  /\ \E e \in DOMAIN bus :
       /\ e > heard[n] /\ bus[e].type = "interrupted"
       /\ \A d \in DOMAIN bus : bus[d].type = "interrupted" => d <= heard[n] \/ d >= e
       /\ heard' = [heard EXCEPT ![n] = e]
       /\ IF bus[e].run \in runs THEN InterruptsTurns(n) ELSE UNCHANGED turns
  /\ UNCHANGED <<ttVars, outside, listens, spoiled, callers, faults>>

\* Mutant: only an interrupt that names the run counts.
HearsByName(n) == HearsOf(n, {turn[n].run})
\* Whatever run the event names.
Hears(n) == HearsOf(n, Run \cup {Unknown})

\* The lease lapses under the turn; sooner or later a renewal aborts it.
LeaseLapses(n) ==
  /\ Disturbs
  /\ Active(n) /\ Lapse(n)
  /\ UNCHANGED <<turns, outside, listening, callers>>

LeaseFoundLost(n) ==
  /\ n \in overrun /\ turn[n].signal = "none"
  /\ turn' = [turn EXCEPT ![n] = Aborted(@, "lost")]
  /\ UNCHANGED <<ttVars, queue, result, outside, listening, callers, faults>>

-----------------------------------------------------------------------------
(* runTurn.                                                                *)

\* Mutant: a patch without a run changes nothing.
RecordsIfSet(r) == runningRunId' = IF r = NoRun THEN runningRunId ELSE r
\* updateSession
Records(r) == runningRunId' = r

RunMarks(n) ==
  /\ Phase(n, "mark", "announce")
  /\ Records(turn[n].run)
  /\ UNCHANGED <<ttVars, queue, result, bus, ledger, listening, callers, faults>>

RunAnnounces(n) ==
  /\ Phase(n, "announce", "audit")
  /\ Publishes("started", turn[n].run, NoRun)
  /\ UNCHANGED <<ttVars, queue, result, runningRunId, ledger, listening, callers, faults>>

\* The entry is written, and then the run begins to listen: from now on, or, in
\* a process that had subscribed before, from what it was told so far.
RunAudits(n) ==
  /\ Phase(n, "audit", "prepare")
  /\ Audits("agent.run.started", turn[n].run)
  /\ listens' = listens \cup {n}
  /\ \E told \in {k - 1 : k \in {k \in DOMAIN bus : bus[k].type = "interrupted"}} \cup {Len(bus)} :
       heard' = [heard EXCEPT ![n] = IF n \in listens THEN @ ELSE told]
  /\ UNCHANGED <<ttVars, queue, result, runningRunId, bus, spoiled, callers, faults>>

\* labelBatch and buildStreamOptions return.
RunPrepares(n) ==
  /\ Phase(n, "prepare", "stream")
  /\ UNCHANGED <<ttVars, queue, result, outside, listening, callers, faults>>

RunSays(n) ==
  /\ turn[n].at = "stream" /\ turn[n].signal = "none" /\ turn[n].said < MaxDeltas
  /\ turn' = [turn EXCEPT ![n].said = @ + 1]
  /\ Publishes("delta", turn[n].run, NoRun)
  /\ UNCHANGED <<ttVars, queue, result, runningRunId, ledger, listening, callers, faults>>

\* Mutant: stopListening is not called.
KeepsListening(n) == UNCHANGED <<listens, heard>>

StopsListening(n) ==
  IF n \in spoiled THEN UNCHANGED <<listens, heard>>
                   ELSE listens' = listens \ {n} /\ heard' = [heard EXCEPT ![n] = 0]

\* The stream ends, throws, or is broken off.
StreamEnds(n, failed) ==
  /\ turn[n].at = "stream"
  /\ IF failed THEN Disturbs ELSE UNCHANGED faults
  /\ turn' = [turn EXCEPT ![n].at = "unmark", ![n].failed = failed]
  /\ StopsListening(n)
  /\ UNCHANGED <<ttVars, queue, result, outside, spoiled, callers>>

Closing(t) ==
  CASE t.failed -> <<"failed">>
    [] ~t.failed /\ t.signal = "lost" -> <<"interrupted">>
    [] ~t.failed /\ t.signal = "interrupted" -> <<>>
    [] OTHER -> IF t.said > 0 THEN <<"reply", "finished">> ELSE <<"finished">>

\* Mutant: an abort that nobody called for is not announced either.
RunUnmarksSilently(n) ==
  /\ turn[n].at = "unmark"
  /\ Records(NoRun)
  /\ turn' = [turn EXCEPT ![n].at = "close", ![n].closing =
                IF turn[n].signal # "none" THEN <<>> ELSE Closing(turn[n])]
  /\ UNCHANGED <<ttVars, queue, result, bus, ledger, listening, callers, faults>>

\* The finally block; then the failure is looked at, and the signal.
RunUnmarks(n) ==
  /\ turn[n].at = "unmark"
  /\ Records(NoRun)
  /\ turn' = [turn EXCEPT ![n].at = "close", ![n].closing = Closing(turn[n])]
  /\ UNCHANGED <<ttVars, queue, result, bus, ledger, listening, callers, faults>>

RunCloses(n) ==
  /\ turn[n].at = "close" /\ turn[n].closing # <<>>
  /\ turn' = IF Len(turn[n].closing) = 1 THEN [turn EXCEPT ![n].at = "audit_close"]
                                         ELSE [turn EXCEPT ![n].closing = Tail(@)]
  /\ Publishes(Head(turn[n].closing), turn[n].run, NoRun)
  /\ UNCHANGED <<ttVars, queue, result, runningRunId, ledger, listening, callers, faults>>

Leaves(n, status) ==
  /\ turn' = [turn EXCEPT ![n] = Idle]
  /\ result' = [result EXCEPT ![turn[n].run] = status]
  /\ End(n)
  /\ UNCHANGED <<queue, runningRunId, bus, callers>>

Status(event) == IF event = "finished" THEN "completed" ELSE event

\* After the last event comes its entry in the ledger.
RunReturns(n) ==
  /\ \/ turn[n].at = "audit_close" /\ LET event == Head(turn[n].closing)
                                      IN  /\ Leaves(n, Status(event))
                                          /\ Audits(event, turn[n].run)
     \/ turn[n].at = "close" /\ turn[n].closing = <<>>
        /\ Leaves(n, "interrupted") /\ UNCHANGED ledger
  /\ UNCHANGED <<listening, faults>>

\* A call of the store or the bus, or buildStreamOptions, throws outside the
\* try: nothing is cleared, a listener that was added stays.
RunThrows(n) ==
  /\ turn[n].at \notin {"idle", "stream"}
  /\ Disturbs
  /\ Leaves(n, "threw")
  /\ spoiled' = IF turn[n].at = "prepare" THEN spoiled \cup {n} ELSE spoiled
  /\ UNCHANGED <<ledger, listens, heard>>

RunGoesOn(n) ==
  \/ RunMarks(n) \/ RunAnnounces(n) \/ RunAudits(n) \/ RunPrepares(n)
  \/ RunUnmarks(n) \/ RunCloses(n) \/ RunReturns(n)

SessionNext ==
  \/ \E m \in Sent : SendPublishes(m) \/ SendSubmits(m)
  \/ \E i \in Interrupter : InterruptCalled(i) \/ InterruptReads(i) \/ InterruptPublishes(i)
  \/ \E n \in Node :
       \/ \E r \in Run : TurnStarts(n, r) \/ (r \in Batch /\ BatchStarts(n, r))
       \/ Hears(n) \/ LeaseLapses(n) \/ LeaseFoundLost(n)
       \/ RunGoesOn(n) \/ RunSays(n) \/ RunThrows(n)
       \/ \E failed \in BOOLEAN : StreamEnds(n, failed)

SessionSpec == SessionInit /\ [][SessionNext]_svars

\* Code that runs goes on and the bus delivers.  The agent heeds its signal,
\* and need not stop for any other reason.
FairSessionSpec ==
  /\ SessionSpec
  /\ \A m \in Sent : WF_svars(SendPublishes(m) \/ SendSubmits(m))
  /\ \A i \in Interrupter : WF_svars(InterruptReads(i) \/ InterruptPublishes(i))
  /\ \A n \in Node :
       /\ WF_svars(RunGoesOn(n)) /\ WF_svars(Hears(n)) /\ WF_svars(LeaseFoundLost(n))
       /\ WF_svars(turn[n].signal # "none" /\ \E failed \in BOOLEAN : StreamEnds(n, failed))

-----------------------------------------------------------------------------
(* Properties.                                                             *)

Closers == {"finished", "failed", "interrupted"}

\* A run happens once: in the sender's hands, in one queue, in one turn, or over.
HappensOnce ==
  /\ \A n \in Node : \A m \in queue[n] :
       /\ n = Home[m] /\ sending[m] = "done" /\ result[m] = "none"
       /\ \A k \in Node : turn[k].run # m
  /\ \A m \in Sent : sending[m] # "done" =>
       result[m] = "none" /\ \A k \in Node : turn[k].run # m
  /\ \A n \in Node : IF Active(n) THEN turn[n].run \in Run /\ result[turn[n].run] = "none"
                                  ELSE turn[n] = Idle
  /\ \A n, k \in Node : n # k /\ Active(n) => turn[n].run # turn[k].run

\* An instance has a turn exactly while turn-taking counts it, and listens for
\* interrupts exactly while a run of its own could use them, unless a run threw
\* in between.
SessionInv ==
  /\ SessionTypeOK
  /\ owner \notin overrun
  /\ \A n \in Node :
       /\ Active(n) <=> n = owner \/ n \in overrun
       /\ n \in listens <=> n \in spoiled \/ turn[n].at \in {"prepare", "stream"}
  /\ HappensOnce

\* What the room was told of run r, as places on the bus; an interrupt that
\* somebody called for is not the run's own.
Told(r) == {e \in DOMAIN bus : bus[e].run = r /\ bus[e].by = NoRun}
Ends(r, types) == \E e \in Told(r) : bus[e].type \in types /\ \A d \in Told(r) : d <= e
Adjacent(r, d, e) == d < e /\ \A x \in Told(r) : x <= d \/ x >= e
Opening(r) == IF r \in Sent THEN "message" ELSE "started"
MayFollow == {<<"message", "started">>, <<"delta", "reply">>, <<"reply", "finished">>,
              <<"started", "finished">>}
             \cup ({"started", "delta"} \X {"delta", "failed", "interrupted"})

SomeoneInterrupts == \/ \E i \in Interrupter : calling[i].at # "call"
                     \/ \E e \in DOMAIN bus : bus[e].type = "interrupted"

\* A story that is told once and in order, from its first event to its last ...
Orderly(r) ==
  \A e \in Told(r) :
    /\ (\A d \in Told(r) : e <= d) => bus[e].type = Opening(r)
    /\ \A d \in Told(r) : Adjacent(r, d, e) => <<bus[d].type, bus[e].type>> \in MayFollow

\* ... and the ending that a run returns.
ReturnsEnding(r) ==
  /\ result[r] = "completed" => Ends(r, {"finished"})
  /\ result[r] = "failed" => Ends(r, {"failed"})
  /\ result[r] = "interrupted" =>
       \/ Ends(r, {"interrupted"})
       \/ Ends(r, {"started", "delta"}) /\ SomeoneInterrupts

\* What the room reads of a run is a whole story, told once and in order: its
\* message, that it started, what it says, and one ending; and what runTurn
\* returns is that ending.  Only an interrupt, whoever published it, may stand
\* for the ending of a run that returns as interrupted.
ToldInOrder == \A r \in Run : Orderly(r) /\ ReturnsEnding(r)

\* The record names a run only while it is on, or if its turn threw: a client
\* that joins is not shown a dead run as running.
RunningIsCurrent ==
  runningRunId # NoRun =>
    \/ result[runningRunId] = "threw"
    \/ \E n \in Node : /\ turn[n].run = runningRunId
                       /\ turn[n].at \notin {"idle", "mark", "close", "audit_close"}

\* An interrupt on the bus, from whatever instance, ends a run that listens,
\* however long the agent would go on.
InterruptEnds ==
  \A n \in Node :
    (/\ turn[n].at = "stream"
     /\ \E e \in DOMAIN bus : e > heard[n] /\ bus[e].type = "interrupted")
      ~> turn[n].at # "stream"

\* Claimed, and not kept.  session.ts, where a run closes: "A direct/cross-
\* instance interrupt already published its own event.  Preemption and lease
\* loss have no caller event, so close the run here."  That closing event is
\* itself an interrupt to whoever listens: it ends the run of the instance that
\* has the lease now, which then closes without an event.
InterruptedRunIsClosed ==
  \A r \in Run :
    result[r] = "interrupted" =>
      \/ \E e \in DOMAIN bus : bus[e].type = "interrupted" /\ bus[e].run = r
      \/ \E i \in Interrupter : calling[i].at # "call"

-----------------------------------------------------------------------------
(* The inductive invariant behind ToldInOrder; the proofs are in            *)
(* SessionRunProofs.                                                        *)

\* Of a run that has not begun the room has the message, if it was one.
Silent(r) == IF r \in Sent THEN Ends(r, {"message"}) ELSE Told(r) = {}

\* How far the story of turn t is, at each of its phases.
StorySoFar(t) ==
  /\ t.at \in {"mark", "announce"} => Silent(t.run) /\ t.said = 0
  /\ t.at \in {"audit", "prepare"} => Ends(t.run, {"started"}) /\ t.said = 0
  /\ t.at \in {"stream", "unmark"} => Ends(t.run, IF t.said = 0 THEN {"started"} ELSE {"delta"})
  /\ t.at = "close" =>
       \/ t.closing = <<"reply", "finished">> /\ Ends(t.run, {"delta"})
       \/ t.closing = <<"finished">> /\ Ends(t.run, {"started", "reply"})
       \/ t.closing \in {<<"failed">>, <<"interrupted">>} /\ Ends(t.run, {"started", "delta"})
       \/ t.closing = <<>> /\ t.signal = "interrupted" /\ Ends(t.run, {"started", "delta"})
  /\ t.at = "audit_close" => \E c \in Closers : t.closing = <<c>> /\ Ends(t.run, {c})

StoryInv ==
  /\ ToldInOrder
  /\ \A n \in Node : /\ StorySoFar(turn[n])
                     /\ turn[n].signal = "interrupted" => SomeoneInterrupts
  /\ \A m \in Sent : sending[m] = "publish" => Told(m) = {}
  /\ \A r \in Run :
       /\ result[r] = "none" /\ (\A n \in Node : turn[n].run # r)
       /\ r \in Sent => sending[r] # "publish"
       => Silent(r)
=============================================================================
