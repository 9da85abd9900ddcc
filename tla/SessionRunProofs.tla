-------------------------- MODULE SessionRunProofs --------------------------
(***************************************************************************)
(* Proofs about the runs of a session: that a run happens once, what an    *)
(* instance listens for, what the record names, and the story that the     *)
(* room is told.  TurnTaking's rules are all they use of the controllers.  *)
(***************************************************************************)
EXTENDS SessionRun, SequenceTheorems, TLAPS

(***************************************************************************)
(* Turns and events, as values.                                            *)
(***************************************************************************)
LEMMA IdleTurn == Idle \in Turn
<1>1. <<>> \in Seq(EventTypes)
  BY EmptySeq
<1> QED  BY <1>1, SessionAssumption DEF SessionAssumption, Idle, Turn, Phases, Signals

LEMMA BegunTurn ==
  ASSUME NEW r \in Run
  PROVE  LET u == [Idle EXCEPT !.at = "mark", !.run = r]
         IN  u \in Turn /\ u.at = "mark" /\ u.run = r /\ u.signal = "none" /\ u.said = 0
<1> QED  BY IdleTurn DEF Turn, Phases, Idle

LEMMA PhaseTurn ==
  ASSUME NEW t \in Turn, NEW p \in Phases
  PROVE  LET u == [t EXCEPT !.at = p]
         IN  /\ u \in Turn /\ u.at = p /\ u.run = t.run /\ u.signal = t.signal
             /\ u.said = t.said /\ u.failed = t.failed /\ u.closing = t.closing
BY DEF Turn

LEMMA AbortedTurn ==
  ASSUME NEW t \in Turn, NEW why \in {"interrupted", "lost"}
  PROVE  LET u == Aborted(t, why)
         IN  /\ u \in Turn /\ u.at = t.at /\ u.run = t.run
             /\ u.said = t.said /\ u.failed = t.failed /\ u.closing = t.closing
             /\ u.signal # t.signal => t.signal = "none" /\ u.signal = why
             /\ t = Idle => u = Idle
<1>1. CASE t.at # "idle" /\ t.signal = "none"
  BY <1>1 DEF Turn, Signals, Aborted, Idle
<1>2. CASE ~(t.at # "idle" /\ t.signal = "none")
  BY <1>2 DEF Aborted
<1> QED  BY <1>1, <1>2

LEMMA TurnTo ==
  ASSUME turn \in [Node -> Turn], NEW n \in Node, NEW u \in Turn,
         turn' = [turn EXCEPT ![n] = u]
  PROVE  /\ turn' \in [Node -> Turn] /\ turn'[n] = u
         /\ \A k \in Node \ {n} : turn'[k] = turn[k]
OBVIOUS

LEMMA Moved ==
  ASSUME turn \in [Node -> Turn], NEW n \in Node, NEW from, NEW to \in Phases,
         Phase(n, from, to)
  PROVE  /\ turn' \in [Node -> Turn] /\ \A k \in Node \ {n} : turn'[k] = turn[k]
         /\ turn[n].at = from /\ turn'[n].at = to /\ turn'[n].run = turn[n].run
         /\ turn'[n].signal = turn[n].signal /\ turn'[n].said = turn[n].said
         /\ turn'[n].failed = turn[n].failed /\ turn'[n].closing = turn[n].closing
<1> DEFINE u == [turn[n] EXCEPT !.at = to]
<1>1. turn' = [turn EXCEPT ![n] = u] /\ turn[n].at = from
  BY DEF Phase
<1>2. /\ u \in Turn /\ u.at = to /\ u.run = turn[n].run
      /\ u.signal = turn[n].signal /\ u.said = turn[n].said
      /\ u.failed = turn[n].failed /\ u.closing = turn[n].closing
  BY PhaseTurn
<1> HIDE DEF u
<1> QED  BY <1>1, <1>2, TurnTo

\* At most signals change, of turns that had not been aborted.
Stopping(why) ==
  /\ turn' \in [Node -> Turn]
  /\ \A k \in Node :
       /\ turn'[k].at = turn[k].at /\ turn'[k].run = turn[k].run
       /\ turn'[k].said = turn[k].said /\ turn'[k].closing = turn[k].closing
       /\ turn'[k].signal # turn[k].signal => turn[k].signal = "none" /\ turn'[k].signal = why
       /\ turn[k] = Idle => turn'[k] = Idle

LEMMA Stopped ==
  ASSUME turn \in [Node -> Turn], NEW n \in Node, NEW why \in {"interrupted", "lost"},
         turn' = [turn EXCEPT ![n] = Aborted(@, why)]
  PROVE  Stopping(why)
<1> DEFINE u == Aborted(turn[n], why)
<1>1. turn' = [turn EXCEPT ![n] = u]
  OBVIOUS
<1>2. /\ u \in Turn /\ u.at = turn[n].at /\ u.run = turn[n].run
      /\ u.said = turn[n].said /\ u.failed = turn[n].failed /\ u.closing = turn[n].closing
      /\ u.signal # turn[n].signal => turn[n].signal = "none" /\ u.signal = why
      /\ turn[n] = Idle => u = Idle
  BY AbortedTurn
<1> HIDE DEF u
<1>3. turn' \in [Node -> Turn] /\ turn'[n] = u /\ \A k \in Node \ {n} : turn'[k] = turn[k]
  BY <1>1, <1>2, TurnTo
<1> QED  BY <1>2, <1>3 DEF Stopping

LEMMA Appended ==
  ASSUME bus \in Seq(Event), NEW type \in EventTypes, NEW r \in Run \cup {Unknown},
         NEW by \in Interrupter \cup {NoRun}, Publishes(type, r, by)
  PROVE  /\ bus' \in Seq(Event) /\ Len(bus) \in Nat
         /\ DOMAIN bus = 1..Len(bus) /\ DOMAIN bus' = 1..(Len(bus) + 1)
         /\ \A e \in DOMAIN bus : bus'[e] = bus[e]
         /\ LET e == bus'[Len(bus) + 1] IN e.type = type /\ e.run = r /\ e.by = by
<1> DEFINE e == [type |-> type, run |-> r, by |-> by]
<1>1. e \in Event /\ bus' = Append(bus, e) /\ e.type = type /\ e.run = r /\ e.by = by
  BY DEF Publishes, Event
<1> HIDE DEF e
<1>2. /\ bus' \in Seq(Event) /\ Len(bus') = Len(bus) + 1 /\ bus'[Len(bus) + 1] = e
      /\ \A i \in 1..Len(bus) : bus'[i] = bus[i]
  BY <1>1, AppendProperties
<1>3. Len(bus) \in Nat /\ DOMAIN bus = 1..Len(bus) /\ DOMAIN bus' = 1..Len(bus')
  BY <1>2, LenProperties
<1> QED  BY <1>1, <1>2, <1>3

(***************************************************************************)
(* SessionInv: a run happens once; turns and listeners.                    *)
(***************************************************************************)
LEMMA TypeParts ==
  SessionInv => /\ SessionTypeOK /\ turn \in [Node -> Turn] /\ bus \in Seq(Event)
                /\ heard \in [Node -> Nat] /\ result \in [Run -> {"none", "busy",
                     "completed", "failed", "interrupted", "threw"}]
                /\ queue \in [Node -> SUBSET Sent] /\ calling \in [Interrupter -> Call]
                /\ sending \in [Sent -> {"publish", "submit", "done"}]
BY DEF SessionInv, SessionTypeOK

\* A turn that is on has a run, which has not returned, and which no other
\* instance has.
LEMMA OnTurn ==
  ASSUME SessionInv, NEW n \in Node, turn[n].at # "idle"
  PROVE  /\ turn[n].run \in Run /\ result[turn[n].run] = "none"
         /\ \A k \in Node \ {n} : turn[k].run # turn[n].run
         /\ \A m \in Sent : sending[m] # "done" => turn[n].run # m
         /\ \A k \in Node : \A m \in queue[k] : turn[n].run # m
BY DEF SessionInv, HappensOnce, Active

LEMMA OffTurn ==
  ASSUME SessionInv, NEW n \in Node, turn[n].at = "idle"
  PROVE  turn[n] = Idle /\ turn[n].run = NoRun /\ NoRun \notin Run
<1>1. turn[n] = Idle
  BY DEF SessionInv, HappensOnce, Active
<1>2. Idle.run = NoRun
  BY DEF Idle
<1> QED  BY <1>1, <1>2, SessionAssumption DEF SessionAssumption

\* Steps that begin and end no run.
LEMMA HappensKept ==
  ASSUME HappensOnce, result' = result, sending' = sending,
         \A k \in Node : queue'[k] \subseteq queue[k],
         \A k \in Node : /\ turn'[k].run = turn[k].run
                         /\ turn'[k].at # "idle" <=> turn[k].at # "idle"
                         /\ turn[k] = Idle => turn'[k] = Idle
  PROVE  HappensOnce'
BY DEF HappensOnce, Active

\* A step of run n that begins and ends no run.
GoesOn(n) ==
  /\ turn' \in [Node -> Turn] /\ \A k \in Node \ {n} : turn'[k] = turn[k]
  /\ turn[n].at # "idle" /\ turn'[n].at # "idle" /\ turn'[n].run = turn[n].run
  /\ UNCHANGED <<ttVars, queue, result, callers>>

Listening(k) == k \in listens <=> k \in spoiled \/ turn[k].at \in {"prepare", "stream"}

LEMMA RunInv ==
  ASSUME SessionInv, NEW n \in Node, GoesOn(n),
         runningRunId' \in Run \cup {NoRun}, bus' \in Seq(Event),
         heard' \in [Node -> Nat], listens' \subseteq Node, spoiled' = spoiled,
         \A k \in Node : Listening(k)'
  PROVE  SessionInv'
<1>1. SessionTypeOK'
  BY DEF SessionInv, SessionTypeOK, GoesOn, ttVars, callers
<1>2. HappensOnce'
  <2>1. \A k \in Node : /\ turn'[k].run = turn[k].run
                        /\ turn'[k].at # "idle" <=> turn[k].at # "idle"
                        /\ turn[k] = Idle => turn'[k] = Idle
    BY DEF Idle, GoesOn
  <2> QED  BY <2>1, HappensKept DEF SessionInv, callers, GoesOn
<1>3. (owner \notin overrun)'
  BY DEF SessionInv, ttVars, GoesOn
<1>4. \A k \in Node : (Active(k) <=> k = owner \/ k \in overrun)'
  BY DEF SessionInv, ttVars, Active, GoesOn
<1> QED  BY <1>1, <1>2, <1>3, <1>4 DEF SessionInv, Listening

\* The run neither begins nor ceases to listen.
LEMMA SameListeners ==
  ASSUME SessionInv, NEW n \in Node, GoesOn(n), UNCHANGED listening,
         turn[n].at \in {"prepare", "stream"} <=> turn'[n].at \in {"prepare", "stream"}
  PROVE  /\ \A k \in Node : Listening(k)'
         /\ heard' \in [Node -> Nat] /\ listens' \subseteq Node /\ spoiled' = spoiled
<1>1. \A k \in Node : Listening(k)
  BY DEF SessionInv, Listening
<1>2. listens' = listens /\ spoiled' = spoiled /\ heard' = heard
  BY DEF listening
<1>3. \A k \in Node : Listening(k)'
  BY <1>1, <1>2 DEF Listening, GoesOn
<1> QED  BY <1>2, <1>3 DEF SessionInv, SessionTypeOK

LEMMA MarksInv ==
  ASSUME SessionInv, NEW n \in Node, RunMarks(n)
  PROVE  SessionInv' /\ GoesOn(n)
<1>1. Phase(n, "mark", "announce") /\ "announce" \in Phases
  BY DEF RunMarks, Phases
<1>2. turn[n].run \in Run
  BY <1>1, OnTurn DEF Phase
<1>3. GoesOn(n) /\ turn[n].at = "mark" /\ turn'[n].at = "announce"
  BY <1>1, Moved, TypeParts DEF RunMarks, GoesOn
<1>4. runningRunId' \in Run \cup {NoRun} /\ bus' \in Seq(Event)
  BY <1>2, TypeParts DEF RunMarks, Records
<1>5. UNCHANGED listening
  BY DEF RunMarks
<1> QED  BY <1>3, <1>4, <1>5, SameListeners, RunInv

LEMMA AnnouncesInv ==
  ASSUME SessionInv, NEW n \in Node, RunAnnounces(n)
  PROVE  SessionInv' /\ GoesOn(n)
<1>1. Phase(n, "announce", "audit") /\ "audit" \in Phases
  BY DEF RunAnnounces, Phases
<1>2. turn[n].run \in Run
  BY <1>1, OnTurn DEF Phase
<1>3. GoesOn(n) /\ turn[n].at = "announce" /\ turn'[n].at = "audit"
  BY <1>1, Moved, TypeParts DEF RunAnnounces, GoesOn
<1>4. runningRunId' \in Run \cup {NoRun}
  BY DEF RunAnnounces, SessionInv, SessionTypeOK
<1>5. bus' \in Seq(Event)
  BY <1>2, Appended, TypeParts DEF RunAnnounces, EventTypes
<1>6. UNCHANGED listening
  BY DEF RunAnnounces
<1> QED  BY <1>3, <1>4, <1>5, <1>6, SameListeners, RunInv

LEMMA PreparesInv ==
  ASSUME SessionInv, NEW n \in Node, RunPrepares(n)
  PROVE  SessionInv' /\ GoesOn(n)
<1>1. Phase(n, "prepare", "stream") /\ "stream" \in Phases
  BY DEF RunPrepares, Phases
<1>2. GoesOn(n) /\ turn[n].at = "prepare" /\ turn'[n].at = "stream"
  BY <1>1, Moved, TypeParts DEF RunPrepares, GoesOn
<1>3. runningRunId' \in Run \cup {NoRun} /\ bus' \in Seq(Event)
  BY DEF RunPrepares, outside, SessionInv, SessionTypeOK
<1>4. UNCHANGED listening
  BY DEF RunPrepares
<1> QED  BY <1>2, <1>3, <1>4, SameListeners, RunInv

LEMMA ClosingType ==
  ASSUME NEW t
  PROVE  Closing(t) \in Seq(EventTypes)
<1>1. \A a, b \in EventTypes : <<a>> \in Seq(EventTypes) /\ <<a, b>> \in Seq(EventTypes)
  OBVIOUS
<1>2. <<>> \in Seq(EventTypes)
  BY EmptySeq
<1>3. {"failed", "interrupted", "reply", "finished"} \subseteq EventTypes
  BY DEF EventTypes
<1> QED  BY <1>1, <1>2, <1>3 DEF Closing

LEMMA UnmarksInv ==
  ASSUME SessionInv, NEW n \in Node, RunUnmarks(n)
  PROVE  /\ SessionInv' /\ GoesOn(n) /\ turn[n].at = "unmark" /\ turn'[n].at = "close"
         /\ turn'[n].closing = Closing(turn[n]) /\ turn'[n].signal = turn[n].signal
<1> DEFINE u == [turn[n] EXCEPT !.at = "close", !.closing = Closing(turn[n])]
<1>1. /\ u \in Turn /\ u.at = "close" /\ u.run = turn[n].run
      /\ u.closing = Closing(turn[n]) /\ u.signal = turn[n].signal
  BY ClosingType, TypeParts DEF Turn, Phases
<1>2. turn' = [turn EXCEPT ![n] = u] /\ turn[n].at = "unmark"
  BY DEF RunUnmarks
<1> HIDE DEF u
<1>3. /\ GoesOn(n) /\ turn'[n] = u
  BY <1>1, <1>2, TurnTo, TypeParts DEF RunUnmarks, GoesOn
<1>4. runningRunId' \in Run \cup {NoRun} /\ bus' \in Seq(Event)
  BY TypeParts DEF RunUnmarks, Records
<1>5. UNCHANGED listening
  BY DEF RunUnmarks
<1> QED  BY <1>1, <1>2, <1>3, <1>4, <1>5, SameListeners, RunInv

LEMMA AuditsInv ==
  ASSUME SessionInv, NEW n \in Node, RunAudits(n)
  PROVE  SessionInv' /\ GoesOn(n)
<1>1. Phase(n, "audit", "prepare") /\ "prepare" \in Phases
  BY DEF RunAudits, Phases
<1>2. DOMAIN bus = 1..Len(bus) /\ Len(bus) \in Nat
  BY LenProperties, TypeParts
<1>3. heard' \in [Node -> Nat]
  <2>1. PICK told \in {k - 1 : k \in {k \in DOMAIN bus : bus[k].type = "interrupted"}} \cup {Len(bus)} :
          heard' = [heard EXCEPT ![n] = IF n \in listens THEN @ ELSE told]
    BY DEF RunAudits
  <2>2. told \in Nat
    BY <1>2
  <2> QED  BY <2>1, <2>2, TypeParts
<1>4. listens' = listens \cup {n} /\ listens' \subseteq Node /\ spoiled' = spoiled
  BY DEF RunAudits, SessionInv, SessionTypeOK
<1>5. GoesOn(n) /\ turn[n].at = "audit" /\ turn'[n].at = "prepare"
  BY <1>1, Moved, TypeParts DEF RunAudits, GoesOn
<1>6. runningRunId' \in Run \cup {NoRun} /\ bus' \in Seq(Event)
  BY DEF RunAudits, SessionInv, SessionTypeOK
<1>7. \A k \in Node : Listening(k)'
  <2>1. \A k \in Node : Listening(k)
    BY DEF SessionInv, Listening
  <2> QED  BY <2>1, <1>4, <1>5 DEF Listening, GoesOn
<1> QED  BY <1>3, <1>4, <1>5, <1>6, <1>7, RunInv

LEMMA SaysInv ==
  ASSUME SessionInv, NEW n \in Node, RunSays(n)
  PROVE  /\ SessionInv' /\ GoesOn(n) /\ turn[n].at = "stream" /\ turn'[n].at = "stream"
         /\ turn'[n].said = turn[n].said + 1 /\ turn[n].said \in Nat
         /\ turn'[n].signal = turn[n].signal
<1> DEFINE u == [turn[n] EXCEPT !.said = @ + 1]
<1>1. /\ u \in Turn /\ u.at = turn[n].at /\ u.run = turn[n].run
      /\ u.said = turn[n].said + 1 /\ turn[n].said \in Nat /\ u.signal = turn[n].signal
  <2>1. turn[n] \in Turn /\ turn[n].said < MaxDeltas /\ MaxDeltas \in Nat
    BY SessionAssumption, TypeParts DEF RunSays, SessionAssumption
  <2>2. turn[n].said \in 0..MaxDeltas
    BY <2>1 DEF Turn
  <2>3. turn[n].said + 1 \in 0..MaxDeltas /\ turn[n].said \in Nat
    BY <2>1, <2>2
  <2> QED  BY <2>1, <2>3 DEF Turn
<1>2. turn' = [turn EXCEPT ![n] = u] /\ turn[n].at = "stream"
  BY DEF RunSays
<1>3. bus' \in Seq(Event)
  BY <1>2, OnTurn, Appended, TypeParts DEF RunSays, EventTypes
<1> HIDE DEF u
<1>4. GoesOn(n) /\ turn'[n] = u
  BY <1>1, <1>2, TurnTo, TypeParts DEF RunSays, GoesOn
<1>5. runningRunId' \in Run \cup {NoRun}
  BY DEF RunSays, SessionInv, SessionTypeOK
<1>6. UNCHANGED listening
  BY DEF RunSays
<1> QED  BY <1>1, <1>2, <1>3, <1>4, <1>5, <1>6, SameListeners, RunInv

LEMMA EndsInv ==
  ASSUME SessionInv, NEW n \in Node, NEW failed \in BOOLEAN, StreamEnds(n, failed)
  PROVE  /\ SessionInv' /\ GoesOn(n) /\ turn[n].at = "stream" /\ turn'[n].at = "unmark"
         /\ turn'[n].said = turn[n].said /\ turn'[n].signal = turn[n].signal
<1> DEFINE u == [turn[n] EXCEPT !.at = "unmark", !.failed = failed]
<1>1. /\ u \in Turn /\ u.at = "unmark" /\ u.run = turn[n].run /\ u.said = turn[n].said
      /\ u.signal = turn[n].signal
  BY TypeParts DEF Turn, Phases
<1>2. turn' = [turn EXCEPT ![n] = u] /\ turn[n].at = "stream"
  BY DEF StreamEnds
<1>3. heard' \in [Node -> Nat] /\ listens' \subseteq Node /\ spoiled' = spoiled
      /\ listens' = IF n \in spoiled THEN listens ELSE listens \ {n}
  BY DEF StreamEnds, StopsListening, SessionInv, SessionTypeOK
<1> HIDE DEF u
<1>4. GoesOn(n) /\ turn'[n] = u
  BY <1>1, <1>2, TurnTo, TypeParts DEF StreamEnds, GoesOn
<1>5. runningRunId' \in Run \cup {NoRun} /\ bus' \in Seq(Event)
  BY DEF StreamEnds, outside, SessionInv, SessionTypeOK
<1>6. \A k \in Node : Listening(k)'
  <2>1. \A k \in Node : Listening(k)
    BY DEF SessionInv, Listening
  <2> QED  BY <2>1, <1>1, <1>2, <1>3, <1>4 DEF Listening, GoesOn
<1> QED  BY <1>1, <1>2, <1>3, <1>4, <1>5, <1>6, RunInv

LEMMA ClosesInv ==
  ASSUME SessionInv, NEW n \in Node, RunCloses(n)
  PROVE  /\ SessionInv' /\ GoesOn(n) /\ turn[n].at = "close"
         /\ Head(turn[n].closing) \in EventTypes
         /\ turn'[n].signal = turn[n].signal
         /\ IF Len(turn[n].closing) = 1
              THEN turn'[n].at = "audit_close" /\ turn'[n].closing = turn[n].closing
              ELSE turn'[n].at = "close" /\ turn'[n].closing = Tail(turn[n].closing)
<1>1. turn[n].closing \in Seq(EventTypes) /\ turn[n].closing # <<>>
      /\ turn[n].at = "close" /\ turn[n] \in Turn
  BY TypeParts DEF RunCloses, Turn
<1>2. Head(turn[n].closing) \in EventTypes /\ Tail(turn[n].closing) \in Seq(EventTypes)
  BY <1>1, HeadTailProperties
<1>3. bus' \in Seq(Event)
  BY <1>1, <1>2, OnTurn, Appended, TypeParts DEF RunCloses
<1>4. PICK u \in Turn : 
        /\ turn' = [turn EXCEPT ![n] = u]
        /\ u.run = turn[n].run /\ u.signal = turn[n].signal
        /\ IF Len(turn[n].closing) = 1
              THEN u.at = "audit_close" /\ u.closing = turn[n].closing
              ELSE u.at = "close" /\ u.closing = Tail(turn[n].closing)
  <2> DEFINE v == [turn[n] EXCEPT !.closing = Tail(@)]
             w == [turn[n] EXCEPT !.at = "audit_close"]
  <2>1. /\ v \in Turn /\ v.at = "close" /\ v.run = turn[n].run
        /\ v.signal = turn[n].signal /\ v.closing = Tail(turn[n].closing)
    BY <1>1, <1>2 DEF Turn
  <2>2. /\ w \in Turn /\ w.at = "audit_close" /\ w.run = turn[n].run
        /\ w.signal = turn[n].signal /\ w.closing = turn[n].closing
    BY <1>1, PhaseTurn DEF Phases
  <2>3. turn' = IF Len(turn[n].closing) = 1 THEN [turn EXCEPT ![n] = w]
                                            ELSE [turn EXCEPT ![n] = v]
    BY DEF RunCloses
  <2> HIDE DEF v, w
  <2> QED  BY <2>1, <2>2, <2>3
<1>5. turn' \in [Node -> Turn] /\ turn'[n] = u /\ \A k \in Node \ {n} : turn'[k] = turn[k]
  BY <1>4, TurnTo, TypeParts
<1>6. GoesOn(n)
  BY <1>1, <1>4, <1>5 DEF RunCloses, GoesOn
<1>7. runningRunId' \in Run \cup {NoRun}
  BY DEF RunCloses, SessionInv, SessionTypeOK
<1>8. UNCHANGED listening
  BY DEF RunCloses
<1> QED  BY <1>1, <1>2, <1>3, <1>4, <1>5, <1>6, <1>7, <1>8, SameListeners, RunInv

\* A step that begins and ends no run and moves none: it may abort one.
Quiet ==
  /\ turn' \in [Node -> Turn] /\ queue' \in [Node -> SUBSET Sent]
  /\ \A k \in Node : /\ turn'[k].at = turn[k].at /\ turn'[k].run = turn[k].run
                     /\ turn[k] = Idle => turn'[k] = Idle
                     /\ queue'[k] \subseteq queue[k]
  /\ UNCHANGED <<result, sending, runningRunId, listens, spoiled>>

LEMMA QuietInv ==
  ASSUME SessionInv, Quiet, calling' \in [Interrupter -> Call], bus' \in Seq(Event),
         heard' \in [Node -> Nat], owner' \in Node \cup {NoOne}, overrun' \subseteq Node,
         owner' \notin overrun',
         \A k \in Node : k = owner' \/ k \in overrun' <=> k = owner \/ k \in overrun
  PROVE  SessionInv'
<1>1. SessionTypeOK'
  BY DEF SessionInv, SessionTypeOK, Quiet
<1>2. HappensOnce'
  BY HappensKept DEF SessionInv, Quiet
<1>3. \A k \in Node : Active(k)' <=> Active(k)
  BY DEF Quiet, Active
<1>4. \A k \in Node : Listening(k)'
  BY DEF SessionInv, Quiet, Listening
<1> QED  BY <1>1, <1>2, <1>3, <1>4 DEF SessionInv, Listening

LEMMA SameOwner ==
  ASSUME SessionInv, UNCHANGED ttVars
  PROVE  /\ owner' \in Node \cup {NoOne} /\ overrun' \subseteq Node
         /\ owner' \notin overrun'
         /\ \A k \in Node : k = owner' \/ k \in overrun' <=> k = owner \/ k \in overrun
BY DEF SessionInv, SessionTypeOK, ttVars

\* turns.interrupt: whom it aborts had not been aborted before.
LEMMA InterruptQuiet ==
  ASSUME SessionInv, NEW n \in Node, InterruptsTurns(n),
         UNCHANGED <<sending, runningRunId, listens, spoiled>>
  PROVE  Quiet /\ Stopping("interrupted")
<1>1. turn' = [turn EXCEPT ![n] = Aborted(@, "interrupted")]
  BY DEF InterruptsTurns
<1>2. queue' \in [Node -> SUBSET Sent] /\ \A k \in Node : queue'[k] \subseteq queue[k]
  BY TypeParts DEF InterruptsTurns
<1>3. Stopping("interrupted")
  BY <1>1, Stopped, TypeParts
<1> QED  BY <1>2, <1>3 DEF InterruptsTurns, Quiet, Stopping

LEMMA SameQuiet ==
  ASSUME SessionInv, UNCHANGED <<turns, sending, runningRunId, listens, spoiled>>
  PROVE  Quiet /\ \A why : Stopping(why)
BY TypeParts DEF Quiet, Stopping, turns

LEMMA CallMoves ==
  ASSUME SessionInv, NEW i \in Interrupter, NEW c \in Call,
         calling' = [calling EXCEPT ![i] = c]
  PROVE  /\ calling' \in [Interrupter -> Call] /\ calling'[i] = c
         /\ \A j \in Interrupter \ {i} : calling'[j] = calling[j]
BY TypeParts

LEMMA CalledInv ==
  ASSUME SessionInv, NEW i \in Interrupter, InterruptCalled(i)
  PROVE  /\ SessionInv' /\ Quiet /\ calling'[i].at # "call"
         /\ \A j \in Interrupter \ {i} : calling'[j] = calling[j]
<1>1. Home[i] \in Node
  BY SessionAssumption DEF SessionAssumption
<1>2. Quiet
  BY <1>1, InterruptQuiet DEF InterruptCalled, outside, listening
<1> DEFINE c == [calling[i] EXCEPT !.at = "read"]
<1>3. c \in Call /\ c.at = "read" /\ calling' = [calling EXCEPT ![i] = c]
  BY TypeParts DEF InterruptCalled, Call
<1> HIDE DEF c
<1>4. bus' \in Seq(Event) /\ heard' \in [Node -> Nat] /\ UNCHANGED ttVars
  BY TypeParts DEF InterruptCalled, outside, listening
<1> QED  BY <1>2, <1>3, <1>4, CallMoves, QuietInv, SameOwner

LEMMA ReadsInv ==
  ASSUME SessionInv, NEW i \in Interrupter, InterruptReads(i)
  PROVE  /\ SessionInv' /\ Quiet /\ calling'[i].at # "call"
         /\ \A j \in Interrupter \ {i} : calling'[j] = calling[j]
<1> DEFINE c == [at |-> "publish", named |-> IF runningRunId = NoRun THEN Unknown ELSE runningRunId]
<1>1. Quiet
  BY SameQuiet DEF InterruptReads, outside, listening
<1>2. c \in Call /\ c.at = "publish" /\ calling' = [calling EXCEPT ![i] = c]
  BY DEF InterruptReads, Call, SessionInv, SessionTypeOK
<1> HIDE DEF c
<1>3. bus' \in Seq(Event) /\ heard' \in [Node -> Nat] /\ UNCHANGED ttVars
  BY TypeParts DEF InterruptReads, outside, listening
<1> QED  BY <1>1, <1>2, <1>3, CallMoves, QuietInv, SameOwner

LEMMA PublishesInv ==
  ASSUME SessionInv, NEW i \in Interrupter, InterruptPublishes(i)
  PROVE  /\ SessionInv' /\ Quiet /\ calling'[i].at # "call" /\ calling[i].named \in Run \cup {Unknown}
         /\ \A j \in Interrupter \ {i} : calling'[j] = calling[j]
<1> DEFINE c == [calling[i] EXCEPT !.at = "done"]
<1>1. Quiet
  BY SameQuiet DEF InterruptPublishes, listening
<1>2. calling[i].named \in Run \cup {Unknown}
  BY TypeParts DEF Call
<1>3. c \in Call /\ c.at = "done" /\ calling' = [calling EXCEPT ![i] = c]
  BY TypeParts DEF InterruptPublishes, Call
<1> HIDE DEF c
<1>4. bus' \in Seq(Event)
  BY <1>2, Appended, TypeParts DEF InterruptPublishes, EventTypes
<1>5. heard' \in [Node -> Nat] /\ UNCHANGED ttVars
  BY TypeParts DEF InterruptPublishes, listening
<1> QED  BY <1>1, <1>2, <1>3, <1>4, <1>5, CallMoves, QuietInv, SameOwner

LEMMA HearsQuiet ==
  ASSUME SessionInv, NEW n \in Node, Hears(n)
  PROVE  /\ SessionInv' /\ Quiet
         /\ \/ UNCHANGED turns
            \/ InterruptsTurns(n) /\ \E e \in DOMAIN bus : bus[e].type = "interrupted"
<1>1. PICK e \in DOMAIN bus :
        /\ bus[e].type = "interrupted" /\ heard' = [heard EXCEPT ![n] = e]
        /\ InterruptsTurns(n) \/ UNCHANGED turns
  BY DEF Hears, HearsOf
<1>2. UNCHANGED <<ttVars, outside, listens, spoiled, callers>>
  BY DEF Hears, HearsOf
<1>3. Quiet
  BY <1>1, <1>2, InterruptQuiet, SameQuiet DEF callers, outside
<1>4. e \in Nat
  BY LenProperties, TypeParts
<1>5. heard' \in [Node -> Nat]
  BY <1>1, <1>4, TypeParts
<1>6. calling' \in [Interrupter -> Call] /\ bus' \in Seq(Event)
  BY <1>2, TypeParts DEF callers, outside
<1>7. SessionInv'
  BY <1>2, <1>3, <1>5, <1>6, QuietInv, SameOwner
<1> QED  BY <1>1, <1>3, <1>7

LEMMA LapsesInv ==
  ASSUME SessionInv, NEW n \in Node, LeaseLapses(n)
  PROVE  SessionInv' /\ Quiet
<1>1. Lapse(n) /\ UNCHANGED <<turns, outside, listening, callers>>
  BY DEF LeaseLapses
<1>2. Quiet
  BY <1>1, SameQuiet DEF outside, listening, callers
<1>3. /\ owner' = NoOne /\ overrun' = overrun \cup {n} /\ owner = n /\ NoOne \notin Node
      /\ overrun' \subseteq Node
  BY <1>1, SessionAssumption DEF Lapse, SessionAssumption, SessionInv, SessionTypeOK
<1>4. \A k \in Node : k = owner' \/ k \in overrun' <=> k = owner \/ k \in overrun
  BY <1>3
<1>5. calling' \in [Interrupter -> Call] /\ bus' \in Seq(Event) /\ heard' \in [Node -> Nat]
  BY <1>1, TypeParts DEF callers, outside, listening
<1> QED  BY <1>2, <1>3, <1>4, <1>5, QuietInv

LEMMA FoundLostInv ==
  ASSUME SessionInv, NEW n \in Node, LeaseFoundLost(n)
  PROVE  SessionInv' /\ Quiet /\ Stopping("lost")
<1>1. turn' = [turn EXCEPT ![n] = Aborted(@, "lost")]
      /\ UNCHANGED <<ttVars, queue, result, outside, listening, callers>>
  BY DEF LeaseFoundLost
<1>2. Stopping("lost")
  BY <1>1, Stopped, TypeParts
<1>3. Quiet
  BY <1>1, <1>2, TypeParts DEF Quiet, Stopping, outside, listening, callers
<1>4. calling' \in [Interrupter -> Call] /\ bus' \in Seq(Event) /\ heard' \in [Node -> Nat]
  BY <1>1, TypeParts DEF callers, outside, listening
<1> QED  BY <1>1, <1>2, <1>3, <1>4, QuietInv, SameOwner

LEMMA SendPublishesInv ==
  ASSUME SessionInv, NEW m \in Sent, SendPublishes(m)
  PROVE  SessionInv'
<1>1. /\ UNCHANGED <<ttVars, queue, turn, result, runningRunId, listening, calling>>
      /\ sending[m] = "publish" /\ sending' = [sending EXCEPT ![m] = "submit"]
  BY DEF SendPublishes, turns
<1>2. bus' \in Seq(Event)
  BY Appended, TypeParts DEF SendPublishes, EventTypes, Run
<1>3. SessionTypeOK'
  BY <1>1, <1>2 DEF SessionInv, SessionTypeOK, ttVars, listening
<1>4. HappensOnce'
  <2>1. \A k \in Sent : sending'[k] = "done" <=> sending[k] = "done"
    BY <1>1, TypeParts
  <2>2. \A k \in Node : queue[k] \subseteq Sent
    BY TypeParts
  <2> QED  BY <1>1, <2>1, <2>2 DEF SessionInv, HappensOnce, Active
<1> QED  BY <1>1, <1>3, <1>4 DEF SessionInv, Active, ttVars, listening

LEMMA SendSubmitsInv ==
  ASSUME SessionInv, NEW m \in Sent, SendSubmits(m)
  PROVE  SessionInv'
<1>1. /\ UNCHANGED <<ttVars, turn, result, runningRunId, bus, listening, calling>>
      /\ sending[m] = "submit" /\ sending' = [sending EXCEPT ![m] = "done"]
      /\ queue' = [queue EXCEPT ![Home[m]] = @ \cup ({m} \cap Addressed)]
  BY DEF SendSubmits
<1>2. Home[m] \in Node
  BY SessionAssumption DEF SessionAssumption
<1>3. SessionTypeOK'
  BY <1>1 DEF SessionInv, SessionTypeOK, ttVars, listening
<1>4. HappensOnce'
  <2>1. \A k \in Sent \ {m} : sending'[k] = sending[k]
    BY <1>1, TypeParts
  <2>2. sending'[m] = "done" /\ result[m] = "none" /\ \A k \in Node : turn[k].run # m
    BY <1>1, TypeParts DEF SessionInv, HappensOnce
  <2>3. \A k \in Node : \A x \in queue'[k] : x \in queue[k] \/ (x = m /\ k = Home[m])
    BY <1>1, <1>2, TypeParts
  <2>4. \A k \in Node : queue[k] \subseteq Sent
    BY TypeParts
  <2>5. \A k \in Node : \A x \in queue'[k] :
          /\ k = Home[x] /\ sending'[x] = "done" /\ result[x] = "none"
          /\ \A j \in Node : turn[j].run # x
    <3> SUFFICES ASSUME NEW k \in Node, NEW x \in queue'[k]
                 PROVE  /\ k = Home[x] /\ sending'[x] = "done" /\ result[x] = "none"
                        /\ \A j \in Node : turn[j].run # x
      OBVIOUS
    <3>1. CASE x = m /\ k = Home[m]
      BY <3>1, <2>2
    <3>2. CASE x # m /\ x \in queue[k]
      BY <3>2, <2>1, <2>4 DEF SessionInv, HappensOnce
    <3>3. CASE x = m /\ x \in queue[k]
      BY <3>3, <2>2 DEF SessionInv, HappensOnce
    <3> QED  BY <3>1, <3>2, <3>3, <2>3
  <2>6. \A x \in Sent : sending'[x] # "done" =>
          result[x] = "none" /\ \A k \in Node : turn[k].run # x
    BY <2>1, <2>2 DEF SessionInv, HappensOnce
  <2> QED  BY <1>1, <2>5, <2>6 DEF SessionInv, HappensOnce, Active
<1> QED  BY <1>1, <1>3, <1>4 DEF SessionInv, Active, ttVars, listening

\* A turn begins with a run that is in no other, and leaves its queue.
LEMMA StartInv ==
  ASSUME SessionInv, NEW n \in Node, NEW r \in Run, Starts(n, r), UNCHANGED result,
         result[r] = "none", \A k \in Node : turn[k].run # r,
         r \in Sent => sending[r] = "done",
         queue' \in [Node -> SUBSET Sent],
         \A k \in Node : queue'[k] \subseteq queue[k] /\ r \notin queue'[k]
  PROVE  /\ SessionInv' /\ turn[n].at = "idle" /\ turn'[n].at = "mark" /\ turn'[n].run = r
         /\ turn'[n].signal = "none" /\ turn'[n].said = 0
         /\ \A k \in Node \ {n} : turn'[k] = turn[k]
<1> DEFINE u == [Idle EXCEPT !.at = "mark", !.run = r]
<1>1. u \in Turn /\ u.at = "mark" /\ u.run = r /\ u.signal = "none" /\ u.said = 0
  BY BegunTurn
<1>2. /\ turn' = [turn EXCEPT ![n] = u] /\ turn[n].at = "idle" /\ Begin(n)
      /\ UNCHANGED <<outside, listening, callers>>
  BY DEF Starts, Active
<1> HIDE DEF u
<1>3. turn' \in [Node -> Turn] /\ turn'[n] = u /\ \A k \in Node \ {n} : turn'[k] = turn[k]
  BY <1>1, <1>2, TurnTo, TypeParts
<1>4. owner' = n /\ overrun' = overrun /\ owner = NoOne /\ n \notin overrun
  BY <1>2 DEF Begin
<1>5. SessionTypeOK'
  BY <1>2, <1>3, <1>4 DEF SessionInv, SessionTypeOK, outside, listening, callers
<1>6. HappensOnce'
  <2>1. \A k \in Node : \A x \in queue'[k] :
          /\ k = Home[x] /\ sending[x] = "done" /\ result[x] = "none"
          /\ \A j \in Node : turn'[j].run # x
    <3> SUFFICES ASSUME NEW k \in Node, NEW x \in queue'[k], NEW j \in Node
                 PROVE  /\ k = Home[x] /\ sending[x] = "done" /\ result[x] = "none"
                        /\ turn'[j].run # x
      OBVIOUS
    <3>1. x \in queue[k] /\ x # r
      OBVIOUS
    <3> QED  BY <3>1, <1>1, <1>3 DEF SessionInv, HappensOnce
  <2>2. \A x \in Sent : sending[x] # "done" =>
          result[x] = "none" /\ \A k \in Node : turn'[k].run # x
    BY <1>1, <1>3 DEF SessionInv, HappensOnce
  <2>3. \A k \in Node : IF turn'[k].at # "idle" THEN turn'[k].run \in Run /\ result[turn'[k].run] = "none"
                                                ELSE turn'[k] = Idle
    BY <1>1, <1>3 DEF SessionInv, HappensOnce, Active
  <2>4. \A k, j \in Node : k # j /\ turn'[k].at # "idle" => turn'[k].run # turn'[j].run
    BY <1>1, <1>3 DEF SessionInv, HappensOnce, Active
  <2> QED  BY <1>2, <2>1, <2>2, <2>3, <2>4 DEF HappensOnce, Active, callers
<1>7. \A k \in Node : (Active(k) <=> k = owner \/ k \in overrun)'
  BY <1>1, <1>3, <1>4, SessionAssumption DEF SessionInv, Active, SessionAssumption
<1>8. \A k \in Node : Listening(k)'
  BY <1>1, <1>2, <1>3 DEF SessionInv, Listening, listening
<1> QED  BY <1>1, <1>2, <1>3, <1>4, <1>5, <1>6, <1>7, <1>8 DEF SessionInv, Listening

LEMMA TurnStartsInv ==
  ASSUME SessionInv, NEW n \in Node, NEW m \in Run, TurnStarts(n, m)
  PROVE  /\ SessionInv' /\ turn[n].at = "idle" /\ turn'[n].at = "mark" /\ turn'[n].run = m
         /\ turn'[n].signal = "none" /\ turn'[n].said = 0
         /\ \A k \in Node \ {n} : turn'[k] = turn[k]
         /\ result[m] = "none" /\ sending[m] = "done" /\ \A k \in Node : turn[k].run # m
<1>1. m \in queue[n] /\ queue' = [queue EXCEPT ![n] = @ \ {m}]
      /\ Starts(n, m) /\ UNCHANGED result
  BY DEF TurnStarts
<1>2. /\ n = Home[m] /\ sending[m] = "done" /\ result[m] = "none"
      /\ \A k \in Node : turn[k].run # m
      /\ \A k \in Node : m \in queue[k] => k = n
  BY <1>1 DEF SessionInv, HappensOnce
<1>3. /\ queue' \in [Node -> SUBSET Sent]
      /\ \A k \in Node : queue'[k] \subseteq queue[k] /\ m \notin queue'[k]
  BY <1>1, <1>2, TypeParts
<1> QED  BY <1>1, <1>2, <1>3, StartInv

LEMMA BatchStartsInv ==
  ASSUME SessionInv, NEW n \in Node, NEW b \in Batch, BatchStarts(n, b)
  PROVE  /\ SessionInv' /\ result[b] = "none" /\ b \notin Sent
         /\ \A k \in Node : turn[k].run # b
         /\ \/ /\ turn[n].at = "idle" /\ turn'[n].at = "mark" /\ turn'[n].run = b
               /\ turn'[n].signal = "none" /\ turn'[n].said = 0
               /\ \A k \in Node \ {n} : turn'[k] = turn[k]
               /\ UNCHANGED <<result, bus, callers>>
            \/ /\ result' = [result EXCEPT ![b] = "busy"]
               /\ UNCHANGED <<turn, bus, callers>>
<1>1. /\ result[b] = "none" /\ (\A k \in Node : turn[k].run # b) /\ UNCHANGED queue
      /\ b \in Run /\ b \notin Sent
  BY SessionAssumption DEF BatchStarts, Run, SessionAssumption
<1>2. queue' \in [Node -> SUBSET Sent]
      /\ \A k \in Node : queue'[k] \subseteq queue[k] /\ b \notin queue'[k]
  BY <1>1, TypeParts
<1>3. CASE Starts(n, b) /\ UNCHANGED result
  <2>1. UNCHANGED <<bus, callers>>
    BY <1>3 DEF Starts, outside
  <2> QED  BY <1>1, <1>2, <1>3, <2>1, StartInv
<1>4. CASE /\ result' = [result EXCEPT ![b] = "busy"]
           /\ UNCHANGED <<ttVars, turn, outside, listening, callers>>
  <2>1. \A r \in Run \ {b} : result'[r] = result[r]
    BY <1>4, TypeParts
  <2>2. SessionTypeOK'
    BY <1>1, <1>4 DEF SessionInv, SessionTypeOK, ttVars, outside, listening, callers
  <2>3. HappensOnce'
    <3>1. \A k \in Node : \A x \in queue[k] : x \in Run /\ x # b
      BY <1>1, TypeParts DEF Run
    <3>2. Sent \subseteq Run
      BY DEF Run
    <3> QED  BY <1>1, <1>4, <2>1, <3>1, <3>2 DEF SessionInv, HappensOnce, Active, callers
  <2>4. SessionInv'
    BY <1>4, <2>2, <2>3 DEF SessionInv, Active, ttVars, listening
  <2> QED  BY <1>1, <1>4, <2>4 DEF outside
<1> QED  BY <1>3, <1>4 DEF BatchStarts

\* A turn ends: its run has returned, and the instance counts no more.
LEMMA LeaveInv ==
  ASSUME SessionInv, NEW n \in Node, turn[n].at # "idle",
         NEW status \in {"completed", "failed", "interrupted", "threw"}, Leaves(n, status),
         heard' = heard, listens' = listens, spoiled' \subseteq Node,
         \A k \in Node : Listening(k)'
  PROVE  /\ SessionInv' /\ turn'[n] = Idle /\ result'[turn[n].run] = status
         /\ \A k \in Node \ {n} : turn'[k] = turn[k]
         /\ \A r \in Run \ {turn[n].run} : result'[r] = result[r]
<1>1. /\ turn' = [turn EXCEPT ![n] = Idle]
      /\ result' = [result EXCEPT ![turn[n].run] = status]
      /\ End(n) /\ UNCHANGED <<queue, runningRunId, bus, callers>>
  BY DEF Leaves
<1>2. /\ turn[n].run \in Run /\ \A k \in Node \ {n} : turn[k].run # turn[n].run
      /\ \A m \in Sent : sending[m] # "done" => turn[n].run # m
      /\ \A k \in Node : \A m \in queue[k] : turn[n].run # m
  BY OnTurn
<1>3. turn' \in [Node -> Turn] /\ turn'[n] = Idle /\ \A k \in Node \ {n} : turn'[k] = turn[k]
  BY <1>1, IdleTurn, TurnTo, TypeParts
<1>4. /\ result'[turn[n].run] = status /\ \A r \in Run \ {turn[n].run} : result'[r] = result[r]
      /\ result' \in [Run -> {"none", "busy", "completed", "failed", "interrupted", "threw"}]
  BY <1>1, <1>2, TypeParts
<1>5. /\ owner' \in Node \cup {NoOne} /\ overrun' \subseteq Node /\ owner' \notin overrun'
      /\ ~(n = owner' \/ n \in overrun')
      /\ \A k \in Node \ {n} : k = owner' \/ k \in overrun' <=> k = owner \/ k \in overrun
  <2>1. owner \in Node \cup {NoOne} /\ overrun \subseteq Node /\ owner \notin overrun
        /\ NoOne \notin Node
    BY SessionAssumption DEF SessionInv, SessionTypeOK, SessionAssumption
  <2> QED  BY <1>1, <2>1 DEF End
<1>6. SessionTypeOK'
  BY <1>1, <1>3, <1>4, <1>5 DEF SessionInv, SessionTypeOK, callers
<1>7. HappensOnce'
  <2>1. \A k \in Node : turn'[k].run = turn[k].run \/ turn'[k].run = NoRun
    BY <1>3 DEF Idle
  <2>2. NoRun \notin Run /\ Sent \subseteq Run /\ \A k \in Node : queue[k] \subseteq Sent
    BY SessionAssumption, TypeParts DEF SessionAssumption, Run
  <2>3. \A k \in Node : \A x \in queue[k] :
          /\ k = Home[x] /\ sending[x] = "done" /\ result'[x] = "none"
          /\ \A j \in Node : turn'[j].run # x
    <3> SUFFICES ASSUME NEW k \in Node, NEW x \in queue[k], NEW j \in Node
                 PROVE  /\ k = Home[x] /\ sending[x] = "done" /\ result'[x] = "none"
                        /\ turn'[j].run # x
      OBVIOUS
    <3>1. x \in Run /\ x # turn[n].run
      BY <1>2, <2>2
    <3> QED  BY <3>1, <1>4, <2>1, <2>2 DEF SessionInv, HappensOnce
  <2>4. \A x \in Sent : sending[x] # "done" =>
          result'[x] = "none" /\ \A k \in Node : turn'[k].run # x
    <3> SUFFICES ASSUME NEW x \in Sent, sending[x] # "done", NEW k \in Node
                 PROVE  result'[x] = "none" /\ turn'[k].run # x
      OBVIOUS
    <3>1. x \in Run /\ x # turn[n].run
      BY <1>2, <2>2
    <3> QED  BY <3>1, <1>4, <2>1, <2>2 DEF SessionInv, HappensOnce
  <2>5. \A k \in Node : IF turn'[k].at # "idle" THEN turn'[k].run \in Run /\ result'[turn'[k].run] = "none"
                                                ELSE turn'[k] = Idle
    <3>1. turn'[n].at = "idle"
      BY <1>3 DEF Idle
    <3>2. ASSUME NEW k \in Node \ {n}, turn'[k].at # "idle"
          PROVE  turn'[k].run \in Run /\ result'[turn'[k].run] = "none"
      BY <3>2, <1>2, <1>3, <1>4, OnTurn
    <3>3. ASSUME NEW k \in Node \ {n}, turn'[k].at = "idle"
          PROVE  turn'[k] = Idle
      BY <3>3, <1>3, OffTurn
    <3> QED  BY <1>3, <3>1, <3>2, <3>3
  <2>6. \A k, j \in Node : k # j /\ turn'[k].at # "idle" => turn'[k].run # turn'[j].run
    <3> SUFFICES ASSUME NEW k \in Node, NEW j \in Node, k # j, turn'[k].at # "idle"
                 PROVE  turn'[k].run # turn'[j].run
      OBVIOUS
    <3>1. k # n /\ turn'[k] = turn[k]
      BY <1>3 DEF Idle
    <3>2. turn[k].run \in Run /\ turn[k].run # turn[j].run
      BY <3>1, OnTurn
    <3> QED  BY <3>1, <3>2, <2>1, <2>2
  <2> QED  BY <1>1, <2>3, <2>4, <2>5, <2>6 DEF HappensOnce, Active, callers
<1>8. \A k \in Node : (Active(k) <=> k = owner \/ k \in overrun)'
  BY <1>3, <1>5 DEF SessionInv, Active, Idle
<1> QED  BY <1>3, <1>4, <1>5, <1>6, <1>7, <1>8 DEF SessionInv, Listening

LEMMA ThrowsInv ==
  ASSUME SessionInv, NEW n \in Node, RunThrows(n)
  PROVE  /\ SessionInv' /\ turn[n].at # "idle" /\ turn'[n] = Idle
         /\ result'[turn[n].run] = "threw"
         /\ \A k \in Node \ {n} : turn'[k] = turn[k]
         /\ \A r \in Run \ {turn[n].run} : result'[r] = result[r]
<1>1. /\ turn[n].at \notin {"idle", "stream"} /\ Leaves(n, "threw")
      /\ spoiled' = (IF turn[n].at = "prepare" THEN spoiled \cup {n} ELSE spoiled)
      /\ listens' = listens /\ heard' = heard
  BY DEF RunThrows
<1>2. turn'[n].at = "idle" /\ \A k \in Node \ {n} : turn'[k] = turn[k]
  BY <1>1, TypeParts DEF Leaves, Idle
<1>3. \A k \in Node : Listening(k)
  BY DEF SessionInv, Listening
<1>4. \A k \in Node : Listening(k)'
  BY <1>1, <1>2, <1>3 DEF Listening
<1>5. spoiled' \subseteq Node
  BY <1>1 DEF SessionInv, SessionTypeOK
<1> QED  BY <1>1, <1>4, <1>5, LeaveInv

LEMMA ReturnsInv ==
  ASSUME SessionInv, StoryInv, NEW n \in Node, RunReturns(n)
  PROVE  /\ SessionInv' /\ turn[n].at # "idle" /\ turn'[n] = Idle
         /\ \A k \in Node \ {n} : turn'[k] = turn[k]
         /\ \A r \in Run \ {turn[n].run} : result'[r] = result[r]
         /\ \/ \E c \in Closers : /\ result'[turn[n].run] = Status(c)
                                  /\ Ends(turn[n].run, {c})
            \/ /\ result'[turn[n].run] = "interrupted" /\ SomeoneInterrupts
               /\ Ends(turn[n].run, {"started", "delta"})
<1>1. listens' = listens /\ heard' = heard /\ spoiled' = spoiled
  BY DEF RunReturns, listening
<1>2. /\ turn[n].at \in {"close", "audit_close"}
      /\ turn' = [turn EXCEPT ![n] = Idle]
  BY DEF RunReturns, Leaves
<1>3. turn'[n].at = "idle" /\ \A k \in Node \ {n} : turn'[k] = turn[k]
  BY <1>2, TypeParts DEF Idle
<1>4. \A k \in Node : Listening(k)'
  BY <1>1, <1>2, <1>3 DEF SessionInv, Listening
<1>5. StorySoFar(turn[n]) /\ (turn[n].signal = "interrupted" => SomeoneInterrupts)
  BY DEF StoryInv
<1>6. CASE turn[n].at = "audit_close" /\ Leaves(n, Status(Head(turn[n].closing)))
  <2>1. PICK c \in Closers : turn[n].closing = <<c>> /\ Ends(turn[n].run, {c})
    BY <1>5, <1>6 DEF StorySoFar
  <2>2. Head(turn[n].closing) = c
    BY <2>1
  <2>3. Status(c) \in {"completed", "failed", "interrupted", "threw"}
    BY DEF Status, Closers
  <2>4. turn[n].at # "idle" /\ Leaves(n, Status(c)) /\ spoiled' \subseteq Node
    BY <1>1, <1>6, <2>2 DEF SessionInv, SessionTypeOK
  <2> QED  BY <1>1, <1>4, <2>1, <2>3, <2>4, LeaveInv
<1>7. CASE turn[n].at = "close" /\ turn[n].closing = <<>> /\ Leaves(n, "interrupted")
  <2>1. SomeoneInterrupts /\ Ends(turn[n].run, {"started", "delta"})
    <3>1. \A a, b : <<>> # <<a>> /\ <<>> # <<a, b>>
      OBVIOUS
    <3> QED  BY <1>5, <1>7, <3>1 DEF StorySoFar
  <2>2. turn[n].at # "idle" /\ spoiled' \subseteq Node
    BY <1>1, <1>7 DEF SessionInv, SessionTypeOK
  <2> QED  BY <1>1, <1>4, <1>7, <2>1, <2>2, LeaveInv
<1> QED  BY <1>6, <1>7 DEF RunReturns

(***************************************************************************)
(* StoryInv: what the room was told of each run.                           *)
(***************************************************************************)
\* What was told of run r stays, and nothing is added.
Kept(r) == /\ Told(r)' = Told(r)
           /\ Orderly(r) => Orderly(r)'
           /\ \A types : Ends(r, types) => Ends(r, types)'

LEMMA SilentBus ==
  ASSUME UNCHANGED bus
  PROVE  (\A r : Kept(r)) /\ (SomeoneInterrupts /\ UNCHANGED calling => SomeoneInterrupts')
BY DEF Kept, Told, Ends, Adjacent, Orderly, SomeoneInterrupts

LEMMA ToldAfter ==
  ASSUME bus \in Seq(Event), NEW type \in EventTypes, NEW by \in Interrupter \cup {NoRun},
         NEW x \in Run \cup {Unknown}, Publishes(type, x, by), NEW r \in Run
  PROVE  /\ Told(r) \subseteq Nat /\ \A e \in Told(r) : e < Len(bus) + 1 /\ bus'[e] = bus[e]
         /\ Told(r)' = IF x = r /\ by = NoRun THEN Told(r) \cup {Len(bus) + 1} ELSE Told(r)
         /\ Len(bus) \in Nat
<1>1. /\ bus' \in Seq(Event) /\ Len(bus) \in Nat
      /\ DOMAIN bus = 1..Len(bus) /\ DOMAIN bus' = 1..(Len(bus) + 1)
      /\ \A e \in DOMAIN bus : bus'[e] = bus[e]
      /\ bus'[Len(bus) + 1].run = x /\ bus'[Len(bus) + 1].by = by
  BY Appended
<1>2. /\ DOMAIN bus' = DOMAIN bus \cup {Len(bus) + 1}
      /\ \A e \in DOMAIN bus : e \in Nat /\ e < Len(bus) + 1
  BY <1>1
<1>3. Told(r) \subseteq DOMAIN bus
  BY DEF Told
<1>4. Told(r)' = {e \in DOMAIN bus : bus[e].run = r /\ bus[e].by = NoRun}
                 \cup (IF x = r /\ by = NoRun THEN {Len(bus) + 1} ELSE {})
  BY <1>1, <1>2 DEF Told
<1> QED  BY <1>1, <1>2, <1>3, <1>4 DEF Told

\* An event that is not run r's own.
LEMMA Unaddressed ==
  ASSUME bus \in Seq(Event), NEW type \in EventTypes, NEW by \in Interrupter \cup {NoRun},
         NEW x \in Run \cup {Unknown}, Publishes(type, x, by), NEW r \in Run,
         x # r \/ by # NoRun
  PROVE  Kept(r)
<1>1. Told(r)' = Told(r) /\ \A e \in Told(r) : bus'[e] = bus[e]
  BY ToldAfter
<1> QED  BY <1>1 DEF Kept, Ends, Adjacent, Orderly

LEMMA StillInterrupts ==
  ASSUME bus \in Seq(Event), NEW type \in EventTypes, NEW by \in Interrupter \cup {NoRun},
         NEW x \in Run \cup {Unknown}, Publishes(type, x, by), SomeoneInterrupts,
         \A i \in Interrupter : calling[i].at # "call" => calling'[i].at # "call"
  PROVE  SomeoneInterrupts'
<1>1. \A e \in DOMAIN bus : e \in DOMAIN bus' /\ bus'[e] = bus[e]
  BY Appended
<1> QED  BY <1>1 DEF SomeoneInterrupts

\* The next event of run r's own, after an event it may follow.
LEMMA Continued ==
  ASSUME bus \in Seq(Event), NEW type \in EventTypes, NEW r \in Run,
         Publishes(type, r, NoRun), Orderly(r), NEW last, Ends(r, last),
         \A y \in last : <<y, type>> \in MayFollow
  PROVE  Orderly(r)' /\ \A types : type \in types => Ends(r, types)'
<1> DEFINE z == Len(bus) + 1
<1>1. /\ Told(r) \subseteq Nat /\ z \in Nat /\ \A e \in Told(r) : e < z /\ bus'[e] = bus[e]
      /\ Told(r)' = Told(r) \cup {z}
  BY ToldAfter
<1>2. bus'[z].type = type
  BY Appended
<1>3. PICK l \in Told(r) : bus[l].type \in last /\ \A d \in Told(r) : d <= l
  BY DEF Ends
<1> HIDE DEF z
<1>4. \A types : type \in types => Ends(r, types)'
  <2>1. z \in Told(r)' /\ \A d \in Told(r)' : d <= z
    BY <1>1
  <2> QED  BY <1>2, <2>1 DEF Ends
<1>5. ASSUME NEW e \in Told(r)', \A d \in Told(r)' : e <= d
      PROVE  bus'[e].type = Opening(r)
  <2>1. e <= l /\ l < z /\ l \in Nat
    BY <1>1, <1>3, <1>5
  <2>2. e \in Told(r)
    BY <1>1, <2>1
  <2> QED  BY <1>1, <1>5, <2>2 DEF Orderly
<1>6. ASSUME NEW e \in Told(r)', NEW d \in Told(r)', Adjacent(r, d, e)'
      PROVE  <<bus'[d].type, bus'[e].type>> \in MayFollow
  <2>1. d < e /\ \A x \in Told(r)' : x <= d \/ x >= e
    BY <1>6 DEF Adjacent
  <2>2. CASE e = z
    <3>1. d \in Told(r) /\ d \in Nat /\ l \in Nat
      BY <1>1, <2>1, <2>2
    <3>2. l <= d /\ d <= l
      BY <1>1, <1>3, <2>1, <2>2, <3>1
    <3>3. d = l
      BY <3>1, <3>2
    <3> QED  BY <1>1, <1>2, <1>3, <2>2, <3>3
  <2>3. CASE e \in Told(r)
    <3>1. d \in Told(r)
      BY <1>1, <2>1, <2>3
    <3>2. Adjacent(r, d, e)
      BY <1>1, <2>1 DEF Adjacent
    <3> QED  BY <1>1, <2>3, <3>1, <3>2 DEF Orderly
  <2> QED  BY <1>1, <2>2, <2>3
<1> QED  BY <1>4, <1>5, <1>6 DEF Orderly

\* The first event of run r's own.
LEMMA Opened ==
  ASSUME bus \in Seq(Event), NEW type \in EventTypes, NEW r \in Run,
         Publishes(type, r, NoRun), Told(r) = {}, type = Opening(r)
  PROVE  Orderly(r)' /\ \A types : type \in types => Ends(r, types)'
<1> DEFINE z == Len(bus) + 1
<1>1. z \in Nat /\ Told(r)' = {z}
  BY ToldAfter
<1>2. bus'[z].type = type
  BY Appended
<1> HIDE DEF z
<1> QED  BY <1>1, <1>2 DEF Ends, Orderly, Adjacent

\* StoryInv, part by part.
Begun(r) == result[r] # "none" \/ \E n \in Node : turn[n].run = r
ToldNothing == /\ \A m \in Sent : sending[m] = "publish" => Told(m) = {}
               /\ \A r \in Run : /\ ~Begun(r)
                                 /\ r \in Sent => sending[r] # "publish"
                                 => Silent(r)
Telling(n) == /\ StorySoFar(turn[n])
              /\ turn[n].signal = "interrupted" => SomeoneInterrupts

LEMMA StoryParts ==
  StoryInv <=> /\ \A r \in Run : Orderly(r) /\ ReturnsEnding(r)
               /\ \A n \in Node : Telling(n)
               /\ ToldNothing
BY DEF StoryInv, ToldInOrder, Telling, ToldNothing, Begun

LEMMA StoryAgain ==
  ASSUME \A r \in Run : (Orderly(r) /\ ReturnsEnding(r))', \A n \in Node : Telling(n)',
         ToldNothing'
  PROVE  StoryInv'
BY DEF StoryInv, ToldInOrder, Telling, ToldNothing, Begun

\* A turn that does not move, or is aborted, of a run of which nothing is told.
LEMMA TellingKept ==
  ASSUME NEW n \in Node, Telling(n), Kept(turn[n].run),
         turn'[n].at = turn[n].at /\ turn'[n].run = turn[n].run
           /\ turn'[n].said = turn[n].said /\ turn'[n].closing = turn[n].closing,
         turn'[n].signal # turn[n].signal => turn[n].signal = "none",
         turn'[n].signal = "interrupted" => SomeoneInterrupts'
  PROVE  Telling(n)'
<1> DEFINE t == turn[n]
<1>1. \A types : Ends(t.run, types) => Ends(t.run, types)'
  BY DEF Kept
<1>2. Silent(t.run) => Silent(t.run)'
  BY DEF Kept, Silent
<1>3. StorySoFar(t)'
  BY <1>1, <1>2 DEF Telling, StorySoFar
<1> QED  BY <1>3 DEF Telling

LEMMA ReturnKept ==
  ASSUME NEW r \in Run, ReturnsEnding(r), Kept(r), result'[r] = result[r],
         SomeoneInterrupts => SomeoneInterrupts'
  PROVE  ReturnsEnding(r)'
BY DEF ReturnsEnding, Kept

\* What every step of a run has to show of its own story.
LEMMA GoesOnStory ==
  ASSUME SessionInv, StoryInv, NEW n \in Node, GoesOn(n),
         \A r \in Run \ {turn[n].run} : Kept(r),
         Orderly(turn[n].run)', StorySoFar(turn[n])', turn'[n].signal = turn[n].signal,
         SomeoneInterrupts => SomeoneInterrupts'
  PROVE  StoryInv'
<1>1. /\ turn[n].run \in Run /\ result[turn[n].run] = "none"
      /\ \A k \in Node \ {n} : turn[k].run # turn[n].run
      /\ \A m \in Sent : sending[m] # "done" => turn[n].run # m
  BY OnTurn DEF GoesOn
<1>2. /\ result' = result /\ sending' = sending /\ turn'[n].run = turn[n].run
      /\ \A k \in Node \ {n} : turn'[k] = turn[k]
  BY DEF GoesOn, callers
<1>3. \A r \in Run : (Orderly(r) /\ ReturnsEnding(r))'
  <2>1. ASSUME NEW r \in Run \ {turn[n].run}
        PROVE  Orderly(r)' /\ ReturnsEnding(r)'
    <3>1. Kept(r) /\ Orderly(r) /\ ReturnsEnding(r)
      BY StoryParts
    <3> QED  BY <1>2, <3>1, ReturnKept DEF Kept
  <2>2. ReturnsEnding(turn[n].run)'
    BY <1>1, <1>2 DEF ReturnsEnding
  <2> QED  BY <2>1, <2>2, <1>2
<1>4. \A k \in Node : Telling(k)'
  <2>1. ASSUME NEW k \in Node \ {n}
        PROVE  Telling(k)'
    <3>1. CASE turn[k].at # "idle"
      <4>1. turn[k].run \in Run \ {turn[n].run}
        BY <3>1, <1>1, OnTurn
      <4>2. Telling(k) /\ Kept(turn[k].run)
        BY <4>1, StoryParts
      <4> QED  BY <1>2, <4>2, TellingKept DEF Telling
    <3>2. CASE turn[k].at = "idle"
      BY <3>2, <1>2, StoryParts DEF Telling, StorySoFar
    <3> QED  BY <3>1, <3>2
  <2>2. Telling(n)'
    BY <1>2, StoryParts DEF Telling
  <2> QED  BY <2>1, <2>2
<1>5. ToldNothing'
  <2>1. ASSUME NEW m \in Sent, sending[m] = "publish"
        PROVE  Told(m)' = {}
    <3>1. m \in Run /\ m # turn[n].run
      BY <2>1, <1>1 DEF Run
    <3> QED  BY <2>1, <3>1, StoryParts DEF ToldNothing, Kept
  <2>2. ASSUME NEW r \in Run, ~Begun(r)', r \in Sent => sending[r] # "publish"
        PROVE  Silent(r)'
    <3>1. ~Begun(r) /\ r # turn[n].run
      BY <2>2, <1>2 DEF Begun
    <3>2. Silent(r) /\ Kept(r)
      BY <2>2, <3>1, StoryParts DEF ToldNothing
    <3> QED  BY <3>2 DEF Silent, Kept
  <2> QED  BY <1>2, <2>1, <2>2 DEF ToldNothing
<1> QED  BY <1>3, <1>4, <1>5, StoryAgain

\* A step of a run that tells nothing.
LEMMA SilentStory ==
  ASSUME SessionInv, StoryInv, NEW n \in Node, GoesOn(n), UNCHANGED bus,
         turn'[n].signal = turn[n].signal, StorySoFar(turn[n])'
  PROVE  StoryInv'
<1>1. turn[n].run \in Run /\ UNCHANGED calling
  BY OnTurn DEF GoesOn, callers
<1>2. (\A r : Kept(r)) /\ (SomeoneInterrupts => SomeoneInterrupts')
  BY <1>1, SilentBus
<1>3. Orderly(turn[n].run)
  BY <1>1, StoryParts
<1>4. Orderly(turn[n].run)'
  BY <1>2, <1>3 DEF Kept, GoesOn
<1> QED  BY <1>2, <1>4, GoesOnStory

\* A step of a run that tells something which may follow what was told last.
LEMMA TellingStory ==
  ASSUME SessionInv, StoryInv, NEW n \in Node, GoesOn(n),
         NEW type \in EventTypes, Publishes(type, turn[n].run, NoRun),
         turn'[n].signal = turn[n].signal,
         \/ Told(turn[n].run) = {} /\ type = Opening(turn[n].run)
         \/ \E last : Ends(turn[n].run, last) /\ \A y \in last : <<y, type>> \in MayFollow,
         (\A types : type \in types => Ends(turn[n].run, types)') => StorySoFar(turn[n])'
  PROVE  StoryInv'
<1>1. turn[n].run \in Run /\ calling' = calling /\ bus \in Seq(Event)
  BY OnTurn, TypeParts DEF GoesOn, callers
<1>2. \A r \in Run \ {turn[n].run} : Kept(r)
  BY <1>1, Unaddressed
<1>3. SomeoneInterrupts => SomeoneInterrupts'
  BY <1>1, StillInterrupts
<1>4. Orderly(turn[n].run)
  BY <1>1, StoryParts
<1>5. turn'[n].run = turn[n].run
  BY DEF GoesOn
<1>6. ASSUME NEW r \in Run, r = turn[n].run
      PROVE  Orderly(r)' /\ \A types : type \in types => Ends(r, types)'
  <2>1. CASE Told(r) = {} /\ type = Opening(r)
    BY <1>1, <1>6, <2>1, Opened
  <2>2. CASE \E last : Ends(r, last) /\ \A y \in last : <<y, type>> \in MayFollow
    BY <1>1, <1>4, <1>6, <2>2, Continued
  <2> QED  BY <1>6, <2>1, <2>2
<1>7. Orderly(turn[n].run)' /\ \A types : type \in types => Ends(turn[n].run, types)'
  BY <1>1, <1>5, <1>6
<1> QED  BY <1>2, <1>3, <1>7, GoesOnStory

LEMMA MarksStory ==
  ASSUME SessionInv, StoryInv, NEW n \in Node, RunMarks(n)
  PROVE  StoryInv'
<1>1. GoesOn(n) /\ UNCHANGED bus
  BY MarksInv DEF RunMarks
<1>2. turn[n].at = "mark" /\ turn'[n].at = "announce" /\ turn'[n].signal = turn[n].signal
      /\ turn'[n].run = turn[n].run /\ turn'[n].said = turn[n].said
  BY Moved, TypeParts DEF RunMarks, Phases
<1>3. Silent(turn[n].run) /\ turn[n].said = 0
  BY <1>2, StoryParts DEF Telling, StorySoFar
<1>4. Silent(turn[n].run)'
  BY <1>1, <1>2, <1>3, SilentBus DEF Silent, Kept
<1>5. StorySoFar(turn[n])'
  BY <1>2, <1>3, <1>4 DEF StorySoFar
<1> QED  BY <1>1, <1>2, <1>5, SilentStory

LEMMA AnnouncesStory ==
  ASSUME SessionInv, StoryInv, NEW n \in Node, RunAnnounces(n)
  PROVE  StoryInv'
<1> DEFINE r == turn[n].run
<1>1. GoesOn(n) /\ Publishes("started", r, NoRun) /\ "started" \in EventTypes
  BY AnnouncesInv DEF RunAnnounces, EventTypes
<1>2. turn[n].at = "announce" /\ turn'[n].at = "audit" /\ turn'[n].signal = turn[n].signal
      /\ turn'[n].run = r /\ turn'[n].said = turn[n].said
  BY Moved, TypeParts DEF RunAnnounces, Phases
<1>3. Silent(r) /\ turn[n].said = 0
  BY <1>2, StoryParts DEF Telling, StorySoFar
<1>4. \/ Told(r) = {} /\ "started" = Opening(r)
      \/ \E last : Ends(r, last) /\ \A y \in last : <<y, "started">> \in MayFollow
  <2>1. CASE r \in Sent
    <3>1. Ends(r, {"message"}) /\ \A y \in {"message"} : <<y, "started">> \in MayFollow
      BY <1>3, <2>1 DEF Silent, MayFollow
    <3> QED  BY <3>1
  <2>2. CASE r \notin Sent
    BY <1>3, <2>2 DEF Silent, Opening
  <2> QED  BY <2>1, <2>2
<1>5. Ends(turn[n].run, {"started"})' => StorySoFar(turn[n])'
  BY <1>2, <1>3 DEF StorySoFar
<1>6. "started" \in {"started"}
  OBVIOUS
<1> QED  BY <1>1, <1>2, <1>4, <1>5, <1>6, TellingStory

LEMMA SilentlyOn ==
  ASSUME SessionInv, StoryInv, NEW n \in Node, GoesOn(n), UNCHANGED bus
  PROVE  \A types : Ends(turn[n].run, types) => Ends(turn[n].run, types)'
BY SilentBus DEF Kept, GoesOn

LEMMA EndsMore ==
  ASSUME NEW r, NEW S, NEW T, Ends(r, S), S \subseteq T
  PROVE  Ends(r, T)
BY DEF Ends

LEMMA AuditsStory ==
  ASSUME SessionInv, StoryInv, NEW n \in Node, RunAudits(n) \/ RunPrepares(n)
  PROVE  StoryInv'
<1>1. GoesOn(n) /\ UNCHANGED bus
  BY AuditsInv, PreparesInv DEF RunAudits, RunPrepares, outside
<1>2. /\ turn[n].at \in {"audit", "prepare"} /\ turn'[n].at \in {"prepare", "stream"}
      /\ turn'[n].signal = turn[n].signal /\ turn'[n].said = turn[n].said
  BY Moved, TypeParts DEF RunAudits, RunPrepares, Phases
<1>3. Ends(turn[n].run, {"started"}) /\ turn[n].said = 0
  BY <1>2, StoryParts DEF Telling, StorySoFar
<1>4. Ends(turn[n].run, {"started"})'
  BY <1>1, <1>3, SilentlyOn
<1>5. StorySoFar(turn[n])'
  BY <1>2, <1>3, <1>4 DEF StorySoFar
<1> QED  BY <1>1, <1>2, <1>5, SilentStory

LEMMA SaysStory ==
  ASSUME SessionInv, StoryInv, NEW n \in Node, RunSays(n)
  PROVE  StoryInv'
<1> DEFINE r == turn[n].run
<1>1. /\ GoesOn(n) /\ turn[n].at = "stream" /\ turn'[n].at = "stream"
      /\ turn'[n].said = turn[n].said + 1 /\ turn[n].said \in Nat
      /\ turn'[n].signal = turn[n].signal
  BY SaysInv
<1>2. Publishes("delta", r, NoRun) /\ "delta" \in EventTypes
  BY DEF RunSays, EventTypes
<1>3. PICK last : Ends(r, last) /\ last \in {{"started"}, {"delta"}}
  BY <1>1, StoryParts DEF Telling, StorySoFar
<1>4. \A y \in last : <<y, "delta">> \in MayFollow
  BY <1>3 DEF MayFollow
<1>5. turn'[n].said # 0
  BY <1>1
<1>6. Ends(turn[n].run, {"delta"})' => StorySoFar(turn[n])'
  BY <1>1, <1>5 DEF StorySoFar
<1>7. "delta" \in {"delta"}
  OBVIOUS
<1> QED  BY <1>1, <1>2, <1>3, <1>4, <1>6, <1>7, TellingStory

LEMMA EndsStory ==
  ASSUME SessionInv, StoryInv, NEW n \in Node, NEW failed \in BOOLEAN, StreamEnds(n, failed)
  PROVE  StoryInv'
<1>1. /\ GoesOn(n) /\ turn[n].at = "stream" /\ turn'[n].at = "unmark"
      /\ turn'[n].said = turn[n].said /\ turn'[n].signal = turn[n].signal
  BY EndsInv
<1>2. UNCHANGED bus
  BY DEF StreamEnds, outside
<1>3. \A types : Ends(turn[n].run, types) => Ends(turn[n].run, types)'
  BY <1>1, <1>2, SilentlyOn
<1>4. Ends(turn[n].run, IF turn[n].said = 0 THEN {"started"} ELSE {"delta"})
  BY <1>1, StoryParts DEF Telling, StorySoFar
<1>5. Ends(turn[n].run, IF turn[n].said = 0 THEN {"started"} ELSE {"delta"})'
  BY <1>1, <1>3, <1>4
<1>6. StorySoFar(turn[n])'
  BY <1>1, <1>5 DEF StorySoFar
<1> QED  BY <1>1, <1>2, <1>6, SilentStory

LEMMA UnmarksStory ==
  ASSUME SessionInv, StoryInv, NEW n \in Node, RunUnmarks(n)
  PROVE  StoryInv'
<1> DEFINE r == turn[n].run
           c == Closing(turn[n])
<1>1. /\ GoesOn(n) /\ turn[n].at = "unmark" /\ turn'[n].at = "close"
      /\ turn'[n].closing = c /\ turn'[n].signal = turn[n].signal
  BY UnmarksInv
<1>2. UNCHANGED bus
  BY DEF RunUnmarks
<1>3. \A types : Ends(turn[n].run, types) => Ends(turn[n].run, types)'
  BY <1>1, <1>2, SilentlyOn
<1>4. turn[n].said \in Nat /\ turn[n].signal \in Signals
  <2>1. turn[n] \in Turn
    BY TypeParts
  <2>2. turn[n].said \in 0..MaxDeltas /\ turn[n].signal \in Signals
    BY <2>1 DEF Turn
  <2> QED  BY <2>2
<1>5. Ends(r, IF turn[n].said = 0 THEN {"started"} ELSE {"delta"})
  BY <1>1, StoryParts DEF Telling, StorySoFar
<1>6. Ends(r, {"started", "delta"})
  BY <1>5, EndsMore
<1>7. \/ c = <<"reply", "finished">> /\ Ends(r, {"delta"})
      \/ c = <<"finished">> /\ Ends(r, {"started", "reply"})
      \/ c \in {<<"failed">>, <<"interrupted">>} /\ Ends(r, {"started", "delta"})
      \/ c = <<>> /\ turn[n].signal = "interrupted" /\ Ends(r, {"started", "delta"})
  <2>1. CASE turn[n].failed
    BY <2>1, <1>6 DEF Closing
  <2>2. CASE ~turn[n].failed /\ turn[n].signal = "lost"
    BY <2>2, <1>6 DEF Closing
  <2>3. CASE ~turn[n].failed /\ turn[n].signal = "interrupted"
    BY <2>3, <1>6 DEF Closing
  <2>4. CASE ~turn[n].failed /\ turn[n].signal = "none"
    <3>1. CASE turn[n].said = 0
      <4>1. c = <<"finished">>
        BY <2>4, <3>1 DEF Closing
      <4>2. Ends(r, {"started", "reply"})
        BY <1>5, <3>1, EndsMore
      <4> QED  BY <4>1, <4>2
    <3>2. CASE turn[n].said # 0
      <4>1. turn[n].said > 0
        BY <3>2, <1>4
      <4> QED  BY <2>4, <3>2, <4>1, <1>5 DEF Closing
    <3> QED  BY <3>1, <3>2
  <2> QED  BY <1>4, <2>1, <2>2, <2>3, <2>4 DEF Signals
<1>8. StorySoFar(turn[n])'
  BY <1>1, <1>3, <1>7 DEF StorySoFar
<1> QED  BY <1>1, <1>2, <1>8, SilentStory

LEMMA ClosesStory ==
  ASSUME SessionInv, StoryInv, NEW n \in Node, RunCloses(n)
  PROVE  StoryInv'
<1> DEFINE r == turn[n].run
           c == turn[n].closing
           type == Head(c)
<1>1. /\ GoesOn(n) /\ turn[n].at = "close" /\ type \in EventTypes
      /\ turn'[n].signal = turn[n].signal
      /\ IF Len(c) = 1 THEN turn'[n].at = "audit_close" /\ turn'[n].closing = c
                       ELSE turn'[n].at = "close" /\ turn'[n].closing = Tail(c)
  BY ClosesInv
<1>2. Publishes(type, r, NoRun) /\ c # <<>>
  BY DEF RunCloses
<1>3. \/ c = <<"reply", "finished">> /\ Ends(r, {"delta"})
      \/ c = <<"finished">> /\ Ends(r, {"started", "reply"})
      \/ c \in {<<"failed">>, <<"interrupted">>} /\ Ends(r, {"started", "delta"})
  BY <1>1, <1>2, StoryParts DEF Telling, StorySoFar
<1>4. CASE c = <<"reply", "finished">> /\ Ends(r, {"delta"})
  <2>1. Len(c) # 1 /\ type = "reply" /\ Tail(c) = <<"finished">>
    BY <1>4
  <2>2. \A y \in {"delta"} : <<y, type>> \in MayFollow
    BY <2>1 DEF MayFollow
  <2>3. Ends(turn[n].run, {"started", "reply"})' => StorySoFar(turn[n])'
    BY <1>1, <2>1 DEF StorySoFar
  <2>4. type \in {"started", "reply"}
    BY <2>1
  <2> HIDE DEF type, c
  <2> QED  BY <1>1, <1>2, <1>4, <2>2, <2>3, <2>4, TellingStory
<1>5. ASSUME NEW k \in Closers, c = <<k>>,
             NEW last, Ends(r, last), \A y \in last : <<y, k>> \in MayFollow
      PROVE  StoryInv'
  <2>1. Len(c) = 1 /\ type = k
    BY <1>5
  <2>2. Ends(turn[n].run, {k})' => StorySoFar(turn[n])'
    BY <1>1, <1>5, <2>1 DEF StorySoFar
  <2>3. type \in {k} /\ \A y \in last : <<y, type>> \in MayFollow
    BY <1>5, <2>1
  <2> HIDE DEF type, c
  <2> QED  BY <1>1, <1>2, <1>5, <2>2, <2>3, TellingStory
<1>6. CASE c = <<"finished">> /\ Ends(r, {"started", "reply"})
  <2>1. \A y \in {"started", "reply"} : <<y, "finished">> \in MayFollow
    BY DEF MayFollow
  <2> QED  BY <1>5, <1>6, <2>1 DEF Closers
<1>7. CASE c \in {<<"failed">>, <<"interrupted">>} /\ Ends(r, {"started", "delta"})
  <2>1. \A y \in {"started", "delta"} : \A k \in {"failed", "interrupted"} : <<y, k>> \in MayFollow
    BY DEF MayFollow
  <2> QED  BY <1>5, <1>7, <2>1 DEF Closers
<1> QED  BY <1>3, <1>4, <1>6, <1>7

\* Interrupts, lapses and what else begins and ends no run.
LEMMA QuietStory ==
  ASSUME SessionInv, StoryInv, Quiet, \A r \in Run : Kept(r),
         SomeoneInterrupts => SomeoneInterrupts',
         NEW why, Stopping(why), why = "interrupted" => SomeoneInterrupts'
  PROVE  StoryInv'
<1>1. result' = result /\ sending' = sending /\ \A k \in Node : turn'[k].run = turn[k].run
  BY DEF Quiet
<1>2. ASSUME NEW r \in Run
      PROVE  Orderly(r)' /\ ReturnsEnding(r)'
  <2>1. Kept(r) /\ Orderly(r) /\ ReturnsEnding(r)
    BY StoryParts
  <2> QED  BY <1>1, <2>1, ReturnKept DEF Kept
<1>3. ASSUME NEW k \in Node
      PROVE  Telling(k)'
  <2>1. /\ turn'[k].at = turn[k].at /\ turn'[k].run = turn[k].run
        /\ turn'[k].said = turn[k].said /\ turn'[k].closing = turn[k].closing
        /\ turn'[k].signal # turn[k].signal =>
             turn[k].signal = "none" /\ turn'[k].signal = why
    BY DEF Stopping
  <2>2. Telling(k) /\ (turn'[k].signal = "interrupted" => SomeoneInterrupts')
    BY <2>1, StoryParts DEF Telling
  <2>3. CASE turn[k].at # "idle"
    <3>1. Kept(turn[k].run)
      BY <2>3, OnTurn
    <3> QED  BY <2>1, <2>2, <3>1, TellingKept
  <2>4. CASE turn[k].at = "idle"
    BY <2>1, <2>2, <2>4 DEF Telling, StorySoFar
  <2> QED  BY <2>3, <2>4
<1>4. ToldNothing'
  <2>1. ASSUME NEW m \in Sent, sending[m] = "publish"
        PROVE  Told(m)' = {}
    <3>1. m \in Run
      BY DEF Run
    <3> QED  BY <2>1, <3>1, StoryParts DEF ToldNothing, Kept
  <2>2. ASSUME NEW r \in Run, ~Begun(r), r \in Sent => sending[r] # "publish"
        PROVE  Silent(r)'
    <3>1. Silent(r) /\ Kept(r)
      BY <2>2, StoryParts DEF ToldNothing
    <3> QED  BY <3>1 DEF Silent, Kept
  <2>3. \A r \in Run : Begun(r)' <=> Begun(r)
    BY <1>1 DEF Begun
  <2> QED  BY <1>1, <2>1, <2>2, <2>3 DEF ToldNothing
<1> QED  BY <1>2, <1>3, <1>4, StoryAgain

LEMMA InterruptsStory ==
  ASSUME SessionInv, StoryInv, NEW i \in Interrupter,
         InterruptCalled(i) \/ InterruptReads(i) \/ InterruptPublishes(i)
  PROVE  StoryInv'
<1>1. Quiet /\ SomeoneInterrupts'
  BY CalledInv, ReadsInv, PublishesInv DEF SomeoneInterrupts
<1>2. CASE InterruptCalled(i)
  <2>1. Home[i] \in Node
    BY SessionAssumption DEF SessionAssumption
  <2>2. Stopping("interrupted") /\ UNCHANGED bus
    BY <1>2, <2>1, InterruptQuiet DEF InterruptCalled, outside, listening
  <2> QED  BY <1>1, <2>2, SilentBus, QuietStory
<1>3. CASE InterruptReads(i)
  <2>1. Stopping("interrupted") /\ UNCHANGED bus
    BY <1>3, SameQuiet DEF InterruptReads, outside, listening
  <2> QED  BY <1>1, <2>1, SilentBus, QuietStory
<1>4. CASE InterruptPublishes(i)
  <2>1. Stopping("interrupted")
    BY <1>4, SameQuiet DEF InterruptPublishes, listening
  <2>2. /\ Publishes("interrupted", calling[i].named, i) /\ bus \in Seq(Event)
        /\ calling[i].named \in Run \cup {Unknown} /\ "interrupted" \in EventTypes
        /\ i # NoRun /\ i \in Interrupter \cup {NoRun}
    BY <1>4, PublishesInv, TypeParts, SessionAssumption
       DEF InterruptPublishes, EventTypes, SessionAssumption
  <2>3. \A r \in Run : Kept(r)
    BY <2>2, Unaddressed
  <2> QED  BY <1>1, <2>1, <2>3, QuietStory
<1> QED  BY <1>2, <1>3, <1>4

LEMMA OthersStory ==
  ASSUME SessionInv, StoryInv, NEW n \in Node,
         Hears(n) \/ LeaseLapses(n) \/ LeaseFoundLost(n)
  PROVE  StoryInv'
<1>1. UNCHANGED <<bus, calling>>
  BY DEF Hears, HearsOf, LeaseLapses, LeaseFoundLost, outside, callers
<1>2. (\A r : Kept(r)) /\ (SomeoneInterrupts => SomeoneInterrupts')
  BY <1>1, SilentBus
<1>3. CASE Hears(n)
  <2>1. Quiet
    BY <1>3, HearsQuiet
  <2>2. UNCHANGED <<sending, runningRunId, listens, spoiled>>
    BY <2>1 DEF Quiet
  <2>3. CASE UNCHANGED turns
    <3>1. Stopping("lost")
      BY <2>2, <2>3, SameQuiet
    <3>2. "lost" # "interrupted"
      OBVIOUS
    <3> QED  BY <1>2, <2>1, <3>1, <3>2, QuietStory
  <2>4. CASE InterruptsTurns(n) /\ \E e \in DOMAIN bus : bus[e].type = "interrupted"
    <3>1. Stopping("interrupted")
      BY <2>2, <2>4, InterruptQuiet
    <3>2. SomeoneInterrupts'
      BY <1>2, <2>4 DEF SomeoneInterrupts
    <3> QED  BY <1>2, <2>1, <3>1, <3>2, QuietStory
  <2> QED  BY <1>3, <2>3, <2>4, HearsQuiet
<1>4. CASE LeaseLapses(n)
  <2>1. Quiet
    BY <1>4, LapsesInv
  <2>2. Stopping("lost") /\ "lost" # "interrupted"
    BY <1>4, SameQuiet DEF LeaseLapses, outside, listening, callers
  <2> QED  BY <1>2, <2>1, <2>2, QuietStory
<1>5. CASE LeaseFoundLost(n)
  <2>1. Quiet /\ Stopping("lost") /\ "lost" # "interrupted"
    BY <1>5, FoundLostInv
  <2> QED  BY <1>2, <2>1, QuietStory
<1> QED  BY <1>3, <1>4, <1>5

\* Nothing is told, and no run returns.
LEMMA TellingOn ==
  ASSUME SessionInv, StoryInv, UNCHANGED bus, SomeoneInterrupts => SomeoneInterrupts'
  PROVE  /\ \A k \in Node : turn'[k] = turn[k] => Telling(k)'
         /\ \A r \in Run : Orderly(r)' /\ (Silent(r) => Silent(r)')
         /\ \A r \in Run : result'[r] = result[r] => ReturnsEnding(r)'
<1>1. \A r : Kept(r)
  BY SilentBus
<1>2. \A k \in Node : turn'[k] = turn[k] => Telling(k)'
  <2>1. SUFFICES ASSUME NEW k \in Node, turn'[k] = turn[k]
                 PROVE  Telling(k)'
    OBVIOUS
  <2>2. Telling(k) /\ Kept(turn[k].run)
    BY <1>1, StoryParts
  <2> QED  BY <2>1, <2>2, TellingKept DEF Telling
<1>3. \A r \in Run : Orderly(r)' /\ (Silent(r) => Silent(r)')
  BY <1>1, StoryParts DEF Kept, Silent
<1>4. \A r \in Run : result'[r] = result[r] => ReturnsEnding(r)'
  BY <1>1, StoryParts, ReturnKept
<1> QED  BY <1>2, <1>3, <1>4

LEMMA SendPublishesStory ==
  ASSUME SessionInv, StoryInv, NEW m \in Sent, SendPublishes(m)
  PROVE  StoryInv'
<1>1. /\ sending[m] = "publish" /\ sending' = [sending EXCEPT ![m] = "submit"]
      /\ Publishes("message", m, NoRun) /\ UNCHANGED <<turn, result, calling>>
      /\ m \in Run /\ "message" \in EventTypes /\ bus \in Seq(Event)
  BY TypeParts DEF SendPublishes, turns, EventTypes, Run
<1>2. \A r \in Run \ {m} : Kept(r)
  <2>1. NoRun \in Interrupter \cup {NoRun} /\ m \in Run \cup {Unknown}
    BY <1>1
  <2> QED  BY <1>1, <2>1, Unaddressed
<1>3. SomeoneInterrupts => SomeoneInterrupts'
  BY <1>1, StillInterrupts
<1>4. result[m] = "none" /\ \A k \in Node : turn[k].run # m
  BY <1>1 DEF SessionInv, HappensOnce
<1>5. Orderly(m)' /\ Ends(m, {"message"})'
  <2>1. Told(m) = {} /\ "message" = Opening(m)
    BY <1>1, StoryParts DEF ToldNothing, Opening
  <2>2. Orderly(m)' /\ \A types : "message" \in types => Ends(m, types)'
    BY <1>1, <2>1, Opened
  <2> QED  BY <2>2
<1>6. ASSUME NEW r \in Run
      PROVE  Orderly(r)' /\ ReturnsEnding(r)'
  <2>1. CASE r = m
    BY <1>1, <1>4, <1>5, <2>1 DEF ReturnsEnding
  <2>2. CASE r # m
    <3>1. Kept(r) /\ Orderly(r) /\ ReturnsEnding(r)
      BY <1>2, <2>2, StoryParts
    <3> QED  BY <1>1, <1>3, <3>1, ReturnKept DEF Kept
  <2> QED  BY <2>1, <2>2
<1>7. ASSUME NEW k \in Node
      PROVE  Telling(k)'
  <2>1. Telling(k) /\ turn'[k] = turn[k]
    BY <1>1, StoryParts
  <2>2. CASE turn[k].at = "idle"
    BY <1>3, <2>1, <2>2 DEF Telling, StorySoFar
  <2>3. CASE turn[k].at # "idle"
    <3>1. Kept(turn[k].run)
      BY <1>2, <1>4, <2>3, OnTurn
    <3> QED  BY <1>3, <2>1, <3>1, TellingKept DEF Telling
  <2> QED  BY <2>2, <2>3
<1>8. ToldNothing'
  <2>1. \A x \in Sent : x # m => sending'[x] = sending[x]
    BY <1>1, TypeParts
  <2>2. sending'[m] = "submit"
    BY <1>1, TypeParts
  <2>3. ASSUME NEW x \in Sent, sending'[x] = "publish"
        PROVE  Told(x)' = {}
    <3>1. x # m /\ sending[x] = "publish" /\ x \in Run
      BY <2>1, <2>2, <2>3 DEF Run
    <3> QED  BY <1>2, <3>1, StoryParts DEF ToldNothing, Kept
  <2>4. ASSUME NEW r \in Run, ~Begun(r)', r \in Sent => sending'[r] # "publish"
        PROVE  Silent(r)'
    <3>1. CASE r = m
      BY <1>5, <3>1 DEF Silent
    <3>2. CASE r # m
      <4>1. Silent(r) /\ Kept(r)
        BY <1>1, <1>2, <2>1, <2>4, <3>2, StoryParts DEF ToldNothing, Begun
      <4> QED  BY <4>1 DEF Silent, Kept
    <3> QED  BY <3>1, <3>2
  <2> QED  BY <2>3, <2>4 DEF ToldNothing
<1> QED  BY <1>6, <1>7, <1>8, StoryAgain

LEMMA SendSubmitsStory ==
  ASSUME SessionInv, StoryInv, NEW m \in Sent, SendSubmits(m)
  PROVE  StoryInv'
<1>1. /\ UNCHANGED <<turn, result, bus, calling>>
      /\ sending[m] = "submit" /\ sending' = [sending EXCEPT ![m] = "done"]
  BY DEF SendSubmits
<1>2. SomeoneInterrupts => SomeoneInterrupts'
  BY <1>1, SilentBus
<1>3. \A x \in Sent : sending'[x] = "publish" <=> sending[x] = "publish"
  BY <1>1, TypeParts
<1>4. ToldNothing'
  <2>1. \A r \in Run : Begun(r)' <=> Begun(r)
    BY <1>1 DEF Begun
  <2>2. \A x \in Sent : Told(x)' = Told(x)
    BY <1>1, SilentBus DEF Kept
  <2>3. \A r \in Run : Silent(r) => Silent(r)'
    BY <1>1, <1>2, TellingOn
  <2> QED  BY <1>3, <2>1, <2>2, <2>3, StoryParts DEF ToldNothing
<1> QED  BY <1>1, <1>2, <1>4, TellingOn, StoryAgain

\* A turn begins.
LEMMA StartStory ==
  ASSUME SessionInv, StoryInv, NEW n \in Node, NEW r \in Run,
         turn'[n].at = "mark" /\ turn'[n].run = r /\ turn'[n].signal = "none"
           /\ turn'[n].said = 0,
         turn[n].at = "idle", \A k \in Node \ {n} : turn'[k] = turn[k],
         result[r] = "none", \A k \in Node : turn[k].run # r,
         r \in Sent => sending[r] # "publish", UNCHANGED <<result, bus, callers>>
  PROVE  StoryInv'
<1>1. SomeoneInterrupts => SomeoneInterrupts'
  BY SilentBus DEF callers
<1>2. Silent(r)
  BY StoryParts DEF ToldNothing, Begun
<1>3. Telling(n)'
  <2>1. Silent(r)'
    BY <1>1, <1>2, TellingOn
  <2> QED  BY <2>1 DEF Telling, StorySoFar
<1>4. \A k \in Node : Telling(k)'
  BY <1>1, <1>3, TellingOn
<1>5. ToldNothing'
  <2>1. \A x \in Sent : Told(x)' = Told(x)
    BY SilentBus DEF Kept
  <2>2. \A x \in Run : Silent(x) => Silent(x)'
    BY <1>1, TellingOn
  <2>3. \A x \in Run : Begun(x) => Begun(x)'
    <3>1. turn[n].run \notin Run
      BY OffTurn
    <3> QED  BY <3>1 DEF Begun
  <2> QED  BY <2>1, <2>2, <2>3, StoryParts DEF ToldNothing, callers
<1> QED  BY <1>1, <1>4, <1>5, TellingOn, StoryAgain

LEMMA StartsStory ==
  ASSUME SessionInv, StoryInv, NEW n \in Node, NEW r \in Run,
         TurnStarts(n, r) \/ (r \in Batch /\ BatchStarts(n, r))
  PROVE  StoryInv'
<1>1. CASE TurnStarts(n, r)
  <2>1. UNCHANGED <<result, bus, callers>> /\ sending[r] # "publish"
    BY <1>1, TurnStartsInv DEF TurnStarts, Starts, outside
  <2> QED  BY <1>1, <2>1, TurnStartsInv, StartStory
<1>2. CASE r \in Batch /\ BatchStarts(n, r)
  <2>1. CASE result' = [result EXCEPT ![r] = "busy"] /\ UNCHANGED <<turn, bus, callers>>
    <3>1. SomeoneInterrupts => SomeoneInterrupts'
      BY <2>1, SilentBus DEF callers
    <3>2. result'[r] = "busy" /\ \A x \in Run \ {r} : result'[x] = result[x]
      BY <2>1, TypeParts
    <3>3. \A x \in Run : ReturnsEnding(x)'
      <4>1. ReturnsEnding(r)'
        BY <3>2 DEF ReturnsEnding
      <4> QED  BY <2>1, <3>1, <3>2, <4>1, TellingOn
    <3>4. ToldNothing'
      <4>1. \A x \in Sent : Told(x)' = Told(x)
        BY <2>1, SilentBus DEF Kept
      <4>2. \A x \in Run : (Silent(x) => Silent(x)') /\ (Begun(x) => Begun(x)')
        BY <2>1, <3>1, <3>2, TellingOn DEF Begun
      <4> QED  BY <2>1, <4>1, <4>2, StoryParts DEF ToldNothing, callers
    <3> QED  BY <2>1, <3>1, <3>3, <3>4, TellingOn, StoryAgain
  <2>2. CASE ~(result' = [result EXCEPT ![r] = "busy"] /\ UNCHANGED <<turn, bus, callers>>)
    BY <1>2, <2>2, BatchStartsInv, StartStory
  <2> QED  BY <2>1, <2>2
<1> QED  BY <1>1, <1>2

\* A turn ends with what its run returned.
LEMMA LeavesStory ==
  ASSUME SessionInv, StoryInv, NEW n \in Node, RunReturns(n) \/ RunThrows(n)
  PROVE  StoryInv'
<1> DEFINE r == turn[n].run
<1>1. UNCHANGED <<bus, callers>>
  BY DEF RunReturns, RunThrows, Leaves
<1>2. SomeoneInterrupts => SomeoneInterrupts'
  BY <1>1, SilentBus DEF callers
<1>3. /\ turn[n].at # "idle" /\ turn'[n] = Idle /\ result'[r] # "none"
      /\ \A k \in Node \ {n} : turn'[k] = turn[k]
      /\ \A x \in Run \ {r} : result'[x] = result[x]
  BY ReturnsInv, ThrowsInv DEF Status, Closers
<1>4. r \in Run
  BY <1>3, OnTurn
<1>5. ASSUME NEW x \in Run, x = turn[n].run
      PROVE  ReturnsEnding(x)'
  <2>1. \A types : Ends(x, types) => Ends(x, types)'
    BY <1>1, SilentBus DEF Kept
  <2>2. CASE RunThrows(n)
    <3>1. result'[x] = "threw"
      BY <1>5, <2>2, ThrowsInv
    <3> QED  BY <3>1 DEF ReturnsEnding
  <2>3. CASE \E c \in Closers : result'[x] = Status(c) /\ Ends(x, {c})
    <3>1. PICK c \in Closers : result'[x] = Status(c) /\ Ends(x, {c})'
      BY <2>1, <2>3
    <3> QED  BY <3>1 DEF ReturnsEnding, Status, Closers
  <2>4. CASE result'[x] = "interrupted" /\ SomeoneInterrupts /\ Ends(x, {"started", "delta"})
    BY <1>2, <2>1, <2>4 DEF ReturnsEnding
  <2> QED  BY <1>5, <2>2, <2>3, <2>4, ReturnsInv
<1>6. \A x \in Run : ReturnsEnding(x)'
  BY <1>2, <1>3, <1>5, <1>1, TellingOn
<1>7. \A k \in Node : Telling(k)'
  <2>1. Telling(n)'
    BY <1>3 DEF Telling, StorySoFar, Idle
  <2> QED  BY <1>1, <1>2, <1>3, <2>1, TellingOn
<1>8. ToldNothing'
  <2>1. \A x \in Sent : Told(x)' = Told(x)
    BY <1>1, SilentBus DEF Kept
  <2>2. \A x \in Run : Silent(x) => Silent(x)'
    BY <1>1, <1>2, TellingOn
  <2>3. ASSUME NEW x \in Run, Begun(x)
        PROVE  Begun(x)'
    <3>1. CASE x = r
      BY <1>3, <3>1 DEF Begun
    <3>2. CASE x # r
      BY <1>3, <2>3, <3>2 DEF Begun
    <3> QED  BY <3>1, <3>2
  <2> QED  BY <1>1, <2>1, <2>2, <2>3, StoryParts DEF ToldNothing, callers
<1> QED  BY <1>1, <1>2, <1>6, <1>7, <1>8, TellingOn, StoryAgain

LEMMA InitStory == SessionInit => SessionInv /\ StoryInv
<1> SUFFICES ASSUME SessionInit
             PROVE  SessionInv /\ StoryInv
  OBVIOUS
<1>1. /\ owner = NoOne /\ overrun = {} /\ \A n \in Node : turn[n] = Idle
      /\ bus = <<>> /\ \A r \in Run : result[r] = "none"
      /\ \A m \in Sent : sending[m] = "publish"
      /\ \A n \in Node : queue[n] = {}
      /\ listens = {} /\ spoiled = {}
  BY DEF SessionInit, Init
<1>2. SessionTypeOK
  <2>1. <<>> \in Seq(Event)
    BY EmptySeq
  <2>2. turn \in [Node -> Turn]
    BY IdleTurn DEF SessionInit
  <2>3. calling \in [Interrupter -> Call]
    BY DEF SessionInit, Call
  <2> QED  BY <1>1, <2>1, <2>2, <2>3 DEF SessionInit, SessionTypeOK
<1>3. Idle.at = "idle" /\ Idle.run = NoRun /\ Idle.signal = "none" /\ NoRun \notin Run
  BY SessionAssumption DEF Idle, SessionAssumption
<1>4. Sent \subseteq Run
  BY DEF Run
<1>5. HappensOnce
  BY <1>1, <1>3, <1>4 DEF HappensOnce, Active
<1>6. SessionInv
  BY <1>1, <1>2, <1>3, <1>5, SessionAssumption DEF SessionInv, Active, SessionAssumption
<1>7. \A r : Told(r) = {}
  BY <1>1, EmptySeq DEF Told
<1>8. StoryInv
  <2>1. \A r \in Run : Orderly(r) /\ ReturnsEnding(r)
    BY <1>1, <1>7 DEF Orderly, ReturnsEnding
  <2>2. \A n \in Node : Telling(n)
    BY <1>1, <1>3 DEF Telling, StorySoFar
  <2>3. ToldNothing
    BY <1>1, <1>7 DEF ToldNothing, Silent
  <2> QED  BY <2>1, <2>2, <2>3, StoryParts
<1> QED  BY <1>6, <1>8

LEMMA StutterStory ==
  ASSUME SessionInv, StoryInv, UNCHANGED svars
  PROVE  SessionInv' /\ StoryInv'
<1>1. UNCHANGED <<ttVars, queue, turn, result, outside, listening, callers>>
  BY DEF svars, turns
<1>2. SessionInv'
  <2>1. SessionTypeOK'
    BY <1>1 DEF SessionInv, SessionTypeOK, ttVars, outside, listening, callers
  <2>2. HappensOnce'
    BY <1>1, HappensKept DEF SessionInv, callers
  <2> QED  BY <1>1, <2>1, <2>2 DEF SessionInv, Active, ttVars, listening
<1>3. StoryInv'
  <2>1. UNCHANGED <<turns, sending, runningRunId, listens, spoiled, bus, calling>>
    BY <1>1 DEF turns, callers, listening, outside
  <2>2. Quiet /\ Stopping("lost") /\ "lost" # "interrupted"
    BY <2>1, SameQuiet
  <2> QED  BY <2>1, <2>2, SilentBus, QuietStory
<1> QED  BY <1>2, <1>3

LEMMA NextStory == SessionInv /\ StoryInv /\ [SessionNext]_svars => SessionInv' /\ StoryInv'
<1> SUFFICES ASSUME SessionInv, StoryInv, [SessionNext]_svars
             PROVE  SessionInv' /\ StoryInv'
  OBVIOUS
<1>1. ASSUME NEW m \in Sent, SendPublishes(m) \/ SendSubmits(m)
      PROVE  SessionInv' /\ StoryInv'
  BY <1>1, SendPublishesInv, SendPublishesStory, SendSubmitsInv, SendSubmitsStory
<1>2. ASSUME NEW i \in Interrupter,
             InterruptCalled(i) \/ InterruptReads(i) \/ InterruptPublishes(i)
      PROVE  SessionInv' /\ StoryInv'
  BY <1>2, CalledInv, ReadsInv, PublishesInv, InterruptsStory
<1>3. ASSUME NEW n \in Node, NEW r \in Run,
             TurnStarts(n, r) \/ (r \in Batch /\ BatchStarts(n, r))
      PROVE  SessionInv' /\ StoryInv'
  BY <1>3, TurnStartsInv, BatchStartsInv, StartsStory
<1>4. ASSUME NEW n \in Node, Hears(n) \/ LeaseLapses(n) \/ LeaseFoundLost(n)
      PROVE  SessionInv' /\ StoryInv'
  BY <1>4, HearsQuiet, LapsesInv, FoundLostInv, OthersStory
<1>5. ASSUME NEW n \in Node, RunGoesOn(n)
      PROVE  SessionInv' /\ StoryInv'
  <2>1. CASE RunMarks(n) \/ RunAnnounces(n)
    BY <2>1, MarksInv, MarksStory, AnnouncesInv, AnnouncesStory
  <2>2. CASE RunAudits(n) \/ RunPrepares(n)
    BY <2>2, AuditsInv, PreparesInv, AuditsStory
  <2>3. CASE RunUnmarks(n) \/ RunCloses(n)
    BY <2>3, UnmarksInv, UnmarksStory, ClosesInv, ClosesStory
  <2>4. CASE RunReturns(n)
    BY <2>4, ReturnsInv, LeavesStory
  <2> QED  BY <1>5, <2>1, <2>2, <2>3, <2>4 DEF RunGoesOn
<1>6. ASSUME NEW n \in Node, RunSays(n) \/ RunThrows(n)
      PROVE  SessionInv' /\ StoryInv'
  BY <1>6, SaysInv, SaysStory, ThrowsInv, LeavesStory
<1>7. ASSUME NEW n \in Node, NEW failed \in BOOLEAN, StreamEnds(n, failed)
      PROVE  SessionInv' /\ StoryInv'
  BY <1>7, EndsInv, EndsStory
<1>8. CASE UNCHANGED svars
  BY <1>8, StutterStory
<1> QED  BY <1>1, <1>2, <1>3, <1>4, <1>5, <1>6, <1>7, <1>8 DEF SessionNext

\* A run of a session happens once, in one queue or one turn; an instance has a
\* turn exactly while turn-taking counts it, and listens for interrupts exactly
\* while its run could use them, or for good where a run threw in between.
THEOREM SessionInvHolds == SessionSpec => []SessionInv
BY InitStory, NextStory, PTL DEF SessionSpec

\* The room is told a whole story of every run, once and in order, and what
\* runTurn returns is its ending, however interrupts, lapses of the lease,
\* failures and throws fall between the steps of the run.
THEOREM RoomIsToldInOrder == SessionSpec => []ToldInOrder
<1>1. StoryInv => ToldInOrder
  BY DEF StoryInv
<1> QED  BY <1>1, InitStory, NextStory, PTL DEF SessionSpec

(***************************************************************************)
(* RunningIsCurrent: the run that the record names.                        *)
(***************************************************************************)
Current == {"announce", "audit", "prepare", "stream", "unmark"}
Named(n) == turn[n].run = runningRunId /\ turn[n].at \in Current

LEMMA NamedRun ==
  ASSUME NEW n \in Node, turn[n] \in Turn
  PROVE  Named(n) <=> /\ turn[n].run = runningRunId
                      /\ turn[n].at \notin {"idle", "mark", "close", "audit_close"}
BY DEF Turn, Phases, Named, Current

LEMMA CurrentRun ==
  SessionInv => (RunningIsCurrent <=> \/ runningRunId = NoRun
                                      \/ result[runningRunId] = "threw"
                                      \/ \E n \in Node : Named(n))
BY NamedRun, TypeParts DEF RunningIsCurrent

LEMMA CurrentAgain ==
  ASSUME runningRunId' = NoRun \/ result'[runningRunId'] = "threw"
           \/ \E n \in Node : Named(n)'
  PROVE  RunningIsCurrent'
BY DEF RunningIsCurrent, Named, Current

LEMMA NextCurrent ==
  SessionInv /\ StoryInv /\ RunningIsCurrent /\ [SessionNext]_svars
    => RunningIsCurrent'
<1> SUFFICES ASSUME SessionInv, StoryInv, RunningIsCurrent, [SessionNext]_svars
             PROVE  runningRunId' = NoRun \/ result'[runningRunId'] = "threw"
                      \/ \E n \in Node : Named(n)'
  BY CurrentAgain
<1> DEFINE r == runningRunId
<1>1. r = NoRun \/ result[r] = "threw" \/ \E n \in Node : Named(n)
  BY CurrentRun
<1>2. r \in Run \cup {NoRun} /\ NoRun \notin Run
  BY SessionAssumption DEF SessionInv, SessionTypeOK, SessionAssumption
<1>3. ASSUME NEW n \in Node, RunMarks(n)
      PROVE  Named(n)'
  <2>1. /\ turn'[n].at = "announce" /\ turn'[n].run = turn[n].run
        /\ runningRunId' = turn[n].run
    BY <1>3, Moved, TypeParts DEF RunMarks, Records, Phases
  <2> QED  BY <2>1 DEF Named, Current
<1>4. ASSUME NEW n \in Node, RunUnmarks(n)
      PROVE  runningRunId' = NoRun
  BY <1>4 DEF RunUnmarks, Records
<1>5. ASSUME runningRunId' = r, \A x \in Run : result[x] = "threw" => result'[x] = "threw",
             \A k \in Node : Named(k) => Named(k)' \/ result'[r] = "threw"
      PROVE  runningRunId' = NoRun \/ result'[runningRunId'] = "threw"
               \/ \E n \in Node : Named(n)'
  BY <1>1, <1>2, <1>5
<1>6. ASSUME NEW n \in Node, GoesOn(n), runningRunId' = r,
             turn[n].at \in Current => turn'[n].at \in Current
      PROVE  runningRunId' = NoRun \/ result'[runningRunId'] = "threw"
               \/ \E k \in Node : Named(k)'
  BY <1>5, <1>6 DEF GoesOn, Named
<1>7. ASSUME Quiet
      PROVE  runningRunId' = NoRun \/ result'[runningRunId'] = "threw"
               \/ \E k \in Node : Named(k)'
  BY <1>5, <1>7 DEF Quiet, Named
<1>8. ASSUME NEW n \in Node, RunAnnounces(n) \/ RunAudits(n) \/ RunPrepares(n)
      PROVE  GoesOn(n) /\ runningRunId' = r /\ turn'[n].at \in Current
  <2>1. GoesOn(n) /\ runningRunId' = r
    BY <1>8, AnnouncesInv, AuditsInv, PreparesInv DEF RunAnnounces, RunAudits, RunPrepares, outside
  <2>2. turn'[n].at \in Current
    BY <1>8, Moved, TypeParts DEF RunAnnounces, RunAudits, RunPrepares, Phases, Current
  <2> QED  BY <2>1, <2>2
<1>9. ASSUME NEW n \in Node, RunSays(n) \/ \E failed \in BOOLEAN : StreamEnds(n, failed)
      PROVE  GoesOn(n) /\ runningRunId' = r /\ turn'[n].at \in Current
  BY <1>9, SaysInv, EndsInv DEF RunSays, StreamEnds, outside, Current
<1>10. ASSUME NEW n \in Node, RunCloses(n)
       PROVE  GoesOn(n) /\ runningRunId' = r /\ turn[n].at \notin Current
  BY <1>10, ClosesInv DEF RunCloses, Current
<1>11. ASSUME NEW n \in Node, RunReturns(n) \/ RunThrows(n)
       PROVE  runningRunId' = NoRun \/ result'[runningRunId'] = "threw"
                \/ \E k \in Node : Named(k)'
  <2>1. /\ turn[n].at # "idle" /\ runningRunId' = r
        /\ \A k \in Node \ {n} : turn'[k] = turn[k]
        /\ \A x \in Run \ {turn[n].run} : result'[x] = result[x]
    BY <1>11, ReturnsInv, ThrowsInv DEF RunReturns, RunThrows, Leaves
  <2>2. result[turn[n].run] = "none"
    BY <2>1, OnTurn
  <2>3. \A x \in Run : result[x] = "threw" => result'[x] = "threw"
    BY <2>1, <2>2
  <2>4. Named(n) => result'[r] = "threw"
    <3>1. CASE RunThrows(n)
      BY <3>1, ThrowsInv DEF Named
    <3>2. CASE RunReturns(n)
      BY <3>2 DEF RunReturns, Named, Current
    <3> QED  BY <1>11, <3>1, <3>2
  <2>5. \A k \in Node : Named(k) => Named(k)' \/ result'[r] = "threw"
    BY <2>1, <2>4 DEF Named
  <2> QED  BY <1>5, <2>1, <2>3, <2>5
<1>12. ASSUME NEW n \in Node, NEW x \in Run,
              TurnStarts(n, x) \/ (x \in Batch /\ BatchStarts(n, x))
       PROVE  runningRunId' = NoRun \/ result'[runningRunId'] = "threw"
                \/ \E k \in Node : Named(k)'
  <2>1. runningRunId' = r
    BY <1>12 DEF TurnStarts, BatchStarts, Starts, outside
  <2>2. \A k \in Node : Named(k) => Named(k)'
    BY <1>12, <2>1, TurnStartsInv, BatchStartsInv DEF Named, Current
  <2>3. \A y \in Run : result[y] = "threw" => result'[y] = "threw"
    <3>1. UNCHANGED result \/ (result[x] = "none" /\ result' = [result EXCEPT ![x] = "busy"])
      BY <1>12 DEF TurnStarts, BatchStarts
    <3> QED  BY <3>1, TypeParts
  <2> QED  BY <1>5, <2>1, <2>2, <2>3
<1>13. ASSUME UNCHANGED <<turn, result, runningRunId>>
       PROVE  runningRunId' = NoRun \/ result'[runningRunId'] = "threw"
                \/ \E k \in Node : Named(k)'
  BY <1>1, <1>13 DEF Named
<1>14. ASSUME NEW m \in Sent, SendPublishes(m) \/ SendSubmits(m)
       PROVE  UNCHANGED <<turn, result, runningRunId>>
  BY <1>14 DEF SendPublishes, SendSubmits, turns
<1>15. ASSUME NEW i \in Interrupter,
              InterruptCalled(i) \/ InterruptReads(i) \/ InterruptPublishes(i)
       PROVE  Quiet
  BY <1>15, CalledInv, ReadsInv, PublishesInv
<1>16. ASSUME NEW n \in Node, Hears(n) \/ LeaseLapses(n) \/ LeaseFoundLost(n)
       PROVE  Quiet
  BY <1>16, HearsQuiet, LapsesInv, FoundLostInv
<1>17. ASSUME NEW n \in Node, RunGoesOn(n) \/ RunSays(n) \/ RunThrows(n)
                \/ \E failed \in BOOLEAN : StreamEnds(n, failed)
       PROVE  runningRunId' = NoRun \/ result'[runningRunId'] = "threw"
                \/ \E k \in Node : Named(k)'
  BY <1>3, <1>4, <1>6, <1>8, <1>9, <1>10, <1>11, <1>17 DEF RunGoesOn
<1>18. CASE UNCHANGED svars
  BY <1>13, <1>18 DEF svars, turns, outside
<1> QED  BY <1>7, <1>12, <1>13, <1>14, <1>15, <1>16, <1>17, <1>18 DEF SessionNext

\* The record names a run only while it is on, or if its turn threw.
THEOREM RecordIsCurrent == SessionSpec => []RunningIsCurrent
<1>1. SessionInit => RunningIsCurrent
  BY DEF SessionInit, RunningIsCurrent
<1> QED  BY <1>1, InitStory, NextStory, NextCurrent, PTL DEF SessionSpec

=============================================================================
