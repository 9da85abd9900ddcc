----------------------------- MODULE EventFeed -----------------------------
(***************************************************************************)
(* How the events of one session reach one client: the bus in memory       *)
(* (src/bus/event-bus.ts) or on Redis (src/bus/redis.ts), the event stream *)
(* and the snapshot of one server (src/server/index.ts), and the client    *)
(* (src/client/index.ts), which reconnects.  An event is its sequence      *)
(* number.  Of its type three kinds count: a "delta" may be dropped, a     *)
(* "room" event (roster, presence, approvals) is what snapshots are of,    *)
(* and a "message" stands for the others.                                  *)
(***************************************************************************)
EXTENDS Integers, Sequences, FiniteSets

CONSTANTS Stream,       \* event streams; an id is used again when it is free
          Starter,      \* calls of start
          NoStream,
          BufferSize,   \* replayBufferSize
          HighWater,    \* frames a stream holds for a client that does not read
          Kinds,        \* of the events that are published
  MaxEvents, MaxFaults   \* bounds of the model

ASSUME FeedAssumption == /\ NoStream \notin Stream /\ Kinds \subseteq {"delta", "message", "room"}
                         /\ BufferSize \in Nat /\ HighWater \in Nat \ {0}
                         /\ MaxEvents \in Nat /\ MaxFaults \in Nat

VARIABLES
  redis,      \* which bus it is; chosen once
  log,        \* the kinds of the events published so far: its length is seq
  commands,   \* "sub" and "unsub", on their way to Redis
  inbox,      \* acknowledgements and events on their way from Redis, in order
  subscribed, \* Redis sends this process the channel
  attaching,  \* the process's promise to be subscribed: "none", "pending", "done"
  stream,     \* the server's side of each event stream
  left,       \* a handler is left of a stream that has ended
  source,     \* this.source of the client
  open,       \* the EventSources that are not closed
  timer,      \* the reconnect timer is set
  start,      \* where each call of start is
  lastSeq,
  known,      \* the events that the client's state shows
  twice,      \* history: a delta or message was added to it a second time
  missed,     \* history: trimmed from the buffer, dropped, or lost by Redis
  skipped,    \* history: what a snapshot left out when it was adopted
  faults

wire == <<commands, inbox, subscribed, attaching>>
feeds == <<stream, left>>
link == <<source, open, timer>>
shown == <<lastSeq, known, twice>>
vars == <<redis, log, wire, feeds, link, start, shown, missed, skipped, faults>>

Ack == 0    \* not the number of an event ...
Nack == -1  \* ... nor this
Seqs == 1..Len(log)
Buffer == {e \in Seqs : e > Len(log) - BufferSize}   \* the list, trimmed

\* A stream of the server: at "attach" it awaits the subscription, at "list" the
\* buffer, at "flush" it has that (got); "live" events go to the client.  Until
\* then they go to pending.  frames: not read by the client yet.  shut: the
\* stream was closed, or failed; hungUp: it was cancelled.
NewStream == [at |-> "gone", after |-> 0, got |-> {}, pending |-> {}, frames |-> <<>>,
              shut |-> FALSE, hungUp |-> FALSE]
Handled(str, stays) == stays \/ \E s \in Stream : str[s].at # "gone"

FeedTypeOK ==
  /\ log \in Seq(Kinds) /\ Len(log) <= MaxEvents
  /\ commands \in Seq({"sub", "unsub"}) /\ inbox \in Seq({Ack, Nack} \cup Seqs)
  /\ subscribed \in BOOLEAN /\ attaching \in {"none", "pending", "done"}
  /\ stream \in [Stream -> [at : {"gone", "attach", "list", "flush", "live"}, after : {0} \cup Seqs,
                            got : SUBSET Seqs, pending : SUBSET Seqs, frames : Seq(Seqs),
                            shut : BOOLEAN, hungUp : BOOLEAN]]
  /\ source \in Stream \cup {NoStream} /\ open \subseteq Stream /\ timer \in BOOLEAN
  /\ start \in [Starter -> [at : {"call", "seq", "adopt", "done"}, upTo : {0} \cup Seqs,
                            seq : {0} \cup Seqs]]
  /\ lastSeq \in {0} \cup Seqs /\ known \subseteq Seqs

Init ==
  /\ redis \in BOOLEAN
  /\ log = <<>> /\ commands = <<>> /\ inbox = <<>>
  /\ subscribed = FALSE /\ attaching = "none"
  /\ stream = [s \in Stream |-> NewStream]
  /\ left = FALSE
  /\ source = NoStream /\ open = {} /\ timer = FALSE
  /\ start = [c \in Starter |-> [at |-> "call", upTo |-> 0, seq |-> 0]]
  /\ lastSeq = 0 /\ known = {} /\ twice = FALSE /\ missed = {} /\ skipped = {}
  /\ faults = 0

Disturbs == faults < MaxFaults /\ faults' = faults + 1

-----------------------------------------------------------------------------
(* The handler of an event, of one stream, and the sets of handlers.       *)

BackedUp(st) == st.shut \/ st.hungUp \/ Len(st.frames) >= HighWater

\* Mutant: a client that does not read loses whatever comes.
OfferOrDrop(st, e, kind) == IF ~BackedUp(st) THEN [st EXCEPT !.frames = Append(@, e)] ELSE st

\* A client that does not read loses a delta; for anything else the stream is
\* closed, and the client comes back for it.
Offer(st, e, kind) ==
  IF ~BackedUp(st) THEN [st EXCEPT !.frames = Append(@, e)]
  ELSE IF kind = "delta" THEN st
  ELSE [st EXCEPT !.shut = TRUE]
Drops(st, e, kind) == kind = "delta" /\ BackedUp(st) /\ ~st.shut /\ ~st.hungUp

\* Once subscribeFrom has returned, closing it is also unsubscribing.
Handle(st, e, kind) ==
  IF st.at = "gone" THEN st
  ELSE IF st.at # "live" THEN [st EXCEPT !.pending = @ \cup {e}]
  ELSE IF BackedUp(st) /\ kind # "delta" THEN [Offer(st, e, kind) EXCEPT !.at = "gone"]
  ELSE Offer(st, e, kind)

Ended(st) == st.at = "live" /\ st.shut /\ st.frames = <<>>

\* Now the streams are str and the client has opened open; stays: the handler of
\* an ended stream is left.  With its last handler the process unsubscribes.
Settle(str, opened, stays) ==
  /\ stream' = [s \in Stream |-> IF s \notin opened /\ (str[s].at = "gone" \/ Ended(str[s]))
                                   THEN NewStream ELSE str[s]]
  /\ left' = (stays \/ \E s \in Stream \ opened : Ended(str[s]))
  /\ IF redis /\ Handled(stream, left) /\ ~Handled(stream', left')
       THEN attaching' = "none" /\ commands' = Append(commands, "unsub")
       ELSE UNCHANGED <<attaching, commands>>
Streams(str) == Settle(str, open, left)

Dispatches(e, kind) ==
  /\ Settle([s \in Stream |-> Handle(stream[s], e, kind)], open, left /\ kind = "delta")
  /\ missed' = IF \E s \in Stream : stream[s].at = "live" /\ Drops(stream[s], e, kind)
                 THEN missed \cup {e} ELSE missed

-----------------------------------------------------------------------------
(* The bus.                                                                *)

Appends(kind) == Len(log) < MaxEvents /\ log' = Append(log, kind)

\* publish in memory: the handlers are called at once.
PublishInMemory(kind) ==
  /\ ~redis /\ Appends(kind)
  /\ Dispatches(Len(log) + 1, kind)
  /\ UNCHANGED <<redis, inbox, subscribed, link, start, shown, skipped, faults>>

\* The script numbers, appends, trims and publishes in one step.
PublishOnRedis(kind) ==
  /\ redis /\ Appends(kind)
  /\ inbox' = IF subscribed THEN Append(inbox, Len(log) + 1) ELSE inbox
  /\ UNCHANGED <<redis, commands, subscribed, attaching, feeds, link, start, shown, missed,
                 skipped, faults>>

Publish(kind) == PublishInMemory(kind) \/ PublishOnRedis(kind)

\* Redis executes SUBSCRIBE or UNSUBSCRIBE; the former may fail.
RedisTakes ==
  /\ commands # <<>>
  /\ commands' = Tail(commands)
  /\ \/ /\ subscribed' = (Head(commands) = "sub")
        /\ inbox' = IF subscribed' THEN Append(inbox, Ack) ELSE inbox
        /\ UNCHANGED faults
     \/ /\ Head(commands) = "sub" /\ Disturbs
        /\ inbox' = Append(inbox, Nack) /\ UNCHANGED subscribed
  /\ UNCHANGED <<redis, log, attaching, feeds, link, start, shown, missed, skipped>>

\* subscribeFrom throws: the handler is removed, the response fails.
Failed(st) == [NewStream EXCEPT !.shut = TRUE]

\* attach, when SUBSCRIBE is answered.
Attached ==
  /\ inbox # <<>> /\ Head(inbox) \in {Ack, Nack}
  /\ inbox' = Tail(inbox)
  /\ LET waiting == {s \in Stream : stream[s].at = "attach"}
     IN  IF Head(inbox) = Ack
           THEN /\ attaching' = "done"
                /\ stream' = [s \in Stream |->
                     IF s \in waiting THEN [stream[s] EXCEPT !.at = "list"] ELSE stream[s]]
                /\ UNCHANGED <<commands, left>>
           ELSE Streams([s \in Stream |-> IF s \in waiting THEN Failed(stream[s]) ELSE stream[s]])
  /\ UNCHANGED <<redis, log, subscribed, link, start, shown, missed, skipped, faults>>

\* The message listener; a channel without handlers is not in its map.
Delivers ==
  /\ inbox # <<>> /\ Head(inbox) \in Seqs
  /\ inbox' = Tail(inbox)
  /\ IF attaching = "none" THEN UNCHANGED <<feeds, commands, attaching, missed>>
                           ELSE Dispatches(Head(inbox), log[Head(inbox)])
  /\ UNCHANGED <<redis, log, subscribed, link, start, shown, skipped, faults>>

\* Redis keeps nothing for a subscriber that is disconnected for a while.
Loses ==
  /\ inbox # <<>> /\ Head(inbox) \in Seqs /\ Disturbs
  /\ inbox' = Tail(inbox)
  /\ missed' = missed \cup {Head(inbox)}
  /\ UNCHANGED <<redis, log, commands, subscribed, attaching, feeds, link, start, shown, skipped>>

\* replay on Redis: the list is read, or the call fails.
ReadsList(s) ==
  /\ stream[s].at = "list"
  /\ LET new == {e \in Seqs : e > stream[s].after}
     IN  \/ /\ Streams([stream EXCEPT ![s].at = "flush", ![s].got = new \cap Buffer])
            /\ missed' = missed \cup (new \ Buffer)
            /\ UNCHANGED faults
         \/ Disturbs /\ Streams([stream EXCEPT ![s] = Failed(@)]) /\ UNCHANGED missed
  /\ UNCHANGED <<redis, log, inbox, subscribed, link, start, shown, skipped>>

\* subscribeFrom calls the handler with the buffered events, then, on Redis, with
\* the pending ones that are newer.  Nobody reads meanwhile: the stream takes frames
\* up to its mark, and the first one after that which is not a delta closes it.  The
\* server cannot unsubscribe yet: a stream that is closed here stays subscribed, one
\* that was cancelled does not.
Sorted(events) == CHOOSE q \in [1..Cardinality(events) -> events] :
                    /\ \A e \in events : \E k \in DOMAIN q : q[k] = e
                    /\ \A j, k \in DOMAIN q : j < k => q[j] < q[k]
Replayed(st, pending) ==
  st.got \cup {e \in pending : e > st.after /\ \A g \in st.got : e > g}
Fits(st, events) ==
  LET n == Cardinality(events)
  IN  IF BackedUp(st) THEN 0 ELSE IF n <= HighWater THEN n ELSE HighWater
Refused(st, events) == {Sorted(events)[k] : k \in Fits(st, events) + 1 .. Cardinality(events)}
Flushed(st, events, kinds) ==
  [st EXCEPT !.at = IF st.hungUp THEN "gone" ELSE "live", !.after = 0, !.got = {}, !.pending = {},
             !.frames = SubSeq(Sorted(events), 1, Fits(st, events)),
             !.shut = \E e \in Refused(st, events) : kinds[e] # "delta"]
Unsent(st, events, kinds) ==
  LET flushed == Flushed(st, events, kinds)
  IN  IF flushed.shut \/ flushed.hungUp THEN {} ELSE Refused(st, events)

Flushing(s, events) ==
  /\ stream[s].at = "flush"
  /\ Streams([stream EXCEPT ![s] = Flushed(@, events, log)])
  /\ missed' = missed \cup Unsent(stream[s], events, log)
  /\ UNCHANGED <<redis, log, inbox, subscribed, link, start, shown, skipped, faults>>

\* Mutant: what came in while the list was read is not delivered.
FlushesList(s) == Flushing(s, Replayed(stream[s], {}))

\* Mutant: nobody looks whether the client has hung up meanwhile.
FlushesForEver(s) ==
  LET events == Replayed(stream[s], stream[s].pending)
  IN  /\ stream[s].at = "flush"
      /\ Streams([stream EXCEPT ![s] = [Flushed(@, events, log) EXCEPT !.at = "live"]])
      /\ missed' = missed \cup Unsent(stream[s], events, log)
      /\ UNCHANGED <<redis, log, inbox, subscribed, link, start, shown, skipped, faults>>

Flushes(s) == Flushing(s, Replayed(stream[s], stream[s].pending))

\* cancel: the server finds that the client has closed the stream.
HangsUp(s) ==
  /\ s \notin open /\ stream[s].at # "gone" /\ ~stream[s].hungUp
  /\ Streams([stream EXCEPT ![s].hungUp = TRUE, ![s].at = IF @ = "live" THEN "gone" ELSE @])
  /\ UNCHANGED <<redis, log, inbox, subscribed, link, start, shown, missed, skipped, faults>>

-----------------------------------------------------------------------------
(* The client.                                                             *)

\* subscribeFrom in memory, which does not wait ...
SubscribesInMemory(s, after) ==
  LET new == {e \in Seqs : e > after}
      begun == [NewStream EXCEPT !.after = after]
  IN  /\ stream' = [stream EXCEPT ![s] = Flushed(begun, new \cap Buffer, log)]
      /\ missed' = missed \cup (new \ Buffer) \cup Unsent(begun, new \cap Buffer, log)
      /\ UNCHANGED <<attaching, commands>>

\* ... and on Redis, where the first handler subscribes the process.
SubscribesOnRedis(s, after) ==
  /\ stream' = [stream EXCEPT ![s] = [NewStream EXCEPT !.after = after,
                                        !.at = IF attaching = "done" THEN "list" ELSE "attach"]]
  /\ attaching' = IF attaching = "none" THEN "pending" ELSE attaching
  /\ commands' = IF attaching = "none" THEN Append(commands, "sub") ELSE commands
  /\ UNCHANGED missed

\* openStream from position after, and the request on the server.
Opens(s, after) ==
  /\ s \notin open /\ stream[s].at = "gone"
  /\ source' = s /\ open' = open \cup {s}
  /\ IF redis THEN SubscribesOnRedis(s, after) ELSE SubscribesInMemory(s, after)
  /\ UNCHANGED left

\* start: join and the request of the snapshot, whose lists are read first.
SnapshotLists(c) ==
  /\ start[c].at = "call"
  /\ \/ /\ start' = [start EXCEPT ![c] = [@ EXCEPT !.at = "seq", !.upTo = Len(log)]]
        /\ UNCHANGED faults
     \/ Disturbs /\ start' = [start EXCEPT ![c].at = "done"]
  /\ UNCHANGED <<redis, log, wire, feeds, link, shown, missed, skipped>>

SnapshotSeq(c) ==
  /\ start[c].at = "seq"
  /\ start' = [start EXCEPT ![c] = [@ EXCEPT !.at = "adopt", !.seq = Len(log)]]
  /\ UNCHANGED <<redis, log, wire, feeds, link, shown, missed, skipped, faults>>

\* hydrate, which replaces the lists, and connect, which opens a stream unless
\* there is one.
Adopts(c) ==
  /\ start[c].at = "adopt"
  /\ start' = [start EXCEPT ![c] = [at |-> "done", upTo |-> 0, seq |-> 0]]
  /\ lastSeq' = IF source = NoStream /\ start[c].seq > lastSeq THEN start[c].seq ELSE lastSeq
  /\ known' = {e \in Seqs : IF log[e] = "room" THEN e <= start[c].upTo ELSE e \in known}
  /\ skipped' = skipped \cup ((1..lastSeq') \ known')
  /\ IF source = NoStream
       THEN \E s \in Stream : Opens(s, lastSeq')
       ELSE UNCHANGED <<source, open, feeds, attaching, commands, missed>>
  /\ UNCHANGED <<redis, log, inbox, subscribed, timer, twice, faults>>

\* connect, called by itself; its calls are counted with the faults.
Connects ==
  /\ source = NoStream /\ Disturbs
  /\ \E s \in Stream : Opens(s, lastSeq)
  /\ UNCHANGED <<redis, log, inbox, subscribed, timer, start, shown, skipped>>

Disconnect ==
  /\ source # NoStream \/ timer
  /\ source' = NoStream /\ open' = open \ {source} /\ timer' = FALSE
  /\ Settle(stream, open', left)
  /\ UNCHANGED <<redis, log, inbox, subscribed, start, shown, missed, skipped, faults>>

TimerFires ==
  /\ timer /\ timer' = FALSE
  /\ \E s \in Stream : Opens(s, lastSeq)
  /\ UNCHANGED <<redis, log, inbox, subscribed, start, shown, skipped, faults>>

\* handleRaw and reduce.
Reads(s) ==
  /\ s \in open /\ stream[s].frames # <<>>
  /\ stream' = [stream EXCEPT ![s].frames = Tail(@)] /\ UNCHANGED left
  /\ LET e == Head(stream[s].frames)
     IN  IF e <= lastSeq THEN UNCHANGED shown
         ELSE /\ lastSeq' = e /\ known' = known \cup {e}
              /\ twice' = (twice \/ (e \in known /\ log[e] # "room"))
  /\ UNCHANGED <<redis, log, wire, link, start, missed, skipped, faults>>

\* onerror: whichever stream it is of, the client has no source any more.
Errs(s) ==
  /\ open' = open \ {s} /\ source' = NoStream /\ timer' = TRUE
  /\ Settle(stream, open', left)
  /\ UNCHANGED <<redis, log, inbox, subscribed, start, shown, missed, skipped>>

SeesEnd(s) == s \in open /\ stream[s].shut /\ stream[s].frames = <<>> /\ Errs(s) /\ UNCHANGED faults
Breaks(s) == s \in open /\ Disturbs /\ Errs(s)

ServerGoesOn ==
  \/ RedisTakes \/ Attached \/ Delivers
  \/ \E s \in Stream : ReadsList(s) \/ Flushes(s) \/ HangsUp(s)
ClientGoesOn ==
  \/ TimerFires
  \/ \E c \in Starter : SnapshotSeq(c) \/ Adopts(c)
  \/ \E s \in Stream : Reads(s) \/ SeesEnd(s)

Next ==
  \/ \E kind \in Kinds : Publish(kind)
  \/ ServerGoesOn \/ ClientGoesOn \/ Loses
  \/ \E c \in Starter : SnapshotLists(c)
  \/ \E s \in Stream : Breaks(s)
  \/ Connects \/ Disconnect

Spec == Init /\ [][Next]_vars
-----------------------------------------------------------------------------
(* Properties.                                                             *)

\* A client has its source open, and a stream it has open goes on or was shut.
LinkInv ==
  /\ source # NoStream => source \in open
  /\ \A s \in open : ~stream[s].hungUp /\ (stream[s].at = "gone" => stream[s].shut)

\* What a stream has at each stage, and from where it goes on.
StreamInv(st) ==
  /\ st.after <= lastSeq
  /\ st.at # "flush" => st.got = {}
  /\ st.at = "live" => st.pending = {} /\ ~st.hungUp
  /\ st.at \in {"attach", "list", "flush"} => st.frames = <<>> /\ ~st.shut

\* On Redis the process is subscribed while a stream is live, and on its way to be, or
\* not to be, as its handlers come and go.  One SUBSCRIBE at a time is under way, after
\* an UNSUBSCRIBE perhaps, and it has one answer.
Acks == {k \in DOMAIN inbox : inbox[k] \in {Ack, Nack}}
Answered == \E k \in DOMAIN inbox : Acks = {k} /\ (inbox[k] = Ack => subscribed)
WireInv ==
  IF ~redis
    THEN /\ commands = <<>> /\ inbox = <<>> /\ attaching = "none"
         /\ \A s \in Stream : stream[s].at \in {"gone", "live"}
    ELSE /\ attaching # "none" <=> Handled(stream, left)
         /\ attaching # "pending" => Acks = {} /\ \A s \in Stream : stream[s].at # "attach"
         /\ attaching = "done" => commands = <<>> /\ subscribed
         /\ attaching = "none" => \/ commands = <<>> /\ ~subscribed
                                  \/ commands = <<"unsub">>
         /\ attaching = "pending" => /\ ~left
                                     /\ \A s \in Stream : stream[s].at \in {"gone", "attach"}
                                     /\ \/ commands \in {<<"sub">>, <<"unsub", "sub">>} /\ Acks = {}
                                        \/ commands = <<>> /\ Answered

\* Events come from Redis in their order, after those that are pending.
OrderInv ==
  \A k \in DOMAIN inbox : inbox[k] \in Seqs =>
    /\ \A j \in 1..(k - 1) : inbox[j] < inbox[k]
    /\ \A s \in Stream : \A e \in stream[s].pending : e < inbox[k]

\* What a stream does not bring any more, the client need not wait for; an event in its
\* frames comes after all that the client has not seen, the buffer after what was trimmed.
Settled(e) == e <= lastSeq \/ e \in missed
Brings(st, e) == e \in st.got \cup st.pending \/ (\E k \in DOMAIN st.frames : st.frames[k] = e)
CoverInv(st) ==
  /\ st.at = "flush" \/ (st.at = "live" /\ ~st.shut) =>
       \A e \in Seqs : Settled(e) \/ Brings(st, e) \/ (\E k \in DOMAIN inbox : inbox[k] = e)
  /\ \A g \in st.got : \A e \in 1..g : Settled(e) \/ e \in st.got
  /\ \A k \in DOMAIN st.frames : \A e \in 1..(st.frames[k] - 1) :
       Settled(e) \/ (\E j \in 1..(k - 1) : st.frames[j] = e)

KnownInv == \A e \in known : log[e] = "room" \/ e <= lastSeq

\* Whatever interleaves, breaks or overlaps, the process is subscribed when a stream is
\* live, no handler is left behind by a client that the server knows is gone, and what the
\* client waits for is on its way, in order, on every stream that has not been shut.
FeedInv ==
  /\ FeedTypeOK /\ LinkInv /\ WireInv /\ OrderInv /\ KnownInv
  /\ \A s \in Stream : StreamInv(stream[s]) /\ CoverInv(stream[s])

\* Up to the event the client saw last, it has seen all there are, once, through
\* every reconnect and however streams overlap: except for deltas dropped on
\* it, what was trimmed before it came back, what Redis lost, and what it threw
\* away itself for a snapshot.
FollowsLog == ~twice /\ 1..lastSeq \subseteq known \cup missed \cup skipped

\* When nothing is on its way any more, whatever broke before, a client that has
\* a stream has caught up: it does not wait for the next event to come by.
QuietIsCaughtUp ==
  /\ commands = <<>> /\ inbox = <<>> /\ source # NoStream
  /\ \A s \in Stream : stream[s].at \in {"gone", "live"}
  /\ \A s \in open : stream[s].frames = <<>> /\ ~stream[s].shut
  => Seqs \subseteq known \cup missed \cup skipped

\* Claimed, and not kept.  Of the snapshot's seq, server/index.ts: "Reconnect the
\* stream from here and no event is seen twice or missed."  The lists are read
\* before the number: what is published in between is in neither.
NothingMissed ==
  \A c \in Starter : start[c].at = "done" =>
    \A e \in 1..lastSeq : log[e] = "room" => e \in known \cup missed
=============================================================================
