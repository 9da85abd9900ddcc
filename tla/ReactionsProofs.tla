--------------------------- MODULE ReactionsProofs ---------------------------
(***************************************************************************)
(* Proofs about Reactions, for any number of workers and of claims under   *)
(* way at once, any options of the policy, any leases and any failures.    *)
(***************************************************************************)
EXTENDS Reactions, FiniteSetTheorems, WellFoundedInduction, TLAPS

(***************************************************************************)
(* Times.                                                                  *)
(***************************************************************************)
LEMMA MaxOfTwo ==
  ASSUME NEW a \in Int, NEW b \in Int
  PROVE  Max({a, b}) = IF a >= b THEN a ELSE b
BY DEF Max

LEMMA HorizonBounds == Horizon \in Nat /\ \A time \in Times : time \in Nat /\ time <= Horizon
<1>1. Times \subseteq Nat
  BY ReactionAssumption
<1>2. \E x \in Times : \A y \in Times : x >= y
  BY <1>1 DEF Times
<1> QED  BY <1>1, <1>2 DEF Horizon, Max

LEMMA OptionTypes ==
  /\ Quiet \in Nat /\ AddressedDelay \in Nat /\ MaxWait \in Nat /\ Lease \in Nat
  /\ RetryDelay \in Nat /\ MaxWait <= Horizon
  /\ MaxChanges \in Nat /\ NoWorker \notin Worker
BY ReactionAssumption, HorizonBounds DEF Times

LEMMA LaterType == \A bound \in Nat : \A time \in 0..bound : Later(time) \in 0..bound
BY DEF Later

(***************************************************************************)
(* The parts of the type invariant, by name.                               *)
(***************************************************************************)
Event == [kind : EventKinds, age : 0..MaxWait]
Events == Seq(Event)
BatchRecord == [status : {"ready", "active", "committed"},
                holder : Worker \cup {NoWorker}, left : 0..Lease, retry : 0..RetryDelay,
                intents : {0, 1}, class : Classes, revision : 0..MaxChanges,
                replied : BOOLEAN]
BatchesOK == /\ DOMAIN batches \subseteq SUBSET Cursors
             /\ \A b \in DOMAIN batches : batches[b] \in BatchRecord
CallRecord == [at : {"idle", "deciding", "running"}, batch : SUBSET Cursors,
               decision : {"none", "wait", "consume", "run"}, left : 0..MaxWait,
               intents : {0, 1}, class : Classes, age : 0..Horizon]

LEMMA TypeParts ==
  ReactionTypeOK <=>
    /\ events \in Events /\ consumed \subseteq Cursors
    /\ state \in [revision : 0..MaxChanges, paused : BOOLEAN]
    /\ deferred \in 0..Horizon
    /\ BatchesOK
    /\ call \in [Worker -> CallRecord]
BY DEF ReactionTypeOK, Events, Event, BatchesOK, BatchRecord, CallRecord

LEMMA IdleType == Idle \in CallRecord
BY OptionTypes, HorizonBounds DEF Idle, CallRecord, Classes

LEMMA ElementOf == ASSUME NEW S, NEW s \in Seq(S)
                   PROVE  /\ DOMAIN s = 1..Len(s) /\ Len(s) \in Nat
                          /\ s \in [1..Len(s) -> S]
OBVIOUS

LEMMA FunctionIsSequence == ASSUME NEW S, NEW n \in Nat, NEW s \in [1..n -> S]
                            PROVE  s \in Seq(S) /\ Len(s) = n
OBVIOUS

LEMMA EventsType ==
  ASSUME events \in Events
  PROVE  /\ Len(events) \in Nat /\ Cursors = 1..Len(events)
         /\ \A c \in Cursors : /\ events[c] \in Event
                               /\ events[c].age \in 0..MaxWait /\ events[c].age \in Int
<1>1. /\ Len(events) \in Nat /\ Cursors = 1..Len(events)
      /\ \A c \in Cursors : events[c] \in Event
  BY ElementOf DEF Events, Cursors
<1>2. \A c \in Cursors : events[c].age \in 0..MaxWait
  BY <1>1 DEF Event
<1> QED  BY <1>1, <1>2, OptionTypes

LEMMA AgedEvent ==
  \A event \in Event : \A age \in 0..MaxWait : [event EXCEPT !.age = age] \in Event
BY DEF Event

\* Whatever is done to the ages, events stay events and keep their cursors.
LEMMA AgedEvents ==
  ASSUME events \in Events, NEW aged, aged = [c \in Cursors |-> aged[c]],
         \A c \in Cursors : aged[c] \in Event
  PROVE  aged \in Events /\ DOMAIN aged = Cursors
<1>1. Len(events) \in Nat /\ Cursors = 1..Len(events)
  BY EventsType
<1>2. aged \in [1..Len(events) -> Event] /\ DOMAIN aged = Cursors
  BY <1>1
<1> QED  BY <1>1, <1>2, FunctionIsSequence DEF Events

LEMMA LeastNatural ==
  ASSUME NEW S \in SUBSET Nat, S # {}
  PROVE  \E n \in S : \A m \in S : n <= m
<1> DEFINE Initial == {0..n : n \in S}
<1>1. Initial \subseteq FiniteSubsetsOf(Nat) /\ Initial # {}
  <2>1. \A n \in S : 0..n \subseteq Nat /\ IsFiniteSet(0..n)
    BY FS_Interval
  <2> QED  BY <2>1 DEF FiniteSubsetsOf
<1>2. PICK I \in Initial : \A J \in Initial : <<J, I>> \notin StrictSubsetOrdering(Nat)
  BY <1>1, FS_StrictSubsetOrderingWellFounded, WFMin
<1>3. PICK n \in S : I = 0..n
  OBVIOUS
<1>4. ASSUME NEW m \in S, m < n PROVE FALSE
  <2>1. 0..m \in Initial /\ 0..m \subseteq 0..n /\ n \notin 0..m /\ n \in 0..n /\ 0..n \subseteq Nat
    BY <1>4
  <2>2. <<0..m, 0..n>> \in StrictSubsetOrdering(Nat)
    <3> DEFINE I1 == 0..m  I2 == 0..n
    <3>1. I1 \in SUBSET Nat /\ I2 \in SUBSET Nat /\ I1 \subseteq I2 /\ I1 # I2
      BY <2>1
    <3> HIDE DEF I1, I2
    <3>2. <<I1, I2>> \in StrictSubsetOrdering(Nat)
      BY <3>1 DEF StrictSubsetOrdering
    <3> QED  BY <3>2 DEF I1, I2
  <2> QED  BY <1>2, <1>3, <2>1, <2>2
<1> QED  BY <1>4

LEMMA MinOf ==
  ASSUME NEW S \in SUBSET Nat, S # {}
  PROVE  Min(S) \in S /\ \A m \in S : Min(S) <= m
BY LeastNatural DEF Min

LEMMA MaxOf ==
  ASSUME NEW bound \in Nat, NEW S \in SUBSET (0..bound), S # {}
  PROVE  Max(S) \in S /\ \A m \in S : m <= Max(S)
<1> DEFINE Above == {n \in Nat : \A m \in S : m <= n}
<1>1. bound \in Above
  OBVIOUS
<1>2. PICK n \in Above : \A m \in Above : n <= m
  BY <1>1, LeastNatural
<1>3. n \in S
  <2>1. SUFFICES ASSUME n \notin S PROVE FALSE
    OBVIOUS
  <2>2. PICK m \in S : TRUE
    OBVIOUS
  <2>3. n > 0 /\ n - 1 \in Nat
    BY <2>1, <2>2
  <2>4. n - 1 \in Above
    BY <2>1, <2>3
  <2> QED  BY <1>2, <2>3, <2>4
<1> QED  BY <1>3 DEF Max

LEMMA DecideType ==
  ASSUME ReactionTypeOK, NEW items \in SUBSET Cursors, items # {}
  PROVE  /\ Decide(items) \in CallRecord
         /\ Decide(items).at = "deciding" /\ Decide(items).batch = Bounded(items)
         /\ Bounded(items) \subseteq items /\ Bounded(items) # {}
<1>1. /\ Len(events) \in Nat /\ Cursors = 1..Len(events)
      /\ \A c \in Cursors : events[c].age \in 0..MaxWait /\ events[c].age \in Int
  BY TypeParts, EventsType
<1>2. Min(items) \in items /\ \A c \in items : Min(items) <= c
  <2>1. items \in SUBSET Nat
    BY <1>1
  <2> QED  BY <2>1, MinOf
<1>3. Bounded(items) \subseteq items /\ Min(items) \in Bounded(items)
  <2>1. {d \in items : d < Min(items)} = {}
    <3>1. \A d \in items : d \in Int
      BY <1>1
    <3> QED  BY <1>2, <3>1
  <2>2. Cardinality({d \in items : d < Min(items)}) < MaxBatch
    BY <2>1, FS_EmptySet, ReactionAssumption
  <2> QED  BY <1>2, <2>2 DEF Bounded
<1>4. Max(Bounded(items)) \in Bounded(items)
  <2>1. \A c \in Cursors : c \in 0..Len(events)
    BY <1>1
  <2>2. Bounded(items) \in SUBSET (0..Len(events)) /\ Bounded(items) # {}
    BY <1>3, <2>1
  <2> QED  BY <1>1, <2>2, MaxOf
<1> DEFINE some(kind) == \E c \in Bounded(items) : events[c].kind = kind
           full == Cardinality(Bounded(items)) >= MaxBatch
           delay == IF some("addressed") THEN AddressedDelay ELSE Quiet
           quietLeft == delay - events[Max(Bounded(items))].age
           waitLeft == MaxWait - events[Min(items)].age
           left == Least(quietLeft, waitLeft)
           decided == [Idle EXCEPT !.at = "deciding", !.batch = Bounded(items)]
           consume == [decided EXCEPT !.decision = "consume"]
           wait == [decided EXCEPT !.decision = "wait", !.left = left]
           run == [decided EXCEPT !.decision = "run",
                     !.intents = IF some("addressed") \/ RespondToAmbient THEN 1 ELSE 0,
                     !.class = IF some("addressed") THEN "solicited" ELSE "unsolicited"]
           WellFormed(record) == /\ record \in CallRecord /\ record.at = "deciding"
                                 /\ record.batch = Bounded(items)
<1>5. left \in Int /\ left <= MaxWait
  <2>1. delay \in Int
    BY OptionTypes
  <2>2. /\ events[Max(Bounded(items))].age \in Int
        /\ events[Min(items)].age \in Int /\ events[Min(items)].age >= 0
    <3>1. Max(Bounded(items)) \in Cursors /\ Min(items) \in Cursors
      BY <1>2, <1>3, <1>4
    <3> QED  BY <1>1, <3>1, OptionTypes
  <2> HIDE DEF delay
  <2>3. quietLeft \in Int /\ waitLeft \in Int /\ waitLeft <= MaxWait
    BY <2>1, <2>2, OptionTypes
  <2> HIDE DEF quietLeft, waitLeft
  <2>4. MaxWait \in Int
    BY OptionTypes
  <2> QED  BY <2>3, <2>4 DEF Least
<1>6. decided \in CallRecord /\ decided.at = "deciding" /\ decided.batch = Bounded(items)
  <2>1. Bounded(items) \in SUBSET Cursors
    BY <1>3
  <2> QED  BY <2>1, IdleType DEF CallRecord
<1> HIDE DEF decided, left, quietLeft, waitLeft, delay, some, full
<1>7. WellFormed(consume)
  BY <1>3, <1>6 DEF CallRecord
<1>8. left > 0 => WellFormed(wait)
  <2>1. left > 0 => left \in 0..MaxWait
    BY <1>5, OptionTypes
  <2> QED  BY <1>3, <1>6, <2>1 DEF CallRecord
<1>9. WellFormed(run)
  BY <1>3, <1>6 DEF CallRecord, Classes
<1>10. Decide(items) \in {consume, run} \/ (left > 0 /\ Decide(items) = wait)
  BY DEF Decide, decided, left, quietLeft, waitLeft, delay, some, full
<1> HIDE DEF consume, run, wait, WellFormed
<1>11. WellFormed(Decide(items))
  BY <1>7, <1>8, <1>9, <1>10
<1> QED  BY <1>3, <1>11 DEF WellFormed

-----------------------------------------------------------------------------
(* What is written keeps its type.                                         *)

LEMMA TypePartsNext ==
  ReactionTypeOK' <=>
    /\ events' \in Events /\ consumed' \subseteq Cursors'
    /\ state' \in [revision : 0..MaxChanges, paused : BOOLEAN]
    /\ deferred' \in 0..Horizon
    /\ BatchesOK'
    /\ call' \in [Worker -> CallRecord']
BY DEF ReactionTypeOK, Events, Event, BatchesOK, BatchRecord, CallRecord

LEMMA LeaseLeft ==
  ASSUME NEW elapsed \in 0..Horizon
  PROVE  Max({0, Lease - elapsed}) \in 0..Lease
<1>1. elapsed \in Nat /\ Lease \in Nat
  BY OptionTypes, HorizonBounds
<1>2. Max({0, Lease - elapsed}) = IF 0 >= Lease - elapsed THEN 0 ELSE Lease - elapsed
  BY <1>1, MaxOfTwo
<1> QED  BY <1>1, <1>2

\* A record of a batch that is given to a worker is one, and open.
LEMMA ActivatedType ==
  ASSUME NEW record \in BatchRecord, NEW w \in Worker, NEW elapsed \in 0..Horizon
  PROVE  /\ Activated(record, w, elapsed) \in BatchRecord
         /\ Activated(record, w, elapsed).status = "active"
         /\ Activated(record, w, elapsed).class = record.class
         /\ Activated(record, w, elapsed).intents = record.intents
         /\ Activated(record, w, elapsed).replied = record.replied
<1>1. Max({0, Lease - elapsed}) \in 0..Lease
  BY LeaseLeft
<1> QED  BY <1>1 DEF Activated, BatchRecord

LEMMA RunningType ==
  ASSUME NEW b \in SUBSET Cursors
  PROVE  /\ [Idle EXCEPT !.at = "running", !.batch = b] \in CallRecord
         /\ [Idle EXCEPT !.at = "running", !.batch = b].at = "running"
BY IdleType DEF CallRecord

LEMMA WritesCall ==
  ASSUME ReactionTypeOK, NEW w \in Worker, NEW record \in CallRecord,
         call' = [call EXCEPT ![w] = record]
  PROVE  /\ call' \in [Worker -> CallRecord] /\ call'[w] = record
         /\ \A v \in Worker \ {w} : call'[v] = call[v]
BY DEF ReactionTypeOK, CallRecord

LEMMA ConsumeType ==
  ASSUME ReactionTypeOK, NEW b \in SUBSET Cursors, Consume(b)
  PROVE  /\ events' \in Events /\ Cursors' = Cursors
         /\ consumed' = consumed \cup b /\ deferred' \in 0..Horizon
<1>1. events \in Events
  BY TypeParts
<1>2. events' = [c \in Cursors |-> events'[c]]
  BY DEF Consume
<1>3. \A c \in Cursors : events'[c] \in Event
  <2>1. TAKE c \in Cursors
  <2>2. events[c] \in Event /\ MaxWait \in 0..MaxWait
    BY <1>1, EventsType, OptionTypes
  <2> QED  BY <2>2, AgedEvent DEF Consume
<1>4. events' \in Events /\ DOMAIN events' = Cursors
  BY <1>1, <1>2, <1>3, AgedEvents
<1> QED  BY <1>4, HorizonBounds DEF Consume, Cursors

LEMMA SameCursors ==
  Cursors' = Cursors => CallRecord' = CallRecord
BY DEF CallRecord

-----------------------------------------------------------------------------
(* The type invariant.                                                     *)

LEMMA TypeInit == Init => ReactionTypeOK
<1> SUFFICES ASSUME Init PROVE ReactionTypeOK
  OBVIOUS
<1>1. events \in Events /\ Cursors = {}
  BY DEF Init, Events, Cursors
<1>2. consumed \subseteq Cursors /\ call \in [Worker -> CallRecord] /\ BatchesOK
  BY IdleType DEF Init, BatchesOK
<1>3. state \in [revision : 0..MaxChanges, paused : BOOLEAN] /\ deferred \in 0..Horizon
  BY OptionTypes, HorizonBounds DEF Init
<1> QED  BY <1>1, <1>2, <1>3, TypeParts

LEMMA TypeIngest ==
  ASSUME ReactionTypeOK, NEW kind \in EventKinds, Ingest(kind)
  PROVE  /\ ReactionTypeOK' /\ Cursors \subseteq Cursors'
         /\ \A c \in Cursors' \ Cursors : \A d \in Cursors : d < c
<1>1. events \in Events /\ [kind |-> kind, age |-> 0] \in Event
  BY TypeParts, OptionTypes DEF Event
<1>2. events' \in Events /\ Len(events') = Len(events) + 1
  BY <1>1 DEF Events, Ingest
<1>3. Len(events) \in Nat /\ Cursors = 1..Len(events) /\ Cursors' = 1..(Len(events) + 1)
  BY <1>1, <1>2, ElementOf DEF Events, Cursors
<1>4. Cursors \subseteq Cursors' /\ \A c \in Cursors' \ Cursors : \A d \in Cursors : d < c
  BY <1>3
<1>5. CallRecord \subseteq CallRecord'
  BY <1>4 DEF CallRecord
<1>6. BatchesOK' /\ call' \in [Worker -> CallRecord'] /\ consumed' \subseteq Cursors'
  BY <1>4, <1>5, TypeParts DEF BatchesOK, Ingest
<1>7. deferred' \in 0..Horizon /\ state' = state
  BY HorizonBounds DEF Ingest
<1> QED  BY <1>2, <1>4, <1>6, <1>7, TypeParts, TypePartsNext

LEMMA TypeTick ==
  ASSUME ReactionTypeOK, Tick
  PROVE  ReactionTypeOK' /\ Cursors' = Cursors
<1>1. events' \in Events /\ Cursors' = Cursors
  <2>1. events' = [c \in Cursors |-> events'[c]] /\ events \in Events
    BY TypeParts DEF Tick
  <2>2. \A c \in Cursors : events'[c] \in Event
    <3>1. TAKE c \in Cursors
    <3>2. events[c] \in Event /\ events[c].age \in 0..MaxWait
      BY <2>1, EventsType
    <3>3. Least(events[c].age + 1, MaxWait) \in 0..MaxWait
      BY <3>2, OptionTypes DEF Least
    <3> QED  BY <3>2, <3>3, AgedEvent DEF Tick
  <2> QED  BY <2>1, <2>2, AgedEvents DEF Cursors
<1>2. BatchesOK'
  <2>1. \A record \in BatchRecord :
          [record EXCEPT !.left = Later(@), !.retry = Later(@)] \in BatchRecord
    <3>1. TAKE record \in BatchRecord
    <3>2. Later(record.left) \in 0..Lease /\ Later(record.retry) \in 0..RetryDelay
      BY OptionTypes, LaterType DEF BatchRecord
    <3> QED  BY <3>2 DEF BatchRecord
  <2> QED  BY <1>1, <2>1, TypeParts DEF BatchesOK, Tick
<1>3. call' \in [Worker -> CallRecord]
  <2>1. \A record \in CallRecord :
          [record EXCEPT !.age = Least(@ + 1, Horizon)] \in CallRecord
    <3>1. TAKE record \in CallRecord
    <3>2. Least(record.age + 1, Horizon) \in 0..Horizon
      BY HorizonBounds DEF CallRecord, Least
    <3> QED  BY <3>2 DEF CallRecord
  <2> QED  BY <2>1, TypeParts DEF Tick
<1>4. deferred' \in 0..Horizon
  BY TypeParts, LaterType, HorizonBounds DEF Tick
<1> QED  BY <1>1, <1>2, <1>3, <1>4, SameCursors, TypeParts, TypePartsNext DEF Tick

\* What an action has to show when it takes no event in.
LEMMA TypeSame ==
  ASSUME ReactionTypeOK, UNCHANGED <<events, state>>, consumed' \subseteq Cursors,
         deferred' \in 0..Horizon, call' \in [Worker -> CallRecord],
         DOMAIN batches' \subseteq SUBSET Cursors,
         \A b \in DOMAIN batches' : batches'[b] \in BatchRecord
  PROVE  ReactionTypeOK'
<1>1. Cursors' = Cursors
  BY DEF Cursors
<1> QED  BY <1>1, SameCursors, TypeParts, TypePartsNext DEF BatchesOK

LEMMA TypeClaimsRetry ==
  ASSUME ReactionTypeOK, NEW w \in Worker, ClaimsRetry(w)
  PROVE  ReactionTypeOK'
<1>1. PICK b \in DOMAIN batches :
        /\ Runs(w, b)
        /\ batches' = [d \in DOMAIN batches |->
             IF d = b THEN Activated(batches[b], w, 0)
             ELSE IF Expired(d) THEN [batches[d] EXCEPT !.status = "ready"] ELSE batches[d]]
  BY DEF ClaimsRetry
<1>2. \A record \in BatchRecord : [record EXCEPT !.status = "ready"] \in BatchRecord
  BY DEF BatchRecord
<1>3. \A d \in DOMAIN batches : batches[d] \in BatchRecord /\ d \in SUBSET Cursors
  BY TypeParts DEF BatchesOK
<1>4. Activated(batches[b], w, 0) \in BatchRecord
  BY <1>3, ActivatedType, HorizonBounds
<1>5. \A d \in DOMAIN batches' : batches'[d] \in BatchRecord
  BY <1>1, <1>2, <1>3, <1>4
<1>6. DOMAIN batches' = DOMAIN batches
  BY <1>1
<1>7. call' \in [Worker -> CallRecord]
  BY <1>1, <1>3, RunningType, WritesCall DEF Runs
<1> QED  BY <1>3, <1>5, <1>6, <1>7, TypeParts, TypeSame DEF ClaimsRetry, inputs

LEMMA TypeAsks ==
  ASSUME ReactionTypeOK, NEW w \in Worker, Asks(w)
  PROVE  ReactionTypeOK'
<1>1. Pending \in SUBSET Cursors /\ Pending # {}
  BY DEF Asks, Pending, Waiting
<1>2. Decide(Pending) \in CallRecord
  BY <1>1, DecideType
<1>3. call' \in [Worker -> CallRecord]
  BY <1>2, WritesCall DEF Asks
<1> QED  BY <1>3, TypeParts, TypeSame DEF Asks, inputs, BatchesOK

LEMMA TypeReturns ==
  ASSUME ReactionTypeOK, NEW w \in Worker, Returns(w)
  PROVE  call' \in [Worker -> CallRecord] /\ call'[w] = Idle
BY IdleType, WritesCall DEF Returns

LEMMA TypeWaits ==
  ASSUME ReactionTypeOK, NEW w \in Worker, Waits(w)
  PROVE  ReactionTypeOK'
<1>1. call[w].left \in 0..MaxWait /\ call[w].age \in 0..Horizon /\ deferred \in 0..Horizon
  BY TypeParts DEF CallRecord
<1>2. deferred' \in 0..Horizon
  BY <1>1, MaxOfTwo, OptionTypes, HorizonBounds DEF Waits
<1>3. call' \in [Worker -> CallRecord]
  BY TypeReturns DEF Waits
<1> QED  BY <1>2, <1>3, TypeParts, TypeSame DEF Waits, inputs, BatchesOK

LEMMA TypeConsumes ==
  ASSUME ReactionTypeOK, NEW b \in SUBSET Cursors, Consume(b), state' = state,
         call' \in [Worker -> CallRecord],
         DOMAIN batches' \subseteq SUBSET Cursors,
         \A d \in DOMAIN batches' : batches'[d] \in BatchRecord
  PROVE  ReactionTypeOK'
BY ConsumeType, SameCursors, TypeParts, TypePartsNext DEF BatchesOK

LEMMA TypeSuppresses ==
  ASSUME ReactionTypeOK, NEW w \in Worker, Suppresses(w)
  PROVE  ReactionTypeOK'
<1>1. call[w].batch \in SUBSET Cursors
  BY TypeParts DEF CallRecord
<1> QED  BY <1>1, TypeReturns, TypeConsumes, TypeParts DEF Suppresses, BatchesOK

\* The record a claim makes.
Made(w) == [status |-> "ready", holder |-> NoWorker, left |-> 0, retry |-> 0,
            intents |-> call[w].intents, class |-> call[w].class,
            revision |-> state.revision, replied |-> FALSE]
MadeFor(w) == [d \in DOMAIN batches \cup {call[w].batch} |->
                 IF d = call[w].batch THEN Activated(Made(w), w, call[w].age) ELSE batches[d]]

LEMMA ClaimsEither ==
  ASSUME NEW w \in Worker, Claims(w)
  PROVE  \/ /\ ReserveBudget(call[w].intents, call[w].class)
            /\ batches' = MadeFor(w) /\ Runs(w, call[w].batch)
         \/ Returns(w) /\ UNCHANGED batches
BY DEF Claims, MadeFor, Made

LEMMA MadeType ==
  ASSUME ReactionTypeOK, NEW w \in Worker
  PROVE  /\ call[w].batch \in SUBSET Cursors /\ Made(w) \in BatchRecord
         /\ Activated(Made(w), w, call[w].age) \in BatchRecord
         /\ Activated(Made(w), w, call[w].age).status = "active"
<1>1. call[w] \in CallRecord /\ state \in [revision : 0..MaxChanges, paused : BOOLEAN]
  BY TypeParts
<1>2. /\ call[w].batch \in SUBSET Cursors /\ call[w].age \in 0..Horizon
      /\ call[w].intents \in {0, 1} /\ call[w].class \in Classes /\ state.revision \in 0..MaxChanges
  BY <1>1 DEF CallRecord
<1>3. Made(w) \in BatchRecord
  BY <1>2, OptionTypes DEF Made, BatchRecord
<1> QED  BY <1>2, <1>3, ActivatedType

LEMMA TypeClaims ==
  ASSUME ReactionTypeOK, NEW w \in Worker, Claims(w)
  PROVE  ReactionTypeOK'
<1>1. \A d \in DOMAIN batches : batches[d] \in BatchRecord /\ d \in SUBSET Cursors
  BY TypeParts DEF BatchesOK
<1>2. CASE batches' = MadeFor(w) /\ Runs(w, call[w].batch)
  <2>1. /\ DOMAIN batches' \subseteq SUBSET Cursors
        /\ \A d \in DOMAIN batches' : batches'[d] \in BatchRecord
    BY <1>1, <1>2, MadeType DEF MadeFor
  <2>2. call' \in [Worker -> CallRecord]
    BY <1>2, MadeType, RunningType, WritesCall DEF Runs
  <2> QED  BY <2>1, <2>2, TypeParts, TypeSame DEF Claims, inputs
<1>3. CASE Returns(w) /\ UNCHANGED batches
  BY <1>1, <1>3, TypeReturns, TypeParts, TypeSame DEF Claims, inputs, BatchesOK
<1> QED  BY <1>2, <1>3, ClaimsEither

LEMMA ZeroTimes ==
  /\ 0 \in 0..Lease /\ Lease \in 0..Lease /\ 0 \in 0..RetryDelay /\ RetryDelay \in 0..RetryDelay
  /\ NoWorker \in Worker \cup {NoWorker}
BY OptionTypes

\* From one record to another, without a commitment.
Same(old, new) ==
  /\ new \in BatchRecord
  /\ new.status = "committed" <=> old.status = "committed"
  /\ new.class = old.class /\ new.intents = old.intents /\ new.replied = old.replied

LEMMA ReleaseType ==
  ASSUME ReactionTypeOK, NEW w \in Worker, Release(w)
  PROVE  /\ DOMAIN batches' = DOMAIN batches
         /\ \A b \in DOMAIN batches : /\ Same(batches[b], batches'[b])
                                      /\ batches'[b] \in BatchRecord /\ b \in SUBSET Cursors
<1>1. \A b \in DOMAIN batches : batches[b] \in BatchRecord /\ b \in SUBSET Cursors
  BY TypeParts DEF BatchesOK
<1>2. CASE ~IsOwner(w)
  <2>1. batches' = batches
    BY <1>2 DEF Release
  <2> QED  BY <1>1, <2>1 DEF Same
<1>3. CASE IsOwner(w)
  <2> DEFINE Released(record) == [record EXCEPT !.status = "ready", !.retry = RetryDelay,
                                                !.holder = NoWorker, !.left = 0]
  <2>1. \A record \in BatchRecord :
          record.status = "active" => Same(record, Released(record))
    BY ZeroTimes DEF BatchRecord, Same
  <2>2. /\ call[w].batch \in DOMAIN batches /\ batches[call[w].batch].status = "active"
        /\ batches' = [batches EXCEPT ![call[w].batch] = Released(batches[call[w].batch])]
    BY <1>3 DEF IsOwner, Running, Release
  <2> HIDE DEF Released
  <2>3. /\ DOMAIN batches' = DOMAIN batches
        /\ batches'[call[w].batch] = Released(batches[call[w].batch])
        /\ \A b \in DOMAIN batches \ {call[w].batch} : batches'[b] = batches[b]
    BY <2>2
  <2>4. \A b \in DOMAIN batches : Same(batches[b], batches'[b])
    <3>1. TAKE b \in DOMAIN batches
    <3>2. CASE b = call[w].batch
      BY <1>1, <2>1, <2>2, <2>3, <3>2
    <3>3. CASE b # call[w].batch
      BY <1>1, <2>3, <3>3 DEF Same
    <3> QED  BY <3>2, <3>3
  <2> QED  BY <1>1, <2>3, <2>4 DEF Same
<1> QED  BY <1>2, <1>3

LEMMA TypeRenew ==
  ASSUME ReactionTypeOK, NEW w \in Worker, Renew(w)
  PROVE  ReactionTypeOK'
<1>1. \A b \in DOMAIN batches : batches[b] \in BatchRecord /\ b \in SUBSET Cursors
  BY TypeParts DEF BatchesOK
<1>2. \A record \in BatchRecord : [record EXCEPT !.left = Lease] \in BatchRecord
  BY OptionTypes DEF BatchRecord
<1>3. /\ DOMAIN batches' = DOMAIN batches
      /\ \A b \in DOMAIN batches' : batches'[b] \in BatchRecord
  BY <1>1, <1>2 DEF Renew
<1> QED  BY <1>1, <1>3, TypeParts, TypeSame DEF Renew, inputs

LEMMA TypeRunFails ==
  ASSUME ReactionTypeOK, NEW w \in Worker, RunFails(w)
  PROVE  ReactionTypeOK'
BY ReleaseType, TypeReturns, TypeParts, TypeSame DEF RunFails, inputs

LEMMA TypeCompletesLate ==
  ASSUME ReactionTypeOK, NEW w \in Worker, CompletesLate(w)
  PROVE  ReactionTypeOK'
<1>1. \A b \in DOMAIN batches : batches[b] \in BatchRecord /\ b \in SUBSET Cursors
  BY TypeParts DEF BatchesOK
<1>2. \A record \in BatchRecord : [record EXCEPT !.status = "ready", !.retry = 0] \in BatchRecord
  BY ZeroTimes DEF BatchRecord
<1>3. /\ DOMAIN batches' = DOMAIN batches
      /\ \A b \in DOMAIN batches' : batches'[b] \in BatchRecord
  BY <1>1, <1>2 DEF CompletesLate
<1> QED  BY <1>1, <1>3, TypeReturns, TypeParts, TypeSame DEF CompletesLate, inputs

\* What the owner's complete does: drop, give back or commit.
Drops(w) == batches' = Without(call[w].batch) /\ UNCHANGED <<events, consumed, deferred>>
GivesBack(w) == Release(w) /\ UNCHANGED <<events, consumed, deferred>>
Commits(w, replies) ==
  /\ ~Changed(batches[call[w].batch])
  /\ replies => batches[call[w].batch].intents # 0
  /\ batches' = [batches EXCEPT ![call[w].batch] =
       [@ EXCEPT !.status = "committed", !.replied = replies, !.left = 0, !.retry = 0]]
  /\ Consume(call[w].batch)

LEMMA CompletesEither ==
  ASSUME NEW w \in Worker, NEW replies \in BOOLEAN, Completes(w, replies)
  PROVE  /\ Owns(w) /\ Returns(w) /\ UNCHANGED <<state, silenced, faults>>
         /\ Drops(w) \/ GivesBack(w) \/ Commits(w, replies)
BY DEF Completes, Drops, GivesBack, Commits

LEMMA CommittedType ==
  ASSUME NEW record \in BatchRecord, NEW replies \in BOOLEAN
  PROVE  LET committed == [record EXCEPT !.status = "committed", !.replied = replies,
                                         !.left = 0, !.retry = 0]
         IN  /\ committed \in BatchRecord /\ committed.status = "committed"
             /\ committed.class = record.class /\ committed.intents = record.intents
BY ZeroTimes DEF BatchRecord

LEMMA TypeCompletes ==
  ASSUME ReactionTypeOK, NEW w \in Worker, NEW replies \in BOOLEAN, Completes(w, replies)
  PROVE  ReactionTypeOK'
<1>1. \A b \in DOMAIN batches : batches[b] \in BatchRecord /\ b \in SUBSET Cursors
  BY TypeParts DEF BatchesOK
<1>2. Returns(w) /\ UNCHANGED <<state, silenced, faults>>
  BY CompletesEither
<1>3. call' \in [Worker -> CallRecord]
  BY <1>2, TypeReturns
<1>4. CASE Drops(w)
  <2>1. /\ DOMAIN batches' \subseteq DOMAIN batches
        /\ \A b \in DOMAIN batches' : batches'[b] \in BatchRecord
    BY <1>1, <1>4 DEF Drops, Without
  <2> QED  BY <1>1, <1>2, <1>3, <1>4, <2>1, TypeParts, TypeSame DEF Drops
<1>5. CASE GivesBack(w)
  BY <1>2, <1>3, <1>5, ReleaseType, TypeParts, TypeSame DEF GivesBack
<1>6. CASE Commits(w, replies)
  <2>1. call[w].batch \in SUBSET Cursors
    BY TypeParts DEF CallRecord
  <2>2. /\ DOMAIN batches' = DOMAIN batches
        /\ \A b \in DOMAIN batches' : batches'[b] \in BatchRecord
    BY <1>1, <1>6, CommittedType DEF Commits
  <2> QED  BY <1>1, <1>2, <1>3, <1>6, <2>1, <2>2, TypeConsumes DEF Commits
<1> QED  BY <1>4, <1>5, <1>6, CompletesEither

LEMMA TypeStep ==
  ASSUME ReactionTypeOK, [Next]_vars
  PROVE  ReactionTypeOK'
<1>1. ASSUME NEW kind \in EventKinds, Ingest(kind) PROVE ReactionTypeOK'
  BY <1>1, TypeIngest
<1>2. CASE SetSessionState
  <2>1. /\ state' \in [revision : 0..MaxChanges, paused : BOOLEAN]
        /\ UNCHANGED <<events, consumed, deferred, batches, call>>
    BY <1>2, TypeParts, OptionTypes DEF SetSessionState
  <2>2. Cursors' = Cursors
    BY <2>1 DEF Cursors
  <2> QED  BY <2>1, <2>2, SameCursors, TypeParts, TypePartsNext DEF BatchesOK
<1>3. CASE Tick
  BY <1>3, TypeTick
<1>4. ASSUME NEW w \in Worker, ClaimsRetry(w) \/ Asks(w) \/ GoesOn(w)
      PROVE  ReactionTypeOK'
  BY <1>4, TypeClaimsRetry, TypeAsks, TypeWaits, TypeSuppresses, TypeClaims, TypeCompletesLate
     DEF GoesOn
<1>5. ASSUME NEW w \in Worker, Renew(w) \/ RunEnds(w) \/ RunFails(w) PROVE ReactionTypeOK'
  BY <1>5, TypeRenew, TypeCompletes, TypeRunFails DEF RunEnds
<1>6. CASE UNCHANGED vars
  <2>1. Cursors' = Cursors
    BY <1>6 DEF vars, Cursors
  <2> QED  BY <1>6, <2>1, SameCursors, TypeParts, TypePartsNext DEF vars, BatchesOK
<1> QED  BY <1>1, <1>2, <1>3, <1>4, <1>5, <1>6 DEF Next

\* Every variable has its type, whatever the workers, the options of the policy,
\* the leases, the failures and the number of claims under way.
THEOREM ReactionTypeCorrect == Spec => []ReactionTypeOK
BY TypeInit, TypeStep, PTL DEF Spec

-----------------------------------------------------------------------------
(* What a step does to the batches.                                        *)

\* Nothing, but for leases and waits and who holds them.
BatchesKept == /\ DOMAIN batches' = DOMAIN batches
               /\ \A b \in DOMAIN batches : Same(batches[b], batches'[b])

LEMMA UnchangedKeeps ==
  ASSUME ReactionTypeOK, batches' = batches
  PROVE  BatchesKept
BY TypeParts DEF BatchesKept, BatchesOK, Same

LEMMA TickKeeps ==
  ASSUME ReactionTypeOK, Tick
  PROVE  BatchesKept
<1>1. \A record \in BatchRecord :
        Same(record, [record EXCEPT !.left = Later(@), !.retry = Later(@)])
  <2>1. TAKE record \in BatchRecord
  <2>2. Later(record.left) \in 0..Lease /\ Later(record.retry) \in 0..RetryDelay
    BY OptionTypes, LaterType DEF BatchRecord
  <2> QED  BY <2>2 DEF BatchRecord, Same
<1> QED  BY <1>1, TypeParts DEF Tick, BatchesKept, BatchesOK

LEMMA RetryKeeps ==
  ASSUME ReactionTypeOK, NEW w \in Worker, ClaimsRetry(w)
  PROVE  BatchesKept
<1>1. PICK b \in DOMAIN batches :
        /\ Retriable(b)
        /\ batches' = [d \in DOMAIN batches |->
             IF d = b THEN Activated(batches[b], w, 0)
             ELSE IF Expired(d) THEN [batches[d] EXCEPT !.status = "ready"] ELSE batches[d]]
  BY DEF ClaimsRetry
<1>2. \A d \in DOMAIN batches : batches[d] \in BatchRecord
  BY TypeParts DEF BatchesOK
<1>3. batches[b].status # "committed"
  BY <1>1 DEF Retriable, Expired
<1>4. Same(batches[b], Activated(batches[b], w, 0))
  BY <1>2, <1>3, ActivatedType, HorizonBounds DEF Same
<1>5. \A d \in DOMAIN batches :
        Expired(d) => Same(batches[d], [batches[d] EXCEPT !.status = "ready"])
  <2>1. \A record \in BatchRecord :
          record.status = "active" => Same(record, [record EXCEPT !.status = "ready"])
    BY DEF BatchRecord, Same
  <2> QED  BY <1>2, <2>1 DEF Expired
<1>6. \A d \in DOMAIN batches : Same(batches[d], batches[d])
  BY <1>2 DEF Same
<1> QED  BY <1>1, <1>4, <1>5, <1>6 DEF BatchesKept

LEMMA RenewKeeps ==
  ASSUME ReactionTypeOK, NEW w \in Worker, Renew(w)
  PROVE  BatchesKept
<1>1. \A d \in DOMAIN batches : batches[d] \in BatchRecord /\ Same(batches[d], batches[d])
  BY TypeParts DEF BatchesOK, Same
<1>2. \A record \in BatchRecord : Same(record, [record EXCEPT !.left = Lease])
  BY ZeroTimes DEF BatchRecord, Same
<1> QED  BY <1>1, <1>2 DEF Renew, BatchesKept

LEMMA ReleaseKeeps ==
  ASSUME ReactionTypeOK, NEW w \in Worker, Release(w)
  PROVE  BatchesKept
BY ReleaseType DEF BatchesKept

LEMMA LateKeeps ==
  ASSUME ReactionTypeOK, NEW w \in Worker, CompletesLate(w)
  PROVE  BatchesKept
<1>1. \A d \in DOMAIN batches : batches[d] \in BatchRecord /\ Same(batches[d], batches[d])
  BY TypeParts DEF BatchesOK, Same
<1>2. \A record \in BatchRecord :
        record.status = "active" => Same(record, [record EXCEPT !.status = "ready", !.retry = 0])
  BY ZeroTimes DEF BatchRecord, Same
<1>3. CASE ~IsOwner(w)
  <2>1. batches' = batches
    BY <1>3 DEF CompletesLate
  <2> QED  BY <2>1, UnchangedKeeps
<1>4. CASE IsOwner(w)
  <2>1. /\ call[w].batch \in DOMAIN batches /\ batches[call[w].batch].status = "active"
        /\ batches' = [batches EXCEPT ![call[w].batch] = [@ EXCEPT !.status = "ready", !.retry = 0]]
    BY <1>4 DEF IsOwner, Running, CompletesLate
  <2> QED  BY <1>1, <1>2, <2>1 DEF BatchesKept
<1> QED  BY <1>3, <1>4

\* A step keeps the batches; or a worker makes, drops or commits the one it has.
LEMMA BatchSteps ==
  ASSUME ReactionTypeOK, [Next]_vars
  PROVE  \/ BatchesKept
         \/ \E w \in Worker : /\ Claims(w) /\ batches' = MadeFor(w)
                              /\ ReserveBudget(call[w].intents, call[w].class)
         \/ \E w \in Worker, replies \in BOOLEAN :
              Completes(w, replies) /\ (Drops(w) \/ Commits(w, replies))
<1>1. CASE batches' = batches
  BY <1>1, UnchangedKeeps
<1>2. ASSUME NEW kind \in EventKinds, Ingest(kind) PROVE batches' = batches
  BY <1>2 DEF Ingest
<1>3. CASE SetSessionState \/ UNCHANGED vars
  BY <1>1, <1>3 DEF SetSessionState, vars
<1>4. CASE Tick
  BY <1>4, TickKeeps
<1>5. ASSUME NEW w \in Worker, ClaimsRetry(w) \/ Renew(w) \/ RunFails(w) \/ CompletesLate(w)
      PROVE  BatchesKept
  BY <1>5, RetryKeeps, RenewKeeps, ReleaseKeeps, LateKeeps DEF RunFails
<1>6. ASSUME NEW w \in Worker, Asks(w) \/ Waits(w) \/ Suppresses(w) PROVE batches' = batches
  BY <1>6 DEF Asks, Waits, Suppresses
<1>7. ASSUME NEW w \in Worker, Claims(w), batches' # batches
      PROVE  batches' = MadeFor(w) /\ ReserveBudget(call[w].intents, call[w].class)
  BY <1>7, ClaimsEither
<1>8. ASSUME NEW w \in Worker, NEW replies \in BOOLEAN, Completes(w, replies)
      PROVE  BatchesKept \/ Drops(w) \/ Commits(w, replies)
  BY <1>8, CompletesEither, ReleaseKeeps DEF GivesBack
<1> QED  BY <1>1, <1>2, <1>3, <1>4, <1>5, <1>6, <1>7, <1>8 DEF Next, GoesOn, RunEnds

-----------------------------------------------------------------------------
(* The budget.                                                             *)

\* Usage stays within the limit because of no more than finitely many batches,
\* and a budget that is reserved before it is used.
BudgetInv == ReactionTypeOK /\ IsFiniteSet(DOMAIN batches) /\ WithinBudget

LEMMA AnsweredFinite ==
  ASSUME IsFiniteSet(DOMAIN batches), NEW class
  PROVE  IsFiniteSet(Answered(class)) /\ Usage(class) \in Nat
<1>1. Answered(class) \in SUBSET DOMAIN batches
  BY DEF Answered
<1> QED  BY <1>1, FS_Subset, FS_CardinalityType DEF Usage

LEMMA AnswersLess ==
  ASSUME BudgetInv, NEW class \in Classes,
         Answered(class)' \subseteq Answered(class)
  PROVE  Usage(class)' <= Limit[class]
<1>1. IsFiniteSet(Answered(class)) /\ Usage(class) \in Nat /\ Usage(class) <= Limit[class]
  BY AnsweredFinite DEF BudgetInv, WithinBudget
<1>2. Usage(class)' \in Nat /\ Usage(class)' <= Usage(class)
  BY <1>1, FS_Subset, FS_CardinalityType DEF Usage
<1> QED  BY <1>1, <1>2, ReactionAssumption

LEMMA BudgetStep ==
  ASSUME BudgetInv, [Next]_vars
  PROVE  BudgetInv'
<1> USE DEF BudgetInv
<1>1. ReactionTypeOK'
  BY TypeStep
<1>2. ASSUME BatchesKept PROVE IsFiniteSet(DOMAIN batches)' /\ WithinBudget'
  <2>1. \A class \in Classes : Answered(class)' \subseteq Answered(class)
    BY <1>2 DEF BatchesKept, Same, Answered, Open
  <2> QED  BY <1>2, <2>1, AnswersLess DEF BatchesKept, WithinBudget
<1>3. ASSUME NEW w \in Worker, Drops(w) PROVE IsFiniteSet(DOMAIN batches)' /\ WithinBudget'
  <2>1. /\ DOMAIN batches' \in SUBSET DOMAIN batches
        /\ \A b \in DOMAIN batches' : batches'[b] = batches[b]
    BY <1>3 DEF Drops, Without
  <2>2. \A class \in Classes : Answered(class)' \subseteq Answered(class)
    BY <2>1 DEF Answered, Open
  <2> QED  BY <2>1, <2>2, AnswersLess, FS_Subset DEF WithinBudget
<1>4. ASSUME NEW w \in Worker, NEW replies \in BOOLEAN, Owns(w), Commits(w, replies)
      PROVE  IsFiniteSet(DOMAIN batches)' /\ WithinBudget'
  <2> DEFINE b == call[w].batch
  <2>1. b \in DOMAIN batches /\ batches[b].status = "active" /\ batches[b] \in BatchRecord
    BY <1>4, TypeParts DEF Owns, IsOwner, Running, BatchesOK
  <2>2. /\ DOMAIN batches' = DOMAIN batches
        /\ \A d \in DOMAIN batches \ {b} : batches'[d] = batches[d]
        /\ batches'[b].class = batches[b].class /\ batches'[b].intents = batches[b].intents
    BY <1>4, <2>1, CommittedType DEF Commits
  <2>3. \A class \in Classes : Answered(class)' \subseteq Answered(class)
    BY <2>1, <2>2 DEF Answered, Open
  <2> QED  BY <2>2, <2>3, AnswersLess DEF WithinBudget
<1>5. ASSUME NEW w \in Worker, batches' = MadeFor(w),
             ReserveBudget(call[w].intents, call[w].class)
      PROVE  IsFiniteSet(DOMAIN batches)' /\ WithinBudget'
  <2> DEFINE b == call[w].batch
  <2>1. IsFiniteSet(DOMAIN batches)' /\ DOMAIN batches' = DOMAIN batches \cup {b}
    BY <1>5, FS_AddElement DEF MadeFor
  <2>2. /\ \A d \in DOMAIN batches' \ {b} : d \in DOMAIN batches /\ batches'[d] = batches[d]
        /\ batches'[b].class = call[w].class /\ batches'[b].intents = call[w].intents
    <3>1. Made(w) \in BatchRecord /\ call[w].age \in 0..Horizon
      BY MadeType, TypeParts DEF CallRecord
    <3>2. batches'[b] = Activated(Made(w), w, call[w].age)
      BY <1>5 DEF MadeFor
    <3>3. batches'[b].class = Made(w).class /\ batches'[b].intents = Made(w).intents
      BY <3>1, <3>2, ActivatedType
    <3>4. \A d \in DOMAIN batches' \ {b} : d \in DOMAIN batches /\ batches'[d] = batches[d]
      BY <1>5, <2>1 DEF MadeFor
    <3> QED  BY <3>3, <3>4 DEF Made
  <2>3. ASSUME NEW class \in Classes PROVE Usage(class)' <= Limit[class]
    <3>1. CASE call[w].class = class /\ call[w].intents = 1
      <4>1. Answered(class)' \subseteq Answered(class) \cup {b}
        BY <2>2 DEF Answered, Open
      <4>2. IsFiniteSet(Answered(class)) /\ Usage(class) \in Nat /\ Usage(class) < Limit[class]
        BY <1>5, <3>1, AnsweredFinite DEF ReserveBudget
      <4>3. /\ IsFiniteSet(Answered(class) \cup {b})
            /\ Cardinality(Answered(class) \cup {b}) <= Usage(class) + 1
        <5> DEFINE A == Answered(class)
        <5>1. IsFiniteSet(A) /\ Cardinality(A) \in Nat /\ Usage(class) = Cardinality(A)
          BY <4>2 DEF Usage
        <5> HIDE DEF A
        <5>2. /\ IsFiniteSet(A \cup {b})
              /\ Cardinality(A \cup {b}) \in {Cardinality(A), Cardinality(A) + 1}
          BY <5>1, FS_AddElement
        <5>3. Cardinality(A \cup {b}) <= Usage(class) + 1
          BY <5>1, <5>2
        <5> QED  BY <5>2, <5>3 DEF A
      <4>4. Usage(class)' <= Usage(class) + 1 /\ Usage(class)' \in Nat
        BY <4>1, <4>2, <4>3, FS_Subset, FS_CardinalityType DEF Usage
      <4> QED  BY <4>2, <4>4, ReactionAssumption
    <3>2. CASE ~(call[w].class = class /\ call[w].intents = 1)
      <4>1. Answered(class)' \subseteq Answered(class)
        BY <2>2, <3>2 DEF Answered, Open
      <4> QED  BY <4>1, AnswersLess
    <3> QED  BY <3>1, <3>2
  <2> QED  BY <2>1, <2>3 DEF WithinBudget
<1> QED  BY <1>1, <1>2, <1>3, <1>4, <1>5, BatchSteps, CompletesEither

\* What has been promised and what has been answered never exceed the limit of
\* their class, together: however many claims are under way at once, the budget is
\* reserved in the step that makes the batch.
THEOREM BudgetKept == Spec => []WithinBudget
<1>1. Init => BudgetInv
  <2> SUFFICES ASSUME Init PROVE BudgetInv
    OBVIOUS
  <2>1. DOMAIN batches = {}
    BY DEF Init
  <2>2. \A class \in Classes : Answered(class) = {}
    BY <2>1 DEF Answered
  <2>3. \A class \in Classes : Usage(class) = 0 /\ Limit[class] \in Nat
    BY <2>2, FS_EmptySet, ReactionAssumption DEF Usage
  <2> QED  BY <2>1, <2>3, TypeInit, FS_EmptySet DEF BudgetInv, WithinBudget
<1>2. BudgetInv => WithinBudget
  BY DEF BudgetInv
<1> QED  BY <1>1, <1>2, BudgetStep, PTL DEF Spec

-----------------------------------------------------------------------------
(* The commit.                                                             *)

\* Only the attempt that the record knows of commits a batch, and only in the
\* state of the session it was made in.
CommitsAsOwner ==
  \A b \in DOMAIN batches \cap DOMAIN batches' :
    Open(b) /\ batches'[b].status = "committed" =>
      /\ batches[b].status = "active" /\ batches[b].revision = state.revision
      /\ call[batches[b].holder].batch = b /\ call'[batches[b].holder] = Idle

LEMMA CommitStep ==
  ASSUME ReactionTypeOK, [Next]_vars
  PROVE  CommitsAsOwner
<1>1. SUFFICES ASSUME NEW b \in DOMAIN batches \cap DOMAIN batches', Open(b),
                      batches'[b].status = "committed"
               PROVE  /\ batches[b].status = "active" /\ batches[b].revision = state.revision
                      /\ call[batches[b].holder].batch = b /\ call'[batches[b].holder] = Idle
  BY DEF CommitsAsOwner
<1>2. ~BatchesKept
  BY <1>1 DEF BatchesKept, Same, Open
<1>3. ASSUME NEW w \in Worker, batches' = MadeFor(w) PROVE FALSE
  BY <1>1, <1>3, MadeType DEF MadeFor, Open
<1>4. ASSUME NEW w \in Worker, Drops(w) PROVE FALSE
  BY <1>1, <1>4 DEF Drops, Without, Open
<1>5. PICK w \in Worker, replies \in BOOLEAN :
        Owns(w) /\ Returns(w) /\ Commits(w, replies)
  BY <1>2, <1>3, <1>4, BatchSteps, CompletesEither
<1>6. /\ call[w].batch \in DOMAIN batches
      /\ batches[call[w].batch].status = "active" /\ batches[call[w].batch].holder = w
      /\ batches[call[w].batch].revision = state.revision
  BY <1>5 DEF Owns, IsOwner, Running, Commits, Changed
<1>7. b = call[w].batch
  <2>1. \A d \in DOMAIN batches \ {call[w].batch} : batches'[d] = batches[d]
    BY <1>5 DEF Commits
  <2> QED  BY <1>1, <2>1 DEF Open
<1>8. call'[w] = Idle
  BY <1>5, TypeReturns
<1> QED  BY <1>6, <1>7, <1>8

\* A batch is committed by the worker that was given it last, in the state of the
\* session it was given it in: a worker that was slow commits nothing.
THEOREM OnlyOwnersCommit == Spec => CommittedByOwner
<1>1. ReactionTypeOK /\ [Next]_vars => [CommitsAsOwner]_vars
  BY CommitStep
<1> QED  BY <1>1, ReactionTypeCorrect, PTL DEF Spec, CommittedByOwner, CommitsAsOwner

-----------------------------------------------------------------------------
(* The order of what is consumed, with one claimDue at a time.             *)

Committed == {b \in DOMAIN batches : ~Open(b)}
OpenOnes == {b \in DOMAIN batches : Open(b)}
Deciders == {w \in Worker : call[w].at = "deciding"}

\* The events of b are the next ones, without a gap.
NextInLine(b) == /\ b # {} /\ b \cap consumed = {}
                 /\ \A c \in b : \A d \in Waiting : d < c => d \in b

ConsumedInOrder == \A c \in consumed : \A d \in Cursors : d < c => d \in consumed
OneOpen == \A b \in OpenOnes : NextInLine(b) /\ OpenOnes = {b} /\ Deciders = {}
OneAnswer == /\ \A b, d \in Committed : b # d => b \cap d = {}
             /\ \A b \in Committed : b \cap silenced = {}
             /\ consumed = silenced \cup UNION Committed
\* Between its two steps a claimDue has the next events in hand, and nobody else
\* takes any.
OneDecider == \A w \in Deciders : NextInLine(call[w].batch) /\ Deciders = {w}

OrderInv == ReactionTypeOK /\ ConsumedInOrder /\ OneOpen /\ OneAnswer /\ OneDecider

LEMMA OrderMeans == OrderInv => ReactionInv /\ AnsweredOnce
<1> SUFFICES ASSUME OrderInv PROVE ReactionInv /\ AnsweredOnce
  OBVIOUS
<1>1. AnsweredOnce
  BY DEF OrderInv, OneAnswer, Committed, AnsweredOnce
<1>2. ASSUME NEW b \in {b \in DOMAIN batches : Open(b)}
      PROVE  /\ b # {} /\ b \cap consumed = {}
             /\ \A c \in b : \A d \in Waiting : d < c => d \in b
             /\ \A d \in DOMAIN batches \ {b} : ~Open(d)
             /\ \A w \in Worker : call[w].at # "deciding"
  BY <1>2 DEF OrderInv, OneOpen, OpenOnes, NextInLine, Deciders
<1> QED  BY <1>1, <1>2 DEF OrderInv, ConsumedInOrder, ReactionInv

LEMMA OrderInit == Init => OrderInv
<1> SUFFICES ASSUME Init PROVE OrderInv
  OBVIOUS
<1>1. Committed = {} /\ OpenOnes = {} /\ Deciders = {}
  BY DEF Init, Committed, OpenOnes, Deciders, Idle
<1>2. consumed = {} /\ silenced = {} /\ UNION Committed = {}
  BY <1>1 DEF Init
<1> QED  BY <1>1, <1>2, TypeInit DEF OrderInv, ConsumedInOrder, OneOpen, OneAnswer, OneDecider

\* Events only come after those that are there.
Follows == /\ Cursors \subseteq Cursors'
           /\ \A c \in Cursors' \ Cursors : \A d \in Cursors : d < c

LEMMA CursorsType ==
  ASSUME ReactionTypeOK
  PROVE  /\ \A c \in Cursors : c \in Int
         /\ consumed \subseteq Cursors
         /\ \A b \in DOMAIN batches : b \subseteq Cursors
         /\ \A w \in Worker : call[w].batch \subseteq Cursors
<1>1. \A c \in Cursors : c \in Int
  BY EventsType, TypeParts
<1> QED  BY <1>1, TypeParts DEF BatchesOK, CallRecord

LEMMA CursorsTypeNext ==
  ASSUME ReactionTypeOK'
  PROVE  \A c \in Cursors' : c \in Int
<1>1. events' \in Seq(Event)
  BY TypePartsNext DEF Events
<1>2. DOMAIN events' = 1..Len(events')
  BY <1>1, ElementOf
<1> QED  BY <1>2 DEF Cursors

LEMMA KeptSets ==
  BatchesKept => Committed' = Committed /\ OpenOnes' = OpenOnes
BY DEF BatchesKept, Same, Committed, OpenOnes, Open

\* A step that makes, drops, commits, consumes and asks nothing.
LEMMA QuietStep ==
  ASSUME OrderInv, ReactionTypeOK', BatchesKept, Follows, UNCHANGED <<consumed, silenced>>,
         \A w \in Deciders' : w \in Deciders /\ call'[w].batch = call[w].batch
  PROVE  OrderInv'
<1>1. Committed' = Committed /\ OpenOnes' = OpenOnes
  BY KeptSets
<1>2. /\ \A c \in Cursors : c \in Int
      /\ \A c \in Cursors' : c \in Int
      /\ consumed \subseteq Cursors
  BY CursorsType, CursorsTypeNext DEF OrderInv
<1>3. ASSUME NEW b, b \subseteq Cursors, NextInLine(b) PROVE NextInLine(b)'
  <2>1. \A c \in b : \A d \in Cursors' \ consumed : d < c => d \in Cursors \ consumed
    BY <1>2, <1>3 DEF Follows
  <2> QED  BY <1>3, <2>1 DEF NextInLine, Waiting
<1>4. ConsumedInOrder'
  <2>1. \A c \in consumed : \A d \in Cursors' : d < c => d \in Cursors
    BY <1>2 DEF Follows
  <2> QED  BY <2>1 DEF OrderInv, ConsumedInOrder
<1>5. OneOpen'
  <2>1. \A b \in OpenOnes : b \subseteq Cursors
    BY CursorsType DEF OrderInv, OpenOnes
  <2> QED  BY <1>1, <1>3, <2>1 DEF OrderInv, OneOpen
<1>6. OneAnswer'
  BY <1>1 DEF OrderInv, OneAnswer
<1>7. OneDecider'
  <2>1. ASSUME NEW w \in Deciders' PROVE NextInLine(call[w].batch)' /\ Deciders' = {w}
    <3>1. /\ w \in Deciders /\ call'[w].batch = call[w].batch /\ Deciders = {w}
          /\ NextInLine(call[w].batch)
      BY DEF OrderInv, OneDecider
    <3>2. call[w].batch \subseteq Cursors
      BY <3>1, CursorsType DEF OrderInv, Deciders
    <3> DEFINE b == call[w].batch
    <3>3. NextInLine(b)
      BY <3>1
    <3> QED  BY <1>3, <3>1, <3>2 DEF NextInLine
  <2> QED  BY <2>1 DEF OneDecider
<1> QED  BY <1>4, <1>5, <1>6, <1>7 DEF OrderInv

\* The events a policy is asked about are cut from behind.
LEMMA BoundedInLine ==
  ASSUME ReactionTypeOK, Waiting # {}
  PROVE  Bounded(Waiting) \subseteq Cursors /\ NextInLine(Bounded(Waiting))
<1>1. Waiting \in SUBSET Cursors /\ Waiting \cap consumed = {}
  BY DEF Waiting
<1>2. Bounded(Waiting) \subseteq Waiting /\ Bounded(Waiting) # {}
  BY <1>1, DecideType
<1>3. ASSUME NEW c \in Bounded(Waiting), NEW d \in Waiting, d < c PROVE d \in Bounded(Waiting)
  <2> DEFINE Before(x) == {e \in Waiting : e < x}
  <2>1. c \in Waiting /\ Cardinality(Before(c)) < MaxBatch
    BY <1>3 DEF Bounded
  <2>2. IsFiniteSet(Before(c))
    <3>1. Len(events) \in Nat /\ Cursors = 1..Len(events)
      BY TypeParts, EventsType
    <3>2. IsFiniteSet(Cursors)
      BY <3>1, FS_Interval
    <3>3. Before(c) \in SUBSET Cursors
      BY <1>1
    <3> QED  BY <3>2, <3>3, FS_Subset
  <2>3. Before(d) \in SUBSET Before(c)
    <3>1. \A e \in Waiting : e \in Int
      BY <1>1, CursorsType
    <3> QED  BY <1>3, <2>1, <3>1
  <2> HIDE DEF Before
  <2>4. /\ Cardinality(Before(d)) <= Cardinality(Before(c))
        /\ Cardinality(Before(c)) \in Int /\ Cardinality(Before(d)) \in Int
    BY <2>2, <2>3, FS_Subset, FS_CardinalityType
  <2>5. Cardinality(Before(d)) < MaxBatch
    BY <2>1, <2>4, ReactionAssumption
  <2> QED  BY <2>5 DEF Before, Bounded
<1> QED  BY <1>1, <1>2, <1>3 DEF NextInLine

LEMMA OrderAsks ==
  ASSUME IsFiniteSet(Worker), Overlap <= 1, OrderInv, ReactionTypeOK',
         NEW w \in Worker, Asks(w)
  PROVE  OrderInv'
<1> USE DEF OrderInv
<1>1. Pending = Waiting /\ Waiting # {} /\ OpenOnes = {}
  BY DEF Asks, Pending, OpenOnes
<1>2. Deciders = {}
  <2>1. Cardinality(Deciders) < Overlap
    BY DEF Asks, Deciders
  <2>2. Deciders \in SUBSET Worker
    BY DEF Deciders
  <2>3. IsFiniteSet(Deciders) /\ Cardinality(Deciders) \in Nat
    BY <2>2, FS_Subset, FS_CardinalityType
  <2>4. Cardinality(Deciders) = 0
    BY <2>1, <2>3, ReactionAssumption
  <2> QED  BY <2>3, <2>4, FS_EmptySet
<1>3. call'[w].batch = Bounded(Waiting) /\ \A v \in Worker \ {w} : call'[v] = call[v]
  <2>1. Decide(Waiting) \in CallRecord /\ Decide(Waiting).batch = Bounded(Waiting)
    BY <1>1, DecideType DEF Waiting
  <2>2. call' = [call EXCEPT ![w] = Decide(Waiting)]
    BY <1>1 DEF Asks
  <2> QED  BY <2>1, <2>2, WritesCall
<1>4. Deciders' \subseteq {w}
  BY <1>2, <1>3 DEF Deciders
<1>5. NextInLine(Bounded(Waiting))
  BY <1>1, BoundedInLine
<1>6. Cursors' = Cursors /\ Waiting' = Waiting /\ consumed' = consumed /\ silenced' = silenced
      /\ batches' = batches
  BY DEF Asks, inputs, Cursors, Waiting
<1>7. Committed' = Committed /\ OpenOnes' = OpenOnes
  BY <1>6 DEF Committed, OpenOnes, Open
<1>8. ConsumedInOrder'
  BY <1>6 DEF ConsumedInOrder
<1>9. OneOpen' /\ OneAnswer'
  BY <1>1, <1>6, <1>7 DEF OneOpen, OneAnswer
<1>10. OneDecider'
  BY <1>3, <1>4, <1>5, <1>6 DEF OneDecider, NextInLine
<1> QED  BY <1>8, <1>9, <1>10

LEMMA ReturnsDeciders ==
  ASSUME ReactionTypeOK, NEW w \in Worker, NEW record \in CallRecord, record.at # "deciding",
         call' = [call EXCEPT ![w] = record]
  PROVE  \A v \in Deciders' : v \in Deciders \ {w} /\ call'[v].batch = call[v].batch
BY WritesCall DEF Deciders

\* The events in hand are silenced.
LEMMA OrderSuppresses ==
  ASSUME OrderInv, ReactionTypeOK', NEW w \in Worker, Suppresses(w)
  PROVE  OrderInv'
<1> USE DEF OrderInv
<1> DEFINE b == call[w].batch
<1>1. w \in Deciders /\ Deciders = {w} /\ NextInLine(b) /\ b \in SUBSET Cursors
  BY CursorsType DEF Suppresses, Deciders, OneDecider
<1>2. Deciders' = {}
  <2>1. Idle \in CallRecord /\ Idle.at # "deciding"
    BY IdleType DEF Idle
  <2> QED  BY <1>1, <2>1, ReturnsDeciders DEF Suppresses, Returns
<1>3. Cursors' = Cursors /\ consumed' = consumed \cup b /\ silenced' = silenced \cup b
      /\ batches' = batches
  BY <1>1, ConsumeType DEF Suppresses
<1>4. Committed' = Committed /\ OpenOnes' = {}
  BY <1>1, <1>3 DEF Committed, OpenOnes, Open, OneOpen
<1>5. ConsumedInOrder'
  BY <1>1, <1>3 DEF ConsumedInOrder, NextInLine, Waiting
<1>6. \A d \in Committed : d \subseteq consumed
  BY DEF OneAnswer
<1>7. OneAnswer'
  BY <1>1, <1>3, <1>4, <1>6 DEF OneAnswer, NextInLine
<1> QED  BY <1>2, <1>4, <1>5, <1>7 DEF OneOpen, OneDecider

\* The events in hand make a batch.
LEMMA OrderMakes ==
  ASSUME OrderInv, ReactionTypeOK', NEW w \in Worker, Claims(w), batches' = MadeFor(w)
  PROVE  OrderInv'
<1> USE DEF OrderInv
<1> DEFINE b == call[w].batch
<1>1. w \in Deciders /\ Deciders = {w} /\ NextInLine(b) /\ b \in SUBSET Cursors /\ OpenOnes = {}
  BY CursorsType DEF Claims, Deciders, OneDecider, OneOpen
<1>2. \A d \in Committed : d \subseteq consumed
  BY DEF OneAnswer
<1>3. b \notin DOMAIN batches
  BY <1>1, <1>2 DEF Committed, OpenOnes, NextInLine
<1>4. /\ DOMAIN batches' = DOMAIN batches \cup {b} /\ batches'[b].status = "active"
      /\ \A d \in DOMAIN batches : batches'[d] = batches[d]
  BY <1>3, MadeType DEF MadeFor
<1>5. Committed' = Committed /\ OpenOnes' = {b}
  BY <1>1, <1>3, <1>4 DEF Committed, OpenOnes, Open
<1>6. Cursors' = Cursors /\ Waiting' = Waiting /\ consumed' = consumed /\ silenced' = silenced
  BY DEF Claims, inputs, Cursors, Waiting
<1>7. Deciders' = {}
  <2>1. CASE Runs(w, b)
    BY <1>1, <2>1, RunningType, ReturnsDeciders DEF Runs
  <2>2. CASE Returns(w)
    <3>1. Idle \in CallRecord /\ Idle.at # "deciding"
      BY IdleType DEF Idle
    <3> QED  BY <1>1, <2>2, <3>1, ReturnsDeciders DEF Returns
  <2> QED  BY <2>1, <2>2, ClaimsEither
<1>8. ConsumedInOrder' /\ OneAnswer'
  BY <1>5, <1>6 DEF ConsumedInOrder, OneAnswer
<1>9. OneOpen'
  <2>1. ASSUME NEW d, NextInLine(d) PROVE NextInLine(d)'
    BY <1>6, <2>1 DEF NextInLine
  <2> QED  BY <1>1, <1>5, <1>7, <2>1 DEF OneOpen
<1> QED  BY <1>7, <1>8, <1>9 DEF OneDecider

LEMMA OwnedIsOpen ==
  ASSUME OrderInv, NEW w \in Worker, Owns(w)
  PROVE  /\ call[w].batch \in DOMAIN batches /\ OpenOnes = {call[w].batch}
         /\ NextInLine(call[w].batch) /\ Deciders = {}
         /\ batches[call[w].batch] \in BatchRecord /\ call[w].batch \in SUBSET Cursors
<1>1. call[w].batch \in OpenOnes
  BY DEF Owns, IsOwner, Running, OpenOnes, Open
<1> QED  BY <1>1, TypeParts DEF OrderInv, OneOpen, OpenOnes, BatchesOK

LEMMA OrderDrops ==
  ASSUME OrderInv, ReactionTypeOK', NEW w \in Worker, Owns(w), Returns(w), Drops(w),
         silenced' = silenced
  PROVE  OrderInv'
<1> USE DEF OrderInv
<1> DEFINE b == call[w].batch
<1>1. OpenOnes = {b} /\ Deciders = {} /\ b \in DOMAIN batches
  BY OwnedIsOpen
<1>2. /\ DOMAIN batches' = DOMAIN batches \ {b}
      /\ \A d \in DOMAIN batches' : batches'[d] = batches[d]
  BY DEF Drops, Without
<1>3. Committed' = Committed /\ OpenOnes' = {}
  BY <1>1, <1>2 DEF Committed, OpenOnes, Open
<1>4. Cursors' = Cursors /\ consumed' = consumed
  BY DEF Drops, Cursors
<1>5. Deciders' = {}
  <2>1. Idle \in CallRecord /\ Idle.at # "deciding"
    BY IdleType DEF Idle
  <2> QED  BY <1>1, <2>1, ReturnsDeciders DEF Returns
<1> QED  BY <1>3, <1>4, <1>5 DEF ConsumedInOrder, OneOpen, OneAnswer, OneDecider

LEMMA OrderCommits ==
  ASSUME OrderInv, ReactionTypeOK', NEW w \in Worker, NEW replies \in BOOLEAN,
         Owns(w), Returns(w), Commits(w, replies), silenced' = silenced
  PROVE  OrderInv'
<1> USE DEF OrderInv
<1> DEFINE b == call[w].batch
<1>1. /\ OpenOnes = {b} /\ Deciders = {} /\ b \in DOMAIN batches /\ NextInLine(b)
      /\ batches[b] \in BatchRecord /\ b \in SUBSET Cursors
  BY OwnedIsOpen
<1>2. /\ DOMAIN batches' = DOMAIN batches /\ batches'[b].status = "committed"
      /\ \A d \in DOMAIN batches \ {b} : batches'[d] = batches[d]
  BY <1>1, CommittedType DEF Commits
<1>3. Committed' = Committed \cup {b} /\ OpenOnes' = {}
  BY <1>1, <1>2 DEF Committed, OpenOnes, Open
<1>4. Cursors' = Cursors /\ consumed' = consumed \cup b
  BY <1>1, ConsumeType DEF Commits
<1>5. Deciders' = {}
  <2>1. Idle \in CallRecord /\ Idle.at # "deciding"
    BY IdleType DEF Idle
  <2> QED  BY <1>1, <2>1, ReturnsDeciders DEF Returns
<1>6. ConsumedInOrder'
  BY <1>1, <1>4 DEF ConsumedInOrder, NextInLine, Waiting
<1>7. \A d \in Committed : d \subseteq consumed /\ d \cap b = {}
  BY <1>1 DEF OneAnswer, NextInLine
<1>8. silenced \cap b = {}
  BY <1>1 DEF OneAnswer, NextInLine
<1>9. OneAnswer'
  <2>1. UNION Committed' = (UNION Committed) \cup b
    BY <1>3
  <2> QED  BY <1>3, <1>4, <1>7, <1>8, <2>1 DEF OneAnswer
<1> QED  BY <1>3, <1>5, <1>6, <1>9 DEF OneOpen, OneDecider

LEMMA OrderStep ==
  ASSUME IsFiniteSet(Worker), Overlap <= 1, OrderInv, [Next]_vars
  PROVE  OrderInv'
<1>1. ReactionTypeOK /\ ReactionTypeOK'
  BY TypeStep DEF OrderInv
<1>2. ASSUME UNCHANGED events PROVE Follows
  BY <1>2 DEF Follows, Cursors
<1>3. Idle \in CallRecord /\ Idle.at # "deciding"
  BY IdleType DEF Idle
<1>4. ASSUME call' = call
      PROVE  \A v \in Deciders' : v \in Deciders /\ call'[v].batch = call[v].batch
  BY <1>4 DEF Deciders
<1>5. ASSUME NEW w \in Worker, Returns(w)
      PROVE  \A v \in Deciders' : v \in Deciders /\ call'[v].batch = call[v].batch
  BY <1>1, <1>3, <1>5, ReturnsDeciders DEF Returns
<1>6. ASSUME NEW kind \in EventKinds, Ingest(kind) PROVE OrderInv'
  <2>1. Follows
    BY <1>1, <1>6, TypeIngest DEF Follows
  <2>2. BatchesKept /\ call' = call /\ UNCHANGED <<consumed, silenced>>
    BY <1>1, <1>6, UnchangedKeeps DEF Ingest
  <2> QED  BY <1>1, <1>4, <2>1, <2>2, QuietStep
<1>7. CASE SetSessionState \/ UNCHANGED vars
  <2>1. call' = call /\ UNCHANGED <<consumed, silenced, events, batches>>
    BY <1>7 DEF SetSessionState, vars
  <2> QED  BY <1>1, <1>2, <1>4, <2>1, UnchangedKeeps, QuietStep
<1>8. CASE Tick
  <2>1. Follows
    BY <1>1, <1>8, TypeTick DEF Follows
  <2>2. \A v \in Deciders' : v \in Deciders /\ call'[v].batch = call[v].batch
    <3>1. \A record \in CallRecord :
            LET aged == [record EXCEPT !.age = Least(@ + 1, Horizon)]
            IN  aged.at = record.at /\ aged.batch = record.batch
      BY DEF CallRecord
    <3> QED  BY <1>1, <1>8, <3>1, TypeParts DEF Tick, Deciders
  <2> QED  BY <1>1, <1>8, <2>1, <2>2, TickKeeps, QuietStep DEF Tick
<1>9. ASSUME NEW w \in Worker, ClaimsRetry(w) PROVE OrderInv'
  <2>1. PICK b \in DOMAIN batches : Runs(w, b)
    BY <1>9 DEF ClaimsRetry
  <2>2. b \in SUBSET Cursors
    BY <1>1, TypeParts DEF BatchesOK
  <2>3. \A v \in Deciders' : v \in Deciders /\ call'[v].batch = call[v].batch
    BY <1>1, <2>1, <2>2, RunningType, ReturnsDeciders DEF Runs
  <2> QED  BY <1>1, <1>2, <1>9, <2>3, RetryKeeps, QuietStep DEF ClaimsRetry, inputs
<1>10. ASSUME NEW w \in Worker, Renew(w) PROVE OrderInv'
  BY <1>1, <1>2, <1>4, <1>10, RenewKeeps, QuietStep DEF Renew, inputs
<1>11. ASSUME NEW w \in Worker, Waits(w) PROVE OrderInv'
  BY <1>1, <1>2, <1>5, <1>11, UnchangedKeeps, QuietStep DEF Waits, inputs
<1>12. ASSUME NEW w \in Worker, RunFails(w) PROVE OrderInv'
  BY <1>1, <1>2, <1>5, <1>12, ReleaseKeeps, QuietStep DEF RunFails, inputs
<1>13. ASSUME NEW w \in Worker, CompletesLate(w) PROVE OrderInv'
  <2>1. UNCHANGED <<events, consumed, silenced>> /\ Returns(w)
    BY <1>13 DEF CompletesLate, inputs
  <2> QED  BY <1>1, <1>2, <1>5, <1>13, <2>1, LateKeeps, QuietStep
<1>14. ASSUME NEW w \in Worker, Claims(w) PROVE OrderInv'
  <2>1. CASE batches' = MadeFor(w)
    BY <1>1, <1>14, <2>1, OrderMakes
  <2>2. CASE Returns(w) /\ UNCHANGED batches
    BY <1>1, <1>2, <1>5, <1>14, <2>2, UnchangedKeeps, QuietStep DEF Claims, inputs
  <2> QED  BY <1>14, <2>1, <2>2, ClaimsEither
<1>15. ASSUME NEW w \in Worker, NEW replies \in BOOLEAN, Completes(w, replies) PROVE OrderInv'
  <2>1. Owns(w) /\ Returns(w) /\ silenced' = silenced
    BY <1>15, CompletesEither
  <2>2. CASE GivesBack(w)
    BY <1>1, <1>2, <1>5, <2>1, <2>2, ReleaseKeeps, QuietStep DEF GivesBack
  <2> QED  BY <1>1, <1>15, <2>1, <2>2, CompletesEither, OrderDrops, OrderCommits
<1> QED  BY <1>1, <1>6, <1>7, <1>8, <1>9, <1>10, <1>11, <1>12, <1>13, <1>14, <1>15,
            OrderAsks, OrderSuppresses DEF Next, GoesOn, RunEnds

\* With one claimDue at a time, what is consumed is always what came first, and the
\* batch that is open, or the events a worker is asking the policy about, are what
\* comes next: nobody skips an event and nobody has it twice.
THEOREM InOrder ==
  ASSUME IsFiniteSet(Worker), Overlap <= 1
  PROVE  Spec => []ReactionInv
<1>1. OrderInv /\ [Next]_vars => OrderInv'
  BY OrderStep
<1> QED  BY <1>1, OrderInit, OrderMeans, PTL DEF Spec

\* With one claimDue at a time, every event that is consumed was answered in just
\* one batch or silenced, whatever failed, was dropped or was given back before.
THEOREM EachAnsweredOnce ==
  ASSUME IsFiniteSet(Worker), Overlap <= 1
  PROVE  Spec => []AnsweredOnce
<1>1. OrderInv /\ [Next]_vars => OrderInv'
  BY OrderStep
<1> QED  BY <1>1, OrderInit, OrderMeans, PTL DEF Spec
=============================================================================
