-------------------------- MODULE EventFeedProofs --------------------------
(***************************************************************************)
(* Proofs about EventFeed, in memory and on Redis: for any streams, any    *)
(* calls of start, any size of the buffer and any mark of back pressure,   *)
(* and any number of events and faults.                                    *)
(***************************************************************************)
EXTENDS EventFeed, TLAPS, FiniteSetTheorems, SequenceTheorems, WellFoundedInduction

(***************************************************************************)
(* A finite set of numbers can be sorted.                                  *)
(***************************************************************************)
\* q is S in ascending order.
Sorts(q, S) == /\ q \in [1..Cardinality(S) -> S]
               /\ \A e \in S : \E k \in DOMAIN q : q[k] = e
               /\ \A j, k \in DOMAIN q : j < k => q[j] < q[k]

LEMMA FiniteUpTo == ASSUME NEW n \in Nat, NEW S \in SUBSET (1..n) PROVE IsFiniteSet(S)
<1>1. IsFiniteSet(1..n)
  BY FS_Interval
<1> QED  BY <1>1, FS_Subset

\* The greatest element goes to the end.
LEMMA SortsOneMore ==
  ASSUME NEW n \in Nat, NEW S \in SUBSET (1..n), NEW q, Sorts(q, S)
  PROVE  \E r : Sorts(r, S \cup {n + 1})
<1> DEFINE c == Cardinality(S)
           T == S \cup {n + 1}
           r == [k \in 1..(c + 1) |-> IF k = c + 1 THEN n + 1 ELSE q[k]]
<1>1. IsFiniteSet(S)
  BY FiniteUpTo
<1>2. c \in Nat /\ Cardinality(T) = c + 1
  <2>1. n + 1 \notin S
    OBVIOUS
  <2> QED  BY <1>1, <2>1, FS_AddElement, FS_CardinalityType
<1>3. q \in [1..c -> S]
  BY DEF Sorts
<1>4. r \in [1..Cardinality(T) -> T]
  <2>1. \A k \in 1..(c + 1) : r[k] \in T
    <3> TAKE k \in 1..(c + 1)
    <3>1. CASE k = c + 1
      BY <3>1, <1>2
    <3>2. CASE k # c + 1
      <4>1. k \in 1..c
        BY <3>2, <1>2
      <4> QED  BY <4>1, <1>3, <3>2
    <3> QED  BY <3>1, <3>2
  <2> QED  BY <2>1, <1>2
<1> HIDE DEF c
<1>5. \A k \in 1..c : r[k] = q[k] /\ r[k] \in 1..n
  <2> TAKE k \in 1..c
  <2>1. k \in 1..(c + 1) /\ k # c + 1
    BY <1>2
  <2>2. q[k] \in S
    BY <1>3
  <2> QED  BY <2>1, <2>2
<1>6. r[c + 1] = n + 1 /\ DOMAIN r = 1..(c + 1) /\ DOMAIN q = 1..c
  BY <1>2, <1>3
<1> HIDE DEF r
<1>7. ASSUME NEW e \in T PROVE \E k \in DOMAIN r : r[k] = e
  <2>1. CASE e = n + 1
    BY <2>1, <1>2, <1>6
  <2>2. CASE e \in S
    <3>1. PICK k \in DOMAIN q : q[k] = e
      BY <2>2 DEF Sorts
    <3> QED  BY <3>1, <1>2, <1>5, <1>6
  <2> QED  BY <2>1, <2>2
<1>8. ASSUME NEW j \in DOMAIN r, NEW k \in DOMAIN r, j < k PROVE r[j] < r[k]
  <2>1. j \in 1..c
    BY <1>8, <1>2, <1>6
  <2>2. CASE k = c + 1
    BY <2>1, <2>2, <1>5, <1>6
  <2>3. CASE k \in 1..c
    <3>1. q[j] < q[k]
      BY <1>8, <2>1, <2>3, <1>6 DEF Sorts
    <3> QED  BY <3>1, <2>1, <2>3, <1>5
  <2> QED  BY <2>2, <2>3, <1>2, <1>6
<1>9. Sorts(r, T)
  BY <1>4, <1>7, <1>8 DEF Sorts
<1> QED  BY <1>9

LEMMA SortsExists ==
  ASSUME NEW n \in Nat, NEW S \in SUBSET (1..n)
  PROVE  \E q : Sorts(q, S)
<1> DEFINE Sortable(m) == \A U \in SUBSET (1..m) : \E q : Sorts(q, U)
           Bad == {0..m : m \in {k \in Nat : ~Sortable(k)}}
<1>1. SUFFICES ASSUME ~Sortable(n) PROVE FALSE
  OBVIOUS
<1>2. Bad \subseteq FiniteSubsetsOf(Nat) /\ Bad # {}
  <2>1. \A m \in Nat : 0..m \subseteq Nat /\ IsFiniteSet(0..m)
    BY FS_Interval
  <2> QED  BY <2>1, <1>1 DEF FiniteSubsetsOf
<1>3. PICK I \in Bad : \A J \in Bad : <<J, I>> \notin StrictSubsetOrdering(Nat)
  BY <1>2, FS_StrictSubsetOrderingWellFounded, WFMin
<1>4. PICK m \in Nat : I = 0..m /\ ~Sortable(m)
  OBVIOUS
<1>5. PICK U \in SUBSET (1..m) : ~\E q : Sorts(q, U)
  BY <1>4
<1>6. m # 0
  <2>1. ASSUME m = 0 PROVE FALSE
    <3>1. U = {} /\ Cardinality(U) = 0
      <4>1. 1..m = {}
        BY <2>1
      <4> QED  BY <4>1, FS_EmptySet
    <3>2. [k \in {} |-> k] \in [1..Cardinality(U) -> U]
      BY <3>1
    <3>3. Sorts([k \in {} |-> k], U)
      BY <3>1, <3>2 DEF Sorts
    <3> QED  BY <3>3, <1>5
  <2> QED  BY <2>1
<1> HIDE DEF Sortable
<1>7. Sortable(m - 1)
  <2>1. ASSUME ~Sortable(m - 1) PROVE FALSE
    <3> DEFINE J == 0..(m - 1)  K == 0..m
    <3>1. J \in Bad
      BY <2>1, <1>6
    <3>2. J \in SUBSET Nat /\ K \in SUBSET Nat /\ J \subseteq K /\ J # K
      BY <1>6
    <3> HIDE DEF J, K
    <3>3. <<J, K>> \in StrictSubsetOrdering(Nat)
      BY <3>2 DEF StrictSubsetOrdering
    <3> QED  BY <3>1, <3>3, <1>3, <1>4 DEF K
  <2> QED  BY <2>1
<1>8. PICK q : Sorts(q, U \ {m})
  <2>1. U \ {m} \in SUBSET (1..(m - 1))
    BY <1>6
  <2> QED  BY <2>1, <1>7 DEF Sortable
<1>9. m \in U
  <2>1. m \notin U => U \ {m} = U
    OBVIOUS
  <2> QED  BY <2>1, <1>5, <1>8
<1>10. \E r : Sorts(r, (U \ {m}) \cup {(m - 1) + 1})
  <2>1. m - 1 \in Nat /\ U \ {m} \in SUBSET (1..(m - 1))
    BY <1>6
  <2> QED  BY <2>1, <1>8, SortsOneMore
<1>11. (U \ {m}) \cup {(m - 1) + 1} = U
  BY <1>9
<1> QED  BY <1>5, <1>10, <1>11

LEMMA SortedSorts ==
  ASSUME NEW n \in Nat, NEW S \in SUBSET (1..n)
  PROVE  Sorts(Sorted(S), S) /\ Cardinality(S) \in Nat
<1>1. PICK q : Sorts(q, S)
  BY SortsExists
<1>2. Sorts(Sorted(S), S)
  BY <1>1 DEF Sorts, Sorted
<1>3. IsFiniteSet(S)
  BY FiniteUpTo
<1> QED  BY <1>2, <1>3, FS_CardinalityType

(***************************************************************************)
(* Streams.  What is said of the streams in a state is said here of any    *)
(* stream: n events are published, the client has seen up to last, gone    *)
(* are the events it need not wait for, box those in the inbox.            *)
(***************************************************************************)
StreamOf(n) == [at : {"gone", "attach", "list", "flush", "live"}, after : {0} \cup 1..n,
                got : SUBSET (1..n), pending : SUBSET (1..n), frames : Seq(1..n),
                shut : BOOLEAN, hungUp : BOOLEAN]
InFrames(st, e) == \E k \in DOMAIN st.frames : st.frames[k] = e
Framed(st, k, e) == \E j \in 1..(k - 1) : st.frames[j] = e
Covers(st, n, last, gone, box) ==
  st.at = "flush" \/ (st.at = "live" /\ ~st.shut) =>
    \A e \in 1..n : e <= last \/ e \in gone \/ e \in st.got \cup st.pending \/ InFrames(st, e)
                   \/ e \in box
GotInv(st, last, gone) ==
  \A g \in st.got : \A e \in 1..g : e <= last \/ e \in gone \/ e \in st.got
FramesInv(st, last, gone) ==
  \A k \in DOMAIN st.frames : \A e \in 1..(st.frames[k] - 1) :
    e <= last \/ e \in gone \/ Framed(st, k, e)
Elements(q) == {q[k] : k \in DOMAIN q}

LEMMA CoverIs ==
  ASSUME NEW st
  PROVE  CoverInv(st) <=> /\ Covers(st, Len(log), lastSeq, missed, Elements(inbox))
                          /\ GotInv(st, lastSeq, missed)
                          /\ FramesInv(st, lastSeq, missed)
<1>1. \A e : e \in Elements(inbox) <=> \E k \in DOMAIN inbox : inbox[k] = e
  BY DEF Elements
<1>2. \A e : Settled(e) <=> e <= lastSeq \/ e \in missed
  BY DEF Settled
<1>3. \A e : Brings(st, e) <=> e \in st.got \cup st.pending \/ InFrames(st, e)
  BY DEF Brings, InFrames
<1>4. Covers(st, Len(log), lastSeq, missed, Elements(inbox)) <=>
        (st.at = "flush" \/ (st.at = "live" /\ ~st.shut) =>
           \A e \in Seqs : Settled(e) \/ Brings(st, e) \/ (\E k \in DOMAIN inbox : inbox[k] = e))
  BY <1>1, <1>2, <1>3 DEF Covers, Seqs
<1>5. GotInv(st, lastSeq, missed) <=>
        \A g \in st.got : \A e \in 1..g : Settled(e) \/ e \in st.got
  BY <1>2 DEF GotInv
<1>6. FramesInv(st, lastSeq, missed) <=>
        \A k \in DOMAIN st.frames : \A e \in 1..(st.frames[k] - 1) :
          Settled(e) \/ (\E j \in 1..(k - 1) : st.frames[j] = e)
  BY <1>2 DEF FramesInv, Framed
<1> QED  BY <1>4, <1>5, <1>6 DEF CoverInv

LEMMA NewStreamOf ==
  ASSUME NEW n \in Nat
  PROVE  NewStream \in StreamOf(n) /\ Failed(NewStream) \in StreamOf(n)
<1>1. <<>> \in Seq(1..n)
  BY EmptySeq
<1>2. NewStream \in StreamOf(n)
  BY <1>1 DEF NewStream, StreamOf
<1>3. Failed(NewStream) \in StreamOf(n)
  BY <1>2 DEF StreamOf, Failed
<1> QED  BY <1>2, <1>3

\* Appending an event to the frames.
Lengthens(q, e, r, S) ==
  /\ r \in Seq(S) /\ Len(q) \in Nat
  /\ DOMAIN q = 1..Len(q) /\ DOMAIN r = 1..(Len(q) + 1)
  /\ \A k \in 1..Len(q) : r[k] = q[k]
  /\ r[Len(q) + 1] = e
  /\ Elements(r) = Elements(q) \cup {e}

LEMMA OneFrameMore ==
  ASSUME NEW S, NEW q \in Seq(S), NEW e \in S, NEW r, r = Append(q, e)
  PROVE  Lengthens(q, e, r, S)
<1>1. /\ r \in Seq(S) /\ Len(q) \in Nat /\ Len(r) = Len(q) + 1
      /\ DOMAIN q = 1..Len(q) /\ DOMAIN r = 1..Len(r)
      /\ \A k \in 1..Len(q) : r[k] = q[k]
      /\ r[Len(q) + 1] = e
  BY AppendProperties, LenProperties
<1>2. Elements(r) = Elements(q) \cup {e}
  <2>1. ASSUME NEW x \in Elements(r) PROVE x \in Elements(q) \cup {e}
    <3>1. PICK k \in 1..(Len(q) + 1) : r[k] = x
      BY <1>1 DEF Elements
    <3>2. k \in 1..Len(q) \/ k = Len(q) + 1
      BY <1>1
    <3> QED  BY <3>1, <3>2, <1>1 DEF Elements
  <2>2. ASSUME NEW x \in Elements(q) PROVE x \in Elements(r)
    <3>1. PICK k \in 1..Len(q) : q[k] = x
      BY <1>1 DEF Elements
    <3> QED  BY <3>1, <1>1 DEF Elements
  <2>3. e \in Elements(r)
    BY <1>1 DEF Elements
  <2> QED  BY <2>1, <2>2, <2>3
<1> QED  BY <1>1, <1>2 DEF Lengthens

\* Taking the first event of a list.
Shortens(q, r, S) ==
  /\ r \in Seq(S) /\ Len(q) \in Nat \ {0} /\ Head(q) \in S
  /\ DOMAIN q = 1..Len(q) /\ DOMAIN r = 1..(Len(q) - 1)
  /\ Head(q) = q[1]
  /\ \A k \in 1..(Len(q) - 1) : r[k] = q[k + 1]
  /\ Elements(q) = Elements(r) \cup {q[1]}

LEMMA OneFrameLess ==
  ASSUME NEW S, NEW q \in Seq(S), q # <<>>, NEW r, r = Tail(q)
  PROVE  Shortens(q, r, S)
<1>1. /\ r \in Seq(S) /\ Len(q) \in Nat \ {0} /\ Head(q) \in S /\ Len(r) = Len(q) - 1
      /\ DOMAIN q = 1..Len(q) /\ DOMAIN r = 1..Len(r)
      /\ \A k \in 1..(Len(q) - 1) : r[k] = q[k + 1]
  BY HeadTailProperties, LenProperties, EmptySeq
<1>2. Head(q) = q[1]
  BY <1>1
<1>3. Elements(q) = Elements(r) \cup {q[1]}
  <2>1. ASSUME NEW x \in Elements(q) PROVE x \in Elements(r) \cup {q[1]}
    <3>1. PICK k \in 1..Len(q) : q[k] = x
      BY <1>1 DEF Elements
    <3>2. k = 1 \/ (k - 1 \in 1..(Len(q) - 1) /\ r[k - 1] = x)
      BY <3>1, <1>1
    <3> QED  BY <3>1, <3>2, <1>1 DEF Elements
  <2>2. ASSUME NEW x \in Elements(r) PROVE x \in Elements(q)
    <3>1. PICK k \in 1..(Len(q) - 1) : r[k] = x
      BY <1>1 DEF Elements
    <3>2. k + 1 \in 1..Len(q) /\ q[k + 1] = x
      BY <3>1, <1>1
    <3> QED  BY <3>2, <1>1 DEF Elements
  <2>3. q[1] \in Elements(q)
    BY <1>1 DEF Elements
  <2> QED  BY <2>1, <2>2, <2>3
<1> QED  BY <1>1, <1>2, <1>3 DEF Shortens

LEMMA StreamsGrow ==
  ASSUME NEW n \in Nat, NEW m \in Nat, n <= m, NEW st \in StreamOf(n)
  PROVE  st \in StreamOf(m)
<1>1. 1..n \subseteq 1..m
  OBVIOUS
<1>2. st.frames \in Seq(1..m)
  BY <1>1, SeqMonotonic DEF StreamOf
<1> QED  BY <1>1, <1>2 DEF StreamOf

(***************************************************************************)
(* The handler.                                                            *)
(***************************************************************************)
Waiting == {"attach", "list", "flush"}

\* What the handler makes of event e: h, among m events.
Takes(st, e, kind, m, h) ==
  /\ h \in StreamOf(m)
  /\ h.got = st.got /\ h.hungUp = st.hungUp /\ h.after = st.after
  /\ (h.at = st.at /\ h.shut = st.shut) \/ (st.at = "live" /\ h.at = "gone" /\ h.shut)
  /\ h.pending = IF st.at \in Waiting THEN st.pending \cup {e} ELSE st.pending
  /\ h.frames = st.frames \/ (st.at = "live" /\ h.at = "live" /\ h.frames = Append(st.frames, e))
  /\ h.at = "live" /\ ~h.shut /\ ~h.hungUp =>
       h.frames = Append(st.frames, e) \/ Drops(st, e, kind)

LEMMA HandleOf ==
  ASSUME NEW m \in Nat, NEW st \in StreamOf(m), NEW e \in 1..m, NEW kind
  PROVE  Takes(st, e, kind, m, Handle(st, e, kind))
<1> DEFINE h == Handle(st, e, kind)
<1>1. Append(st.frames, e) \in Seq(1..m)
  BY AppendProperties DEF StreamOf
<1> DEFINE queued == Append(st.frames, e)
<1>2. queued \in Seq(1..m)
  BY <1>1
<1> HIDE DEF queued
<1>3. CASE st.at = "gone"
  BY <1>3 DEF Handle, Waiting, StreamOf, Takes
<1>4. CASE st.at \in Waiting
  <2>1. h = [st EXCEPT !.pending = st.pending \cup {e}]
    BY <1>4 DEF Handle, Waiting
  <2>2. st.pending \cup {e} \in SUBSET (1..m)
    BY DEF StreamOf
  <2>3. /\ h \in StreamOf(m) /\ h.pending = st.pending \cup {e}
        /\ h.got = st.got /\ h.hungUp = st.hungUp /\ h.after = st.after
        /\ h.at = st.at /\ h.shut = st.shut /\ h.frames = st.frames
    BY <2>1, <2>2 DEF StreamOf
  <2>4. st.at # "live"
    BY <1>4 DEF Waiting
  <2> QED  BY <2>3, <2>4, <1>4 DEF Takes
<1>5. CASE st.at = "live" /\ ~BackedUp(st)
  <2>1. h = [st EXCEPT !.frames = queued]
    BY <1>5 DEF Handle, Offer, queued
  <2>2. /\ h \in StreamOf(m) /\ h.frames = queued
        /\ h.got = st.got /\ h.hungUp = st.hungUp /\ h.after = st.after
        /\ h.at = st.at /\ h.shut = st.shut /\ h.pending = st.pending
    BY <2>1, <1>2 DEF StreamOf
  <2> QED  BY <2>2, <1>5 DEF Waiting, queued, Takes
<1>6. CASE st.at = "live" /\ BackedUp(st) /\ kind = "delta"
  <2>1. h = st
    BY <1>6 DEF Handle, Offer
  <2> QED  BY <2>1, <1>6 DEF BackedUp, StreamOf, Drops, Waiting, Takes
<1>7. CASE st.at = "live" /\ BackedUp(st) /\ kind # "delta"
  <2>1. h = [[st EXCEPT !.shut = TRUE] EXCEPT !.at = "gone"]
    BY <1>7 DEF Handle, Offer
  <2> QED  BY <2>1, <1>7 DEF StreamOf, Waiting, Takes
<1> QED  BY <1>3, <1>4, <1>5, <1>6, <1>7 DEF StreamOf, Waiting

\* What the parts of the invariant say of a stream at each of its stages.
StageInv(st, last) ==
  /\ st.after <= last
  /\ st.at # "flush" => st.got = {}
  /\ st.at = "live" => st.pending = {} /\ ~st.hungUp
  /\ st.at \in Waiting => st.frames = <<>> /\ ~st.shut
PendingInv(st, n, box) == \A e \in st.pending : \A x \in box : x \in 1..n => e < x
CoveredInv(st, n, last, gone, box) ==
  /\ StageInv(st, last) /\ PendingInv(st, n, box) /\ Covers(st, n, last, gone, box)
  /\ GotInv(st, last, gone) /\ FramesInv(st, last, gone)

LEMMA CoveredIs ==
  ASSUME NEW st
  PROVE  StreamInv(st) /\ CoverInv(st) /\ PendingInv(st, Len(log), Elements(inbox)) <=>
           CoveredInv(st, Len(log), lastSeq, missed, Elements(inbox))
BY CoverIs DEF CoveredInv, StageInv, StreamInv, Waiting

\* A stream that has nothing waits for nothing.
LEMMA EmptyCovered ==
  ASSUME NEW n \in Nat, NEW st \in StreamOf(n), NEW last \in Nat, NEW gone, NEW box,
         st.after <= last, st.got = {}, st.frames = <<>>,
         st.at \in {"gone", "attach", "list"}, st.at = "gone" \/ ~st.shut,
         PendingInv(st, n, box)
  PROVE  CoveredInv(st, n, last, gone, box)
<1>1. StageInv(st, last)
  BY DEF StageInv, Waiting
<1>2. Covers(st, n, last, gone, box)
  BY DEF Covers
<1>3. GotInv(st, last, gone)
  BY DEF GotInv
<1>4. FramesInv(st, last, gone)
  <2>1. DOMAIN st.frames = {}
    BY EmptySeq
  <2> QED  BY <2>1 DEF FramesInv
<1> QED  BY <1>1, <1>2, <1>3, <1>4 DEF CoveredInv

\* Nothing is asked anew when the client has seen more, or need not wait for more.
LEMMA CoveredMore ==
  ASSUME NEW n \in Nat, NEW st \in StreamOf(n), NEW last \in Nat, NEW last2 \in Nat,
         NEW gone, NEW gone2, NEW box, NEW box2,
         last <= last2, gone \subseteq gone2,
         \A e \in box : e \in box2 \/ e \in gone2 \/ e \notin 1..n,
         \A e \in box2 : e \in box \/ e \notin 1..n,
         CoveredInv(st, n, last, gone, box)
  PROVE  CoveredInv(st, n, last2, gone2, box2)
<1>1. StageInv(st, last2)
  <2>1. st.after \in Nat
    BY DEF StreamOf
  <2> QED  BY <2>1 DEF CoveredInv, StageInv
<1>2. Covers(st, n, last2, gone2, box2)
  BY DEF CoveredInv, Covers
<1>3. GotInv(st, last2, gone2)
  <2>1. \A g \in st.got : g \in Nat
    BY DEF StreamOf
  <2>2. \A g \in st.got : \A e \in 1..g : e \in Nat
    BY <2>1
  <2> QED  BY <2>2 DEF CoveredInv, GotInv
<1>4. FramesInv(st, last2, gone2)
  <2>1. \A k \in DOMAIN st.frames : \A e \in 1..(st.frames[k] - 1) : e \in Int
    OBVIOUS
  <2> QED  BY <2>1 DEF CoveredInv, FramesInv
<1>5. PendingInv(st, n, box2)
  BY DEF CoveredInv, PendingInv
<1> QED  BY <1>1, <1>2, <1>3, <1>4, <1>5 DEF CoveredInv

\* Event e is published, and goes to the inbox if somebody must hear of it.
LEMMA PublishCovered ==
  ASSUME NEW n \in Nat, NEW st \in StreamOf(n), NEW last \in Nat, NEW gone, NEW box, NEW box2,
         box \subseteq box2, \A e \in box2 : e \in box \/ e = n + 1,
         n + 1 \in box2 \/ st.at \notin {"flush", "live"},
         CoveredInv(st, n, last, gone, box)
  PROVE  st \in StreamOf(n + 1) /\ CoveredInv(st, n + 1, last, gone, box2)
<1>1. st \in StreamOf(n + 1)
  BY StreamsGrow
<1>2. PendingInv(st, n + 1, box2)
  <2> SUFFICES ASSUME NEW e \in st.pending, NEW x \in box2, x \in 1..(n + 1) PROVE e < x
    BY DEF PendingInv
  <2>1. e \in 1..n
    BY DEF StreamOf
  <2>2. x \in 1..n /\ x \in box => e < x
    BY DEF CoveredInv, PendingInv
  <2> QED  BY <2>1, <2>2
<1>3. Covers(st, n + 1, last, gone, box2)
  <2>1. \A x \in 1..(n + 1) : x \in 1..n \/ x = n + 1
    OBVIOUS
  <2> QED  BY <2>1 DEF CoveredInv, Covers
<1> QED  BY <1>1, <1>2, <1>3 DEF CoveredInv

\* Event e, the next of the log or of the inbox, comes to a handler.
LEMMA HandleCovered ==
  ASSUME NEW n \in Nat, NEW m \in Nat, n <= m, NEW st \in StreamOf(n), NEW e \in 1..m,
         \A x \in 1..m : x \in 1..n \/ x = e,
         NEW kind, NEW last \in Nat,
         NEW gone, NEW gone2, NEW box, NEW box2, gone \subseteq gone2,
         st.at = "live" /\ Drops(st, e, kind) => e \in gone2,
         \A x \in box : x \in box2 \/ x = e, box2 \subseteq box,
         \A x \in 1..(e - 1) : x \notin box, \A x \in box2 : x \in 1..m => x \in 1..n /\ e < x,
         CoveredInv(st, n, last, gone, box)
  PROVE  /\ Handle(st, e, kind) \in StreamOf(m)
         /\ CoveredInv(Handle(st, e, kind), m, last, gone2, box2)
<1> DEFINE h == Handle(st, e, kind)
<1>1. st \in StreamOf(m)
  BY StreamsGrow
<1>2. /\ h \in StreamOf(m)
      /\ h.got = st.got /\ h.hungUp = st.hungUp /\ h.after = st.after
      /\ (h.at = st.at /\ h.shut = st.shut) \/ (st.at = "live" /\ h.at = "gone" /\ h.shut)
      /\ h.pending = IF st.at \in Waiting THEN st.pending \cup {e} ELSE st.pending
      /\ h.frames = st.frames \/ (st.at = "live" /\ h.at = "live" /\ h.frames = Append(st.frames, e))
      /\ h.at = "live" /\ ~h.shut /\ ~h.hungUp =>
           h.frames = Append(st.frames, e) \/ Drops(st, e, kind)
  <2>1. Takes(st, e, kind, m, h)
    BY <1>1, HandleOf
  <2> HIDE DEF h
  <2> QED  BY <2>1 DEF Takes
<1> HIDE DEF h
<1>3. st.frames \in Seq(1..m) /\ st.after \in Nat
  BY <1>1 DEF StreamOf
<1> DEFINE queued == Append(st.frames, e)
<1>4. /\ queued \in Seq(1..m) /\ Len(st.frames) \in Nat
      /\ DOMAIN st.frames = 1..Len(st.frames) /\ DOMAIN queued = 1..(Len(st.frames) + 1)
      /\ \A k \in 1..Len(st.frames) : queued[k] = st.frames[k]
      /\ queued[Len(st.frames) + 1] = e
  <2>1. Lengthens(st.frames, e, queued, 1..m)
    BY <1>3, OneFrameMore
  <2> QED  BY <2>1 DEF Lengthens
<1> HIDE DEF queued
<1>5. /\ h.frames = st.frames \/ (st.at = "live" /\ h.at = "live" /\ h.frames = queued)
      /\ h.at = "live" /\ ~h.shut /\ ~h.hungUp => h.frames = queued \/ Drops(st, e, kind)
  BY <1>2 DEF queued
<1>6. StageInv(h, last)
  BY <1>2, <1>3 DEF CoveredInv, StageInv, Waiting
<1>7. \A x : InFrames(st, x) => InFrames(h, x)
  <2>1. CASE h.frames = st.frames
    BY <2>1 DEF InFrames
  <2>2. CASE h.frames = queued
    <3>1. \A k \in DOMAIN st.frames : k \in DOMAIN queued /\ queued[k] = st.frames[k]
      BY <1>4
    <3> QED  BY <2>2, <3>1 DEF InFrames
  <2> QED  BY <2>1, <2>2, <1>5
<1>8. Covers(h, m, last, gone2, box2)
  <2> SUFFICES ASSUME h.at = "flush" \/ (h.at = "live" /\ ~h.shut), NEW x \in 1..m
               PROVE  \/ x <= last \/ x \in gone2 \/ x \in h.got \cup h.pending
                      \/ InFrames(h, x) \/ x \in box2
    BY DEF Covers
  <2>1. h.at = st.at /\ h.shut = st.shut
    BY <1>2
  <2>2. CASE x = e
    <3>1. CASE h.at = "flush"
      BY <2>1, <2>2, <3>1, <1>2 DEF Waiting
    <3>2. CASE h.at = "live" /\ ~h.shut
      <4>1. ~h.hungUp
        BY <3>2, <1>6 DEF StageInv
      <4>2. CASE h.frames = queued
        <5>1. Len(st.frames) + 1 \in DOMAIN h.frames
          BY <4>2, <1>4
        <5> QED  BY <5>1, <4>2, <1>4, <2>2 DEF InFrames
      <4> QED  BY <4>1, <4>2, <3>2, <1>5, <2>1, <2>2
    <3> QED  BY <3>1, <3>2
  <2>3. CASE x # e
    <3>1. x \in 1..n
      BY <2>3
    <3>2. x <= last \/ x \in gone \/ x \in st.got \cup st.pending \/ InFrames(st, x) \/ x \in box
      BY <2>1, <3>1 DEF CoveredInv, Covers
    <3>3. st.pending \subseteq h.pending
      BY <1>2
    <3> QED  BY <3>2, <3>3, <2>3, <1>2, <1>7
  <2> QED  BY <2>2, <2>3
<1>9. GotInv(h, last, gone2)
  BY <1>2 DEF CoveredInv, GotInv
<1>10. FramesInv(h, last, gone2)
  <2> SUFFICES ASSUME NEW k \in DOMAIN h.frames, NEW x \in 1..(h.frames[k] - 1)
               PROVE  x <= last \/ x \in gone2 \/ Framed(h, k, x)
    BY DEF FramesInv
  <2>1. ASSUME k \in DOMAIN st.frames, h.frames[k] = st.frames[k],
               \A j \in 1..(k - 1) : h.frames[j] = st.frames[j]
        PROVE  x <= last \/ x \in gone2 \/ Framed(h, k, x)
    <3>1. x <= last \/ x \in gone \/ Framed(st, k, x)
      BY <2>1 DEF CoveredInv, FramesInv
    <3> QED  BY <3>1, <2>1 DEF Framed
  <2>2. CASE h.frames = st.frames
    BY <2>1, <2>2
  <2>3. CASE st.at = "live" /\ h.at = "live" /\ h.frames = queued /\ k \in 1..Len(st.frames)
    <3>1. k \in Nat /\ \A j \in 1..(k - 1) : j \in 1..Len(st.frames)
      BY <2>3, <1>4
    <3>2. h.frames[k] = st.frames[k] /\ \A j \in 1..(k - 1) : h.frames[j] = st.frames[j]
      BY <2>3, <3>1, <1>4
    <3>3. k \in DOMAIN st.frames
      BY <2>3, <1>4
    <3> QED  BY <2>1, <3>2, <3>3
  <2>4. CASE st.at = "live" /\ h.at = "live" /\ h.frames = queued /\ k = Len(st.frames) + 1
    <3>1. CASE ~st.shut
      <4>1. x \in 1..(e - 1) /\ x \in 1..n
        <5>1. h.frames[k] = e
          BY <2>4, <1>4
        <5> QED  BY <5>1
      <4>2. st.got = {} /\ st.pending = {}
        BY <2>4 DEF CoveredInv, StageInv
      <4>3. x <= last \/ x \in gone \/ InFrames(st, x)
        BY <2>4, <3>1, <4>1, <4>2 DEF CoveredInv, Covers
      <4>4. ASSUME InFrames(st, x) PROVE Framed(h, k, x)
        <5>1. PICK j \in 1..Len(st.frames) : st.frames[j] = x
          BY <4>4, <1>4 DEF InFrames
        <5>2. j \in 1..(k - 1)
          BY <2>4, <1>4
        <5>3. h.frames[j] = x
          BY <5>1, <2>4, <1>4
        <5> QED  BY <5>2, <5>3 DEF Framed
      <4> QED  BY <4>3, <4>4
    <3>2. CASE st.shut
      <4>1. BackedUp(st)
        BY <3>2 DEF BackedUp
      <4>2. h = st \/ h.at = "gone"
        <5>1. CASE kind = "delta"
          BY <4>1, <5>1, <2>4 DEF Handle, Offer, h
        <5>2. CASE kind # "delta"
          <6>1. h = [[st EXCEPT !.shut = TRUE] EXCEPT !.at = "gone"]
            BY <4>1, <5>2, <2>4 DEF Handle, Offer, h
          <6> QED  BY <6>1 DEF StreamOf
        <5> QED  BY <5>1, <5>2
      <4> QED  BY <4>2, <2>2, <2>4
    <3> QED  BY <3>1, <3>2
  <2>5. h.frames = queued => k \in 1..Len(st.frames) \/ k = Len(st.frames) + 1
    BY <1>4
  <2> QED  BY <2>2, <2>3, <2>4, <2>5, <1>5
<1>11. PendingInv(h, m, box2)
  <2>1. \A x \in st.pending : \A y \in box2 : y \in 1..m => x < y
    BY DEF CoveredInv, PendingInv
  <2> QED  BY <2>1, <1>2 DEF PendingInv
<1> QED  BY <1>2, <1>6, <1>8, <1>9, <1>10, <1>11 DEF CoveredInv, h


(***************************************************************************)
(* The flush.                                                              *)
(***************************************************************************)
\* What a flush of these events makes of a stream: f.
Sends(st, events, kinds, n, f) ==
  /\ f \in StreamOf(n)
  /\ f.after = 0 /\ f.got = {} /\ f.pending = {} /\ f.hungUp = st.hungUp
  /\ f.at = IF st.hungUp THEN "gone" ELSE "live"
  /\ \A e \in events : f.shut \/ f.hungUp \/ e \in Unsent(st, events, kinds) \/ InFrames(f, e)
  /\ \A k \in DOMAIN f.frames : f.frames[k] \in events
  /\ \A k \in DOMAIN f.frames : \A e \in events : e < f.frames[k] => Framed(f, k, e)

LEMMA FlushedOf ==
  ASSUME NEW n \in Nat, NEW st \in StreamOf(n), NEW events \in SUBSET (1..n), NEW kinds
  PROVE  Sends(st, events, kinds, n, Flushed(st, events, kinds))
<1> DEFINE f == Flushed(st, events, kinds)
<1> DEFINE c == Cardinality(events)
           q == Sorted(events)
           fits == Fits(st, events)
           sent == SubSeq(q, 1, fits)
           closed == \E e \in Refused(st, events) : kinds[e] # "delta"
<1>1. c \in Nat /\ q \in [1..c -> events]
      /\ (\A e \in events : \E k \in 1..c : q[k] = e)
      /\ (\A j, k \in 1..c : j < k => q[j] < q[k])
  BY SortedSorts DEF Sorts
<1>2. fits \in 0..c
  BY <1>1, FeedAssumption DEF Fits
<1> HIDE DEF c, q, fits
<1>3. /\ sent \in Seq(1..n) /\ DOMAIN sent = 1..fits
      /\ \A k \in 1..fits : sent[k] = q[k] /\ q[k] \in events
  <2>1. \A k \in 1..fits : q[k] \in 1..n /\ q[k] \in events
    <3> TAKE k \in 1..fits
    <3>1. k \in 1..c
      BY <1>1, <1>2
    <3>2. q[k] \in events
      BY <3>1, <1>1
    <3> QED  BY <3>2
  <2>2. sent \in Seq(1..n) /\ Len(sent) = fits /\ \A k \in 1..fits : sent[k] = q[k]
    BY <2>1, <1>2, SubSeqProperties
  <2> QED  BY <2>1, <2>2, LenProperties
<1> HIDE DEF sent, closed, f
<1>4. f = [st EXCEPT !.at = IF st.hungUp THEN "gone" ELSE "live", !.after = 0, !.got = {},
                     !.pending = {}, !.frames = sent, !.shut = closed]
  BY DEF f, Flushed, sent, closed, q, fits
<1>5. closed \in BOOLEAN
  BY DEF closed
<1>6. /\ f \in StreamOf(n)
      /\ f.after = 0 /\ f.got = {} /\ f.pending = {} /\ f.hungUp = st.hungUp
      /\ f.at = (IF st.hungUp THEN "gone" ELSE "live") /\ f.frames = sent
  BY <1>3, <1>4, <1>5 DEF StreamOf
<1>7. ASSUME NEW e \in events
      PROVE  f.shut \/ f.hungUp \/ e \in Unsent(st, events, kinds) \/ InFrames(f, e)
  <2>1. PICK k \in 1..c : q[k] = e
    BY <1>1
  <2>2. CASE k \in 1..fits
    BY <2>1, <2>2, <1>3, <1>6 DEF InFrames
  <2>3. CASE k \notin 1..fits
    <3>1. k \in fits + 1 .. c
      BY <2>3, <1>1, <1>2
    <3>2. e \in Refused(st, events)
      BY <2>1, <3>1 DEF Refused, c, q, fits
    <3> QED  BY <3>2 DEF Unsent, f
  <2> QED  BY <2>2, <2>3
<1>8. ASSUME NEW k \in DOMAIN f.frames, NEW e \in events, e < f.frames[k] PROVE Framed(f, k, e)
  <2>1. k \in 1..fits /\ f.frames[k] = q[k]
    BY <1>3, <1>6
  <2>2. PICK j \in 1..c : q[j] = e
    BY <1>1
  <2>3. k \in 1..c /\ q[k] \in Int /\ q[j] \in Int
    <3>1. k \in 1..c
      BY <2>1, <1>1, <1>2
    <3>2. q[k] \in events /\ q[j] \in events
      BY <3>1, <1>1
    <3>3. \A y \in events : y \in Int
      OBVIOUS
    <3> QED  BY <3>1, <3>2, <3>3
  <2>4. ~(k < j) /\ k # j
    BY <1>1, <1>8, <2>1, <2>2, <2>3
  <2>5. j \in 1..(k - 1) /\ j \in 1..fits
    BY <2>3, <2>4, <2>1, <1>2
  <2> QED  BY <2>2, <2>5, <1>3, <1>6 DEF Framed
<1> QED  BY <1>3, <1>6, <1>7, <1>8 DEF Sends, f

\* The events are all that there are from some position, without a gap before any of them.
LEMMA FlushCovered ==
  ASSUME NEW n \in Nat, NEW st \in StreamOf(n), NEW events \in SUBSET (1..n), NEW kinds,
         NEW last \in Nat, NEW gone, NEW box, Unsent(st, events, kinds) \subseteq gone,
         \A x \in 1..n : x <= last \/ x \in gone \/ x \in box \/ x \in events,
         \A y \in events : \A x \in 1..(y - 1) : x <= last \/ x \in gone \/ x \in events
  PROVE  /\ Flushed(st, events, kinds) \in StreamOf(n)
         /\ CoveredInv(Flushed(st, events, kinds), n, last, gone, box)
<1> DEFINE f == Flushed(st, events, kinds)
<1>0. Sends(st, events, kinds, n, f)
  BY FlushedOf
<1> HIDE DEF f
<1>1. /\ f \in StreamOf(n)
      /\ f.after = 0 /\ f.got = {} /\ f.pending = {} /\ f.hungUp = st.hungUp
      /\ f.at = IF st.hungUp THEN "gone" ELSE "live"
  BY <1>0 DEF Sends
<1>2. \A e \in events : f.shut \/ f.hungUp \/ e \in Unsent(st, events, kinds) \/ InFrames(f, e)
  BY <1>0 DEF Sends
<1>3. /\ \A k \in DOMAIN f.frames : f.frames[k] \in events
      /\ \A k \in DOMAIN f.frames : \A e \in events : e < f.frames[k] => Framed(f, k, e)
  BY <1>0 DEF Sends
<1>4. StageInv(f, last)
  BY <1>1 DEF StageInv, Waiting
<1>5. Covers(f, n, last, gone, box)
  BY <1>1, <1>2 DEF Covers
<1>6. GotInv(f, last, gone)
  BY <1>1 DEF GotInv
<1>7. FramesInv(f, last, gone)
  <2> SUFFICES ASSUME NEW k \in DOMAIN f.frames, NEW e \in 1..(f.frames[k] - 1)
               PROVE  e <= last \/ e \in gone \/ Framed(f, k, e)
    BY DEF FramesInv
  <2>0. f.frames[k] \in events
    BY <1>3
  <2>1. f.frames[k] \in events /\ f.frames[k] \in Int
    <3>1. \A y \in events : y \in Int
      OBVIOUS
    <3> QED  BY <2>0, <3>1
  <2>2. e <= last \/ e \in gone \/ e \in events
    BY <2>1
  <2>3. e < f.frames[k]
    BY <2>1
  <2> QED  BY <2>2, <2>3, <1>3
<1>8. PendingInv(f, n, box)
  BY <1>1 DEF PendingInv
<1> QED  BY <1>1, <1>4, <1>5, <1>6, <1>7, <1>8 DEF CoveredInv, f

\* The client reads the first frame.
Shown(st) == [st EXCEPT !.frames = Tail(st.frames)]
LEMMA ReadCovered ==
  ASSUME NEW n \in Nat, NEW st \in StreamOf(n), st.frames # <<>>,
         NEW last \in Nat, NEW last2 \in Nat, NEW gone, NEW box,
         last <= last2, Head(st.frames) <= last2,
         CoveredInv(st, n, last, gone, box)
  PROVE  /\ Shown(st) \in StreamOf(n) /\ CoveredInv(Shown(st), n, last2, gone, box)
         /\ Head(st.frames) \in 1..n
         /\ \A x \in 1..(Head(st.frames) - 1) : x <= last \/ x \in gone
<1> DEFINE q == st.frames  tail == Tail(q)  r == Shown(st)
<1>1. q \in Seq(1..n) /\ q # <<>>
  BY DEF StreamOf
<1>2. /\ tail \in Seq(1..n) /\ Len(q) \in Nat \ {0} /\ Head(q) \in 1..n
      /\ DOMAIN q = 1..Len(q) /\ DOMAIN tail = 1..(Len(q) - 1)
      /\ Head(q) = q[1]
      /\ \A k \in 1..(Len(q) - 1) : tail[k] = q[k + 1]
  <2>1. Shortens(q, tail, 1..n)
    BY <1>1, OneFrameLess
  <2> QED  BY <2>1 DEF Shortens
<1> HIDE DEF tail
<1>3. r = [st EXCEPT !.frames = tail]
  BY DEF tail, Shown
<1> HIDE DEF r
<1>4. /\ r \in StreamOf(n) /\ r.frames = tail
      /\ r.at = st.at /\ r.after = st.after /\ r.got = st.got /\ r.pending = st.pending
      /\ r.shut = st.shut /\ r.hungUp = st.hungUp
  BY <1>2, <1>3 DEF StreamOf
<1>5. CoveredInv(st, n, last2, gone, box)
  BY CoveredMore
<1>6. StageInv(r, last2)
  <2>1. st.at \notin Waiting
    BY <1>1 DEF CoveredInv, StageInv
  <2> QED  BY <2>1, <1>4, <1>5 DEF CoveredInv, StageInv
<1>7. Covers(r, n, last2, gone, box)
  <2> SUFFICES ASSUME r.at = "flush" \/ (r.at = "live" /\ ~r.shut), NEW x \in 1..n
               PROVE  \/ x <= last2 \/ x \in gone \/ x \in r.got \cup r.pending
                      \/ InFrames(r, x) \/ x \in box
    BY DEF Covers
  <2>1. x <= last2 \/ x \in gone \/ x \in st.got \cup st.pending \/ InFrames(st, x) \/ x \in box
    BY <1>4, <1>5 DEF CoveredInv, Covers
  <2>2. ASSUME InFrames(st, x) PROVE x <= last2 \/ InFrames(r, x)
    <3>1. PICK k \in 1..Len(q) : q[k] = x
      BY <2>2, <1>2 DEF InFrames
    <3>2. k # 1 => k - 1 \in 1..(Len(q) - 1)
      BY <1>2
    <3>3. k # 1 => tail[k - 1] = x
      BY <3>1, <3>2, <1>2
    <3> QED  BY <3>1, <3>2, <3>3, <1>2, <1>4 DEF InFrames
  <2> QED  BY <2>1, <2>2, <1>4
<1>8. GotInv(r, last2, gone)
  BY <1>4, <1>5 DEF CoveredInv, GotInv
<1>9. FramesInv(r, last2, gone)
  <2> SUFFICES ASSUME NEW k \in DOMAIN r.frames, NEW x \in 1..(r.frames[k] - 1)
               PROVE  x <= last2 \/ x \in gone \/ Framed(r, k, x)
    BY DEF FramesInv
  <2>0. k \in 1..(Len(q) - 1)
    BY <1>2, <1>4
  <2>1. k \in 1..(Len(q) - 1) /\ k + 1 \in 1..Len(q) /\ r.frames[k] = q[k + 1]
    <3>1. r.frames[k] = tail[k] /\ tail[k] = q[k + 1]
      BY <2>0, <1>2, <1>4
    <3> QED  BY <2>0, <3>1, <1>2
  <2>2. x <= last2 \/ x \in gone \/ Framed(st, k + 1, x)
    BY <2>1, <1>2, <1>5 DEF CoveredInv, FramesInv
  <2>3. ASSUME Framed(st, k + 1, x) PROVE x <= last2 \/ Framed(r, k, x)
    <3>1. PICK j \in 1..((k + 1) - 1) : q[j] = x
      BY <2>3 DEF Framed
    <3>2. j # 1 => j - 1 \in 1..(k - 1) /\ j - 1 \in 1..(Len(q) - 1)
      <4>1. k \in Nat /\ k <= Len(q) - 1 /\ Len(q) \in Nat
        BY <2>1, <1>2
      <4>2. j \in Nat /\ 1 <= j /\ j <= k
        BY <4>1
      <4> QED  BY <4>1, <4>2
    <3>3. j # 1 => tail[j - 1] = x
      <4>1. (j - 1) + 1 = j
        BY <2>1
      <4> QED  BY <4>1, <3>1, <3>2, <1>2
    <3> QED  BY <3>1, <3>2, <3>3, <1>2, <1>4 DEF Framed
  <2> QED  BY <2>2, <2>3
<1>10. ASSUME NEW x \in 1..(Head(q) - 1) PROVE x <= last \/ x \in gone
  <2>1. 1 \in DOMAIN q /\ x \in 1..(q[1] - 1)
    BY <1>2
  <2>2. x <= last \/ x \in gone \/ Framed(st, 1, x)
    BY <2>1 DEF CoveredInv, FramesInv
  <2> QED  BY <2>2 DEF Framed
<1>11. PendingInv(r, n, box)
  BY <1>4, <1>5 DEF CoveredInv, PendingInv
<1> QED  BY <1>2, <1>4, <1>6, <1>7, <1>8, <1>9, <1>10, <1>11 DEF CoveredInv, r


(***************************************************************************)
(* The invariant in parts.                                                 *)
(***************************************************************************)
\* FeedInv and FollowsLog, with what they say of a stream gathered in CoveredInv.
AllCovered(str, n, last, gone, box) ==
  /\ str \in [Stream -> StreamOf(n)]
  /\ \A s \in Stream : CoveredInv(str[s], n, last, gone, box)
StreamsInv == AllCovered(stream, Len(log), lastSeq, missed, Elements(inbox))
Connected(opened, str) ==
  \A s \in opened : ~str[s].hungUp /\ (str[s].at = "gone" => str[s].shut)
Rising == \A k \in DOMAIN inbox : inbox[k] \in Seqs => \A j \in 1..(k - 1) : inbox[j] < inbox[k]
PlainTypes ==
  /\ log \in Seq(Kinds) /\ Len(log) <= MaxEvents
  /\ commands \in Seq({"sub", "unsub"}) /\ inbox \in Seq({Ack, Nack} \cup Seqs)
  /\ subscribed \in BOOLEAN /\ attaching \in {"none", "pending", "done"}
  /\ source \in Stream \cup {NoStream} /\ open \subseteq Stream /\ timer \in BOOLEAN
  /\ start \in [Starter -> [at : {"call", "seq", "adopt", "done"}, upTo : {0} \cup Seqs,
                            seq : {0} \cup Seqs]]
  /\ lastSeq \in {0} \cup Seqs /\ known \subseteq Seqs
Parts == /\ PlainTypes /\ StreamsInv /\ (source # NoStream => source \in open)
         /\ Connected(open, stream) /\ WireInv /\ Rising /\ KnownInv /\ FollowsLog

LEMMA PartsImply == Parts => FeedInv /\ FollowsLog
<1> SUFFICES ASSUME Parts PROVE FeedInv
  BY DEF Parts
<1>1. \A s \in Stream : StreamInv(stream[s]) /\ CoverInv(stream[s])
                        /\ PendingInv(stream[s], Len(log), Elements(inbox))
  BY CoveredIs DEF Parts, StreamsInv, AllCovered
<1>2. FeedTypeOK
  BY DEF Parts, PlainTypes, StreamsInv, AllCovered, StreamOf, FeedTypeOK, Seqs
<1>3. OrderInv
  <2> SUFFICES ASSUME NEW k \in DOMAIN inbox, inbox[k] \in Seqs
               PROVE  /\ \A j \in 1..(k - 1) : inbox[j] < inbox[k]
                      /\ \A s \in Stream : \A e \in stream[s].pending : e < inbox[k]
    BY DEF OrderInv
  <2>1. inbox[k] \in Elements(inbox)
    BY DEF Elements
  <2> QED  BY <2>1, <1>1 DEF Parts, Rising, PendingInv, Seqs
<1>4. LinkInv
  BY DEF Parts, Connected, LinkInv
<1> QED  BY <1>1, <1>2, <1>3, <1>4 DEF FeedInv, Parts

LEMMA InitParts == Init => Parts
<1> SUFFICES ASSUME Init PROVE Parts
  OBVIOUS
<1>1. Len(log) = 0 /\ Seqs = {} /\ log \in Seq(Kinds) /\ commands \in Seq({"sub", "unsub"})
      /\ inbox \in Seq({Ack, Nack} \cup Seqs) /\ DOMAIN inbox = {}
  BY EmptySeq DEF Init, Seqs
<1>2. PlainTypes
  <2>1. start \in [Starter -> [at : {"call", "seq", "adopt", "done"}, upTo : {0} \cup Seqs,
                              seq : {0} \cup Seqs]]
    BY DEF Init
  <2>2. Len(log) <= MaxEvents
    BY <1>1, FeedAssumption
  <2> QED  BY <1>1, <2>1, <2>2 DEF Init, PlainTypes
<1>3. StreamsInv
  <2>1. NewStream \in StreamOf(0)
    BY NewStreamOf
  <2>2. CoveredInv(NewStream, 0, 0, {}, Elements(inbox))
    BY <2>1, EmptyCovered DEF NewStream, PendingInv
  <2> QED  BY <2>1, <2>2, <1>1 DEF Init, StreamsInv, AllCovered
<1>4. WireInv
  BY <1>1 DEF Init, WireInv, Handled, NewStream, Acks
<1>5. KnownInv /\ FollowsLog /\ Rising /\ Connected(open, stream)
  BY <1>1 DEF Init, KnownInv, FollowsLog, Rising, Connected
<1> QED  BY <1>2, <1>3, <1>4, <1>5 DEF Parts, Init

(***************************************************************************)
(* Settling.                                                               *)
(***************************************************************************)
LEMMA SettleCovered ==
  ASSUME NEW str, NEW opened, NEW stays, Settle(str, opened, stays),
         NEW n \in Nat, NEW last \in Nat, NEW gone, NEW box, AllCovered(str, n, last, gone, box)
  PROVE  /\ AllCovered(stream', n, last, gone, box)
         /\ \A s \in Stream : s \in opened => stream'[s] = str[s]
<1>1. /\ NewStream \in StreamOf(n)
      /\ CoveredInv(NewStream, n, last, gone, box)
  <2>1. NewStream \in StreamOf(n)
    BY NewStreamOf
  <2>2. CoveredInv(NewStream, n, last, gone, box)
    BY <2>1, EmptyCovered DEF NewStream, PendingInv
  <2> QED  BY <2>1, <2>2
<1>2. stream' = [s \in Stream |-> IF s \notin opened /\ (str[s].at = "gone" \/ Ended(str[s]))
                                    THEN NewStream ELSE str[s]]
  BY DEF Settle
<1> QED  BY <1>1, <1>2 DEF AllCovered

\* A stream that awaits the subscription goes on awaiting it, one that is gone stays gone.
AtKept(str) ==
  \A s \in Stream : IF stream[s].at \in {"gone", "attach"} THEN str[s].at = stream[s].at
                    ELSE str[s].at # "attach" /\ (stream[s].at = "live" => str[s].at \in {"live", "gone"})

LEMMA SettleWired ==
  ASSUME NEW str, NEW opened, NEW stays, Settle(str, opened, stays), AtKept(str),
         WireInv, attaching \in {"none", "pending", "done"},
         UNCHANGED <<redis, subscribed>>, stays => left, ~redis => UNCHANGED inbox,
         Acks = {} => Acks' = {}, Answered => Answered'
  PROVE  WireInv'
<1>1. \A s \in Stream : /\ stream'[s].at = str[s].at \/ stream'[s].at = "gone"
                        /\ str[s].at = "attach" => stream'[s].at = "attach"
                        /\ str[s].at = "gone" => stream'[s].at = "gone" /\ ~Ended(str[s])
                        /\ Ended(str[s]) => str[s].at = "live"
  BY DEF Settle, Ended, NewStream
<1>2. left' = (stays \/ \E s \in Stream \ opened : Ended(str[s]))
  BY DEF Settle
<1>3. CASE ~redis
  <2>1. \A s \in Stream : stream'[s].at \in {"gone", "live"}
    BY <1>1, <1>3 DEF WireInv, AtKept
  <2>2. UNCHANGED <<attaching, commands>>
    BY <1>3 DEF Settle
  <2> QED  BY <2>1, <2>2, <1>3 DEF WireInv
<1>4. CASE redis /\ attaching = "none"
  <2>1. ~left /\ \A s \in Stream : stream[s].at = "gone"
    BY <1>4 DEF WireInv, Handled
  <2>2. ~left' /\ \A s \in Stream : stream'[s].at = "gone"
    BY <2>1, <1>1, <1>2 DEF AtKept
  <2>3. UNCHANGED <<attaching, commands>>
    BY <2>1, <1>4 DEF Settle, Handled
  <2> QED  BY <2>2, <2>3, <1>4 DEF WireInv, Handled
<1>5. CASE redis /\ attaching = "pending"
  <2>1. ~left /\ (\A s \in Stream : stream[s].at \in {"gone", "attach"})
        /\ \E s \in Stream : stream[s].at = "attach"
    BY <1>5 DEF WireInv, Handled
  <2>2. ~left' /\ (\A s \in Stream : stream'[s].at \in {"gone", "attach"})
        /\ \E s \in Stream : stream'[s].at = "attach"
    BY <2>1, <1>1, <1>2 DEF AtKept
  <2>3. UNCHANGED <<attaching, commands>> /\ Handled(stream', left')
    BY <2>2, <1>5 DEF Settle, Handled
  <2> QED  BY <2>2, <2>3, <1>5 DEF WireInv
<1>6. CASE redis /\ attaching = "done"
  <2>1. Handled(stream, left) /\ commands = <<>> /\ subscribed /\ Acks' = {}
        /\ \A s \in Stream : stream[s].at # "attach"
    BY <1>6 DEF WireInv
  <2>2. \A s \in Stream : stream'[s].at # "attach"
    BY <2>1, <1>1 DEF AtKept
  <2>3. CASE Handled(stream', left')
    <3>1. UNCHANGED <<attaching, commands>>
      BY <2>3 DEF Settle
    <3> QED  BY <3>1, <2>1, <2>2, <2>3, <1>6 DEF WireInv
  <2>4. CASE ~Handled(stream', left')
    <3>1. attaching' = "none" /\ commands' = <<"unsub">>
      BY <2>1, <2>4, <1>6 DEF Settle
    <3> QED  BY <3>1, <2>1, <2>2, <2>4, <1>6 DEF WireInv
  <2> QED  BY <2>3, <2>4
<1> QED  BY <1>3, <1>4, <1>5, <1>6

\* The steps that leave the inbox alone.
LEMMA SameInbox ==
  ASSUME UNCHANGED <<inbox, subscribed>>
  PROVE  /\ Acks = {} => Acks' = {}
         /\ Answered => Answered'
<1>1. Acks' = Acks
  BY DEF Acks
<1> QED  BY <1>1 DEF Answered

\* Commands that a settling process has sent.
LEMMA SettleTypes ==
  ASSUME NEW str, NEW opened, NEW stays, Settle(str, opened, stays),
         commands \in Seq({"sub", "unsub"}), attaching \in {"none", "pending", "done"}
  PROVE  commands' \in Seq({"sub", "unsub"}) /\ attaching' \in {"none", "pending", "done"}
<1>1. Append(commands, "unsub") \in Seq({"sub", "unsub"})
  BY AppendProperties
<1> QED  BY <1>1 DEF Settle


(***************************************************************************)
(* What the server does with a stream.                                     *)
(***************************************************************************)
Listed(st, got) == [st EXCEPT !.at = "flush", !.got = got]
LEMMA ListCovered ==
  ASSUME NEW n \in Nat, NEW st \in StreamOf(n), st.at = "list", NEW last \in Nat,
         NEW got \in SUBSET (1..n), NEW gone, NEW box, \A e \in 1..n : e <= last \/ e \in gone \/ e \in got,
         CoveredInv(st, n, last, gone, box)
  PROVE  Listed(st, got) \in StreamOf(n) /\ CoveredInv(Listed(st, got), n, last, gone, box)
<1> DEFINE r == Listed(st, got)
<1>1. /\ r \in StreamOf(n) /\ r.at = "flush" /\ r.got = got
      /\ r.after = st.after /\ r.pending = st.pending /\ r.frames = st.frames
      /\ r.shut = st.shut /\ r.hungUp = st.hungUp
  BY DEF StreamOf, Listed
<1> HIDE DEF r
<1>2. StageInv(r, last)
  BY <1>1 DEF CoveredInv, StageInv, Waiting
<1>3. Covers(r, n, last, gone, box)
  BY <1>1 DEF Covers
<1>4. GotInv(r, last, gone)
  <2>1. \A g \in got : \A e \in 1..g : e \in 1..n
    OBVIOUS
  <2> QED  BY <1>1, <2>1 DEF GotInv
<1>5. FramesInv(r, last, gone) /\ PendingInv(r, n, box)
  BY <1>1 DEF CoveredInv, FramesInv, PendingInv, Framed
<1> QED  BY <1>1, <1>2, <1>3, <1>4, <1>5 DEF CoveredInv, r

LEMMA FailedCovered ==
  ASSUME NEW n \in Nat, NEW st, NEW last \in Nat, NEW gone, NEW box
  PROVE  /\ Failed(st) \in StreamOf(n) /\ CoveredInv(Failed(st), n, last, gone, box)
         /\ Failed(st).at = "gone" /\ Failed(st).shut /\ ~Failed(st).hungUp
<1>1. Failed(st) = Failed(NewStream)
  BY DEF Failed
<1> DEFINE f == Failed(st)
<1>2. f \in StreamOf(n)
  BY <1>1, NewStreamOf
<1>3. f.at = "gone" /\ f.shut /\ ~f.hungUp /\ f.after = 0 /\ f.got = {} /\ f.pending = {} /\ f.frames = <<>>
  BY DEF Failed, NewStream
<1> HIDE DEF f
<1>4. CoveredInv(f, n, last, gone, box)
  BY <1>2, <1>3, EmptyCovered DEF PendingInv
<1> QED  BY <1>2, <1>3, <1>4 DEF f

Cancelled(st) == [st EXCEPT !.hungUp = TRUE, !.at = IF st.at = "live" THEN "gone" ELSE st.at]
LEMMA HungUpCovered ==
  ASSUME NEW n \in Nat, NEW st \in StreamOf(n), NEW last \in Nat, NEW gone, NEW box,
         CoveredInv(st, n, last, gone, box)
  PROVE  Cancelled(st) \in StreamOf(n) /\ CoveredInv(Cancelled(st), n, last, gone, box)
<1> DEFINE r == Cancelled(st)
<1>1. /\ r \in StreamOf(n) /\ r.at = (IF st.at = "live" THEN "gone" ELSE st.at) /\ r.got = st.got
      /\ r.after = st.after /\ r.pending = st.pending /\ r.frames = st.frames
      /\ r.shut = st.shut /\ r.hungUp
  BY DEF StreamOf, Cancelled
<1> HIDE DEF r
<1>2. StageInv(r, last)
  BY <1>1 DEF CoveredInv, StageInv, Waiting
<1>3. Covers(r, n, last, gone, box)
  BY <1>1 DEF CoveredInv, Covers, InFrames
<1>4. GotInv(r, last, gone) /\ FramesInv(r, last, gone) /\ PendingInv(r, n, box)
  BY <1>1 DEF CoveredInv, GotInv, FramesInv, PendingInv, Framed
<1> QED  BY <1>1, <1>2, <1>3, <1>4 DEF CoveredInv, r

LEMMA Numbers ==
  ASSUME Parts
  PROVE  /\ Len(log) \in Nat /\ lastSeq \in Nat /\ lastSeq <= Len(log) /\ Seqs = 1..Len(log)
         /\ stream \in [Stream -> StreamOf(Len(log))]
         /\ \A s \in Stream : stream[s] \in StreamOf(Len(log))
         /\ \A s \in Stream : CoveredInv(stream[s], Len(log), lastSeq, missed, Elements(inbox))
<1>1. Len(log) \in Nat
  BY LenProperties DEF Parts, PlainTypes
<1>2. Seqs = 1..Len(log)
  BY DEF Seqs
<1>3. lastSeq \in {0} \cup 1..Len(log)
  BY <1>2 DEF Parts, PlainTypes
<1>4. lastSeq \in Nat /\ lastSeq <= Len(log)
  BY <1>1, <1>3
<1> QED  BY <1>1, <1>2, <1>4 DEF Parts, StreamsInv, AllCovered

\* All that is needed is missing from one more set at most.
LEMMA MissedMore ==
  ASSUME Parts, NEW s \in Stream, NEW gone, missed \subseteq gone
  PROVE  CoveredInv(stream[s], Len(log), lastSeq, gone, Elements(inbox))
BY Numbers, CoveredMore

\* Steps in which the streams are settled, and nothing is published, received or read.
LEMMA SettleParts ==
  ASSUME Parts, NEW str, NEW opened \in SUBSET open, Settle(str, opened, left), open' = opened,
         UNCHANGED <<redis, log, inbox, subscribed, start, shown, skipped>>, missed \subseteq missed',
         AllCovered(str, Len(log), lastSeq, missed', Elements(inbox)),
         Connected(opened, str), AtKept(str), timer' \in BOOLEAN,
         (source' = source /\ opened = open) \/ source' = NoStream
  PROVE  Parts'
<1> USE Numbers
<1>1. PlainTypes'
  <2>1. Seqs' = Seqs
    BY DEF Seqs
  <2>2. commands' \in Seq({"sub", "unsub"}) /\ attaching' \in {"none", "pending", "done"}
    BY SettleTypes DEF Parts, PlainTypes
  <2> QED  BY <2>1, <2>2 DEF Parts, PlainTypes, shown
<1>2. /\ AllCovered(stream', Len(log), lastSeq, missed', Elements(inbox))
      /\ \A s \in Stream : s \in opened => stream'[s] = str[s]
  BY SettleCovered
<1>3. StreamsInv'
  <2>1. lastSeq' = lastSeq /\ Len(log)' = Len(log) /\ Elements(inbox)' = Elements(inbox)
    BY DEF shown
  <2> QED  BY <2>1, <1>2 DEF StreamsInv
<1>4. Connected(open, stream)'
  BY <1>2 DEF Connected, Parts, PlainTypes
<1>5. WireInv'
  <2>1. Acks = {} => Acks' = {}
    BY SameInbox
  <2>2. Answered => Answered'
    BY SameInbox
  <2> QED  BY <2>1, <2>2, SettleWired DEF Parts, PlainTypes
<1>6. Rising'
  BY DEF Parts, Rising, Seqs
<1>7. KnownInv' /\ FollowsLog'
  BY DEF Parts, KnownInv, FollowsLog, shown
<1>8. (source # NoStream => source \in open)'
  BY DEF Parts
<1> QED  BY <1>1, <1>3, <1>4, <1>5, <1>6, <1>7, <1>8 DEF Parts

\* One stream becomes st.
LEMMA OneStream ==
  ASSUME Parts, NEW s \in Stream, NEW st, NEW str, str = [stream EXCEPT ![s] = st],
         NEW gone, missed \subseteq gone,
         st \in StreamOf(Len(log)), CoveredInv(st, Len(log), lastSeq, gone, Elements(inbox)),
         s \in open => ~st.hungUp /\ (st.at = "gone" => st.shut),
         IF stream[s].at \in {"gone", "attach"} THEN st.at = stream[s].at
         ELSE st.at # "attach" /\ (stream[s].at = "live" => st.at \in {"live", "gone"})
  PROVE  /\ AllCovered(str, Len(log), lastSeq, gone, Elements(inbox))
         /\ Connected(open, str) /\ AtKept(str)
<1>1. \A t \in Stream : str[t] = IF t = s THEN st ELSE stream[t]
  BY Numbers
<1>2. str \in [Stream -> StreamOf(Len(log))]
  BY Numbers
<1>3. \A t \in Stream : CoveredInv(str[t], Len(log), lastSeq, gone, Elements(inbox))
  BY <1>1, MissedMore
<1>4. Connected(open, str)
  BY <1>1 DEF Connected, Parts, PlainTypes
<1>5. AtKept(str)
  BY <1>1 DEF AtKept
<1> QED  BY <1>2, <1>3, <1>4, <1>5 DEF AllCovered

LEMMA HangsUpParts == ASSUME Parts, NEW s \in Stream, HangsUp(s) PROVE Parts'
<1> DEFINE st == Cancelled(stream[s])
           str == [stream EXCEPT ![s] = st]
<1>1. Settle(str, open, left)
  <2>1. [stream EXCEPT ![s].hungUp = TRUE, ![s].at = IF @ = "live" THEN "gone" ELSE @] = str
    BY Numbers DEF StreamOf, Cancelled
  <2> QED  BY <2>1 DEF HangsUp, Streams
<1>2. st \in StreamOf(Len(log)) /\ CoveredInv(st, Len(log), lastSeq, missed, Elements(inbox))
  BY Numbers, HungUpCovered
<1>3. st.at = IF stream[s].at = "live" THEN "gone" ELSE stream[s].at
  BY Numbers DEF StreamOf, Cancelled
<1> HIDE DEF st
<1>4. /\ AllCovered(str, Len(log), lastSeq, missed, Elements(inbox))
      /\ Connected(open, str) /\ AtKept(str)
  BY <1>2, <1>3, OneStream DEF HangsUp
<1> HIDE DEF str
<1>5. /\ UNCHANGED <<redis, log, inbox, subscribed, start, shown, skipped>>
      /\ missed' = missed /\ open' = open /\ source' = source /\ timer' = timer
  BY DEF HangsUp, link, shown
<1> QED  BY <1>1, <1>4, <1>5, SettleParts DEF Parts, PlainTypes

LEMMA ReadsListParts == ASSUME Parts, NEW s \in Stream, ReadsList(s) PROVE Parts'
<1> DEFINE new == {e \in Seqs : e > stream[s].after}
           got == new \cap Buffer
<1>1. /\ UNCHANGED <<redis, log, inbox, subscribed, start, shown, skipped>>
      /\ open' = open /\ source' = source /\ timer' = timer
      /\ stream[s].at = "list"
  BY DEF ReadsList, link, shown
<1>2. PICK old \in StreamOf(Len(log)) : /\ old = stream[s]
                                        /\ CoveredInv(old, Len(log), lastSeq, missed, Elements(inbox))
  BY Numbers
<1>3. CASE /\ Streams([stream EXCEPT ![s].at = "flush", ![s].got = got])
           /\ missed' = missed \cup (new \ Buffer)
  <2> DEFINE st == Listed(old, got)
             str == [stream EXCEPT ![s] = st]
  <2>1. Settle(str, open, left)
    <3>1. [stream EXCEPT ![s].at = "flush", ![s].got = got] = str
      BY <1>2 DEF Listed
    <3> QED  BY <3>1, <1>3 DEF Streams
  <2>2. got \in SUBSET (1..Len(log))
    BY Numbers
  <2>3. \A e \in 1..Len(log) : e <= lastSeq \/ e \in missed' \/ e \in got
    <3>1. old.after <= lastSeq /\ old.after \in Nat
      BY <1>2 DEF CoveredInv, StageInv, StreamOf
    <3>2. \A e \in 1..Len(log) : e <= old.after \/ e \in new
      BY <3>1, <1>2, Numbers
    <3> QED  BY <3>1, <3>2, <1>3, Numbers
  <2>4. CoveredInv(old, Len(log), lastSeq, missed', Elements(inbox))
    BY <1>2, <1>3, MissedMore
  <2>5. st.at = "flush" /\ st.hungUp = old.hungUp
    BY <1>2 DEF StreamOf, Listed
  <2> HIDE DEF got
  <2>6. PICK gone : gone = missed'
    OBVIOUS
  <2>7. st \in StreamOf(Len(log)) /\ CoveredInv(st, Len(log), lastSeq, gone, Elements(inbox))
    <3>1. Len(log) \in Nat /\ lastSeq \in Nat /\ old.at = "list"
      BY <1>1, <1>2, Numbers
    <3>2. /\ \A e \in 1..Len(log) : e <= lastSeq \/ e \in gone \/ e \in got
          /\ CoveredInv(old, Len(log), lastSeq, gone, Elements(inbox))
      BY <2>3, <2>4, <2>6
    <3> QED  BY <3>1, <3>2, <2>2, ListCovered
  <2> HIDE DEF st
  <2>8. s \in open => ~st.hungUp
    BY <2>5, <1>2 DEF Parts, Connected
  <2>9. /\ AllCovered(str, Len(log), lastSeq, gone, Elements(inbox))
        /\ Connected(open, str) /\ AtKept(str)
    <3>1. missed \subseteq gone
      BY <1>3, <2>6
    <3> QED  BY <3>1, <2>5, <2>7, <2>8, <1>1, <1>2, OneStream
  <2> HIDE DEF str
  <2> QED  BY <2>1, <2>6, <2>9, <1>1, <1>3, SettleParts DEF Parts, PlainTypes
<1>4. CASE Streams([stream EXCEPT ![s] = Failed(@)]) /\ UNCHANGED missed
  <2> DEFINE st == Failed(stream[s])
             str == [stream EXCEPT ![s] = st]
  <2>1. Settle(str, open, left)
    BY <1>4 DEF Streams
  <2>2. /\ st \in StreamOf(Len(log)) /\ CoveredInv(st, Len(log), lastSeq, missed, Elements(inbox))
        /\ st.at = "gone" /\ st.shut /\ ~st.hungUp
    BY Numbers, FailedCovered
  <2> HIDE DEF st
  <2>3. /\ AllCovered(str, Len(log), lastSeq, missed, Elements(inbox))
        /\ Connected(open, str) /\ AtKept(str)
    BY <2>2, <1>1, OneStream
  <2> HIDE DEF str
  <2> QED  BY <2>1, <2>3, <1>1, <1>4, SettleParts DEF Parts, PlainTypes
<1> QED  BY <1>3, <1>4 DEF ReadsList

LEMMA FlushesParts == ASSUME Parts, NEW s \in Stream, Flushes(s) PROVE Parts'
<1> DEFINE events == Replayed(stream[s], stream[s].pending)
<1>1. /\ UNCHANGED <<redis, log, inbox, subscribed, start, shown, skipped>>
      /\ open' = open /\ source' = source /\ timer' = timer
      /\ stream[s].at = "flush"
      /\ Streams([stream EXCEPT ![s] = Flushed(stream[s], events, log)])
      /\ missed' = missed \cup Unsent(stream[s], events, log)
  BY DEF Flushes, Flushing, link, shown
<1>2. PICK old \in StreamOf(Len(log)) : /\ old = stream[s]
                                        /\ CoveredInv(old, Len(log), lastSeq, missed, Elements(inbox))
  BY Numbers
<1>3. /\ events \in SUBSET (1..Len(log)) /\ old.got \subseteq events
      /\ events \subseteq old.got \cup old.pending
      /\ \A e \in old.pending : e \in events \/ e <= old.after \/ \E g \in old.got : e <= g
  <2>1. old.got \in SUBSET (1..Len(log)) /\ old.pending \in SUBSET (1..Len(log)) /\ old.after \in Nat
    BY DEF StreamOf
  <2>2. events = old.got \cup {e \in old.pending : e > old.after /\ \A g \in old.got : e > g}
    BY <1>2 DEF Replayed
  <2> HIDE DEF events
  <2>3. ASSUME NEW e \in old.pending, e \notin events PROVE e <= old.after \/ \E g \in old.got : e <= g
    <3>1. e \in Int /\ \A g \in old.got : g \in Int
      BY <2>1
    <3>2. ~(e > old.after) \/ \E g \in old.got : ~(e > g)
      BY <2>2, <2>3
    <3> QED  BY <3>1, <3>2, <2>1
  <2> QED  BY <2>1, <2>2, <2>3
<1> HIDE DEF events
<1>4. PICK gone : gone = missed' /\ missed \subseteq gone /\ Unsent(old, events, log) \subseteq gone
  BY <1>1, <1>2
<1>5. CoveredInv(old, Len(log), lastSeq, gone, Elements(inbox))
  BY <1>2, <1>4, MissedMore
<1>6. /\ old.after <= lastSeq /\ old.after \in Nat
      /\ \A g \in old.got : \A e \in 1..g : e <= lastSeq \/ e \in gone \/ e \in old.got
      /\ \A e \in 1..Len(log) : e <= lastSeq \/ e \in gone \/ e \in old.got \cup old.pending
                                \/ e \in Elements(inbox)
      /\ \A e \in old.pending : \A x \in Elements(inbox) : x \in 1..Len(log) => e < x
      /\ old.got \cup old.pending \subseteq 1..Len(log)
  <2>1. old.frames = <<>> /\ old.at = "flush"
    BY <1>1, <1>2 DEF CoveredInv, StageInv, Waiting
  <2>2. \A e : ~InFrames(old, e)
    BY <2>1, EmptySeq DEF InFrames
  <2> QED  BY <2>1, <2>2, <1>5 DEF CoveredInv, StageInv, Covers, GotInv, PendingInv, StreamOf
<1>7. \A x \in 1..Len(log) : x \in old.got \cup old.pending => x <= lastSeq \/ x \in gone \/ x \in events
  <2> SUFFICES ASSUME NEW x \in 1..Len(log), x \in old.pending, x \notin events
               PROVE  x <= lastSeq \/ x \in gone
    BY <1>3
  <2>1. CASE x <= old.after
    BY <2>1, <1>6, Numbers
  <2>2. CASE \E g \in old.got : x <= g
    <3>1. PICK g \in old.got : x <= g
      BY <2>2
    <3>2. g \in Int
      BY <1>6
    <3>3. x \in 1..g
      BY <3>1, <3>2
    <3> QED  BY <3>3, <1>6, <1>3
  <2> QED  BY <2>1, <2>2, <1>3
<1>8. \A x \in 1..Len(log) : x <= lastSeq \/ x \in gone \/ x \in Elements(inbox) \/ x \in events
  BY <1>6, <1>7
<1>9. ASSUME NEW y \in events, NEW x \in 1..(y - 1)
      PROVE  x <= lastSeq \/ x \in gone \/ x \in events
  <2>1. y \in 1..Len(log) /\ x \in 1..Len(log) /\ x < y
    <3>1. y \in 1..Len(log)
      BY <1>3
    <3> QED  BY <3>1
  <2>2. CASE y \in old.got
    <3>1. x \in 1..y
      BY <2>1
    <3> QED  BY <3>1, <2>2, <1>3, <1>6
  <2>3. CASE y \in old.pending
    <3>1. x \notin Elements(inbox)
      BY <2>1, <2>3, <1>6
    <3> QED  BY <3>1, <2>1, <1>8
  <2> QED  BY <2>2, <2>3, <1>3
<1> DEFINE st == Flushed(old, events, log)
           str == [stream EXCEPT ![s] = st]
<1>10. Settle(str, open, left)
  BY <1>1, <1>2 DEF Streams
<1>11. st \in StreamOf(Len(log)) /\ CoveredInv(st, Len(log), lastSeq, gone, Elements(inbox))
  <2>1. Len(log) \in Nat /\ lastSeq \in Nat
    BY Numbers
  <2>2. \A y \in events : \A x \in 1..(y - 1) : x <= lastSeq \/ x \in gone \/ x \in events
    BY <1>9
  <2>3. Unsent(old, events, log) \subseteq gone
    BY <1>4
  <2>4. events \in SUBSET (1..Len(log))
    BY <1>3
  <2> QED  BY <2>1, <2>2, <2>3, <2>4, <1>8, FlushCovered
<1>12. st.at = (IF old.hungUp THEN "gone" ELSE "live") /\ st.hungUp = old.hungUp
  <2>1. Len(log) \in Nat /\ events \in SUBSET (1..Len(log))
    BY <1>3, Numbers
  <2>2. Sends(old, events, log, Len(log), st)
    BY <2>1, FlushedOf
  <2> QED  BY <2>2 DEF Sends
<1> HIDE DEF st
<1>13. s \in open => ~st.hungUp /\ st.at = "live"
  BY <1>2, <1>12 DEF Parts, Connected
<1>14. /\ AllCovered(str, Len(log), lastSeq, gone, Elements(inbox))
       /\ Connected(open, str) /\ AtKept(str)
  BY <1>1, <1>2, <1>4, <1>11, <1>12, <1>13, OneStream
<1> HIDE DEF str
<1> QED  BY <1>1, <1>4, <1>10, <1>14, SettleParts DEF Parts, PlainTypes

LEMMA SameStreams ==
  ASSUME Parts
  PROVE  /\ AllCovered(stream, Len(log), lastSeq, missed, Elements(inbox))
         /\ AtKept(stream) /\ \A opened \in SUBSET open : Connected(opened, stream)
<1>1. AtKept(stream)
  BY DEF AtKept
<1> QED  BY <1>1 DEF Parts, StreamsInv, Connected

LEMMA DisconnectParts == ASSUME Parts, Disconnect PROVE Parts'
<1>1. PICK opened \in SUBSET open : opened = open \ {source}
  OBVIOUS
<1>2. /\ UNCHANGED <<redis, log, inbox, subscribed, start, shown, skipped>>
      /\ open' = opened /\ source' = NoStream /\ timer' = FALSE /\ missed' = missed
      /\ Settle(stream, opened, left)
  <2>1. open' = opened
    BY <1>1 DEF Disconnect
  <2> QED  BY <2>1 DEF Disconnect, shown
<1> QED  BY <1>2, SameStreams, SettleParts

LEMMA ErrsParts == ASSUME Parts, NEW s \in Stream, Errs(s) PROVE Parts'
<1>1. PICK opened \in SUBSET open : opened = open \ {s}
  OBVIOUS
<1>2. /\ UNCHANGED <<redis, log, inbox, subscribed, start, shown, skipped>>
      /\ open' = opened /\ source' = NoStream /\ timer' = TRUE /\ missed' = missed
      /\ Settle(stream, opened, left)
  <2>1. open' = opened
    BY <1>1 DEF Errs
  <2> QED  BY <2>1 DEF Errs, shown
<1> QED  BY <1>2, SameStreams, SettleParts


(***************************************************************************)
(* The client.                                                             *)
(***************************************************************************)
LEMMA AppendToOne ==
  ASSUME NEW C, NEW q \in Seq(C), Len(q) = 1, NEW r \in Seq(C), Len(r) = 2, r[1] = q[1], NEW e \in C, r[2] = e
  PROVE  Append(q, e) = r
<1>1. \A k \in 1..2 : k = 1 \/ k = 2
  OBVIOUS
<1>2. PICK long : long = Append(q, e)
  OBVIOUS
<1>3. Lengthens(q, e, long, C)
  BY <1>2, OneFrameMore
<1>4. long \in Seq(C) /\ Len(long) = 2
  BY <1>2, AppendProperties
<1>5. long[1] = q[1] /\ long[2] = e
  BY <1>3 DEF Lengthens
<1> QED  BY <1>1, <1>2, <1>4, <1>5, SeqEqual

LEMMA Subscribed == Append(<<>>, "sub") = <<"sub">> /\ Append(<<"unsub">>, "sub") = <<"unsub", "sub">>
<1> DEFINE C == {"sub", "unsub"}
<1>1. Append(<<>>, "sub") = <<"sub">>
  <2>1. <<>> \in Seq(C) /\ Len(<<>>) = 0
    BY EmptySeq
  <2>2. <<"sub">> \in Seq(C) /\ Len(<<"sub">>) = 1 /\ <<"sub">>[1] = "sub"
    OBVIOUS
  <2>3. /\ Append(<<>>, "sub") \in Seq(C) /\ Len(Append(<<>>, "sub")) = 1
        /\ Append(<<>>, "sub")[1] = "sub"
    BY <2>1, AppendProperties
  <2> QED  BY <2>2, <2>3, SeqEqual
<1>2. PICK q, r : q = <<"unsub">> /\ r = <<"unsub", "sub">>
  OBVIOUS
<1>3. q \in Seq(C) /\ r \in Seq(C) /\ Len(q) = 1 /\ Len(r) = 2 /\ r[1] = q[1] /\ r[2] = "sub"
      /\ "sub" \in C
  BY <1>2
<1>4. Append(q, "sub") = r
  <2> HIDE DEF C
  <2> QED  BY <1>3, AppendToOne
<1> QED  BY <1>1, <1>2, <1>4

LEMMA Unsubscribed == Append(<<>>, "unsub") = <<"unsub">>
<1> DEFINE C == {"sub", "unsub"}
<1>1. <<>> \in Seq(C) /\ Len(<<>>) = 0
  BY EmptySeq
<1>2. <<"unsub">> \in Seq(C) /\ Len(<<"unsub">>) = 1 /\ <<"unsub">>[1] = "unsub"
  OBVIOUS
<1>3. /\ Append(<<>>, "unsub") \in Seq(C) /\ Len(Append(<<>>, "unsub")) = 1
      /\ Append(<<>>, "unsub")[1] = "unsub"
  BY <1>1, AppendProperties
<1> QED  BY <1>2, <1>3, SeqEqual

\* A new stream that starts after what the client has, the last event it can have.
LEMMA OpensParts ==
  ASSUME Parts, NEW s \in Stream, NEW after \in Nat, Opens(s, after), lastSeq' = after,
         lastSeq <= after, after <= Len(log),
         UNCHANGED <<redis, log, inbox, subscribed>>
  PROVE  /\ StreamsInv' /\ Connected(open, stream)' /\ WireInv' /\ missed \subseteq missed'
         /\ (source # NoStream => source \in open)' /\ source' \in Stream /\ open' \subseteq Stream
         /\ commands' \in Seq({"sub", "unsub"}) /\ attaching' \in {"none", "pending", "done"}
<1> DEFINE n == Len(log)  box == Elements(inbox)
<1>1. n \in Nat /\ Seqs = 1..n /\ stream \in [Stream -> StreamOf(n)]
  BY Numbers
<1>2. /\ s \notin open /\ stream[s].at = "gone" /\ UNCHANGED left
      /\ source' = s /\ open' = open \cup {s} /\ source' \in Stream
      /\ open' \subseteq Stream
  BY DEF Opens, Parts, PlainTypes
<1>3. ASSUME NEW st, stream' = [stream EXCEPT ![s] = st], st \in StreamOf(n), ~st.hungUp, st.at # "gone",
             CoveredInv(st, n, after, missed', box), missed \subseteq missed'
      PROVE  StreamsInv' /\ Connected(open, stream)'
  <2>1. \A t \in Stream : stream'[t] = IF t = s THEN st ELSE stream[t]
    BY <1>1, <1>3
  <2>2. PICK gone : gone = missed'
    OBVIOUS
  <2>3. \A t \in Stream : CoveredInv(stream[t], n, lastSeq, missed, box) /\ stream[t] \in StreamOf(n)
    BY Numbers
  <2>4. \A t \in Stream : CoveredInv(stream[t], n, after, gone, box)
    BY <2>2, <2>3, <1>1, <1>3, Numbers, CoveredMore
  <2>5. AllCovered(stream', n, after, missed', box)
    BY <2>1, <2>2, <2>4, <1>1, <1>3 DEF AllCovered
  <2>6. n' = n /\ box' = box
    OBVIOUS
  <2>7. Connected(open, stream)'
    BY <2>1, <1>2, <1>3 DEF Connected, Parts, PlainTypes
  <2> QED  BY <2>5, <2>6, <2>7 DEF StreamsInv
<1>4. CASE ~redis
  <2> DEFINE new == {e \in Seqs : e > after}
             begun == [NewStream EXCEPT !.after = after]
             events == new \cap Buffer
             st == Flushed(begun, events, log)
  <2>1. /\ stream' = [stream EXCEPT ![s] = st]
        /\ missed' = missed \cup (new \ Buffer) \cup Unsent(begun, events, log)
        /\ UNCHANGED <<attaching, commands>>
    BY <1>4 DEF Opens, SubscribesInMemory
  <2>2. begun \in StreamOf(n) /\ ~begun.hungUp
    <3>1. NewStream \in StreamOf(n) /\ after \in {0} \cup 1..n
      BY <1>1, NewStreamOf
    <3> QED  BY <3>1 DEF StreamOf, NewStream
  <2>3. events \in SUBSET (1..n)
    BY <1>1
  <2>4. PICK gone : gone = missed'
    OBVIOUS
  <2>5. \A x \in 1..n : x <= after \/ x \in gone \/ x \in events
    BY <2>1, <2>4, <1>1
  <2>6. \A y \in events : \A x \in 1..(y - 1) : x <= after \/ x \in gone \/ x \in events
    <3>1. \A y \in events : \A x \in 1..(y - 1) : x \in 1..n
      BY <2>3, <1>1
    <3> QED  BY <2>5, <3>1
  <2>7. Unsent(begun, events, log) \subseteq gone
    BY <2>1, <2>4
  <2> HIDE DEF begun, events
  <2>8. \A x \in 1..n : x <= after \/ x \in gone \/ x \in box \/ x \in events
    BY <2>5
  <2>9. st \in StreamOf(n) /\ CoveredInv(st, n, after, gone, box)
    BY <2>2, <2>3, <2>6, <2>7, <2>8, <1>1, FlushCovered
  <2>10. Sends(begun, events, log, n, st)
    BY <2>2, <2>3, <1>1, FlushedOf
  <2>11. st.at = "live" /\ ~st.hungUp
    BY <2>2, <2>10 DEF Sends
  <2> HIDE DEF st
  <2>12. StreamsInv' /\ Connected(open, stream)'
    BY <2>1, <2>4, <2>9, <2>11, <1>3
  <2>13. WireInv'
    <3>1. \A t \in Stream : stream'[t].at \in {"gone", "live"}
      BY <2>1, <2>11, <1>1, <1>4 DEF Parts, WireInv
    <3> QED  BY <2>1, <3>1, <1>4 DEF Parts, WireInv
  <2> QED  BY <2>1, <2>12, <2>13, <1>2 DEF Parts, PlainTypes
<1>5. CASE redis
  <2> DEFINE st == [NewStream EXCEPT !.after = after,
                                     !.at = IF attaching = "done" THEN "list" ELSE "attach"]
  <2>1. /\ stream' = [stream EXCEPT ![s] = st] /\ missed' = missed
        /\ attaching' = IF attaching = "none" THEN "pending" ELSE attaching
        /\ commands' = IF attaching = "none" THEN Append(commands, "sub") ELSE commands
    BY <1>5 DEF Opens, SubscribesOnRedis
  <2>2. /\ st \in StreamOf(n) /\ ~st.hungUp /\ ~st.shut /\ st.got = {} /\ st.pending = {}
        /\ st.frames = <<>> /\ st.after = after
        /\ st.at = IF attaching = "done" THEN "list" ELSE "attach"
    <3>1. NewStream \in StreamOf(n) /\ after \in {0} \cup 1..n
      BY <1>1, NewStreamOf
    <3> QED  BY <3>1 DEF StreamOf, NewStream
  <2> HIDE DEF st
  <2>3. CoveredInv(st, n, after, missed, box)
    <3>1. PendingInv(st, n, box)
      BY <2>2 DEF PendingInv
    <3>2. st.after <= after
      BY <2>2
    <3> QED  BY <2>2, <3>1, <3>2, <1>1, EmptyCovered
  <2>4. StreamsInv' /\ Connected(open, stream)'
    BY <2>1, <2>2, <2>3, <1>3
  <2>5. /\ commands' \in Seq({"sub", "unsub"}) /\ attaching' \in {"none", "pending", "done"}
    <3>1. Append(commands, "sub") \in Seq({"sub", "unsub"})
      BY AppendProperties DEF Parts, PlainTypes
    <3> QED  BY <2>1, <3>1 DEF Parts, PlainTypes
  <2>6. \A t \in Stream : stream'[t].at = IF t = s THEN st.at ELSE stream[t].at
    BY <2>1, <1>1
  <2>7. WireInv'
    <3>1. Acks' = Acks
      BY DEF Acks
    <3>2. Answered' = Answered
      BY <3>1 DEF Answered
    <3>3. Handled(stream', left')
      BY <2>2, <2>6 DEF Handled
    <3>4. CASE attaching = "none"
      <4>1. ~left /\ \A t \in Stream : stream[t].at = "gone"
        BY <3>4, <1>5 DEF Parts, WireInv, Handled
      <4>2. Acks = {} /\ (commands = <<>> \/ commands = <<"unsub">>)
        BY <3>4, <1>5 DEF Parts, WireInv
      <4>3. commands' \in {<<"sub">>, <<"unsub", "sub">>}
        <5>1. commands = <<>> => commands' = <<"sub">>
          BY <2>1, <3>4, Subscribed
        <5>2. commands = <<"unsub">> => commands' = <<"unsub", "sub">>
          BY <2>1, <3>4, Subscribed
        <5> QED  BY <4>2, <5>1, <5>2
      <4>4. \A t \in Stream : stream'[t].at \in {"gone", "attach"}
        BY <2>2, <2>6, <3>4, <4>1
      <4>5. attaching' = "pending"
        BY <2>1, <3>4
      <4> QED  BY <4>1, <4>2, <4>3, <4>4, <4>5, <3>1, <3>3, <1>2, <1>5 DEF WireInv
    <3>5. CASE attaching = "pending"
      <4>1. /\ ~left /\ \A t \in Stream : stream[t].at \in {"gone", "attach"}
            /\ \/ commands \in {<<"sub">>, <<"unsub", "sub">>} /\ Acks = {}
               \/ commands = <<>> /\ Answered
        BY <3>5, <1>5 DEF Parts, WireInv
      <4>2. \A t \in Stream : stream'[t].at \in {"gone", "attach"}
        BY <2>2, <2>6, <3>5, <4>1
      <4>3. attaching' = "pending" /\ commands' = commands
        BY <2>1, <3>5
      <4> QED  BY <4>1, <4>2, <4>3, <3>1, <3>2, <3>3, <1>2, <1>5 DEF WireInv
    <3>6. CASE attaching = "done"
      <4>1. /\ Acks = {} /\ commands = <<>> /\ subscribed
            /\ \A t \in Stream : stream[t].at # "attach"
        BY <3>6, <1>5 DEF Parts, WireInv
      <4>2. \A t \in Stream : stream'[t].at # "attach"
        BY <2>2, <2>6, <3>6, <4>1
      <4>3. attaching' = "done" /\ commands' = commands
        BY <2>1, <3>6
      <4> QED  BY <4>1, <4>2, <4>3, <3>1, <3>3, <1>2, <1>5 DEF WireInv
    <3> QED  BY <3>4, <3>5, <3>6 DEF Parts, PlainTypes
  <2> QED  BY <2>1, <2>4, <2>5, <2>7, <1>2
<1> QED  BY <1>4, <1>5

\* Connects and TimerFires open a stream from what the client has seen.
LEMMA ReopensParts ==
  ASSUME Parts, NEW s \in Stream, Opens(s, lastSeq), timer' \in BOOLEAN,
         UNCHANGED <<redis, log, inbox, subscribed, start, shown, skipped>>
  PROVE  Parts'
<1>1. PICK after \in Nat : after = lastSeq /\ lastSeq' = after /\ lastSeq <= after /\ after <= Len(log)
  BY Numbers DEF shown
<1>2. /\ StreamsInv' /\ Connected(open, stream)' /\ WireInv' /\ missed \subseteq missed'
      /\ (source # NoStream => source \in open)' /\ source' \in Stream /\ open' \subseteq Stream
      /\ commands' \in Seq({"sub", "unsub"}) /\ attaching' \in {"none", "pending", "done"}
  <2>1. Opens(s, after)
    BY <1>1
  <2> QED  BY <2>1, <1>1, OpensParts
<1>3. PlainTypes'
  <2>1. Seqs' = Seqs
    BY DEF Seqs
  <2> QED  BY <2>1, <1>2 DEF Parts, PlainTypes, shown
<1>4. Rising' /\ KnownInv' /\ FollowsLog'
  BY <1>2 DEF Parts, Rising, Seqs, KnownInv, FollowsLog, shown
<1> QED  BY <1>2, <1>3, <1>4 DEF Parts

LEMMA AdoptsParts == ASSUME Parts, NEW c \in Starter, Adopts(c) PROVE Parts'
<1>1. /\ UNCHANGED <<redis, log, inbox, subscribed, timer, twice>>
      /\ start' = [start EXCEPT ![c] = [at |-> "done", upTo |-> 0, seq |-> 0]]
      /\ known' = {e \in Seqs : IF log[e] = "room" THEN e <= start[c].upTo ELSE e \in known}
      /\ skipped' = skipped \cup ((1..lastSeq') \ known')
      /\ lastSeq' = IF source = NoStream /\ start[c].seq > lastSeq THEN start[c].seq ELSE lastSeq
  BY DEF Adopts
<1>2. start[c].seq \in {0} \cup 1..Len(log) /\ Seqs = 1..Len(log) /\ Len(log) \in Nat /\ lastSeq \in Nat
      /\ lastSeq <= Len(log)
  BY Numbers DEF Parts, PlainTypes
<1>3. lastSeq' \in Nat /\ lastSeq <= lastSeq' /\ lastSeq' <= Len(log)
  BY <1>1, <1>2
<1>4. PICK after \in Nat : lastSeq' = after /\ lastSeq <= after /\ after <= Len(log)
  BY <1>3
<1>5. /\ StreamsInv' /\ Connected(open, stream)' /\ WireInv' /\ missed \subseteq missed'
      /\ (source # NoStream => source \in open)' /\ source' \in Stream \cup {NoStream}
      /\ open' \subseteq Stream
      /\ commands' \in Seq({"sub", "unsub"}) /\ attaching' \in {"none", "pending", "done"}
  <2>1. CASE source = NoStream
    <3>1. PICK s \in Stream : Opens(s, after)
      BY <2>1, <1>4 DEF Adopts
    <3> QED  BY <3>1, <1>1, <1>4, OpensParts
  <2>2. CASE source # NoStream
    <3>1. UNCHANGED <<source, open, feeds, attaching, commands, missed>> /\ lastSeq' = lastSeq
      BY <2>2, <1>1 DEF Adopts
    <3>2. WireInv'
      BY <3>1, <1>1 DEF Parts, WireInv, feeds, Handled, Acks, Answered
    <3>3. StreamsInv' /\ Connected(open, stream)'
      BY <3>1, <1>1 DEF Parts, StreamsInv, feeds
    <3> QED  BY <3>1, <3>2, <3>3 DEF Parts, PlainTypes
  <2> QED  BY <2>1, <2>2
<1>6. PlainTypes'
  <2>1. Seqs' = Seqs
    BY <1>1 DEF Seqs
  <2>2. start' \in [Starter -> [at : {"call", "seq", "adopt", "done"}, upTo : {0} \cup Seqs,
                                seq : {0} \cup Seqs]]
    BY <1>1 DEF Parts, PlainTypes
  <2>3. lastSeq' \in {0} \cup Seqs
    BY <1>2, <1>3
  <2> QED  BY <2>1, <2>2, <2>3, <1>1, <1>5 DEF Parts, PlainTypes
<1>7. Rising'
  BY <1>1 DEF Parts, Rising, Seqs
<1>8. KnownInv'
  <2>1. \A e \in known : e \in Seqs /\ (log[e] = "room" \/ e <= lastSeq)
    BY DEF Parts, PlainTypes, KnownInv
  <2>2. \A e \in known' : log[e] = "room" \/ e <= lastSeq'
    BY <2>1, <1>1, <1>2, <1>3
  <2> QED  BY <2>2, <1>1 DEF KnownInv
<1>9. FollowsLog'
  BY <1>1 DEF Parts, FollowsLog
<1> QED  BY <1>5, <1>6, <1>7, <1>8, <1>9 DEF Parts

LEMMA SnapshotParts ==
  ASSUME Parts, NEW c \in Starter, SnapshotLists(c) \/ SnapshotSeq(c)
  PROVE  Parts'
<1>1. UNCHANGED <<redis, log, wire, feeds, link, shown, missed, skipped>>
  BY DEF SnapshotLists, SnapshotSeq
<1>2. PlainTypes'
  <2>1. Seqs' = Seqs
    BY <1>1 DEF Seqs
  <2>2. Len(log) \in {0} \cup Seqs
    BY Numbers
  <2>3. start' \in [Starter -> [at : {"call", "seq", "adopt", "done"}, upTo : {0} \cup Seqs,
                                seq : {0} \cup Seqs]]
    <3> DEFINE Call == [at : {"call", "seq", "adopt", "done"}, upTo : {0} \cup Seqs, seq : {0} \cup Seqs]
    <3>1. start \in [Starter -> Call] /\ start[c] \in Call
      BY DEF Parts, PlainTypes
    <3>2. PICK next : start' = [start EXCEPT ![c] = next] /\ next \in Call
      <4>1. \/ start' = [start EXCEPT ![c] = [start[c] EXCEPT !.at = "seq", !.upTo = Len(log)]]
            \/ start' = [start EXCEPT ![c] = [start[c] EXCEPT !.at = "done"]]
            \/ start' = [start EXCEPT ![c] = [start[c] EXCEPT !.at = "adopt", !.seq = Len(log)]]
        BY DEF SnapshotLists, SnapshotSeq
      <4>2. /\ [start[c] EXCEPT !.at = "seq", !.upTo = Len(log)] \in Call
            /\ [start[c] EXCEPT !.at = "done"] \in Call
            /\ [start[c] EXCEPT !.at = "adopt", !.seq = Len(log)] \in Call
        BY <2>2, <3>1
      <4> QED  BY <4>1, <4>2
    <3> QED  BY <3>1, <3>2
  <2> QED  BY <2>1, <2>3, <1>1 DEF Parts, PlainTypes, wire, link, shown
<1>3. StreamsInv' /\ Connected(open, stream)' /\ WireInv' /\ Rising' /\ KnownInv' /\ FollowsLog'
      /\ (source # NoStream => source \in open)'
  BY <1>1 DEF Parts, StreamsInv, Connected, WireInv, Handled, Acks, Answered, Rising, Seqs, KnownInv,
              FollowsLog, wire, feeds, link, shown
<1> QED  BY <1>2, <1>3 DEF Parts

LEMMA ReadsParts == ASSUME Parts, NEW s \in Stream, Reads(s) PROVE Parts'
<1> DEFINE st == Shown(stream[s])  e == Head(stream[s].frames)
           n == Len(log)  box == Elements(inbox)
<1>1. /\ UNCHANGED <<redis, log, wire, link, start, missed, skipped>> /\ left' = left
      /\ stream[s].frames # <<>>
      /\ stream' = [stream EXCEPT ![s] = st]
      /\ IF e <= lastSeq THEN UNCHANGED shown
         ELSE /\ lastSeq' = e /\ known' = known \cup {e}
              /\ twice' = (twice \/ (e \in known /\ log[e] # "room"))
  BY Numbers DEF Reads, Shown
<1>2. e \in 1..n /\ n \in Nat /\ lastSeq \in Nat
  <2>1. stream[s].frames \in Seq(1..n)
    BY Numbers DEF StreamOf
  <2> QED  BY <2>1, <1>1, Numbers, HeadTailProperties
<1>3. PICK last \in Nat : last = lastSeq' /\ lastSeq <= last /\ e <= last
                          /\ last = IF e <= lastSeq THEN lastSeq ELSE e
  BY <1>1, <1>2 DEF shown
<1>4. /\ st \in StreamOf(n) /\ CoveredInv(st, n, last, missed, box)
      /\ \A x \in 1..(e - 1) : x <= lastSeq \/ x \in missed
  BY <1>1, <1>2, <1>3, Numbers, ReadCovered
<1>5. /\ st.at = stream[s].at /\ st.hungUp = stream[s].hungUp /\ st.shut = stream[s].shut
  BY Numbers DEF StreamOf, Shown
<1> HIDE DEF st, e
<1>6. \A t \in Stream : stream'[t] = IF t = s THEN st ELSE stream[t]
  BY <1>1, Numbers
<1>7. \A t \in Stream : CoveredInv(stream[t], n, last, missed, box)
  BY <1>2, <1>3, Numbers, CoveredMore
<1>8. StreamsInv'
  <2>1. AllCovered(stream', n, last, missed, box)
    BY <1>1, <1>4, <1>6, <1>7, Numbers DEF AllCovered
  <2>2. n' = n /\ box' = box /\ missed' = missed
    BY <1>1 DEF wire
  <2> QED  BY <2>1, <2>2, <1>3 DEF StreamsInv
<1>9. Connected(open, stream)' /\ (source # NoStream => source \in open)'
  BY <1>1, <1>5, <1>6 DEF Parts, PlainTypes, Connected, link
<1>10. WireInv'
  <2>1. \A t \in Stream : stream'[t].at = stream[t].at
    BY <1>5, <1>6
  <2> QED  BY <2>1, <1>1 DEF Parts, WireInv, Handled, Acks, Answered, wire
<1>11. PlainTypes'
  <2>1. Seqs' = Seqs /\ Seqs = 1..n
    BY <1>1 DEF Seqs
  <2>2. lastSeq' \in {0} \cup Seqs /\ known' \subseteq Seqs
    BY <2>1, <1>1, <1>2, <1>3 DEF Parts, PlainTypes, shown
  <2> QED  BY <2>1, <2>2, <1>1 DEF Parts, PlainTypes, wire, link
<1>12. Rising'
  BY <1>1 DEF Parts, Rising, Seqs, wire
<1>13. KnownInv' /\ FollowsLog'
  <2>1. CASE e <= lastSeq
    BY <2>1, <1>1 DEF Parts, KnownInv, FollowsLog, shown
  <2>2. CASE ~(e <= lastSeq)
    <3>1. lastSeq' = e /\ known' = known \cup {e}
          /\ twice' = (twice \/ (e \in known /\ log[e] # "room"))
      BY <2>2, <1>1
    <3>2. \A x \in known : log[x] = "room" \/ x <= lastSeq
      BY DEF Parts, KnownInv
    <3>3. KnownInv'
      <4>1. \A x \in known : x \in Int
        BY <1>2, Numbers DEF Parts, PlainTypes
      <4> QED  BY <3>1, <3>2, <4>1, <2>2, <1>1, <1>2 DEF KnownInv
    <3>4. ~twice'
      BY <3>1, <3>2, <2>2, <1>2 DEF Parts, FollowsLog
    <3>5. \A x \in 1..e : x = e \/ x \in 1..(e - 1)
      BY <1>2
    <3>6. \A x \in 1..e : x <= lastSeq => x \in 1..lastSeq
      BY <1>2
    <3>7. 1..e \subseteq known \cup {e} \cup missed \cup skipped
      BY <3>5, <3>6, <1>4 DEF Parts, FollowsLog
    <3> QED  BY <3>1, <3>3, <3>4, <3>7, <1>1 DEF FollowsLog
  <2> QED  BY <2>1, <2>2
<1> QED  BY <1>8, <1>9, <1>10, <1>11, <1>12, <1>13 DEF Parts


(***************************************************************************)
(* Events, and the answers of Redis.                                       *)
(***************************************************************************)
\* The first of the inbox is an event: it is the next of all that are in it.
LEMMA NextEvent ==
  ASSUME Parts, inbox # <<>>, Head(inbox) \in Seqs, inbox' = Tail(inbox), log' = log,
         subscribed' = subscribed, lastSeq' = lastSeq
  PROVE  /\ inbox' \in Seq({Ack, Nack} \cup Seqs)
         /\ Elements(inbox) = Elements(inbox') \cup {Head(inbox)}
         /\ \A x \in Elements(inbox') : x \in 1..Len(log) => Head(inbox) < x
         /\ Rising' /\ (Acks = {} => Acks' = {}) /\ (Answered => Answered')
<1>1. Shortens(inbox, inbox', {Ack, Nack} \cup Seqs)
  BY OneFrameLess DEF Parts, PlainTypes
<1> DEFINE len == Len(inbox)
<1>2. /\ inbox' \in Seq({Ack, Nack} \cup Seqs) /\ len \in Nat \ {0}
      /\ DOMAIN inbox = 1..len /\ DOMAIN inbox' = 1..(len - 1)
      /\ Head(inbox) = inbox[1]
      /\ \A k \in 1..(len - 1) : inbox'[k] = inbox[k + 1]
      /\ Elements(inbox) = Elements(inbox') \cup {inbox[1]}
  BY <1>1 DEF Shortens
<1> HIDE DEF len
<1>3. \A k \in 1..(len - 1) : k + 1 \in 1..len /\ k + 1 > 1
  BY <1>2
<1>4. \A k \in 1..(len - 1) : inbox'[k] \in Seqs =>
        \A j \in 1..k : inbox[j] < inbox'[k]
  <2> SUFFICES ASSUME NEW k \in 1..(len - 1), inbox'[k] \in Seqs, NEW j \in 1..k
               PROVE  inbox[j] < inbox'[k]
    OBVIOUS
  <2>1. k + 1 \in DOMAIN inbox /\ j \in 1..((k + 1) - 1) /\ inbox'[k] = inbox[k + 1]
    BY <1>2, <1>3
  <2> QED  BY <2>1 DEF Parts, Rising
<1>5. \A x \in Elements(inbox') : x \in 1..Len(log) => Head(inbox) < x
  <2> SUFFICES ASSUME NEW k \in 1..(len - 1), inbox'[k] \in 1..Len(log) PROVE inbox[1] < inbox'[k]
    BY <1>2 DEF Elements
  <2>1. 1 \in 1..k
    OBVIOUS
  <2> QED  BY <2>1, <1>4 DEF Seqs
<1>6. Rising'
  <2> SUFFICES ASSUME NEW k \in 1..(len - 1), inbox'[k] \in Seqs, NEW j \in 1..(k - 1)
               PROVE  inbox'[j] < inbox'[k]
    <3>1. Seqs' = Seqs
      BY DEF Seqs
    <3> QED  BY <3>1, <1>2 DEF Rising
  <2>1. j \in 1..(len - 1) /\ j + 1 \in 1..k
    BY <1>2
  <2>2. inbox'[j] = inbox[j + 1]
    BY <2>1, <1>2
  <2> QED  BY <2>1, <2>2, <1>4
<1>7. inbox[1] \notin {Ack, Nack}
  BY <1>2 DEF Seqs, Ack, Nack
<1>8. \A k : k \in Acks' <=> k \in 1..(len - 1) /\ k + 1 \in Acks
  <2>1. \A k \in 1..(len - 1) : k \in Acks' <=> k + 1 \in Acks
    BY <1>2, <1>3 DEF Acks
  <2> QED  BY <2>1, <1>2 DEF Acks
<1>9. Acks = {} => Acks' = {}
  BY <1>8
<1>10. ASSUME Answered PROVE Answered'
  <2>1. PICK k \in 1..len : Acks = {k} /\ (inbox[k] = Ack => subscribed)
    BY <1>10, <1>2 DEF Answered
  <2>2. k # 1
    <3>1. inbox[k] \in {Ack, Nack}
      BY <2>1 DEF Acks
    <3> QED  BY <3>1, <1>7
  <2>3. k - 1 \in 1..(len - 1) /\ (k - 1) + 1 = k
    BY <2>2, <1>2
  <2>4. Acks' = {k - 1}
    <3>1. \A j \in 1..(len - 1) : j + 1 = k <=> j = k - 1
      BY <1>2
    <3> QED  BY <3>1, <2>1, <2>3, <1>8
  <2>5. inbox'[k - 1] = inbox[k]
    BY <2>3, <1>2
  <2> QED  BY <2>1, <2>3, <2>4, <2>5, <1>2 DEF Answered
<1> QED  BY <1>2, <1>5, <1>6, <1>9, <1>10

LEMMA LosesParts == ASSUME Parts, Loses PROVE Parts'
<1>1. /\ inbox # <<>> /\ Head(inbox) \in Seqs /\ inbox' = Tail(inbox)
      /\ missed' = missed \cup {Head(inbox)}
      /\ UNCHANGED <<redis, log, commands, subscribed, attaching, feeds, link, start, shown, skipped>>
      /\ lastSeq' = lastSeq
  BY DEF Loses, shown
<1>2. /\ inbox' \in Seq({Ack, Nack} \cup Seqs)
      /\ Elements(inbox) = Elements(inbox') \cup {Head(inbox)}
      /\ Rising' /\ (Acks = {} => Acks' = {}) /\ (Answered => Answered')
  BY <1>1, NextEvent
<1>3. PlainTypes'
  <2>1. Seqs' = Seqs
    BY <1>1 DEF Seqs
  <2> QED  BY <2>1, <1>1, <1>2 DEF Parts, PlainTypes, link, shown
<1>4. StreamsInv'
  <2>1. PICK gone, box : gone = missed' /\ box = Elements(inbox')
    OBVIOUS
  <2>2. /\ missed \subseteq gone /\ \A e \in Elements(inbox) : e \in box \/ e \in gone
        /\ \A e \in box : e \in Elements(inbox)
    BY <2>1, <1>1, <1>2
  <2>3. Len(log) \in Nat /\ lastSeq \in Nat /\ lastSeq <= lastSeq
    BY Numbers
  <2>4. \A s \in Stream : CoveredInv(stream[s], Len(log), lastSeq, gone, box)
    BY <2>2, <2>3, Numbers, CoveredMore
  <2>5. AllCovered(stream, Len(log), lastSeq, gone, box)
    BY <2>4, Numbers DEF AllCovered
  <2>6. stream' = stream /\ Len(log)' = Len(log) /\ lastSeq' = lastSeq /\ Elements(inbox)' = box
    BY <2>1, <1>1 DEF feeds
  <2> QED  BY <2>1, <2>5, <2>6 DEF StreamsInv
<1>5. WireInv'
  <2>1. inbox # <<>> => redis
    BY DEF Parts, WireInv
  <2> QED  BY <2>1, <1>1, <1>2 DEF Parts, WireInv, Handled, feeds
<1>6. Connected(open, stream)' /\ KnownInv' /\ FollowsLog' /\ (source # NoStream => source \in open)'
  BY <1>1 DEF Parts, Connected, KnownInv, FollowsLog, feeds, link, shown
<1> QED  BY <1>2, <1>3, <1>4, <1>5, <1>6 DEF Parts

\* An event comes to every handler.  The log may be longer than before by this event.
LEMMA DispatchCovered ==
  ASSUME Parts, NEW m \in Nat, Len(log) <= m, NEW e \in 1..m, NEW kind, Dispatches(e, kind),
         \A x \in 1..m : x \in 1..Len(log) \/ x = e,
         NEW box2, box2 \subseteq Elements(inbox), \A x \in Elements(inbox) : x \in box2 \/ x = e,
         \A x \in 1..(e - 1) : x \notin Elements(inbox),
         \A x \in box2 : x \in 1..m => x \in 1..Len(log) /\ e < x
  PROVE  \E str : /\ AllCovered(str, m, lastSeq, missed', box2)
                  /\ Connected(open, str) /\ AtKept(str) /\ missed \subseteq missed'
                  /\ Settle(str, open, left /\ kind = "delta")
<1> DEFINE str == [s \in Stream |-> Handle(stream[s], e, kind)]
<1>1. /\ Settle(str, open, left /\ kind = "delta")
      /\ missed' = IF \E s \in Stream : stream[s].at = "live" /\ Drops(stream[s], e, kind)
                     THEN missed \cup {e} ELSE missed
  BY DEF Dispatches
<1>2. PICK gone : gone = missed'
  OBVIOUS
<1>3. missed \subseteq gone
      /\ \A s \in Stream : stream[s].at = "live" /\ Drops(stream[s], e, kind) => e \in gone
  BY <1>1, <1>2
<1>4. ASSUME NEW s \in Stream
      PROVE  Handle(stream[s], e, kind) \in StreamOf(m)
             /\ CoveredInv(Handle(stream[s], e, kind), m, lastSeq, gone, box2)
  <2>1. PICK old \in StreamOf(Len(log)) : old = stream[s]
    BY Numbers
  <2>2. CoveredInv(old, Len(log), lastSeq, missed, Elements(inbox))
    BY <2>1, Numbers
  <2>3. old.at = "live" /\ Drops(old, e, kind) => e \in gone
    BY <2>1, <1>3
  <2>4. Len(log) \in Nat /\ lastSeq \in Nat /\ missed \subseteq gone
    BY <1>3, Numbers
  <2>5. Handle(old, e, kind) \in StreamOf(m) /\ CoveredInv(Handle(old, e, kind), m, lastSeq, gone, box2)
    BY <2>2, <2>3, <2>4, HandleCovered
  <2> QED  BY <2>1, <2>5
<1>5. ASSUME NEW s \in Stream
      PROVE  Takes(stream[s], e, kind, m, str[s])
  <2>1. stream[s] \in StreamOf(m)
    BY Numbers, StreamsGrow
  <2> QED  BY <2>1, HandleOf
<1>6. \A s \in Stream : /\ str[s].hungUp = stream[s].hungUp
                        /\ \/ str[s].at = stream[s].at /\ str[s].shut = stream[s].shut
                           \/ stream[s].at = "live" /\ str[s].at = "gone" /\ str[s].shut
  BY <1>5 DEF Takes
<1>7. AllCovered(str, m, lastSeq, gone, box2)
  BY <1>4 DEF AllCovered
<1> HIDE DEF str
<1>8. Connected(open, str) /\ AtKept(str)
  BY <1>6 DEF Connected, AtKept, Parts, PlainTypes
<1> QED  BY <1>1, <1>2, <1>3, <1>7, <1>8

LEMMA DispatchParts ==
  ASSUME Parts, NEW m \in Nat, NEW stays, NEW str, Settle(str, open, stays), stays => left,
         AllCovered(str, m, lastSeq, missed', Elements(inbox')), Connected(open, str), AtKept(str),
         missed \subseteq missed', m = Len(log'), Len(log) <= m, m <= MaxEvents, log' \in Seq(Kinds),
         \A e \in Seqs : log'[e] = log[e],
         inbox' \in Seq({Ack, Nack} \cup Seqs), Rising', Acks = {} => Acks' = {}, Answered => Answered',
         ~redis => UNCHANGED inbox,
         UNCHANGED <<redis, subscribed, link, start, shown, skipped>>
  PROVE  Parts'
<1>1. Seqs \subseteq Seqs' /\ Seqs' = 1..m
  BY Numbers DEF Seqs
<1>2. PlainTypes'
  <2>1. commands' \in Seq({"sub", "unsub"}) /\ attaching' \in {"none", "pending", "done"}
    BY SettleTypes DEF Parts, PlainTypes
  <2>2. inbox' \in Seq({Ack, Nack} \cup Seqs')
    <3>1. {Ack, Nack} \cup Seqs \subseteq {Ack, Nack} \cup Seqs'
      BY <1>1
    <3> HIDE DEF Ack, Nack
    <3> QED  BY <3>1, SeqMonotonic
  <2>3. start' \in [Starter -> [at : {"call", "seq", "adopt", "done"}, upTo : {0} \cup Seqs',
                                seq : {0} \cup Seqs']]
    <3>1. start \in [Starter -> [at : {"call", "seq", "adopt", "done"}, upTo : {0} \cup Seqs,
                                 seq : {0} \cup Seqs]]
      BY DEF Parts, PlainTypes
    <3> QED  BY <3>1, <1>1
  <2> QED  BY <2>1, <2>2, <2>3, <1>1 DEF Parts, PlainTypes, link, shown
<1>3. /\ AllCovered(stream', m, lastSeq, missed', Elements(inbox'))
      /\ \A s \in Stream : s \in open => stream'[s] = str[s]
  BY Numbers, SettleCovered
<1>4. StreamsInv'
  <2>1. lastSeq' = lastSeq
    BY DEF shown
  <2> QED  BY <2>1, <1>3 DEF StreamsInv
<1>5. Connected(open, stream)' /\ (source # NoStream => source \in open)'
  BY <1>3 DEF Connected, Parts, PlainTypes, link
<1>6. WireInv'
  BY SettleWired DEF Parts, PlainTypes
<1>7. KnownInv' /\ FollowsLog'
  BY DEF Parts, PlainTypes, KnownInv, FollowsLog, shown
<1> QED  BY <1>2, <1>4, <1>5, <1>6, <1>7 DEF Parts

\* A stream that is not to bring anything loses nothing.
LEMMA IdleCovered ==
  ASSUME NEW n \in Nat, NEW st \in StreamOf(n), NEW last \in Nat, NEW gone, NEW box, NEW box2,
         CoveredInv(st, n, last, gone, box), st.at \notin {"flush", "live"},
         \A e \in box2 : e \in box \/ e \notin 1..n
  PROVE  CoveredInv(st, n, last, gone, box2)
<1>1. Covers(st, n, last, gone, box2)
  BY DEF Covers
<1>2. PendingInv(st, n, box2)
  BY DEF CoveredInv, PendingInv
<1> QED  BY <1>1, <1>2 DEF CoveredInv

LEMMA DeliversParts == ASSUME Parts, Delivers PROVE Parts'
<1>1. /\ inbox # <<>> /\ Head(inbox) \in Seqs /\ inbox' = Tail(inbox)
      /\ UNCHANGED <<redis, log, subscribed, link, start, shown, skipped>> /\ lastSeq' = lastSeq
  BY DEF Delivers, shown
<1>2. /\ inbox' \in Seq({Ack, Nack} \cup Seqs)
      /\ Elements(inbox) = Elements(inbox') \cup {Head(inbox)}
      /\ \A x \in Elements(inbox') : x \in 1..Len(log) => Head(inbox) < x
      /\ Rising' /\ (Acks = {} => Acks' = {}) /\ (Answered => Answered')
  BY <1>1, NextEvent
<1>3. redis
  BY <1>1 DEF Parts, WireInv
<1>4. Len(log) \in Nat /\ lastSeq \in Nat /\ Seqs = 1..Len(log)
  BY Numbers
<1>5. CASE attaching = "none"
  <2>1. UNCHANGED <<feeds, commands, attaching, missed>>
    BY <1>5 DEF Delivers
  <2>2. \A s \in Stream : stream[s].at = "gone"
    BY <1>3, <1>5 DEF Parts, WireInv, Handled
  <2>3. PICK box : box = Elements(inbox') /\ box \subseteq Elements(inbox)
    BY <1>2
  <2>4. \A s \in Stream : CoveredInv(stream[s], Len(log), lastSeq, missed, box)
    BY <2>2, <2>3, <1>4, Numbers, IdleCovered
  <2>5. StreamsInv'
    <3>1. AllCovered(stream, Len(log), lastSeq, missed, box)
      BY <2>4, Numbers DEF AllCovered
    <3>2. stream' = stream /\ Len(log)' = Len(log) /\ lastSeq' = lastSeq /\ Elements(inbox)' = box
          /\ missed' = missed
      BY <2>1, <2>3, <1>1 DEF feeds
    <3> QED  BY <3>1, <3>2 DEF StreamsInv
  <2>6. PlainTypes'
    <3>1. Seqs' = Seqs
      BY <1>1 DEF Seqs
    <3> QED  BY <3>1, <2>1, <1>1, <1>2 DEF Parts, PlainTypes, link, shown
  <2>7. WireInv'
    BY <2>1, <1>1, <1>2, <1>3 DEF Parts, WireInv, Handled, feeds
  <2>8. Connected(open, stream)' /\ KnownInv' /\ FollowsLog' /\ (source # NoStream => source \in open)'
    BY <2>1, <1>1 DEF Parts, Connected, KnownInv, FollowsLog, feeds, link, shown
  <2> QED  BY <1>2, <2>5, <2>6, <2>7, <2>8 DEF Parts
<1>6. CASE attaching # "none"
  <2>1. PICK e \in 1..Len(log) : e = Head(inbox)
    BY <1>1, <1>4
  <2>2. PICK kind : kind = log[e] /\ Dispatches(e, kind)
    BY <2>1, <1>6 DEF Delivers
  <2>3. PICK box : box = Elements(inbox')
    OBVIOUS
  <2>4. /\ box \subseteq Elements(inbox) /\ \A x \in Elements(inbox) : x \in box \/ x = e
        /\ \A x \in box : x \in 1..Len(log) => x \in 1..Len(log) /\ e < x
        /\ \A x \in 1..Len(log) : x \in 1..Len(log) \/ x = e
    BY <2>1, <2>3, <1>2
  <2>5. \A x \in 1..(e - 1) : x \notin Elements(inbox)
    <3> SUFFICES ASSUME NEW x \in 1..(e - 1), x \in Elements(inbox) PROVE FALSE
      OBVIOUS
    <3>1. x # e /\ x \in 1..Len(log) /\ ~(e < x)
      BY <1>4
    <3> QED  BY <3>1, <2>4
  <2>6. PICK str : /\ AllCovered(str, Len(log), lastSeq, missed', box)
                   /\ Connected(open, str) /\ AtKept(str) /\ missed \subseteq missed'
                   /\ Settle(str, open, left /\ kind = "delta")
    <3>1. Len(log) <= Len(log)
      BY <1>4
    <3> QED  BY <2>2, <2>4, <2>5, <3>1, <1>4, DispatchCovered
  <2>7. /\ Len(log) = Len(log') /\ Len(log) <= Len(log) /\ Len(log) <= MaxEvents /\ log' \in Seq(Kinds)
        /\ \A x \in Seqs : log'[x] = log[x]
    BY <1>1, <1>4 DEF Parts, PlainTypes
  <2>8. PICK stays : stays = (left /\ kind = "delta")
    OBVIOUS
  <2>9. Settle(str, open, stays) /\ (stays => left)
    BY <2>6, <2>8
  <2>10. AllCovered(str, Len(log), lastSeq, missed', Elements(inbox'))
    BY <2>3, <2>6
  <2> QED  BY <2>6, <2>7, <2>9, <2>10, <1>1, <1>2, <1>3, <1>4, DispatchParts
<1> QED  BY <1>5, <1>6

\* One more event in the log.
LEMMA LogLonger ==
  ASSUME Parts, NEW kind \in Kinds, Appends(kind)
  PROVE  /\ log' \in Seq(Kinds) /\ Len(log') = Len(log) + 1 /\ Len(log') <= MaxEvents
         /\ Len(log) \in Nat /\ \A e \in Seqs : log'[e] = log[e]
<1>1. log \in Seq(Kinds) /\ Len(log) \in Nat
  BY Numbers DEF Parts, PlainTypes
<1>2. log' = Append(log, kind) /\ Len(log) < MaxEvents
  BY DEF Appends
<1>3. /\ log' \in Seq(Kinds) /\ Len(log') = Len(log) + 1
      /\ \A e \in 1..Len(log) : log'[e] = log[e]
  BY <1>1, <1>2, AppendProperties
<1> QED  BY <1>1, <1>2, <1>3, FeedAssumption DEF Seqs

LEMMA PublishInMemoryParts == ASSUME Parts, NEW kind \in Kinds, PublishInMemory(kind) PROVE Parts'
<1>1. /\ ~redis /\ Appends(kind) /\ Dispatches(Len(log) + 1, kind)
      /\ UNCHANGED <<redis, inbox, subscribed, link, start, shown, skipped>>
  BY DEF PublishInMemory
<1>2. /\ log' \in Seq(Kinds) /\ Len(log') = Len(log) + 1 /\ Len(log') <= MaxEvents
      /\ Len(log) \in Nat /\ \A e \in Seqs : log'[e] = log[e]
  BY <1>1, LogLonger
<1>3. PICK m \in Nat : m = Len(log) + 1 /\ m = Len(log') /\ m \in 1..m /\ Len(log) <= m
                       /\ \A x \in 1..m : x \in 1..Len(log) \/ x = m
  BY <1>2
<1>4. inbox = <<>> /\ Elements(inbox) = {}
  <2>1. inbox = <<>>
    BY <1>1 DEF Parts, WireInv
  <2> QED  BY <2>1, EmptySeq DEF Elements
<1>5. PICK str : /\ AllCovered(str, m, lastSeq, missed', {})
                 /\ Connected(open, str) /\ AtKept(str) /\ missed \subseteq missed'
                 /\ Settle(str, open, left /\ kind = "delta")
  <2>1. Dispatches(m, kind)
    BY <1>1, <1>3
  <2>2. PICK box2 : box2 = {}
    OBVIOUS
  <2>3. box2 \subseteq Elements(inbox) /\ (\A x \in Elements(inbox) : x \in box2 \/ x = m)
        /\ (\A x \in 1..(m - 1) : x \notin Elements(inbox))
        /\ (\A x \in box2 : x \in 1..m => x \in 1..Len(log) /\ m < x)
    BY <2>2, <1>4
  <2>4. \E str : /\ AllCovered(str, m, lastSeq, missed', box2)
                 /\ Connected(open, str) /\ AtKept(str) /\ missed \subseteq missed'
                 /\ Settle(str, open, left /\ kind = "delta")
    BY <2>1, <2>3, <1>3, DispatchCovered
  <2> QED  BY <2>2, <2>4
<1>6. PICK stays : stays = (left /\ kind = "delta")
  OBVIOUS
<1>7. Settle(str, open, stays) /\ (stays => left)
  BY <1>5, <1>6
<1>8. AllCovered(str, m, lastSeq, missed', Elements(inbox'))
  BY <1>1, <1>4, <1>5
<1>9. /\ inbox' \in Seq({Ack, Nack} \cup Seqs) /\ Rising'
      /\ (Acks = {} => Acks' = {}) /\ (Answered => Answered')
  <2>1. DOMAIN inbox = {} /\ inbox' = inbox
    BY <1>1, <1>4, EmptySeq
  <2>2. Rising' /\ Acks' = {} /\ ~Answered
    BY <2>1 DEF Rising, Acks, Answered
  <2> QED  BY <2>1, <2>2 DEF Parts, PlainTypes
<1> QED  BY <1>1, <1>2, <1>3, <1>5, <1>7, <1>8, <1>9, DispatchParts

\* Something comes into the inbox.
LEMMA Arrives ==
  ASSUME Parts, NEW x, NEW T, {Ack, Nack} \cup Seqs \cup {x} \subseteq T, inbox' = Append(inbox, x)
  PROVE  /\ inbox' \in Seq(T) /\ Elements(inbox') = Elements(inbox) \cup {x}
         /\ Len(inbox) \in Nat
         /\ DOMAIN inbox = 1..Len(inbox) /\ DOMAIN inbox' = 1..(Len(inbox) + 1)
         /\ \A k \in 1..Len(inbox) : inbox'[k] = inbox[k]
         /\ inbox'[Len(inbox) + 1] = x
<1>1. inbox \in Seq(T) /\ x \in T
  <2>1. {Ack, Nack} \cup Seqs \subseteq T
    OBVIOUS
  <2>2. inbox \in Seq({Ack, Nack} \cup Seqs)
    BY DEF Parts, PlainTypes
  <2> HIDE DEF Ack, Nack
  <2> QED  BY <2>1, <2>2, SeqMonotonic
<1>2. Lengthens(inbox, x, inbox', T)
  BY <1>1, OneFrameMore
<1> QED  BY <1>2 DEF Lengthens

LEMMA PublishOnRedisParts == ASSUME Parts, NEW kind \in Kinds, PublishOnRedis(kind) PROVE Parts'
<1> DEFINE n == Len(log)
<1>1. /\ redis /\ Appends(kind)
      /\ inbox' = IF subscribed THEN Append(inbox, n + 1) ELSE inbox
      /\ UNCHANGED <<redis, commands, subscribed, attaching, feeds, link, start, shown, missed, skipped>>
  BY DEF PublishOnRedis
<1>2. /\ log' \in Seq(Kinds) /\ Len(log') = n + 1 /\ Len(log') <= MaxEvents
      /\ n \in Nat /\ \A e \in Seqs : log'[e] = log[e]
  BY <1>1, LogLonger
<1>3. Seqs = 1..n /\ Seqs' = 1..(n + 1) /\ Seqs' = Seqs \cup {n + 1} /\ lastSeq \in Nat
  <2>1. Seqs = 1..n /\ Seqs' = 1..(n + 1)
    BY <1>2 DEF Seqs
  <2>2. 1..(n + 1) = 1..n \cup {n + 1}
    BY <1>2
  <2> QED  BY <2>1, <2>2, Numbers
<1>4. inbox' \in Seq({Ack, Nack} \cup Seqs') /\ Rising' /\ Acks' = Acks /\ (Answered' <=> Answered)
      /\ Elements(inbox') = IF subscribed THEN Elements(inbox) \cup {n + 1} ELSE Elements(inbox)
  <2>1. CASE subscribed
    <3> DEFINE len == Len(inbox)
    <3>1. /\ inbox' \in Seq({Ack, Nack} \cup Seqs') /\ Elements(inbox') = Elements(inbox) \cup {n + 1}
          /\ len \in Nat
          /\ DOMAIN inbox = 1..len /\ DOMAIN inbox' = 1..(len + 1)
          /\ \A k \in 1..len : inbox'[k] = inbox[k]
          /\ inbox'[len + 1] = n + 1
      <4>1. PICK T : T = {Ack, Nack} \cup Seqs'
        OBVIOUS
      <4>2. {Ack, Nack} \cup Seqs \cup {n + 1} \subseteq T /\ inbox' = Append(inbox, n + 1)
        BY <4>1, <2>1, <1>1, <1>3
      <4> QED  BY <4>1, <4>2, Arrives
    <3> HIDE DEF len
    <3>2. n + 1 \notin {Ack, Nack} /\ n + 1 \notin Seqs
      BY <1>2, <1>3 DEF Ack, Nack
    <3>3. \A k : k \in Acks' <=> k \in Acks
      <4>1. \A k \in 1..(len + 1) : k \in 1..len \/ k = len + 1
        BY <3>1
      <4>2. \A k \in 1..len : k \in 1..(len + 1)
        BY <3>1
      <4> QED  BY <4>1, <4>2, <3>1, <3>2 DEF Acks
    <3>4. Acks' = Acks
      BY <3>3
    <3>5. Answered' <=> Answered
      <4>1. \A k \in Acks : k \in DOMAIN inbox /\ k \in DOMAIN inbox' /\ inbox'[k] = inbox[k]
        BY <3>1 DEF Acks
      <4>2. Answered <=> \E k \in Acks : Acks = {k} /\ (inbox[k] = Ack => subscribed)
        BY <4>1 DEF Answered
      <4>3. Answered' <=> \E k \in Acks : Acks = {k} /\ (inbox'[k] = Ack => subscribed)
        <5>1. Answered' <=> \E k \in DOMAIN inbox' : Acks = {k} /\ (inbox'[k] = Ack => subscribed)
          BY <3>4, <1>1 DEF Answered
        <5> QED  BY <5>1, <4>1
      <4> QED  BY <4>1, <4>2, <4>3
    <3>6. Rising'
      <4> SUFFICES ASSUME NEW k \in 1..(len + 1), inbox'[k] \in 1..(n + 1), NEW j \in 1..(k - 1)
                   PROVE  inbox'[j] < inbox'[k]
        BY <3>1, <1>3 DEF Rising
      <4>1. j \in 1..len /\ inbox'[j] = inbox[j] /\ inbox[j] \in {Ack, Nack} \cup 1..n
        <5>1. j \in 1..len
          BY <3>1
        <5> QED  BY <5>1, <3>1, <1>3 DEF Parts, PlainTypes
      <4>2. CASE k = len + 1
        BY <4>1, <4>2, <3>1, <1>2 DEF Ack, Nack
      <4>3. CASE k # len + 1
        <5>1. k \in 1..len /\ inbox'[k] = inbox[k]
          BY <4>3, <3>1
        <5>2. inbox[k] \in Seqs
          <6>1. inbox[k] \in {Ack, Nack} \cup Seqs
            BY <5>1, <3>1 DEF Parts, PlainTypes
          <6>2. inbox[k] \notin {Ack, Nack}
            BY <5>1 DEF Ack, Nack
          <6> QED  BY <6>1, <6>2
        <5> QED  BY <5>1, <5>2, <4>1, <3>1 DEF Parts, Rising
      <4> QED  BY <4>2, <4>3
    <3> QED  BY <2>1, <3>1, <3>4, <3>5, <3>6
  <2>2. CASE ~subscribed
    <3>1. inbox' = inbox
      BY <2>2, <1>1
    <3>2. inbox \in Seq({Ack, Nack} \cup Seqs) /\ {Ack, Nack} \cup Seqs \subseteq {Ack, Nack} \cup Seqs'
      BY <1>3 DEF Parts, PlainTypes
    <3>3. inbox' \in Seq({Ack, Nack} \cup Seqs')
      <4> HIDE DEF Ack, Nack
      <4> QED  BY <3>1, <3>2, SeqMonotonic
    <3>4. \A k \in DOMAIN inbox : inbox[k] \in Seqs' => inbox[k] \in Seqs
      <4> SUFFICES ASSUME NEW k \in DOMAIN inbox, inbox[k] \in Seqs' PROVE inbox[k] \in Seqs
        OBVIOUS
      <4>1. inbox[k] \in {Ack, Nack} \cup Seqs
        <5>1. DOMAIN inbox = 1..Len(inbox) /\ inbox \in Seq({Ack, Nack} \cup Seqs)
          BY LenProperties DEF Parts, PlainTypes
        <5> QED  BY <5>1, ElementOfSeq
      <4>2. inbox[k] \notin {Ack, Nack}
        BY <1>2, <1>3 DEF Ack, Nack
      <4> QED  BY <4>1, <4>2
    <3>5. Rising'
      BY <3>1, <3>4 DEF Parts, Rising
    <3>6. Acks' = Acks
      BY <3>1 DEF Acks
    <3>7. Answered' <=> Answered
      BY <3>1, <3>6, <1>1 DEF Answered
    <3> QED  BY <3>1, <3>3, <3>5, <3>6, <3>7, <2>2
  <2> QED  BY <2>1, <2>2, <1>1 DEF Parts, PlainTypes
<1>5. StreamsInv'
  <2>1. PICK box : box = Elements(inbox')
    OBVIOUS
  <2>2. Elements(inbox) \subseteq box /\ \A e \in box : e \in Elements(inbox) \/ e = n + 1
    BY <2>1, <1>4
  <2>3. \A s \in Stream : n + 1 \in box \/ stream[s].at \notin {"flush", "live"}
    <3>1. CASE subscribed
      BY <2>1, <3>1, <1>4
    <3>2. CASE ~subscribed
      <4>1. attaching # "done"
        BY <3>2, <1>1 DEF Parts, WireInv
      <4>2. \A s \in Stream : stream[s].at \in {"gone", "attach"}
        BY <4>1, <1>1 DEF Parts, PlainTypes, WireInv, Handled
      <4> QED  BY <4>2
    <3> QED  BY <3>1, <3>2 DEF Parts, PlainTypes
  <2>4. \A s \in Stream : /\ stream[s] \in StreamOf(n + 1)
                          /\ CoveredInv(stream[s], n + 1, lastSeq, missed, box)
    BY <2>2, <2>3, <1>2, <1>3, Numbers, PublishCovered
  <2>5. AllCovered(stream, n + 1, lastSeq, missed, box)
    BY <2>4, Numbers DEF AllCovered
  <2>6. stream' = stream /\ Len(log)' = n + 1 /\ lastSeq' = lastSeq /\ Elements(inbox)' = box
        /\ missed' = missed
    BY <2>1, <1>1, <1>2 DEF feeds, shown
  <2> QED  BY <2>5, <2>6 DEF StreamsInv
<1>6. PlainTypes'
  <2>1. start' \in [Starter -> [at : {"call", "seq", "adopt", "done"}, upTo : {0} \cup Seqs',
                                seq : {0} \cup Seqs']]
    <3>1. start \in [Starter -> [at : {"call", "seq", "adopt", "done"}, upTo : {0} \cup Seqs,
                                 seq : {0} \cup Seqs]]
      BY DEF Parts, PlainTypes
    <3> QED  BY <3>1, <1>1, <1>3
  <2> QED  BY <2>1, <1>1, <1>2, <1>3, <1>4 DEF Parts, PlainTypes, link, shown
<1>7. WireInv'
  BY <1>1, <1>4 DEF Parts, WireInv, Handled, feeds
<1>8. Connected(open, stream)' /\ KnownInv' /\ FollowsLog' /\ (source # NoStream => source \in open)'
  BY <1>1, <1>2, <1>3 DEF Parts, PlainTypes, Connected, KnownInv, FollowsLog, feeds, link, shown
<1> QED  BY <1>4, <1>5, <1>6, <1>7, <1>8 DEF Parts

\* An answer comes into the inbox.
LEMMA AnswerArrives ==
  ASSUME Parts, redis, attaching = "pending", Acks = {}, NEW x \in {Ack, Nack}, x = Ack => subscribed',
         inbox' = Append(inbox, x),
         commands' = <<>>,
         UNCHANGED <<redis, log, attaching, feeds, link, start, shown, missed, skipped>>,
         subscribed' \in BOOLEAN
  PROVE  Parts'
<1> DEFINE len == Len(inbox)
<1>1. /\ inbox' \in Seq({Ack, Nack} \cup Seqs) /\ Elements(inbox') = Elements(inbox) \cup {x}
      /\ len \in Nat
      /\ DOMAIN inbox = 1..len /\ DOMAIN inbox' = 1..(len + 1)
      /\ \A k \in 1..len : inbox'[k] = inbox[k]
      /\ inbox'[len + 1] = x
  <2>1. PICK T : T = {Ack, Nack} \cup Seqs
    OBVIOUS
  <2>2. {Ack, Nack} \cup Seqs \cup {x} \subseteq T
    BY <2>1
  <2> QED  BY <2>1, <2>2, Arrives
<1> HIDE DEF len
<1>2. x \notin Seqs /\ Seqs' = Seqs /\ Seqs = 1..Len(log)
  BY DEF Seqs, Ack, Nack
<1>3. PlainTypes'
  <2>1. commands' \in Seq({"sub", "unsub"})
    BY EmptySeq
  <2> QED  BY <2>1, <1>1, <1>2 DEF Parts, PlainTypes, link, shown
<1>4. StreamsInv'
  <2>1. PICK box : box = Elements(inbox')
    OBVIOUS
  <2>2. \A s \in Stream : stream[s].at \notin {"flush", "live"}
    BY DEF Parts, WireInv
  <2>3. \A e \in box : e \in Elements(inbox) \/ e \notin 1..Len(log)
    BY <2>1, <1>1, <1>2
  <2>4. Len(log) \in Nat /\ lastSeq \in Nat
    BY Numbers
  <2>5. \A s \in Stream : CoveredInv(stream[s], Len(log), lastSeq, missed, box)
    BY <2>2, <2>3, <2>4, Numbers, IdleCovered
  <2>6. AllCovered(stream, Len(log), lastSeq, missed, box)
    BY <2>5, Numbers DEF AllCovered
  <2>7. stream' = stream /\ Len(log)' = Len(log) /\ lastSeq' = lastSeq /\ Elements(inbox)' = box
        /\ missed' = missed
    BY <2>1 DEF feeds, shown
  <2> QED  BY <2>6, <2>7 DEF StreamsInv
<1>5. \A k \in 1..(len + 1) : k \in 1..len \/ k = len + 1
  BY <1>1
<1>6. Acks' = {len + 1}
  <2>1. \A k \in 1..len : inbox'[k] \notin {Ack, Nack}
    BY <1>1 DEF Acks
  <2>2. len + 1 \in 1..(len + 1)
    BY <1>1
  <2>3. \A k : k \in Acks' <=> k = len + 1
    BY <2>1, <2>2, <1>1, <1>5 DEF Acks
  <2> QED  BY <2>3
<1>7. Answered'
  <2>1. len + 1 \in DOMAIN inbox' /\ (inbox'[len + 1] = Ack => subscribed')
    BY <1>1
  <2> QED  BY <2>1, <1>6 DEF Answered
<1>8. WireInv'
  BY <1>7 DEF Parts, WireInv, Handled, feeds
<1>9. Rising'
  <2> SUFFICES ASSUME NEW k \in 1..len, inbox'[k] \in Seqs, NEW j \in 1..(k - 1)
               PROVE  inbox'[j] < inbox'[k]
    BY <1>1, <1>2, <1>5 DEF Rising
  <2>1. j \in 1..len
    BY <1>1
  <2>2. inbox[k] \in Seqs /\ k \in DOMAIN inbox
    BY <1>1
  <2>3. inbox[j] < inbox[k]
    BY <2>2 DEF Parts, Rising
  <2> QED  BY <2>1, <2>3, <1>1
<1>10. Connected(open, stream)' /\ KnownInv' /\ FollowsLog' /\ (source # NoStream => source \in open)'
  BY DEF Parts, Connected, KnownInv, FollowsLog, feeds, link, shown
<1> QED  BY <1>3, <1>4, <1>8, <1>9, <1>10 DEF Parts

\* The parts of WireInv, for the process that waits for the answer to a SUBSCRIBE ...
LEMMA WhilePending ==
  ASSUME Parts, redis, attaching = "pending"
  PROVE  /\ ~left /\ Handled(stream, left)
         /\ \A s \in Stream : stream[s].at \in {"gone", "attach"}
         /\ \/ commands \in {<<"sub">>, <<"unsub", "sub">>} /\ Acks = {}
            \/ commands = <<>> /\ Answered
<1>1. "pending" # "none"
  OBVIOUS
<1>2. WireInv
  BY DEF Parts
<1> QED  BY <1>1, <1>2, Zenon DEF WireInv

\* ... and for one that has no handlers.
LEMMA WhileNone ==
  ASSUME Parts, redis, attaching = "none"
  PROVE  commands \in {<<>>, <<"unsub">>} /\ Acks = {}
<1>1. "none" # "pending"
  OBVIOUS
<1>2. WireInv
  BY DEF Parts
<1> QED  BY <1>1, <1>2, Zenon DEF WireInv

LEMMA TheCommands ==
  /\ <<"unsub">> # <<>> /\ <<"unsub">> # <<"sub">> /\ <<"unsub">> # <<"unsub", "sub">>
  /\ <<"sub">> # <<>> /\ <<"sub">> # <<"unsub", "sub">> /\ <<"unsub", "sub">> # <<>>
<1>1. Len(<<"unsub">>) = 1 /\ Len(<<"sub">>) = 1 /\ Len(<<"unsub", "sub">>) = 2 /\ Len(<<>>) = 0
      /\ Head(<<"unsub">>) = "unsub" /\ Head(<<"sub">>) = "sub" /\ "unsub" # "sub"
  OBVIOUS
<1> QED  BY <1>1

LEMMA RedisTakesParts == ASSUME Parts, RedisTakes PROVE Parts'
<1>1. /\ commands # <<>> /\ commands' = Tail(commands)
      /\ UNCHANGED <<redis, log, attaching, feeds, link, start, shown, missed, skipped>>
  BY DEF RedisTakes
<1>2. redis /\ attaching # "done"
  BY <1>1 DEF Parts, WireInv
<1>3. ASSUME Head(commands) = "unsub", subscribed' = FALSE, inbox' = inbox,
             commands' \in Seq({"sub", "unsub"}),
             \/ attaching = "none" /\ commands' = <<>>
             \/ attaching = "pending" /\ commands' = <<"sub">> /\ Acks = {}
      PROVE  Parts'
  <2>1. Seqs' = Seqs
    BY <1>1 DEF Seqs
  <2>2. PlainTypes'
    BY <2>1, <1>1, <1>3 DEF Parts, PlainTypes, link, shown
  <2>3. Acks' = Acks
    BY <1>3 DEF Acks
  <2>4. WireInv'
    BY <2>3, <1>1, <1>2, <1>3 DEF Parts, WireInv, Handled, feeds
  <2>5. /\ StreamsInv' /\ Connected(open, stream)' /\ Rising' /\ KnownInv' /\ FollowsLog'
        /\ (source # NoStream => source \in open)'
    BY <2>1, <1>1, <1>3 DEF Parts, StreamsInv, Connected, Rising, KnownInv, FollowsLog, feeds, link, shown
  <2> QED  BY <2>2, <2>4, <2>5 DEF Parts
<1>4. \/ /\ subscribed' = (Head(commands) = "sub")
         /\ inbox' = IF subscribed' THEN Append(inbox, Ack) ELSE inbox
      \/ /\ Head(commands) = "sub"
         /\ inbox' = Append(inbox, Nack) /\ UNCHANGED subscribed
  BY DEF RedisTakes
<1>9. attaching \in {"none", "pending"}
  BY <1>2 DEF Parts, PlainTypes
<1>5. CASE commands = <<"unsub">>
  <2>1. Head(commands) = "unsub" /\ commands' = <<>> /\ "unsub" # "sub"
    BY <1>1, <1>5
  <2>2. subscribed' = FALSE /\ inbox' = inbox
    BY <2>1, <1>4
  <2>3. attaching = "none"
    BY <1>2, <1>5, <1>9, WhilePending, TheCommands, Zenon
  <2>4. commands' \in Seq({"sub", "unsub"})
    BY <2>1, EmptySeq
  <2> QED  BY <2>1, <2>2, <2>3, <2>4, <1>3
<1>6. CASE commands = <<"unsub", "sub">>
  <2>1. Head(commands) = "unsub" /\ commands' = <<"sub">> /\ "unsub" # "sub"
    BY <1>1, <1>6
  <2>2. subscribed' = FALSE /\ inbox' = inbox
    BY <2>1, <1>4
  <2>3. attaching = "pending" /\ Acks = {}
    BY <1>2, <1>6, <1>9, WhilePending, WhileNone, TheCommands, Zenon
  <2>4. commands' \in Seq({"sub", "unsub"})
    BY <2>1
  <2> QED  BY <2>1, <2>2, <2>3, <2>4, <1>3
<1>7. CASE commands = <<"sub">>
  <2>1. Head(commands) = "sub" /\ commands' = <<>>
    BY <1>1, <1>7
  <2>2. attaching = "pending" /\ Acks = {}
    BY <1>2, <1>7, <1>9, WhilePending, WhileNone, TheCommands, Zenon
  <2>3. CASE subscribed' = TRUE /\ inbox' = Append(inbox, Ack)
    BY <2>1, <2>2, <2>3, <1>1, <1>2, AnswerArrives
  <2>4. CASE UNCHANGED subscribed /\ inbox' = Append(inbox, Nack)
    <3>1. Nack # Ack /\ subscribed' \in BOOLEAN
      BY <2>4 DEF Ack, Nack, Parts, PlainTypes
    <3>2. PICK x \in {Ack, Nack} : x = Nack /\ x # Ack
      BY <3>1
    <3> QED  BY <2>1, <2>2, <2>4, <3>1, <3>2, <1>1, <1>2, AnswerArrives
  <2> QED  BY <2>1, <2>3, <2>4, <1>4
<1>8. commands \in {<<"unsub">>, <<"unsub", "sub">>, <<"sub">>}
  BY <1>1, <1>2, <1>9, WhilePending, WhileNone, Zenon
<1> QED  BY <1>5, <1>6, <1>7, <1>8

LEMMA AttachedParts == ASSUME Parts, Attached PROVE Parts'
<1> DEFINE waiting == {s \in Stream : stream[s].at = "attach"}  len == Len(inbox)
<1>1. /\ inbox # <<>> /\ Head(inbox) \in {Ack, Nack} /\ inbox' = Tail(inbox)
      /\ UNCHANGED <<redis, log, subscribed, link, start, shown, missed, skipped>> /\ lastSeq' = lastSeq
      /\ IF Head(inbox) = Ack
           THEN /\ attaching' = "done"
                /\ stream' = [s \in Stream |->
                     IF s \in waiting THEN [stream[s] EXCEPT !.at = "list"] ELSE stream[s]]
                /\ UNCHANGED <<commands, left>>
           ELSE Streams([s \in Stream |-> IF s \in waiting THEN Failed(stream[s]) ELSE stream[s]])
  BY DEF Attached, shown
<1>2. /\ inbox' \in Seq({Ack, Nack} \cup Seqs) /\ len \in Nat \ {0}
      /\ DOMAIN inbox = 1..len /\ DOMAIN inbox' = 1..(len - 1)
      /\ Head(inbox) = inbox[1]
      /\ \A k \in 1..(len - 1) : inbox'[k] = inbox[k + 1]
      /\ Elements(inbox) = Elements(inbox') \cup {inbox[1]}
  <2>1. Shortens(inbox, inbox', {Ack, Nack} \cup Seqs)
    BY <1>1, OneFrameLess DEF Parts, PlainTypes
  <2> QED  BY <2>1 DEF Shortens
<1> HIDE DEF len
<1>3. 1 \in Acks
  BY <1>1, <1>2 DEF Acks
<1>4. redis /\ attaching = "pending"
  BY <1>1, <1>3 DEF Parts, WireInv
<1>5. /\ ~left /\ \A s \in Stream : stream[s].at \in {"gone", "attach"}
      /\ commands = <<>> /\ Acks = {1} /\ (inbox[1] = Ack => subscribed)
      /\ \E s \in Stream : stream[s].at = "attach"
  <2>1. ~left /\ (\A s \in Stream : stream[s].at \in {"gone", "attach"}) /\ commands = <<>> /\ Answered
        /\ Handled(stream, left)
    BY <1>3, <1>4, WhilePending
  <2>2. \E s \in Stream : stream[s].at = "attach"
    BY <2>1 DEF Handled
  <2> QED  BY <2>1, <2>2, <1>3 DEF Answered
<1>6. Acks' = {}
  <2>1. \A k \in 1..(len - 1) : k + 1 \in 1..len /\ k + 1 # 1
    BY <1>2
  <2>2. \A k \in 1..(len - 1) : inbox'[k] \notin {Ack, Nack}
    BY <2>1, <1>2, <1>5 DEF Acks
  <2> QED  BY <2>2, <1>2 DEF Acks
<1>7. Seqs' = Seqs /\ Seqs = 1..Len(log) /\ Len(log) \in Nat /\ lastSeq \in Nat
  BY <1>1, Numbers DEF Seqs
<1>8. Rising'
  <2> SUFFICES ASSUME NEW k \in 1..(len - 1), inbox'[k] \in Seqs, NEW j \in 1..(k - 1)
               PROVE  inbox'[j] < inbox'[k]
    BY <1>2, <1>7 DEF Rising
  <2>1. j \in 1..(len - 1) /\ k + 1 \in 1..len /\ j + 1 \in 1..((k + 1) - 1)
    BY <1>2
  <2>2. inbox'[j] = inbox[j + 1] /\ inbox'[k] = inbox[k + 1] /\ k + 1 \in DOMAIN inbox
    BY <2>1, <1>2
  <2>3. inbox[j + 1] < inbox[k + 1]
    BY <2>1, <2>2 DEF Parts, Rising
  <2> QED  BY <2>2, <2>3
<1>9. PICK box : box = Elements(inbox') /\ \A e \in box : e \in Elements(inbox) \/ e \notin 1..Len(log)
  BY <1>2
<1>10. \A s \in Stream : CoveredInv(stream[s], Len(log), lastSeq, missed, box)
  BY <1>5, <1>7, <1>9, Numbers, IdleCovered
<1>11. KnownInv' /\ FollowsLog' /\ (source # NoStream => source \in open)'
  BY <1>1 DEF Parts, KnownInv, FollowsLog, link, shown
<1>12. ASSUME AllCovered(stream', Len(log), lastSeq, missed, box) PROVE StreamsInv'
  <2>1. Len(log)' = Len(log) /\ lastSeq' = lastSeq /\ Elements(inbox)' = box /\ missed' = missed
    BY <1>1, <1>9
  <2> QED  BY <2>1, <1>12 DEF StreamsInv
<1>13. CASE Head(inbox) = Ack
  <2>1. /\ attaching' = "done" /\ commands' = <<>> /\ left' = left
        /\ stream' = [s \in Stream |->
             IF s \in waiting THEN [stream[s] EXCEPT !.at = "list"] ELSE stream[s]]
    BY <1>1, <1>5, <1>13
  <2>2. ASSUME NEW s \in Stream
        PROVE  /\ stream'[s] \in StreamOf(Len(log))
               /\ CoveredInv(stream'[s], Len(log), lastSeq, missed, box)
               /\ stream'[s].hungUp = stream[s].hungUp /\ stream'[s].shut = stream[s].shut
               /\ stream'[s].at = IF stream[s].at = "attach" THEN "list" ELSE stream[s].at
    <3>1. CASE stream[s].at = "attach"
      <4>1. PICK old \in StreamOf(Len(log)) : old = stream[s]
        BY Numbers
      <4>2. PICK new : new = [old EXCEPT !.at = "list"] /\ stream'[s] = new
        BY <2>1, <3>1, <4>1
      <4>3. /\ new \in StreamOf(Len(log)) /\ new.at = "list" /\ new.hungUp = old.hungUp
            /\ new.shut = old.shut /\ new.after = old.after /\ new.got = old.got
            /\ new.frames = old.frames /\ new.pending = old.pending
        BY <4>2 DEF StreamOf
      <4>4. CoveredInv(old, Len(log), lastSeq, missed, box)
        BY <4>1, <1>10
      <4>5. old.after <= lastSeq /\ old.got = {} /\ old.frames = <<>> /\ ~old.shut
            /\ PendingInv(old, Len(log), box)
        BY <4>1, <4>4, <3>1 DEF CoveredInv, StageInv, Waiting
      <4>6. PendingInv(new, Len(log), box)
        BY <4>3, <4>5 DEF PendingInv
      <4>7. CoveredInv(new, Len(log), lastSeq, missed, box)
        BY <4>3, <4>5, <4>6, <1>7, EmptyCovered
      <4> QED  BY <4>1, <4>2, <4>3, <4>7, <3>1
    <3>2. CASE stream[s].at # "attach"
      <4>1. stream'[s] = stream[s]
        BY <2>1, <3>2
      <4> QED  BY <4>1, <3>2, <1>10, Numbers
    <3> QED  BY <3>1, <3>2
  <2>3. StreamsInv'
    BY <2>1, <2>2, <1>12 DEF AllCovered
  <2>4. Connected(open, stream)'
    BY <2>2, <1>1 DEF Parts, PlainTypes, Connected, link
  <2>5. WireInv'
    <3>1. Handled(stream', left') /\ (\A s \in Stream : stream'[s].at # "attach") /\ subscribed'
      BY <2>2, <1>1, <1>2, <1>5, <1>13 DEF Handled
    <3> QED  BY <3>1, <2>1, <1>1, <1>4, <1>6 DEF WireInv
  <2>6. PlainTypes'
    <3>1. commands' \in Seq({"sub", "unsub"})
      BY <2>1, EmptySeq
    <3> QED  BY <3>1, <2>1, <1>1, <1>2, <1>7 DEF Parts, PlainTypes, link, shown
  <2> QED  BY <2>3, <2>4, <2>5, <2>6, <1>8, <1>11 DEF Parts
<1>14. CASE Head(inbox) # Ack
  <2> DEFINE str == [s \in Stream |-> IF s \in waiting THEN Failed(stream[s]) ELSE stream[s]]
  <2>1. Settle(str, open, left)
    BY <1>1, <1>14 DEF Streams
  <2>2. \A s \in Stream : str[s] = IF stream[s].at = "attach" THEN Failed(stream[s]) ELSE stream[s]
    OBVIOUS
  <2>3. \A s \in Stream : /\ Failed(stream[s]) \in StreamOf(Len(log))
                          /\ CoveredInv(Failed(stream[s]), Len(log), lastSeq, missed, box)
                          /\ Failed(stream[s]).at = "gone" /\ Failed(stream[s]).shut
                          /\ ~Failed(stream[s]).hungUp
    BY <1>7, FailedCovered
  <2>4. AllCovered(str, Len(log), lastSeq, missed, box)
    BY <2>2, <2>3, <1>10, Numbers DEF AllCovered
  <2>5. \A s \in Stream : str[s].at = "gone"
    BY <2>2, <2>3, <1>5
  <2> HIDE DEF str
  <2>6. /\ AllCovered(stream', Len(log), lastSeq, missed, box)
        /\ \A s \in Stream : s \in open => stream'[s] = str[s]
    BY <2>1, <2>4, <1>7, SettleCovered
  <2>7. Connected(open, stream)'
    <3>1. \A s \in Stream : s \in open => ~str[s].hungUp /\ (str[s].at = "gone" => str[s].shut)
      BY <2>2, <2>3 DEF Parts, Connected
    <3> QED  BY <3>1, <2>6, <1>1 DEF Parts, PlainTypes, Connected, link
  <2>8. (\A s \in Stream : stream'[s].at = "gone") /\ ~left'
    BY <2>1, <2>5, <1>5 DEF Settle, Ended, NewStream
  <2>9. attaching' = "none" /\ commands' = <<"unsub">>
    <3>1. Handled(stream, left) /\ ~Handled(stream', left')
      BY <2>8, <1>5 DEF Handled
    <3>2. attaching' = "none" /\ commands' = Append(commands, "unsub")
      BY <3>1, <2>1, <1>4 DEF Settle
    <3> QED  BY <3>2, <1>5, Unsubscribed
  <2>10. WireInv'
    <3>1. ~Handled(stream', left') /\ \A s \in Stream : stream'[s].at # "attach"
      BY <2>8 DEF Handled
    <3> QED  BY <3>1, <2>9, <1>1, <1>4, <1>6 DEF WireInv
  <2>11. PlainTypes'
    <3>1. commands' \in Seq({"sub", "unsub"})
      BY <2>9
    <3> QED  BY <3>1, <2>9, <1>1, <1>2, <1>7 DEF Parts, PlainTypes, link, shown
  <2> QED  BY <2>6, <2>7, <2>10, <2>11, <1>8, <1>11, <1>12 DEF Parts
<1> QED  BY <1>13, <1>14

LEMMA NextParts == Parts /\ [Next]_vars => Parts'
<1> SUFFICES ASSUME Parts, [Next]_vars PROVE Parts'
  OBVIOUS
<1>1. ASSUME NEW kind \in Kinds, Publish(kind) PROVE Parts'
  BY <1>1, PublishInMemoryParts, PublishOnRedisParts DEF Publish
<1>2. ASSUME ServerGoesOn PROVE Parts'
  BY <1>2, RedisTakesParts, AttachedParts, DeliversParts, ReadsListParts, FlushesParts, HangsUpParts
  DEF ServerGoesOn
<1>3. ASSUME TimerFires PROVE Parts'
  <2>1. PICK s \in Stream : Opens(s, lastSeq)
    BY <1>3 DEF TimerFires
  <2>2. /\ timer' \in BOOLEAN
        /\ UNCHANGED <<redis, log, inbox, subscribed, start, shown, skipped>>
    BY <1>3 DEF TimerFires, shown
  <2> QED  BY <2>1, <2>2, ReopensParts
<1>4. ASSUME Connects PROVE Parts'
  <2>1. PICK s \in Stream : Opens(s, lastSeq)
    BY <1>4 DEF Connects
  <2>2. /\ timer' \in BOOLEAN
        /\ UNCHANGED <<redis, log, inbox, subscribed, start, shown, skipped>>
    BY <1>4 DEF Connects, shown, Parts, PlainTypes
  <2> QED  BY <2>1, <2>2, ReopensParts
<1>5. ASSUME ClientGoesOn PROVE Parts'
  BY <1>3, <1>5, SnapshotParts, AdoptsParts, ReadsParts, ErrsParts DEF ClientGoesOn, SeesEnd
<1>6. ASSUME NEW s \in Stream, Breaks(s) PROVE Parts'
  BY <1>6, ErrsParts DEF Breaks
<1>7. ASSUME UNCHANGED vars PROVE Parts'
  BY <1>7 DEF vars, wire, feeds, link, shown, Parts, PlainTypes, StreamsInv, Connected, WireInv, Handled,
              Acks, Answered, Rising, Seqs, KnownInv, FollowsLog
<1> QED  BY <1>1, <1>2, <1>4, <1>5, <1>6, <1>7, LosesParts, SnapshotParts, DisconnectParts DEF Next

LEMMA PartsAlways == Spec => []Parts
<1> QED  BY InitParts, NextParts, PTL DEF Spec

\* What a client waits for is on its way, in order, on every stream that has not been shut; and
\* the process is subscribed while, and only while, a handler needs it.
THEOREM FeedInvHolds == Spec => []FeedInv
<1> QED  BY PartsAlways, PartsImply, PTL

\* A client sees every event up to the last it saw, once, but for those it was told it may miss.
THEOREM ClientFollowsLog == Spec => []FollowsLog
<1> QED  BY PartsAlways, PartsImply, PTL

\* When nothing is on its way any more, a client that has a stream has caught up.
THEOREM ClientIsCaughtUp == Spec => []QuietIsCaughtUp
<1>1. Parts => QuietIsCaughtUp
  <2> SUFFICES ASSUME Parts, inbox = <<>>, source # NoStream,
                      \A s \in Stream : stream[s].at \in {"gone", "live"},
                      \A s \in open : stream[s].frames = <<>> /\ ~stream[s].shut,
                      NEW e \in Seqs
               PROVE  e \in known \cup missed \cup skipped
    BY DEF QuietIsCaughtUp
  <2>1. source \in open /\ source \in Stream
    BY DEF Parts, PlainTypes
  <2>2. PICK st \in StreamOf(Len(log)) :
              /\ st = stream[source]
              /\ CoveredInv(st, Len(log), lastSeq, missed, Elements(inbox))
    BY <2>1, Numbers
  <2>3. st.at = "live" /\ ~st.shut /\ st.frames = <<>>
    BY <2>1, <2>2 DEF Parts, Connected
  <2>4. st.got = {} /\ st.pending = {} /\ ~InFrames(st, e) /\ Elements(inbox) = {}
    <3>1. DOMAIN st.frames = {} /\ DOMAIN inbox = {}
      BY <2>3, EmptySeq
    <3> QED  BY <3>1, <2>2, <2>3 DEF CoveredInv, StageInv, InFrames, Elements
  <2>5. e <= lastSeq \/ e \in missed
    BY <2>2, <2>3, <2>4, Numbers DEF CoveredInv, Covers
  <2>6. e <= lastSeq => e \in 1..lastSeq
    BY Numbers
  <2> QED  BY <2>5, <2>6 DEF Parts, FollowsLog
<1> QED  BY <1>1, PartsAlways, PTL
=============================================================================
