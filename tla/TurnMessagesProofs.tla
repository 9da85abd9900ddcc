------------------------- MODULE TurnMessagesProofs -------------------------
(***************************************************************************)
(* Proofs about the messages TurnController handles: in which order an     *)
(* instance runs them, that each is in one place, what will run those that *)
(* wait, and what a turn is given.                                         *)
(***************************************************************************)
EXTENDS TurnControllerProofs, FiniteSetTheorems

(***************************************************************************)
(* Sorted sequences of messages and their elements.                        *)
(***************************************************************************)
LEMMA ElementsEmpty == Elements(<<>>) = {} /\ Sorted(<<>>)
BY DEF Elements, Sorted

LEMMA MessageNat == Message \subseteq Nat
BY ControllerAssumption DEF ControllerAssumption, Message

LEMMA Nonempty ==
  ASSUME NEW s \in Seq(Message), s # <<>>
  PROVE  Elements(s) # {} /\ Head(s) \in Elements(s) /\ s[Len(s)] \in Elements(s)
BY TailAt DEF Elements

LEMMA ElementsAppend ==
  ASSUME NEW s \in Seq(Message), NEW m \in Message
  PROVE  Elements(Append(s, m)) = Elements(s) \cup {m}
<1> DEFINE a == Append(s, m)
<1>1. /\ DOMAIN a = 1..(Len(s) + 1) /\ DOMAIN s = 1..Len(s) /\ Len(s) \in Nat
      /\ \A i \in DOMAIN s : a[i] = s[i]
      /\ a[Len(s) + 1] = m
  BY AppendAt
<1>2. \A i \in DOMAIN a : i \in DOMAIN s \/ i = Len(s) + 1
  BY <1>1
<1>3. DOMAIN s \subseteq DOMAIN a /\ Len(s) + 1 \in DOMAIN a
  BY <1>1
<1> HIDE DEF a
<1>4. Elements(a) = Elements(s) \cup {m}
  BY <1>1, <1>2, <1>3 DEF Elements
<1> QED  BY <1>4 DEF a

LEMMA SortedAppend ==
  ASSUME NEW s \in Seq(Message), NEW m \in Message, Sorted(s),
         Before(Elements(s), {m})
  PROVE  Sorted(Append(s, m))
<1>1. \A i \in DOMAIN s : s[i] < m
  BY DEF Before, Elements
<1> QED  BY <1>1, AppendAt DEF Sorted

LEMMA ElementsTail ==
  ASSUME NEW s \in Seq(Message), s # <<>>, Sorted(s)
  PROVE  /\ Elements(s) = Elements(Tail(s)) \cup {Head(s)}
         /\ Before({Head(s)}, Elements(Tail(s)))
         /\ Sorted(Tail(s))
         /\ Sorted(<<Head(s)>>) /\ Elements(<<Head(s)>>) = {Head(s)}
<1> DEFINE t == Tail(s)
<1>1. /\ Head(s) = s[1] /\ 1 \in DOMAIN s
      /\ DOMAIN t = 1..(Len(s) - 1) /\ DOMAIN s = 1..Len(s) /\ Len(s) \in Nat
      /\ \A i \in DOMAIN t : t[i] = s[i + 1]
  BY TailAt
<1>2. \A i \in DOMAIN s : i = 1 \/ (i - 1 \in DOMAIN t /\ s[i] = t[i - 1])
  BY <1>1
<1>3. \A i \in DOMAIN t : i + 1 \in DOMAIN s /\ t[i] = s[i + 1] /\ 1 < i + 1
  BY <1>1
<1> HIDE DEF t
<1>4. Elements(s) = Elements(t) \cup {Head(s)}
  BY <1>1, <1>2, <1>3 DEF Elements
<1>5. Before({Head(s)}, Elements(t))
  BY <1>1, <1>3 DEF Before, Elements, Sorted
<1>6. Sorted(t)
  BY <1>1, <1>3 DEF Sorted
<1>7. Sorted(<<Head(s)>>) /\ Elements(<<Head(s)>>) = {Head(s)}
  BY DEF Sorted, Elements
<1> QED  BY <1>4, <1>5, <1>6, <1>7 DEF t

LEMMA Concat ==
  ASSUME NEW s \in Seq(Message), NEW t \in Seq(Message)
  PROVE  /\ Elements(s \o t) = Elements(s) \cup Elements(t)
         /\ Sorted(s) /\ Sorted(t) /\ Before(Elements(s), Elements(t))
              => Sorted(s \o t)
<1> DEFINE c == s \o t
<1>1. /\ DOMAIN s = 1..Len(s) /\ DOMAIN t = 1..Len(t)
      /\ Len(s) \in Nat /\ Len(t) \in Nat
      /\ DOMAIN c = 1..(Len(s) + Len(t))
      /\ \A i \in DOMAIN c : c[i] = IF i <= Len(s) THEN s[i] ELSE t[i - Len(s)]
  BY ConcatProperties, LenProperties
<1>2. \A i \in DOMAIN c : \/ i \in DOMAIN s /\ c[i] = s[i]
                          \/ /\ i - Len(s) \in DOMAIN t /\ i > Len(s)
                             /\ c[i] = t[i - Len(s)]
  BY <1>1
<1>3. /\ \A i \in DOMAIN s : i \in DOMAIN c /\ c[i] = s[i]
      /\ \A i \in DOMAIN t : i + Len(s) \in DOMAIN c /\ c[i + Len(s)] = t[i]
  BY <1>1
<1> HIDE DEF c
<1>4. Elements(c) = Elements(s) \cup Elements(t)
  BY <1>1, <1>2, <1>3 DEF Elements
<1>5. ASSUME Sorted(s), Sorted(t), Before(Elements(s), Elements(t))
      PROVE  Sorted(c)
  <2> SUFFICES ASSUME NEW i \in DOMAIN c, NEW j \in DOMAIN c, i < j
               PROVE  c[i] < c[j]
    BY DEF Sorted
  <2>1. CASE j \in DOMAIN s /\ c[j] = s[j]
    <3>1. i \in DOMAIN s /\ c[i] = s[i]
      BY <1>1, <1>3, <2>1
    <3> QED  BY <1>5, <2>1, <3>1 DEF Sorted
  <2>2. CASE j - Len(s) \in DOMAIN t /\ j > Len(s) /\ c[j] = t[j - Len(s)]
    <3>1. CASE i \in DOMAIN s /\ c[i] = s[i]
      BY <1>5, <2>2, <3>1 DEF Before, Elements
    <3>2. CASE i - Len(s) \in DOMAIN t /\ c[i] = t[i - Len(s)]
      <4>1. i - Len(s) < j - Len(s)
        BY <1>1
      <4> QED  BY <1>5, <2>2, <3>2, <4>1 DEF Sorted
    <3> QED  BY <1>2, <3>1, <3>2
  <2> QED  BY <1>2, <2>1, <2>2
<1> QED  BY <1>4, <1>5 DEF c

(***************************************************************************)
(* The order and the sharing out of messages, step by step.                *)
(***************************************************************************)
\* What instance k has and has run does not change.
Untouched(k) ==
  queue'[k] = queue[k] /\ pending'[k] = pending[k] /\ ran'[k] = ran[k]

LEMMA InitMessages == Init => MessagesInv
<1> SUFFICES ASSUME Init PROVE MessagesInv
  OBVIOUS
<1>1. \A n \in Node : Held(n) = {}
  BY ElementsEmpty DEF Init, Held
<1>2. \A n \in Node : InOrder(n)
  BY ElementsEmpty DEF Init, InOrder, Before
<1> QED  BY <1>1, <1>2 DEF Init, MessagesInv, SharedOut

\* A step of n that hands out at most the next message, from n's to n's or to
\* those given up, keeps the invariant if n's are still in order.
LEMMA OneMoves ==
  ASSUME MessagesInv, NEW n \in Node, \A k \in Node \ {n} : Untouched(k),
         InOrder(n)', TypeOK, NEW new,
         \/ new = {} /\ arrivals' = arrivals
         \/ new = {arrivals + 1} /\ arrivals' = arrivals + 1,
         Held(n)' \cup dropped' = Held(n) \cup dropped \cup new,
         Held(n)' \subseteq Held(n) \cup new,
         Held(n)' \cap dropped' = {}
  PROVE  MessagesInv'
<1>1. \A k \in Node \ {n} : Held(k)' = Held(k) /\ (InOrder(k) => InOrder(k)')
  BY DEF Untouched, Held, InOrder
<1>2. \A k \in Node : Held(k) \subseteq 1..arrivals
  BY DEF MessagesInv, SharedOut
<1>3. 1..arrivals' = 1..arrivals \cup new /\ 1..arrivals \cap new = {}
  BY DEF TypeOK
<1>4. \A k, m \in Node : k # m => Held(k)' \cap Held(m)' = {}
  BY <1>1, <1>2, <1>3 DEF MessagesInv, SharedOut
<1>5. \A k \in Node : Held(k)' \cap dropped' = {}
  BY <1>1, <1>2, <1>3 DEF MessagesInv, SharedOut
<1>6. dropped' \cup UNION {Held(k)' : k \in Node} = 1..arrivals'
  <2>1. UNION {Held(k)' : k \in Node}
          = Held(n)' \cup UNION {Held(k) : k \in Node \ {n}}
    BY <1>1
  <2>2. UNION {Held(k) : k \in Node}
          = Held(n) \cup UNION {Held(k) : k \in Node \ {n}}
    OBVIOUS
  <2>3. dropped \cup UNION {Held(k) : k \in Node} = 1..arrivals
    BY DEF MessagesInv, SharedOut
  <2> QED  BY <1>3, <2>1, <2>2, <2>3
<1> QED  BY <1>1, <1>4, <1>5, <1>6 DEF MessagesInv, SharedOut

LEMMA Quiet ==
  ASSUME MessagesInv, UNCHANGED <<queue, pending, ran, dropped, arrivals>>
  PROVE  MessagesInv'
BY DEF MessagesInv, SharedOut, InOrder, Held

\* drain changes the queue to what it is given, and to nothing else.
LEMMA DrainQueue ==
  ASSUME TypeOK, NEW n \in Node, NEW q, Drain(n, q)
  PROVE  queue'[n] = q /\ \A k \in Node \ {n} : queue'[k] = queue[k]
BY DEF TypeOK, Drain

LEMMA SubmitMessages ==
  ASSUME TypeOK, MessagesInv, NEW n \in Node, Submit(n)
  PROVE  MessagesInv'
<1> DEFINE m == arrivals + 1
<1>1. /\ m \in Message /\ arrivals' = m /\ UNCHANGED ran
      /\ queue[n] \in Seq(Message) /\ pending[n] \in Seq(Message)
      /\ ran[n] \in Seq(Message) /\ arrivals \in Nat
  BY ControllerAssumption DEF ControllerAssumption, Submit, TypeOK, Message
<1>2. /\ Held(n) \subseteq 1..arrivals /\ dropped \subseteq 1..arrivals
      /\ Held(n) \cap dropped = {} /\ InOrder(n)
  BY DEF MessagesInv, SharedOut
<1>3. Before(Held(n), {m})
  BY <1>1, <1>2 DEF Before
<1> HIDE DEF m
<1>4. CASE SubmitToQueue(n, m)
  <2>1. UNCHANGED pending /\ Mode[n] \notin {"debounce", "batch"}
        /\ pending[n] = <<>>
    BY <1>2, <1>4 DEF SubmitToQueue, InOrder
  <2>2. CASE Mode[n] = "skip" /\ running[n]
    <3>1. UNCHANGED queue /\ dropped' = dropped \cup {m}
      BY <1>4, <2>2 DEF SubmitToQueue
    <3>2. InOrder(n)' /\ Held(n)' = Held(n)
      BY <1>1, <1>2, <2>1, <3>1 DEF InOrder, Held
    <3>3. m \notin Held(n)
      BY <1>1, <1>3, MessageNat DEF Before
    <3>4. \A k \in Node \ {n} : Untouched(k)
      BY <1>1, <2>1, <3>1 DEF Untouched
    <3>5. /\ Held(n)' \cup dropped' = Held(n) \cup dropped \cup {m}
          /\ Held(n)' \subseteq Held(n) \cup {m}
          /\ Held(n)' \cap dropped' = {}
      BY <1>2, <3>1, <3>2, <3>3
    <3> QED  BY <1>1, <3>2, <3>4, <3>5, OneMoves DEF m
  <2>3. CASE ~(Mode[n] = "skip" /\ running[n])
    <3>1. Drain(n, Append(queue[n], m)) /\ UNCHANGED dropped
      BY <1>4, <2>3 DEF SubmitToQueue
    <3>2. queue'[n] = Append(queue[n], m) /\ \A k \in Node \ {n} : Untouched(k)
      BY <1>1, <2>1, <3>1, DrainQueue DEF Untouched
    <3>3. Elements(queue'[n]) = Elements(queue[n]) \cup {m}
      BY <1>1, <3>2, ElementsAppend
    <3>4. Held(n)' = Held(n) \cup {m}
      BY <1>1, <2>1, <3>3 DEF Held
    <3>5. Sorted(queue'[n])
      BY <1>1, <1>2, <1>3, <3>2, SortedAppend DEF InOrder, Held, Before
    <3>6. InOrder(n)'
      BY <1>1, <1>2, <1>3, <2>1, <3>3, <3>5, ElementsEmpty DEF InOrder, Before, Held
    <3>7. m \notin dropped
      BY <1>1, <1>2 DEF m
    <3> QED  BY <1>1, <1>2, <3>1, <3>2, <3>4, <3>6, <3>7, OneMoves DEF m
  <2> QED  BY <2>2, <2>3
<1>5. CASE SubmitToWindow(n, m)
  <2> DEFINE p == Append(pending[n], m)
             full == Len(p) > MaxBatchSize
  <2>1. /\ UNCHANGED queue
        /\ pending'[n] = IF full THEN Tail(p) ELSE p
        /\ dropped' = IF full THEN dropped \cup {Head(p)} ELSE dropped
        /\ \A k \in Node \ {n} : Untouched(k)
        /\ Mode[n] \in {"debounce", "batch"}
    BY <1>1, <1>5 DEF SubmitToWindow, Untouched, TypeOK
  <2>2. Elements(p) = Elements(pending[n]) \cup {m}
    BY <1>1, ElementsAppend
  <2>3. Sorted(p)
    BY <1>1, <1>2, <1>3, SortedAppend DEF InOrder, Held, Before
  <2>4. p \in Seq(Message) /\ p # <<>>
    BY <1>1, AppendProperties
  <2>5. /\ Before(Elements(ran[n]), Elements(p))
        /\ Before(Elements(queue[n]), Elements(p))
    BY <1>2, <1>3, <2>2 DEF InOrder, Held, Before
  <2>6. m \notin dropped
    BY <1>1, <1>2 DEF m
  <2> HIDE DEF p
  <2>7. CASE full
    <3>1. /\ Elements(p) = Elements(Tail(p)) \cup {Head(p)}
          /\ Before({Head(p)}, Elements(Tail(p))) /\ Sorted(Tail(p))
          /\ Head(p) \in Nat
      BY <2>3, <2>4, ElementsTail, HeadTailProperties, MessageNat
    <3>2. Head(p) \notin Elements(Tail(p))
      BY <3>1 DEF Before
    <3>3. Head(p) \notin Elements(ran[n]) /\ Head(p) \notin Elements(queue[n])
      BY <2>5, <3>1 DEF Before
    <3>4. pending'[n] = Tail(p) /\ dropped' = dropped \cup {Head(p)}
      BY <2>1, <2>7
    <3>5. InOrder(n)'
      BY <1>1, <1>2, <2>1, <2>5, <3>1, <3>4 DEF InOrder, Before
    <3>6. Held(n)' = Elements(ran[n]) \cup Elements(queue[n]) \cup Elements(Tail(p))
      BY <1>1, <2>1, <3>4 DEF Held
    <3>7. Held(n) \cup {m} = Elements(ran[n]) \cup Elements(queue[n]) \cup Elements(p)
      BY <2>2 DEF Held
    <3>8. /\ Held(n)' \cup dropped' = Held(n) \cup dropped \cup {m}
          /\ Held(n)' \subseteq Held(n) \cup {m}
          /\ Held(n)' \cap dropped' = {}
      BY <1>2, <2>6, <3>1, <3>2, <3>3, <3>4, <3>6, <3>7
    <3> QED  BY <1>1, <2>1, <3>5, <3>8, OneMoves DEF m
  <2>8. CASE ~full
    <3>1. pending'[n] = p /\ dropped' = dropped
      BY <2>1, <2>8
    <3>2. InOrder(n)'
      BY <1>1, <1>2, <2>1, <2>3, <2>5, <3>1 DEF InOrder
    <3>3. Held(n)' = Held(n) \cup {m}
      BY <1>1, <2>1, <2>2, <3>1 DEF Held
    <3> QED  BY <1>1, <1>2, <2>1, <2>6, <3>1, <3>2, <3>3, OneMoves DEF m
  <2> QED  BY <2>7, <2>8
<1> QED  BY <1>4, <1>5 DEF Submit, m

LEMMA WindowMessages ==
  ASSUME TypeOK, MessagesInv, NEW n \in Node, WindowCloses(n)
  PROVE  MessagesInv'
<1> DEFINE p == pending[n]
           kept == IF Mode[n] = "debounce" /\ p # <<>> THEN <<p[Len(p)]>> ELSE p
<1>1. /\ UNCHANGED <<ran, arrivals>> /\ pending'[n] = <<>>
      /\ \A k \in Node \ {n} : pending'[k] = pending[k]
      /\ dropped' = dropped \cup (Elements(p) \ Elements(kept))
  BY DEF WindowCloses, TypeOK
<1>2. /\ Held(n) \cap dropped = {} /\ InOrder(n)
      /\ p \in Seq(Message) /\ queue[n] \in Seq(Message)
  BY DEF MessagesInv, SharedOut, TypeOK
<1>3. CASE p = <<>>
  <2>1. UNCHANGED <<queue, dropped>> /\ UNCHANGED pending
    BY <1>1, <1>3, ElementsEmpty DEF WindowCloses, TypeOK
  <2> QED  BY <1>1, <2>1, Quiet
<1>4. CASE p # <<>>
  <2>1. Drain(n, queue[n] \o kept)
    BY <1>4 DEF WindowCloses
  <2>2. kept \in Seq(Message) /\ Sorted(kept) /\ Elements(kept) \subseteq Elements(p)
    <3>1. p[Len(p)] \in Elements(p) /\ Elements(p) \subseteq Message
      BY <1>2, <1>4, Nonempty, ElementsType
    <3>2. Elements(<<p[Len(p)]>>) = {p[Len(p)]} /\ Sorted(<<p[Len(p)]>>)
      BY DEF Elements, Sorted
    <3> QED  BY <1>2, <3>1, <3>2 DEF InOrder
  <2>3. queue'[n] = queue[n] \o kept /\ \A k \in Node \ {n} : Untouched(k)
    BY <1>1, <2>1, DrainQueue DEF Untouched
  <2> HIDE DEF p, kept
  <2>4. Before(Elements(queue[n]), Elements(kept))
    BY <1>2, <2>2 DEF InOrder, Before, p
  <2>5. /\ Elements(queue'[n]) = Elements(queue[n]) \cup Elements(kept)
        /\ Sorted(queue'[n])
    BY <1>2, <2>2, <2>3, <2>4, Concat DEF InOrder
  <2>6. InOrder(n)'
    BY <1>1, <1>2, <2>2, <2>5, ElementsEmpty DEF InOrder, Before, p
  <2>7. /\ Held(n)' = Elements(ran[n]) \cup Elements(queue[n]) \cup Elements(kept)
        /\ Held(n) = Elements(ran[n]) \cup Elements(queue[n]) \cup Elements(p)
    BY <1>1, <2>5, ElementsEmpty DEF Held, p
  <2>8. (Elements(p) \ Elements(kept)) \cap (Elements(ran[n]) \cup Elements(queue[n])) = {}
    <3>1. Elements(p) \subseteq Nat
      BY <1>2, ElementsType, MessageNat
    <3> QED  BY <1>2, <3>1 DEF InOrder, Before, p
  <2>9. /\ Held(n)' \cup dropped' = Held(n) \cup dropped \cup {}
        /\ Held(n)' \subseteq Held(n) \cup {}
        /\ Held(n)' \cap dropped' = {}
    BY <1>1, <1>2, <2>2, <2>7, <2>8
  <2> QED  BY <1>1, <2>3, <2>6, <2>9, OneMoves
<1> QED  BY <1>3, <1>4

LEMMA RunsMessages ==
  ASSUME TypeOK, MessagesInv, NEW n \in Node, DrainRuns(n)
  PROVE  MessagesInv'
<1> DEFINE q == queue[n]
           taken == IF Mode[n] = "batch" \/ q = <<>> THEN q ELSE <<Head(q)>>
           rest == SubSeq(q, Len(taken) + 1, Len(q))
<1>1. /\ queue'[n] = rest /\ ran'[n] = ran[n] \o taken
      /\ UNCHANGED <<pending, dropped, arrivals>>
      /\ \A k \in Node \ {n} : Untouched(k)
  BY DEF DrainRuns, Untouched, TypeOK
<1>2. /\ Held(n) \cap dropped = {} /\ InOrder(n)
      /\ q \in Seq(Message) /\ ran[n] \in Seq(Message)
  BY DEF MessagesInv, SharedOut, TypeOK
<1>3. Sorted(q)
  BY <1>2 DEF InOrder
<1>4. /\ taken = q \/ (q # <<>> /\ taken = <<Head(q)>>)
      /\ rest = SubSeq(q, Len(taken) + 1, Len(q))
  OBVIOUS
<1> HIDE DEF taken, rest
<1>5. /\ taken \in Seq(Message)
      /\ Sorted(taken) /\ Sorted(rest)
      /\ Elements(q) = Elements(taken) \cup Elements(rest)
      /\ Before(Elements(taken), Elements(rest))
  <2>1. q \in Seq(Message) /\ Len(q) \in Nat
    BY <1>2, LenProperties
  <2> HIDE DEF q
  <2>2. CASE taken = q
    <3>1. rest = <<>>
      BY <1>4, <2>1, <2>2, SubSeqEmpty
    <3>2. Elements(rest) = {} /\ Sorted(rest)
      BY <3>1, ElementsEmpty
    <3> QED  BY <1>3, <2>1, <2>2, <3>2 DEF Before
  <2>3. CASE q # <<>> /\ taken = <<Head(q)>>
    <3>1. rest = Tail(q) /\ Head(q) \in Message
      BY <1>4, <2>1, <2>3, TailIsSubSeq, HeadTailProperties
    <3>2. taken \in Seq(Message)
      BY <2>3, <3>1
    <3> QED  BY <1>3, <2>1, <2>3, <3>1, <3>2, ElementsTail
  <2> QED  BY <1>4, <2>2, <2>3
<1>6. /\ Elements(ran'[n]) = Elements(ran[n]) \cup Elements(taken)
      /\ Sorted(ran'[n])
  <2>1. Before(Elements(ran[n]), Elements(taken))
    BY <1>2, <1>5 DEF InOrder, Before
  <2> QED  BY <1>1, <1>2, <1>5, <2>1, Concat DEF InOrder
<1>7. InOrder(n)'
  BY <1>1, <1>2, <1>5, <1>6 DEF InOrder, Before
<1>8. Held(n)' = Held(n)
  BY <1>1, <1>5, <1>6 DEF Held
<1> QED  BY <1>1, <1>2, <1>7, <1>8, OneMoves

LEMMA ClearedMessages ==
  ASSUME TypeOK, MessagesInv, NEW n \in Node, Interrupt(n) \/ Crash(n)
  PROVE  MessagesInv'
<1>1. /\ queue'[n] = <<>> /\ pending'[n] = <<>>
      /\ dropped' = dropped \cup Elements(queue[n]) \cup Elements(pending[n])
      /\ UNCHANGED <<ran, arrivals>>
      /\ \A k \in Node \ {n} : Untouched(k)
  BY DEF Interrupt, Crash, Untouched, TypeOK
<1>2. Held(n) \cap dropped = {} /\ InOrder(n) /\ ran[n] \in Seq(Message)
  BY DEF MessagesInv, SharedOut, TypeOK
<1>3. Held(n)' = Elements(ran[n])
  BY <1>1, ElementsEmpty DEF Held
<1>4. InOrder(n)'
  BY <1>1, <1>2, ElementsEmpty DEF InOrder, Before
<1>5. Elements(ran[n]) \cap (Elements(queue[n]) \cup Elements(pending[n])) = {}
  <2>1. Elements(ran[n]) \subseteq Nat
    BY <1>2, ElementsType, MessageNat
  <2> QED  BY <1>2, <2>1 DEF InOrder, Before
<1>6. /\ Held(n)' \cup dropped' = Held(n) \cup dropped \cup {}
      /\ Held(n)' \subseteq Held(n) \cup {}
      /\ Held(n)' \cap dropped' = {}
  BY <1>1, <1>2, <1>3, <1>5 DEF Held
<1> QED  BY <1>1, <1>4, <1>6, OneMoves

LEMMA StepMessages == TypeOK /\ MessagesInv /\ [Next]_vars => MessagesInv'
<1> SUFFICES ASSUME TypeOK, MessagesInv, [Next]_vars PROVE MessagesInv'
  OBVIOUS
<1>1. ASSUME NEW n \in Node, RetryFires(n) \/ Released(n)
      PROVE  MessagesInv'
  <2>1. Drain(n, queue[n]) /\ UNCHANGED <<pending, ran, dropped, arrivals>>
    BY <1>1 DEF RetryFires, Released, history
  <2>2. UNCHANGED queue
    BY <2>1 DEF Drain, TypeOK
  <2> QED  BY <2>1, <2>2, Quiet
<1>2. ASSUME NEW n \in Node,
             RunExplicit(n) \/ Serve(n) \/ DrainWaits(n) \/ ExplicitRuns(n)
               \/ ExplicitRefused(n) \/ RenewTick(n) \/ RenewAnswered(n)
               \/ \E t \in turns[n] : RunEnds(n, t)
      PROVE  MessagesInv'
  <2>1. UNCHANGED <<queue, pending, ran, dropped, arrivals>>
    BY <1>2 DEF RunExplicit, Serve, DrainWaits, ExplicitRuns, ExplicitRefused,
                RenewTick, RenewAnswered, RunEnds, local, history
  <2> QED  BY <2>1, Quiet
<1>3. CASE LeaseLapses \/ OrphanExpires \/ UNCHANGED vars
  <2>1. UNCHANGED <<queue, pending, ran, dropped, arrivals>>
    BY <1>3 DEF LeaseLapses, OrphanExpires, vars, local, history
  <2> QED  BY <2>1, Quiet
<1> QED  BY <1>1, <1>2, <1>3, SubmitMessages, WindowMessages, RunsMessages,
            ClearedMessages DEF Next, Instance

\* In every mode, what an instance still holds is in the order it arrived, and
\* every message is in one place or was given up: the invariant behind the two
\* theorems below.
THEOREM MessagesInvHolds == Spec => []MessagesInv
BY InitMessages, StepMessages, TypeCorrect, PTL DEF Spec

\* An instance runs its messages in the order they arrived, in every mode.
THEOREM InArrivalOrder == Spec => []ArrivalOrder
<1>1. MessagesInv => ArrivalOrder
  BY DEF MessagesInv, InOrder, Sorted, ArrivalOrder
<1> QED  BY <1>1, MessagesInvHolds, PTL

(***************************************************************************)
(* Each submitted message is in exactly one place.                         *)
(***************************************************************************)
LEMMA OnlyPlace ==
  ASSUME NEW s \in Seq(Message), Sorted(s), NEW i \in DOMAIN s
  PROVE  {j \in DOMAIN s : s[j] = s[i]} = {i}
<1>1. \A j \in DOMAIN s : s[j] \in Nat /\ j \in Nat
  <2>1. DOMAIN s = 1..Len(s) /\ Len(s) \in Nat /\ s \in [1..Len(s) -> Message]
    BY LenProperties
  <2>2. \A j \in DOMAIN s : s[j] \in Message
    BY <2>1
  <2>3. \A j \in DOMAIN s : j \in Nat
    BY <2>1
  <2> QED  BY <2>2, <2>3, MessageNat
<1> QED  BY <1>1 DEF Sorted

LEMMA NoPlace ==
  ASSUME NEW s, NEW m, m \notin Elements(s)
  PROVE  {j \in DOMAIN s : s[j] = m} = {}
BY DEF Elements

PlacesWaiting(m) == UNION {PlacesOn(n, m) : n \in Node}
PlacesDropped(m) == {<<"dropped", d>> : d \in dropped \cap {m}}

LEMMA NotHeld ==
  ASSUME NEW n \in Node, NEW m, m \notin Held(n)
  PROVE  PlacesOn(n, m) = {}
<1>1. /\ m \notin Elements(queue[n]) /\ m \notin Elements(pending[n])
      /\ m \notin Elements(ran[n])
  BY DEF Held
<1> QED  BY <1>1, NoPlace DEF PlacesOn

LEMMA HeldOnce ==
  ASSUME TypeOK, NEW n \in Node, InOrder(n), NEW m \in Held(n)
  PROVE  \E p : PlacesOn(n, m) = {p}
<1>1. /\ queue[n] \in Seq(Message) /\ pending[n] \in Seq(Message)
      /\ ran[n] \in Seq(Message)
      /\ Sorted(queue[n]) /\ Sorted(pending[n]) /\ Sorted(ran[n])
  BY DEF TypeOK, InOrder
<1>2. m \in Nat
  BY <1>1, ElementsType, MessageNat DEF Held
<1>3. /\ ~(m \in Elements(ran[n]) /\ m \in Elements(queue[n]))
      /\ ~(m \in Elements(ran[n]) /\ m \in Elements(pending[n]))
      /\ ~(m \in Elements(queue[n]) /\ m \in Elements(pending[n]))
  BY <1>2 DEF InOrder, Before
<1>4. CASE m \in Elements(queue[n])
  <2>1. PICK i \in DOMAIN queue[n] : queue[n][i] = m
    BY <1>4 DEF Elements
  <2>2. /\ {j \in DOMAIN queue[n] : queue[n][j] = m} = {i}
        /\ {j \in DOMAIN pending[n] : pending[n][j] = m} = {}
        /\ {j \in DOMAIN ran[n] : ran[n][j] = m} = {}
    BY <1>1, <1>3, <1>4, <2>1, OnlyPlace, NoPlace
  <2>3. PlacesOn(n, m) = {<<"queue", n, i>>}
    BY <2>2 DEF PlacesOn
  <2> QED  BY <2>3
<1>5. CASE m \in Elements(pending[n])
  <2>1. PICK i \in DOMAIN pending[n] : pending[n][i] = m
    BY <1>5 DEF Elements
  <2>2. /\ {j \in DOMAIN queue[n] : queue[n][j] = m} = {}
        /\ {j \in DOMAIN pending[n] : pending[n][j] = m} = {i}
        /\ {j \in DOMAIN ran[n] : ran[n][j] = m} = {}
    BY <1>1, <1>3, <1>5, <2>1, OnlyPlace, NoPlace
  <2>3. PlacesOn(n, m) = {<<"window", n, i>>}
    BY <2>2 DEF PlacesOn
  <2> QED  BY <2>3
<1>6. CASE m \in Elements(ran[n])
  <2>1. PICK i \in DOMAIN ran[n] : ran[n][i] = m
    BY <1>6 DEF Elements
  <2>2. /\ {j \in DOMAIN queue[n] : queue[n][j] = m} = {}
        /\ {j \in DOMAIN pending[n] : pending[n][j] = m} = {}
        /\ {j \in DOMAIN ran[n] : ran[n][j] = m} = {i}
    BY <1>1, <1>3, <1>6, <2>1, OnlyPlace, NoPlace
  <2>3. PlacesOn(n, m) = {<<"ran", n, i>>}
    BY <2>2 DEF PlacesOn
  <2> QED  BY <2>3
<1> QED  BY <1>4, <1>5, <1>6 DEF Held

\* Every submitted message waits on one instance, ran once on one, or was given
\* up: none is lost by a refused or failed lease and none is run twice, for any
\* number of instances and messages, in every mode.
THEOREM NoneLostNoneTwice == Spec => []EveryMessageOnce
<1>1. TypeOK /\ MessagesInv => EveryMessageOnce
  <2> SUFFICES ASSUME TypeOK, MessagesInv, NEW m \in 1..arrivals
               PROVE  \E p : Places(m) = {p}
    BY FS_Singleton DEF EveryMessageOnce
  <2>1. Places(m) = PlacesWaiting(m) \cup PlacesDropped(m)
    BY DEF Places, PlacesWaiting, PlacesDropped
  <2>2. CASE m \in dropped
    <3>1. \A n \in Node : m \notin Held(n)
      BY <2>2 DEF MessagesInv, SharedOut
    <3>2. PlacesWaiting(m) = {}
      BY <3>1, NotHeld DEF PlacesWaiting
    <3>3. dropped \cap {m} = {m}
      BY <2>2
    <3>4. PlacesDropped(m) = {<<"dropped", m>>}
      BY <3>3 DEF PlacesDropped
    <3>5. Places(m) = {<<"dropped", m>>}
      BY <2>1, <3>2, <3>4
    <3> QED  BY <3>5
  <2>3. CASE m \notin dropped
    <3>1. PICK n \in Node : m \in Held(n)
      BY <2>3 DEF MessagesInv, SharedOut
    <3>2. \A k \in Node \ {n} : PlacesOn(k, m) = {}
      BY <3>1, NotHeld DEF MessagesInv, SharedOut
    <3>3. PICK p : PlacesOn(n, m) = {p}
      BY <3>1, HeldOnce DEF MessagesInv
    <3>4. PlacesWaiting(m) = {p}
      BY <3>2, <3>3 DEF PlacesWaiting
    <3>5. PlacesDropped(m) = {}
      BY <2>3 DEF PlacesDropped
    <3>6. Places(m) = {p}
      BY <2>1, <3>4, <3>5
    <3> QED  BY <3>6
  <2> QED  BY <2>2, <2>3
<1> QED  BY <1>1, MessagesInvHolds, TypeCorrect, PTL

(***************************************************************************)
(* The commands and answers on their way.                                  *)
(***************************************************************************)
LEMMA ContainsAppend ==
  ASSUME NEW S, NEW s \in Seq(S), NEW e \in S, NEW ops
  PROVE  Contains(Append(s, e), ops) <=> e.op \in ops \/ Contains(s, ops)
<1>1. /\ DOMAIN Append(s, e) = 1..(Len(s) + 1)
      /\ DOMAIN s = 1..Len(s) /\ Len(s) \in Nat
      /\ \A i \in DOMAIN s : Append(s, e)[i] = s[i]
      /\ Append(s, e)[Len(s) + 1] = e
  BY AppendAt
<1> QED  BY <1>1 DEF Contains

LEMMA ContainsTail ==
  ASSUME NEW S, NEW s \in Seq(S), s # <<>>, NEW ops
  PROVE  Contains(s, ops) <=> Head(s).op \in ops \/ Contains(Tail(s), ops)
<1>1. /\ Head(s) = s[1] /\ 1 \in DOMAIN s
      /\ DOMAIN Tail(s) = 1..(Len(s) - 1) /\ DOMAIN s = 1..Len(s) /\ Len(s) \in Nat
      /\ \A i \in DOMAIN Tail(s) : Tail(s)[i] = s[i + 1]
  BY TailAt
<1>2. \A i \in DOMAIN s : i = 1 \/ (i - 1 \in DOMAIN Tail(s) /\ s[i] = Tail(s)[i - 1])
  BY <1>1
<1>3. \A i \in DOMAIN Tail(s) : i + 1 \in DOMAIN s
  BY <1>1
<1> QED  BY <1>1, <1>2, <1>3 DEF Contains

LEMMA ContainsEmpty == \A ops : ~Contains(<<>>, ops)
BY DEF Contains

LEMMA SendAdds ==
  ASSUME TypeOK, NEW n \in Node, NEW op \in Acquires \cup {"renew", "release"},
         NEW id \in Nat, Send(n, op, id)
  PROVE  /\ \A ops : Contains(sent'[n], ops) <=> op \in ops \/ Contains(sent[n], ops)
         /\ \A k \in Node \ {n} : sent'[k] = sent[k]
<1> DEFINE e == [op |-> op, turn |-> id]
<1>1. e \in Command /\ sent[n] \in Seq(Command) /\ e.op = op
  BY DEF Command, TypeOK
<1>2. sent'[n] = Append(sent[n], e) /\ \A k \in Node \ {n} : sent'[k] = sent[k]
  BY DEF Send, TypeOK
<1> HIDE DEF e
<1> QED  BY <1>1, <1>2, ContainsAppend

LEMMA ConsumeTakes ==
  ASSUME TypeOK, NEW n \in Node, NEW what, Answered(n, what), Consume(n)
  PROVE  /\ \A ops : Contains(answers[n], ops)
                       <=> Head(answers[n]).op \in ops \/ Contains(answers'[n], ops)
         /\ \A k \in Node \ {n} : answers'[k] = answers[k]
<1>1. answers[n] \in Seq(Answer) /\ answers[n] # <<>>
      /\ answers'[n] = Tail(answers[n])
      /\ \A k \in Node \ {n} : answers'[k] = answers[k]
  BY DEF TypeOK, Answered, Consume
<1> QED  BY <1>1, ContainsTail

\* What the backend executes goes from one wire to the other.
LEMMA ServeMoves ==
  ASSUME TypeOK, NEW n \in Node, Serve(n)
  PROVE  /\ \A ops : Contains(sent[n], ops) \/ Contains(answers[n], ops)
                       <=> Contains(sent'[n], ops) \/ Contains(answers'[n], ops)
         /\ \A k \in Node \ {n} : sent'[k] = sent[k] /\ answers'[k] = answers[k]
<1> DEFINE c == Head(sent[n])
           a(word) == [op |-> c.op, turn |-> c.turn, says |-> word]
<1>1. /\ sent[n] # <<>> /\ sent[n] \in Seq(Command) /\ answers[n] \in Seq(Answer)
      /\ sent'[n] = Tail(sent[n]) /\ \A k \in Node \ {n} : sent'[k] = sent[k]
  BY DEF Serve, TypeOK
<1>2. PICK word \in {"yes", "no", "error"} :
        answers' = [answers EXCEPT ![n] = Append(@, a(word))]
  BY DEF Serve
<1>3. /\ answers'[n] = Append(answers[n], a(word))
      /\ \A k \in Node \ {n} : answers'[k] = answers[k]
  BY <1>2 DEF TypeOK
<1>4. c \in Command
  BY <1>1, HeadTailProperties
<1>5. a(word) \in Answer /\ a(word).op = c.op
  BY <1>4 DEF Answer, Command
<1> HIDE DEF a
<1>6. \A ops : Contains(answers'[n], ops) <=> c.op \in ops \/ Contains(answers[n], ops)
  BY <1>1, <1>3, <1>5, ContainsAppend
<1>7. \A ops : Contains(sent[n], ops) <=> c.op \in ops \/ Contains(sent'[n], ops)
  BY <1>1, ContainsTail
<1> QED  BY <1>1, <1>3, <1>6, <1>7

LEMMA DrainSends ==
  ASSUME TypeOK, NEW n \in Node, NEW q, Drain(n, q)
  PROVE  /\ q # <<>> => running'[n]
         /\ \A ops : Contains(sent'[n], ops)
                       <=> Contains(sent[n], ops)
                           \/ (~running[n] /\ q # <<>> /\ "acquire" \in ops)
         /\ \A k \in Node \ {n} : /\ queue'[k] = queue[k] /\ sent'[k] = sent[k]
                                  /\ running'[k] = running[k]
<1>1. CASE running[n] \/ q = <<>>
  BY <1>1 DEF Drain, TypeOK
<1>2. CASE ~(running[n] \/ q = <<>>)
  <2>1. Send(n, "acquire", NoTurn) /\ running' = [running EXCEPT ![n] = TRUE]
        /\ queue' = [queue EXCEPT ![n] = q]
    BY <1>2 DEF Drain
  <2>2. /\ \A ops : Contains(sent'[n], ops) <=> "acquire" \in ops \/ Contains(sent[n], ops)
        /\ \A k \in Node \ {n} : sent'[k] = sent[k]
    BY <2>1, SendAdds DEF Acquires, NoTurn
  <2> QED  BY <1>2, <2>1, <2>2 DEF TypeOK
<1> QED  BY <1>1, <1>2

\* The answer to an acquisition is alone on the two wires.
LEMMA AnsweredAlone ==
  ASSUME TypeOK, SlotInv, NEW n \in Node, Answered(n, Acquires), Consume(n)
  PROVE  running[n] /\ turns[n] = {} /\ sent[n] = <<>> /\ answers'[n] = <<>>
<1>1. /\ running[n] \in BOOLEAN /\ sent[n] \in Seq(Command)
      /\ answers[n] \in Seq(Answer) /\ answers[n] # <<>>
      /\ Head(answers[n]).op \in Acquires /\ Slot(n)
      /\ answers'[n] = Tail(answers[n])
  BY DEF TypeOK, SlotInv, Answered, Consume
<1> QED  BY <1>1, SlotAnswered DEF Slot

\* A limit of zero forbids what it bounds.
LEMMA SpentOut ==
  ASSUME TypeOK, NEW what \in Budget, Limit[what] = 0
  PROVE  ~Spend(what)
BY DEF TypeOK, Spend

(***************************************************************************)
(* What waits is drained.  Without explicit turns: a message submitted     *)
(* while runExplicit waits for a lease it is then refused does strand.     *)
(***************************************************************************)
Drained(n) ==
  /\ pending[n] # <<>> => timer[n]
  /\ queue[n] # <<>> => \/ running[n] \/ retry[n]
                        \/ Contains(sent[n], {"release"})
                        \/ Contains(answers[n], {"release"})
  /\ ~Contains(sent[n], {"acquire_explicit"})
  /\ ~Contains(answers[n], {"acquire_explicit"})
DrainedInv == \A n \in Node : Drained(n)

\* A step of n leaves what the drains of k depend on alone.
Aside(k) ==
  /\ queue'[k] = queue[k] /\ pending'[k] = pending[k] /\ timer'[k] = timer[k]
  /\ running'[k] = running[k] /\ retry'[k] = retry[k]
  /\ sent'[k] = sent[k] /\ answers'[k] = answers[k]

LEMMA OthersDrained ==
  ASSUME DrainedInv, NEW n \in Node, \A k \in Node \ {n} : Aside(k), Drained(n)'
  PROVE  DrainedInv'
BY DEF DrainedInv, Drained, Aside

LEMMA StepDrained ==
  ASSUME MaxExplicits = 0
  PROVE  TurnInv /\ DrainedInv /\ [Next]_vars => DrainedInv'
<1> SUFFICES ASSUME TurnInv, DrainedInv, [Next]_vars PROVE DrainedInv'
  OBVIOUS
<1> USE TurnInv DEF TurnInv
<1>1. ASSUME NEW n \in Node, Submit(n)  PROVE DrainedInv'
  <2>1. Drained(n) /\ UNCHANGED <<retry, answers>>
    BY <1>1 DEF DrainedInv, Submit
  <2>2. CASE UNCHANGED <<queue, running, sent, pending, timer>>
    BY <2>1, <2>2, OthersDrained DEF Drained, Aside
  <2>3. CASE SubmitToWindow(n, arrivals + 1)
    <3>1. /\ timer'[n] /\ UNCHANGED <<queue, running, sent>>
          /\ \A k \in Node \ {n} : pending'[k] = pending[k] /\ timer'[k] = timer[k]
      BY <2>3 DEF SubmitToWindow, TypeOK
    <3> QED  BY <2>1, <3>1, OthersDrained DEF Drained, Aside
  <2>4. ASSUME NEW q, Drain(n, q), UNCHANGED <<pending, timer>>
        PROVE  DrainedInv'
    BY <2>1, <2>4, DrainSends, DrainQueue, OthersDrained DEF Drained, Aside
  <2> QED  BY <1>1, <2>2, <2>3, <2>4 DEF Submit, SubmitToQueue
<1>2. ASSUME NEW n \in Node, WindowCloses(n)  PROVE DrainedInv'
  <2>1. /\ Drained(n) /\ UNCHANGED <<retry, answers>> /\ pending'[n] = <<>>
        /\ \A k \in Node \ {n} : pending'[k] = pending[k] /\ timer'[k] = timer[k]
    BY <1>2 DEF DrainedInv, WindowCloses, TypeOK
  <2>2. CASE UNCHANGED <<queue, running, sent>>
    BY <2>1, <2>2, OthersDrained DEF Drained, Aside
  <2>3. ASSUME NEW q, Drain(n, q)
        PROVE  DrainedInv'
    BY <2>1, <2>3, DrainSends, DrainQueue, OthersDrained DEF Drained, Aside
  <2> QED  BY <1>2, <2>2, <2>3 DEF WindowCloses
<1>3. ASSUME NEW n \in Node, Interrupt(n) \/ Crash(n)  PROVE DrainedInv'
  <2>1. /\ queue'[n] = <<>> /\ pending'[n] = <<>>
        /\ \A k \in Node \ {n} : Aside(k)
        /\ \/ sent'[n] = sent[n] /\ answers'[n] = answers[n]
           \/ sent'[n] = <<>> /\ answers'[n] = <<>>
    BY <1>3 DEF Interrupt, Crash, wire, Aside, TypeOK
  <2> QED  BY <2>1, OthersDrained, ContainsEmpty DEF Drained, DrainedInv
<1>4. ASSUME NEW n \in Node, Serve(n)  PROVE DrainedInv'
  <2>1. UNCHANGED <<queue, pending, timer, running, retry>>
    BY <1>4 DEF Serve, local
  <2> QED  BY <1>4, <2>1, ServeMoves, OthersDrained DEF Drained, DrainedInv, Aside
<1>5. ASSUME NEW n \in Node, RetryFires(n) \/ Released(n)  PROVE DrainedInv'
  <2>1. /\ Drain(n, queue[n]) /\ Drained(n) /\ UNCHANGED <<pending, timer>>
        /\ \A k \in Node \ {n} : retry'[k] = retry[k]
    BY <1>5 DEF RetryFires, Released, DrainedInv, TypeOK
  <2>2. /\ \A k \in Node \ {n} : answers'[k] = answers[k]
        /\ \A ops : Contains(answers'[n], ops) => Contains(answers[n], ops)
    BY <1>5, ConsumeTakes DEF RetryFires, Released
  <2> QED  BY <2>1, <2>2, DrainSends, DrainQueue, OthersDrained DEF Drained, Aside
<1>6. ASSUME NEW n \in Node, DrainRuns(n)  PROVE DrainedInv'
  <2>1. Answered(n, Acquires) /\ Consume(n)
    BY <1>6 DEF DrainRuns, Answered, Acquires
  <2>2. /\ UNCHANGED <<pending, timer, running, retry, sent>> /\ Drained(n)
        /\ \A k \in Node \ {n} : queue'[k] = queue[k]
    BY <1>6 DEF DrainRuns, DrainedInv, TypeOK
  <2> QED  BY <2>1, <2>2, AnsweredAlone, ConsumeTakes, ContainsEmpty, OthersDrained
           DEF Drained, Aside
<1>7. ASSUME NEW n \in Node, DrainWaits(n)  PROVE DrainedInv'
  <2>1. /\ Answered(n, {"acquire"}) /\ Consume(n) /\ Drained(n) /\ retry'[n]
        /\ UNCHANGED <<queue, pending, timer, sent>>
        /\ \A k \in Node \ {n} : retry'[k] = retry[k] /\ running'[k] = running[k]
    BY <1>7 DEF DrainWaits, DrainedInv, TypeOK
  <2> QED  BY <2>1, ConsumeTakes, OthersDrained DEF Drained, Aside
<1>8. ASSUME NEW n \in Node, ExplicitRuns(n) \/ ExplicitRefused(n)  PROVE FALSE
  <2>1. answers[n] # <<>> /\ Head(answers[n]).op = "acquire_explicit"
        /\ answers[n] \in Seq(Answer)
    BY <1>8 DEF ExplicitRuns, ExplicitRefused, Answered, TypeOK
  <2>2. Contains(answers[n], {"acquire_explicit"})
    BY <2>1, ContainsTail
  <2> QED  BY <2>2 DEF DrainedInv, Drained
<1>9. ASSUME NEW n \in Node, RunExplicit(n)  PROVE FALSE
  BY <1>9, SpentOut DEF RunExplicit, Budget, Limit
<1>10. ASSUME NEW n \in Node, RenewTick(n)  PROVE DrainedInv'
  <2>1. PICK id \in renewing[n] :
          /\ Send(n, "renew", id)
          /\ UNCHANGED <<local, answers, leaseVars, arrivals, used, history>>
    BY <1>10 DEF RenewTick
  <2>2. id \in Nat
    BY DEF TypeOK
  <2>3. /\ \A ops : Contains(sent'[n], ops) <=> "renew" \in ops \/ Contains(sent[n], ops)
        /\ \A k \in Node \ {n} : sent'[k] = sent[k]
    BY <2>1, <2>2, SendAdds
  <2> QED  BY <2>1, <2>3, OthersDrained DEF Drained, DrainedInv, Aside, local
<1>11. ASSUME NEW n \in Node, RenewAnswered(n)  PROVE DrainedInv'
  <2>1. /\ Answered(n, {"renew"}) /\ Consume(n) /\ Drained(n)
        /\ UNCHANGED <<queue, pending, timer, running, retry, sent>>
    BY <1>11 DEF RenewAnswered, DrainedInv
  <2>2. Head(answers[n]).op = "renew"
    BY <2>1 DEF Answered
  <2> QED  BY <2>1, <2>2, ConsumeTakes, OthersDrained DEF Drained, Aside
<1>12. ASSUME NEW n \in Node, NEW t \in turns[n], RunEnds(n, t)  PROVE DrainedInv'
  <2>1. /\ Send(n, "release", t.id) /\ UNCHANGED <<queue, pending, timer, retry, answers>>
        /\ \A k \in Node \ {n} : running'[k] = running[k]
    BY <1>12 DEF RunEnds, TypeOK
  <2>2. t.id \in Nat
    BY DEF TypeOK, Turn
  <2>3. /\ \A ops : Contains(sent'[n], ops) <=> "release" \in ops \/ Contains(sent[n], ops)
        /\ \A k \in Node \ {n} : sent'[k] = sent[k]
    BY <2>1, <2>2, SendAdds
  <2> QED  BY <2>1, <2>3, OthersDrained DEF Drained, DrainedInv, Aside
<1>13. CASE LeaseLapses \/ OrphanExpires \/ UNCHANGED vars
  BY <1>13 DEF LeaseLapses, OrphanExpires, vars, local, wire, DrainedInv, Drained
<1> QED  BY <1>1, <1>2, <1>3, <1>4, <1>5, <1>6, <1>7, <1>8, <1>9, <1>10, <1>11,
            <1>12, <1>13 DEF Next, Instance

\* Where no host runs explicit turns, a message that waits always has something
\* that will drain it, whatever lease commands fail and instances crash.
THEOREM NoneStranded ==
  ASSUME MaxExplicits = 0
  PROVE  Spec => []NothingStranded
<1>1. Init => DrainedInv
  BY ContainsEmpty DEF Init, DrainedInv, Drained
<1>2. TurnInv /\ DrainedInv /\ [Next]_vars => DrainedInv'
  BY StepDrained
<1>3. DrainedInv => NothingStranded
  BY DEF DrainedInv, Drained, NothingStranded, ReleaseOnItsWay, Contains
<1> QED  BY <1>1, <1>2, <1>3, TurnInvHolds, PTL DEF Spec

(***************************************************************************)
(* A turn is given what was waiting.  Without interrupts: one that clears  *)
(* the queue while the lease is asked for leaves drain nothing to take.    *)
(***************************************************************************)
Carries(t) == t.msgs # <<>> /\ Undefined \notin Elements(t.msgs)

Carrying(n) ==
  /\ Contains(sent[n], {"acquire"}) \/ Contains(answers[n], {"acquire"})
       => queue[n] # <<>>
  /\ \A t \in turns[n] : Carries(t)
CarryInv == \A n \in Node : Carrying(n)

LEMMA OthersCarry ==
  ASSUME CarryInv, NEW n \in Node, Carrying(n)',
         \A k \in Node \ {n} : /\ queue'[k] = queue[k] /\ turns'[k] = turns[k]
                               /\ sent'[k] = sent[k] /\ answers'[k] = answers[k]
  PROVE  CarryInv'
BY DEF CarryInv, Carrying

\* Aborting changes no turn's messages.
LEMMA AbortingCarries ==
  ASSUME TypeOK, NEW n \in Node, \A t \in turns[n] : Carries(t),
         NEW why, turns' = Aborting(n, why)
  PROVE  /\ \A t \in turns'[n] : Carries(t)
         /\ \A k \in Node \ {n} : turns'[k] = turns[k]
<1>1. \A t \in Turn : [t EXCEPT !.signal = why].msgs = t.msgs
  BY DEF Turn
<1>2. /\ turns'[n] = {IF t.id = abort[n] /\ t.signal = "live"
                        THEN [t EXCEPT !.signal = why] ELSE t : t \in turns[n]}
      /\ turns[n] \subseteq Turn /\ \A k \in Node \ {n} : turns'[k] = turns[k]
  BY DEF Aborting, TypeOK
<1>3. ASSUME NEW u \in turns'[n]  PROVE Carries(u)
  <2>1. PICK t \in turns[n] : u = IF t.id = abort[n] /\ t.signal = "live"
                                    THEN [t EXCEPT !.signal = why] ELSE t
    BY <1>2
  <2>2. u.msgs = t.msgs
    BY <1>1, <1>2, <2>1
  <2> QED  BY <2>2 DEF Carries
<1> QED  BY <1>2, <1>3

\* drain, when no message left the queue before it.
LEMMA DrainCarries ==
  ASSUME TurnInv, CarryInv, NEW n \in Node, NEW q, Drain(n, q),
         queue[n] # <<>> => q # <<>>,
         \A ops : Contains(answers'[n], ops) => Contains(answers[n], ops),
         \A k \in Node \ {n} : answers'[k] = answers[k] /\ turns'[k] = turns[k],
         \A t \in turns'[n] : Carries(t)
  PROVE  CarryInv'
<1>1. TypeOK /\ Carrying(n)
  BY DEF TurnInv, CarryInv
<1> QED  BY <1>1, DrainQueue, DrainSends, OthersCarry DEF Carrying

LEMMA StepCarry ==
  ASSUME MaxInterrupts = 0
  PROVE  TurnInv /\ CarryInv /\ [Next]_vars => CarryInv'
<1> SUFFICES ASSUME TurnInv, CarryInv, [Next]_vars PROVE CarryInv'
  OBVIOUS
<1> USE TurnInv DEF TurnInv
<1>1. ASSUME NEW n \in Node, Submit(n)  PROVE CarryInv'
  <2>1. /\ Carrying(n) /\ UNCHANGED answers /\ queue[n] \in Seq(Message)
        /\ arrivals + 1 \in Message
    BY <1>1, ControllerAssumption
       DEF ControllerAssumption, CarryInv, Submit, TypeOK, Message
  <2>2. CASE UNCHANGED <<queue, sent, turns>>
    BY <2>1, <2>2 DEF CarryInv, Carrying
  <2>3. ASSUME Drain(n, Append(queue[n], arrivals + 1)),
               UNCHANGED turns \/ turns' = Aborting(n, "preempted")
        PROVE  CarryInv'
    <3>1. Append(queue[n], arrivals + 1) # <<>>
      BY <2>1, AppendProperties
    <3>2. /\ \A t \in turns'[n] : Carries(t)
          /\ \A k \in Node \ {n} : turns'[k] = turns[k]
      BY <2>1, <2>3, AbortingCarries DEF Carrying
    <3> QED  BY <2>1, <2>3, <3>1, <3>2, DrainCarries
  <2> QED  BY <1>1, <2>2, <2>3 DEF Submit, SubmitToQueue, SubmitToWindow
<1>2. ASSUME NEW n \in Node, WindowCloses(n)  PROVE CarryInv'
  <2>1. /\ Carrying(n) /\ UNCHANGED <<turns, answers>>
        /\ queue[n] \in Seq(Message) /\ pending[n] \in Seq(Message)
    BY <1>2 DEF CarryInv, WindowCloses, TypeOK
  <2>2. CASE UNCHANGED <<queue, sent>>
    BY <2>1, <2>2 DEF CarryInv, Carrying
  <2>3. CASE pending[n] # <<>>
    <3>1. PICK w \in Seq(Message) : Drain(n, queue[n] \o w)
      <4>1. <<pending[n][Len(pending[n])]>> \in Seq(Message)
        BY <2>1, <2>3, Nonempty, ElementsType
      <4> QED  BY <1>2, <2>1, <2>3, <4>1 DEF WindowCloses
    <3>2. queue[n] # <<>> => queue[n] \o w # <<>>
      BY <2>1, ConcatProperties, ConcatEmptySeq, EmptySeq, LenProperties
    <3> QED  BY <2>1, <3>1, <3>2, DrainCarries DEF Carrying
  <2> QED  BY <1>2, <2>2, <2>3 DEF WindowCloses
<1>3. ASSUME NEW n \in Node, Interrupt(n)  PROVE FALSE
  BY <1>3, SpentOut DEF Interrupt, Budget, Limit
<1>4. ASSUME NEW n \in Node, Crash(n)  PROVE CarryInv'
  <2>1. /\ sent'[n] = <<>> /\ answers'[n] = <<>> /\ turns'[n] = {}
        /\ \A k \in Node \ {n} : /\ queue'[k] = queue[k] /\ turns'[k] = turns[k]
                                 /\ sent'[k] = sent[k] /\ answers'[k] = answers[k]
    BY <1>4 DEF Crash, TypeOK
  <2> QED  BY <2>1, ContainsEmpty, OthersCarry DEF Carrying
<1>5. ASSUME NEW n \in Node, Serve(n)  PROVE CarryInv'
  <2>1. UNCHANGED <<queue, turns>>
    BY <1>5 DEF Serve, local
  <2> QED  BY <1>5, <2>1, ServeMoves, OthersCarry DEF Carrying, CarryInv
<1>6. ASSUME NEW n \in Node, RetryFires(n) \/ Released(n)  PROVE CarryInv'
  <2>1. Drain(n, queue[n]) /\ UNCHANGED turns /\ Carrying(n)
    BY <1>6 DEF RetryFires, Released, CarryInv
  <2>2. /\ \A k \in Node \ {n} : answers'[k] = answers[k]
        /\ \A ops : Contains(answers'[n], ops) => Contains(answers[n], ops)
    BY <1>6, ConsumeTakes DEF RetryFires, Released
  <2> QED  BY <2>1, <2>2, DrainCarries DEF Carrying
<1>7. ASSUME NEW n \in Node, DrainRuns(n) \/ ExplicitRuns(n)  PROVE CarryInv'
  <2> DEFINE q == queue[n]
             taken == IF Mode[n] = "batch" \/ q = <<>> THEN q ELSE <<Head(q)>>
             given == IF Mode[n] # "batch" /\ q = <<>> THEN <<Undefined>> ELSE taken
  <2>1. /\ Answered(n, Acquires) /\ Consume(n) /\ UNCHANGED sent
        /\ \A k \in Node \ {n} : queue'[k] = queue[k]
    BY <1>7 DEF DrainRuns, ExplicitRuns, Answered, Acquires, TypeOK
  <2>2. /\ turns[n] = {} /\ sent'[n] = <<>> /\ answers'[n] = <<>>
        /\ \A k \in Node \ {n} : answers'[k] = answers[k]
    BY <2>1, AnsweredAlone, ConsumeTakes
  <2>3. PICK msgs : /\ StartTurn(n, msgs)
                    /\ \/ DrainRuns(n) /\ msgs = given
                       \/ ExplicitRuns(n) /\ msgs = <<Host>>
    BY <1>7 DEF DrainRuns, ExplicitRuns
  <2>4. msgs # <<>> /\ Undefined \notin Elements(msgs)
    <3>1. CASE DrainRuns(n) /\ msgs = given
      <4>1. Answered(n, {"acquire"}) /\ answers[n] \in Seq(Answer)
            /\ q \in Seq(Message)
        BY <3>1 DEF DrainRuns, TypeOK
      <4>2. Contains(answers[n], {"acquire"})
        BY <4>1, ContainsTail DEF Answered
      <4>3. q # <<>>
        BY <4>2 DEF CarryInv, Carrying
      <4>4. msgs # <<>> /\ msgs \in Seq(Message)
        <5>1. <<Head(q)>> \in Seq(Message)
          BY <4>1, <4>3, HeadTailProperties
        <5> QED  BY <3>1, <4>1, <4>3, <5>1
      <4>5. Undefined \notin Message
        BY ControllerAssumption, MessageNat DEF ControllerAssumption
      <4> QED  BY <4>4, <4>5, ElementsType
    <3>2. CASE msgs = <<Host>>
      BY <3>2, ControllerAssumption DEF ControllerAssumption, Elements
    <3> QED  BY <2>3, <3>1, <3>2
  <2>5. /\ \A t \in turns'[n] : t.msgs = msgs
        /\ \A k \in Node \ {n} : turns'[k] = turns[k]
    <3> HIDE DEF given
    <3> QED  BY <2>2, <2>3 DEF StartTurn, TypeOK
  <2> HIDE DEF given
  <2> QED  BY <2>1, <2>2, <2>4, <2>5, ContainsEmpty, OthersCarry
           DEF Carrying, Carries
<1>8. ASSUME NEW n \in Node, DrainWaits(n) \/ ExplicitRefused(n)  PROVE CarryInv'
  <2>1. PICK what : Answered(n, what) /\ Consume(n) /\ UNCHANGED <<queue, sent, turns>>
    BY <1>8 DEF DrainWaits, ExplicitRefused
  <2> QED  BY <2>1, ConsumeTakes, OthersCarry DEF CarryInv, Carrying
<1>9. ASSUME NEW n \in Node, RenewAnswered(n)  PROVE CarryInv'
  <2>1. /\ Answered(n, {"renew"}) /\ Consume(n) /\ UNCHANGED <<queue, sent>>
        /\ Carrying(n)
        /\ UNCHANGED turns \/ turns' = Aborting(n, "lease_lost")
    BY <1>9 DEF RenewAnswered, CarryInv
  <2>2. /\ \A t \in turns'[n] : Carries(t)
        /\ \A k \in Node \ {n} : turns'[k] = turns[k]
    BY <2>1, AbortingCarries DEF Carrying
  <2> QED  BY <2>1, <2>2, ConsumeTakes, OthersCarry DEF Carrying
<1>10. ASSUME NEW n \in Node,
              RunExplicit(n) \/ RenewTick(n) \/ \E t \in turns[n] : RunEnds(n, t)
       PROVE  CarryInv'
  <2>1. PICK op \in {"acquire_explicit", "renew", "release"}, id \in Nat : Send(n, op, id)
    <3>1. renewing[n] \subseteq Nat /\ \A t \in turns[n] : t.id \in Nat
      BY DEF TypeOK, Turn
    <3> QED  BY <1>10, <3>1 DEF RunExplicit, RenewTick, RunEnds, NoTurn
  <2>2. /\ UNCHANGED <<queue, answers>> /\ Carrying(n)
        /\ turns'[n] \subseteq turns[n]
        /\ \A k \in Node \ {n} : turns'[k] = turns[k]
    <3>1. UNCHANGED <<queue, answers>> /\ Carrying(n)
      BY <1>10 DEF RunExplicit, RenewTick, RunEnds, local, CarryInv
    <3>2. UNCHANGED turns \/ \E t : turns' = [turns EXCEPT ![n] = @ \ {t}]
      BY <1>10 DEF RunExplicit, RenewTick, RunEnds, local
    <3> QED  BY <3>1, <3>2 DEF TypeOK
  <2>3. /\ Contains(sent'[n], {"acquire"}) => Contains(sent[n], {"acquire"})
        /\ \A k \in Node \ {n} : sent'[k] = sent[k]
    BY <2>1, SendAdds DEF Acquires
  <2> QED  BY <2>2, <2>3, OthersCarry DEF Carrying
<1>11. CASE LeaseLapses \/ OrphanExpires \/ UNCHANGED vars
  BY <1>11 DEF LeaseLapses, OrphanExpires, vars, local, wire, CarryInv, Carrying
<1> QED  BY <1>1, <1>2, <1>3, <1>4, <1>5, <1>6, <1>7, <1>8, <1>9, <1>10, <1>11
         DEF Next, Instance

\* Where nobody interrupts, the runner is never called without a message, nor
\* with one that is undefined.
THEOREM EveryTurnCarries ==
  ASSUME MaxInterrupts = 0
  PROVE  Spec => []TurnsCarryMessages
<1>1. Init => CarryInv
  BY ContainsEmpty DEF Init, CarryInv, Carrying
<1>2. TurnInv /\ CarryInv /\ [Next]_vars => CarryInv'
  BY StepCarry
<1>3. CarryInv => TurnsCarryMessages
  BY DEF CarryInv, Carrying, Carries, TurnsCarryMessages
<1> QED  BY <1>1, <1>2, <1>3, TurnInvHolds, PTL DEF Spec
=============================================================================
