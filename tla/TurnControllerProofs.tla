------------------------ MODULE TurnControllerProofs ------------------------
(***************************************************************************)
(* Proofs about TurnController, for any set of instances, any mode and any *)
(* value of the bounds.                                                    *)
(***************************************************************************)
EXTENDS TurnController, SequenceTheorems, TLAPS

(***************************************************************************)
(* Type correctness.                                                       *)
(***************************************************************************)
LEMMA InitType == Init => TypeOK
BY ControllerAssumption DEF ControllerAssumption, Init, LeaseInit, TypeOK, LeaseTypeOK, NoTurn, Message

LEMMA SpendType ==
  ASSUME TypeOK, NEW what \in Budget, Spend(what)
  PROVE  used' \in [Budget -> Nat]
BY DEF TypeOK, Spend

LEMMA SendType ==
  ASSUME TypeOK, NEW n \in Node, NEW op \in Acquires \cup {"renew", "release"},
         NEW id \in Nat, Send(n, op, id)
  PROVE  sent' \in [Node -> Seq(Command)]
<1>1. [op |-> op, turn |-> id] \in Command
  BY DEF Command
<1>2. sent[n] \in Seq(Command)
  BY DEF TypeOK
<1>3. Append(sent[n], [op |-> op, turn |-> id]) \in Seq(Command)
  BY <1>1, <1>2, AppendProperties
<1> QED  BY <1>3 DEF TypeOK, Send

LEMMA ConsumeType ==
  ASSUME TypeOK, NEW n \in Node, answers[n] # <<>>, Consume(n)
  PROVE  answers' \in [Node -> Seq(Answer)]
<1>1. Tail(answers[n]) \in Seq(Answer)
  BY HeadTailProperties DEF TypeOK
<1> QED  BY <1>1 DEF TypeOK, Consume

LEMMA AbortingType ==
  ASSUME TypeOK, NEW n \in Node, NEW why \in Signals
  PROVE  Aborting(n, why) \in [Node -> SUBSET Turn]
<1>1. ASSUME NEW t \in Turn
      PROVE  [t EXCEPT !.signal = why] \in Turn
  BY DEF Turn
<1>2. {IF t.id = abort[n] /\ t.signal = "live"
         THEN [t EXCEPT !.signal = why] ELSE t : t \in turns[n]} \in SUBSET Turn
  BY <1>1 DEF TypeOK
<1> QED  BY <1>2 DEF TypeOK, Aborting

LEMMA DrainType ==
  ASSUME TypeOK, NEW n \in Node, NEW q \in Seq(Message), Drain(n, q)
  PROVE  /\ queue' \in [Node -> Seq(Message)]
         /\ running' \in [Node -> BOOLEAN]
         /\ sent' \in [Node -> Seq(Command)]
<1>1. CASE running[n] \/ q = <<>>
  BY <1>1 DEF Drain, TypeOK
<1>2. CASE ~(running[n] \/ q = <<>>)
  <2>1. Send(n, "acquire", NoTurn)
    BY <1>2 DEF Drain
  <2>2. sent' \in [Node -> Seq(Command)]
    BY <2>1, SendType DEF NoTurn, Acquires
  <2> QED  BY <1>2, <2>2 DEF Drain, TypeOK
<1> QED  BY <1>1, <1>2

LEMMA StartType ==
  ASSUME TypeOK, NEW n \in Node,
         NEW msgs \in Seq(Message \cup {Host, Undefined}), StartTurn(n, msgs)
  PROVE  /\ turnNo' \in [Node -> Nat]
         /\ abort' \in [Node -> Nat]
         /\ renewing' \in [Node -> SUBSET Nat]
         /\ turns' \in [Node -> SUBSET Turn]
<1>1. turnNo[n] + 1 \in Nat
  BY DEF TypeOK
<1>2. [id |-> turnNo[n] + 1, msgs |-> msgs, signal |-> "live"] \in Turn
  BY <1>1 DEF Turn, Signals
<1> QED  BY <1>1, <1>2 DEF TypeOK, StartTurn

LEMMA ElementsType ==
  ASSUME NEW S, NEW s \in Seq(S)
  PROVE  Elements(s) \subseteq S
BY LenProperties DEF Elements

LEMMA LeaseStepType ==
  ASSUME TypeOK, NEW n \in Node, NEW op, NEW yes \in BOOLEAN,
         Executes(n, op, yes)
  PROVE  LeaseTypeOK'
BY DEF TypeOK, LeaseTypeOK, Executes, Acquire, Renew, Release, leaseVars

LEMMA SubmitType ==
  ASSUME TypeOK, NEW n \in Node, Submit(n)
  PROVE  TypeOK'
<1> DEFINE m == arrivals + 1
<1>1. /\ m \in Message
      /\ arrivals' \in 0..MaxMessages
  BY ControllerAssumption DEF ControllerAssumption, Submit, TypeOK, Message
<1>2. /\ Append(queue[n], m) \in Seq(Message)
      /\ Append(pending[n], m) \in Seq(Message)
  BY <1>1, AppendProperties DEF TypeOK
<1>3. UNCHANGED <<retry, abort, turnNo, renewing, answers, leaseVars, used, ran>>
  BY DEF Submit
<1>4. CASE SubmitToQueue(n, m)
  <2>1. UNCHANGED <<pending, timer>>
    BY <1>4 DEF SubmitToQueue
  <2>2. CASE Mode[n] = "skip" /\ running[n]
    <3>1. /\ dropped' \subseteq Message
          /\ UNCHANGED <<queue, running, sent, turns>>
      BY <1>1, <1>4, <2>2 DEF SubmitToQueue, TypeOK
    <3> QED  BY <1>1, <1>3, <2>1, <3>1 DEF TypeOK, LeaseTypeOK, leaseVars
  <2>3. CASE ~(Mode[n] = "skip" /\ running[n])
    <3>1. /\ turns' = IF Mode[n] = "preempt" /\ running[n]
                        THEN Aborting(n, "preempted") ELSE turns
          /\ Drain(n, Append(queue[n], m))
          /\ UNCHANGED dropped
      BY <1>4, <2>3 DEF SubmitToQueue
    <3>2. turns' \in [Node -> SUBSET Turn]
      BY <3>1, AbortingType DEF TypeOK, Signals
    <3>3. /\ queue' \in [Node -> Seq(Message)]
          /\ running' \in [Node -> BOOLEAN]
          /\ sent' \in [Node -> Seq(Command)]
      BY <1>2, <3>1, DrainType
    <3> QED  BY <1>1, <1>3, <2>1, <3>1, <3>2, <3>3 DEF TypeOK, LeaseTypeOK, leaseVars
  <2> QED  BY <2>2, <2>3
<1>5. CASE SubmitToWindow(n, m)
  <2> DEFINE p == Append(pending[n], m)
  <2>1. /\ p # <<>>
        /\ Head(p) \in Message
        /\ Tail(p) \in Seq(Message)
    <3>1. pending[n] \in Seq(Message)
      BY DEF TypeOK
    <3>2. p # <<>>
      BY <1>1, <3>1, AppendProperties
    <3>3. p \in Seq(Message)
      BY <1>2
    <3> HIDE DEF p
    <3> QED  BY <3>2, <3>3, HeadTailProperties
  <2>2. /\ pending' \in [Node -> Seq(Message)]
        /\ dropped' \subseteq Message
        /\ timer' \in [Node -> BOOLEAN]
        /\ UNCHANGED <<queue, running, sent, turns>>
    <3>1. /\ pending' = [pending EXCEPT ![n] =
                            IF Len(p) > MaxBatchSize THEN Tail(p) ELSE p]
          /\ dropped' = IF Len(p) > MaxBatchSize THEN dropped \cup {Head(p)}
                                                 ELSE dropped
          /\ timer' = [timer EXCEPT ![n] = TRUE]
          /\ UNCHANGED <<queue, running, sent, turns>>
      BY <1>5 DEF SubmitToWindow
    <3> HIDE DEF p
    <3> QED  BY <1>2, <2>1, <3>1 DEF TypeOK
  <2> QED  BY <1>1, <1>3, <2>2 DEF TypeOK, LeaseTypeOK, leaseVars
<1> QED  BY <1>4, <1>5 DEF Submit

LEMMA WindowType ==
  ASSUME TypeOK, NEW n \in Node, WindowCloses(n)
  PROVE  TypeOK'
<1> DEFINE p == pending[n]
           kept == IF Mode[n] = "debounce" /\ p # <<>> THEN <<p[Len(p)]>> ELSE p
<1>1. /\ UNCHANGED <<retry, abort, turns, turnNo, renewing, answers, leaseVars,
                     arrivals, used, ran>>
      /\ timer' \in [Node -> BOOLEAN]
      /\ pending' \in [Node -> Seq(Message)]
  BY DEF WindowCloses, TypeOK
<1>2. p \in Seq(Message) /\ kept \in Seq(Message)
  <2>1. p \in Seq(Message)
    BY DEF TypeOK
  <2>2. ASSUME p # <<>>  PROVE p[Len(p)] \in Message
    <3>1. Len(p) \in 1..Len(p)
      BY <2>1, <2>2, EmptySeq, LenProperties
    <3> QED  BY <2>1, <3>1, ElementOfSeq
  <2> QED  BY <2>1, <2>2
<1>3. dropped' \subseteq Message
  BY <1>2, ElementsType DEF WindowCloses, TypeOK
<1>4. queue[n] \o kept \in Seq(Message)
  BY <1>2, ConcatProperties DEF TypeOK
<1>5. /\ queue' \in [Node -> Seq(Message)]
      /\ running' \in [Node -> BOOLEAN]
      /\ sent' \in [Node -> Seq(Command)]
  <2>1. CASE p = <<>>
    BY <2>1 DEF WindowCloses, TypeOK
  <2>2. CASE p # <<>>
    <3>1. Drain(n, queue[n] \o kept)
      BY <2>2 DEF WindowCloses
    <3> QED  BY <1>4, <3>1, DrainType
  <2> QED  BY <2>1, <2>2
<1> QED  BY <1>1, <1>3, <1>5 DEF TypeOK, LeaseTypeOK, leaseVars

LEMMA AnsweredRunsType ==
  ASSUME TypeOK, NEW n \in Node, DrainRuns(n) \/ ExplicitRuns(n)
  PROVE  TypeOK'
<1>1. answers' \in [Node -> Seq(Answer)]
  BY ConsumeType DEF DrainRuns, ExplicitRuns, Answered
<1>2. /\ UNCHANGED <<running, pending, timer, retry, sent, leaseVars, arrivals,
                     used, dropped>>
  BY DEF DrainRuns, ExplicitRuns, history
<1>3. CASE ExplicitRuns(n)
  <2>1. /\ StartTurn(n, <<Host>>)
        /\ UNCHANGED <<queue, ran>>
    BY <1>3 DEF ExplicitRuns, history
  <2>2. <<Host>> \in Seq(Message \cup {Host, Undefined})
    OBVIOUS
  <2> QED  BY <1>1, <1>2, <2>1, <2>2, StartType DEF TypeOK, LeaseTypeOK, leaseVars
<1>4. CASE DrainRuns(n)
  <2> DEFINE q == queue[n]
             taken == IF Mode[n] = "batch" \/ q = <<>> THEN q ELSE <<Head(q)>>
             msgs == IF Mode[n] # "batch" /\ q = <<>> THEN <<Undefined>> ELSE taken
  <2>1. q \in Seq(Message) /\ taken \in Seq(Message)
    BY HeadTailProperties DEF TypeOK
  <2>2. msgs \in Seq(Message \cup {Host, Undefined})
    <3>1. taken \in Seq(Message \cup {Host, Undefined})
      BY <2>1, SeqMonotonic
    <3>2. <<Undefined>> \in Seq(Message \cup {Host, Undefined})
      OBVIOUS
    <3> QED  BY <3>1, <3>2
  <2>3. /\ StartTurn(n, msgs)
        /\ queue' = [queue EXCEPT ![n] = SubSeq(q, Len(taken) + 1, Len(q))]
        /\ ran' = [ran EXCEPT ![n] = @ \o taken]
    BY <1>4 DEF DrainRuns
  <2>4. SubSeq(q, Len(taken) + 1, Len(q)) \in Seq(Message)
    <3>1. Len(taken) \in Nat /\ Len(q) \in Nat
      BY <2>1, LenProperties
    <3>2. \A i \in (Len(taken) + 1)..Len(q) : q[i] \in Message
      BY <2>1, <3>1, ElementOfSeq
    <3> HIDE DEF q, taken
    <3> QED  BY <3>1, <3>2, SubSeqProperties
  <2>5. ran[n] \o taken \in Seq(Message)
    BY <2>1, ConcatProperties DEF TypeOK
  <2>6. /\ queue' \in [Node -> Seq(Message)]
        /\ ran' \in [Node -> Seq(Message)]
    <3> HIDE DEF q, taken, msgs
    <3> QED  BY <2>3, <2>4, <2>5 DEF TypeOK
  <2> QED  BY <1>1, <1>2, <2>2, <2>3, <2>6, StartType DEF TypeOK, LeaseTypeOK, leaseVars
<1> QED  BY <1>3, <1>4

LEMMA ServeType ==
  ASSUME TypeOK, NEW n \in Node, Serve(n)
  PROVE  TypeOK'
<1> DEFINE c == Head(sent[n])
           Says(word) == answers' = [answers EXCEPT ![n] =
                           Append(@, [op |-> c.op, turn |-> c.turn, says |-> word])]
<1>1. /\ c \in Command
      /\ sent' \in [Node -> Seq(Command)]
      /\ UNCHANGED <<local, arrivals, history>>
  BY HeadTailProperties DEF Serve, TypeOK
<1>2. ASSUME NEW word \in {"yes", "no", "error"}, Says(word)
      PROVE  answers' \in [Node -> Seq(Answer)]
  <2>1. [op |-> c.op, turn |-> c.turn, says |-> word] \in Answer
    BY <1>1 DEF Command, Answer
  <2>2. Append(answers[n], [op |-> c.op, turn |-> c.turn, says |-> word])
          \in Seq(Answer)
    BY <2>1, AppendProperties DEF TypeOK
  <2> QED  BY <1>2, <2>2 DEF TypeOK
<1>3. /\ LeaseTypeOK'
      /\ answers' \in [Node -> Seq(Answer)]
      /\ used' \in [Budget -> Nat]
  <2>1. CASE /\ \E yes \in BOOLEAN : /\ Executes(n, c.op, yes)
                                     /\ Says(IF yes THEN "yes" ELSE "no")
             /\ UNCHANGED used
    <3>1. PICK yes \in BOOLEAN : /\ Executes(n, c.op, yes)
                                 /\ Says(IF yes THEN "yes" ELSE "no")
      BY <2>1
    <3>2. used' \in [Budget -> Nat]
      BY <2>1 DEF TypeOK
    <3> QED  BY <1>2, <3>1, <3>2, LeaseStepType
  <2>2. CASE /\ Spend("faults")
             /\ Says("error")
             /\ UNCHANGED leaseVars \/ \E yes \in BOOLEAN : Executes(n, c.op, yes)
    <3>1. LeaseTypeOK'
      <4>1. CASE UNCHANGED leaseVars
        BY <4>1 DEF TypeOK, LeaseTypeOK, leaseVars
      <4>2. CASE \E yes \in BOOLEAN : Executes(n, c.op, yes)
        BY <4>2, LeaseStepType
      <4> QED  BY <2>2, <4>1, <4>2
    <3> QED  BY <1>2, <2>2, <3>1, SpendType DEF Budget
  <2> QED  BY <2>1, <2>2 DEF Serve
<1> QED  BY <1>1, <1>3 DEF TypeOK, local, history

LEMMA CrashType ==
  ASSUME TypeOK, NEW n \in Node, Crash(n)
  PROVE  TypeOK'
<1>1. LeaseTypeOK'
  BY DEF Crash, Orphan, TypeOK, LeaseTypeOK
<1>2. used' \in [Budget -> Nat]
  BY SpendType DEF Crash, Budget
<1>3. dropped' \subseteq Message
  <2>1. Elements(queue[n]) \subseteq Message /\ Elements(pending[n]) \subseteq Message
    BY ElementsType DEF TypeOK
  <2> QED  BY <2>1 DEF Crash, TypeOK
<1>4. /\ queue' \in [Node -> Seq(Message)] /\ pending' \in [Node -> Seq(Message)]
      /\ sent' \in [Node -> Seq(Command)] /\ answers' \in [Node -> Seq(Answer)]
  BY DEF Crash, TypeOK
<1>5. /\ running' \in [Node -> BOOLEAN] /\ timer' \in [Node -> BOOLEAN]
      /\ retry' \in [Node -> BOOLEAN] /\ abort' \in [Node -> Nat]
      /\ turns' \in [Node -> SUBSET Turn] /\ renewing' \in [Node -> SUBSET Nat]
      /\ UNCHANGED <<turnNo, arrivals, ran>>
  BY DEF Crash, TypeOK, NoTurn
<1> QED  BY <1>1, <1>2, <1>3, <1>4, <1>5 DEF TypeOK

LEMMA StepType == TypeOK /\ [Next]_vars => TypeOK'
<1> SUFFICES ASSUME TypeOK, [Next]_vars PROVE TypeOK'
  OBVIOUS
<1>1. ASSUME NEW n \in Node, RunExplicit(n)  PROVE TypeOK'
  <2>1. sent' \in [Node -> Seq(Command)]
    BY <1>1, SendType DEF RunExplicit, Acquires, NoTurn
  <2>2. used' \in [Budget -> Nat]
    BY <1>1, SpendType DEF RunExplicit, Budget
  <2> QED  BY <1>1, <2>1, <2>2
           DEF RunExplicit, TypeOK, LeaseTypeOK, leaseVars, history
<1>2. ASSUME NEW n \in Node, Interrupt(n)  PROVE TypeOK'
  <2>1. used' \in [Budget -> Nat]
    BY <1>2, SpendType DEF Interrupt, Budget
  <2>2. turns' \in [Node -> SUBSET Turn]
    BY <1>2, AbortingType DEF Interrupt, Signals
  <2>3. dropped' \subseteq Message
    <3>1. Elements(queue[n]) \subseteq Message /\ Elements(pending[n]) \subseteq Message
      BY ElementsType DEF TypeOK
    <3> QED  BY <1>2, <3>1 DEF Interrupt, TypeOK
  <2>4. queue' \in [Node -> Seq(Message)] /\ pending' \in [Node -> Seq(Message)]
    BY <1>2 DEF Interrupt, TypeOK
  <2> QED  BY <1>2, <2>1, <2>2, <2>3, <2>4
           DEF Interrupt, TypeOK, LeaseTypeOK, leaseVars, wire
<1>3. ASSUME NEW n \in Node, DrainWaits(n) \/ ExplicitRefused(n)  PROVE TypeOK'
  <2>1. answers' \in [Node -> Seq(Answer)]
    BY <1>3, ConsumeType DEF DrainWaits, ExplicitRefused, Answered
  <2> QED  BY <1>3, <2>1 DEF DrainWaits, ExplicitRefused, TypeOK, LeaseTypeOK,
                             leaseVars, history
<1>4. ASSUME NEW n \in Node, RetryFires(n) \/ Released(n)  PROVE TypeOK'
  <2>1. Drain(n, queue[n]) /\ queue[n] \in Seq(Message)
    BY <1>4 DEF RetryFires, Released, TypeOK
  <2>2. /\ queue' \in [Node -> Seq(Message)]
        /\ running' \in [Node -> BOOLEAN]
        /\ sent' \in [Node -> Seq(Command)]
    BY <2>1, DrainType
  <2>3. answers' \in [Node -> Seq(Answer)] /\ retry' \in [Node -> BOOLEAN]
    BY <1>4, ConsumeType DEF RetryFires, Released, Answered, TypeOK
  <2> QED  BY <1>4, <2>2, <2>3
           DEF RetryFires, Released, TypeOK, LeaseTypeOK, leaseVars, history
<1>5. ASSUME NEW n \in Node, RenewTick(n)  PROVE TypeOK'
  <2>1. PICK id \in renewing[n] :
          /\ Send(n, "renew", id)
          /\ UNCHANGED <<local, answers, leaseVars, arrivals, used, history>>
    BY <1>5 DEF RenewTick
  <2>2. id \in Nat
    BY DEF TypeOK
  <2>3. sent' \in [Node -> Seq(Command)]
    BY <2>1, <2>2, SendType
  <2> QED  BY <2>1, <2>3 DEF TypeOK, LeaseTypeOK, leaseVars, local, history
<1>6. ASSUME NEW n \in Node, RenewAnswered(n)  PROVE TypeOK'
  <2>1. answers' \in [Node -> Seq(Answer)]
    BY <1>6, ConsumeType DEF RenewAnswered, Answered
  <2>2. turns' \in [Node -> SUBSET Turn]
    BY <1>6, AbortingType DEF RenewAnswered, Signals, TypeOK
  <2> QED  BY <1>6, <2>1, <2>2
           DEF RenewAnswered, TypeOK, LeaseTypeOK, leaseVars, history
<1>7. ASSUME NEW n \in Node, NEW t \in turns[n], RunEnds(n, t)  PROVE TypeOK'
  <2>1. t.id \in Nat
    BY DEF TypeOK, Turn
  <2>2. sent' \in [Node -> Seq(Command)]
    BY <1>7, <2>1, SendType DEF RunEnds
  <2>3. /\ turns' \in [Node -> SUBSET Turn]
        /\ renewing' \in [Node -> SUBSET Nat]
        /\ running' \in [Node -> BOOLEAN]
        /\ abort' \in [Node -> Nat]
    BY <1>7 DEF RunEnds, TypeOK, NoTurn
  <2> QED  BY <1>7, <2>2, <2>3
           DEF RunEnds, TypeOK, LeaseTypeOK, leaseVars, history
<1>8. CASE LeaseLapses \/ OrphanExpires
  <2>1. LeaseTypeOK' /\ used' \in [Budget -> Nat]
    BY <1>8, SpendType DEF LeaseLapses, OrphanExpires, Expire, Budget, TypeOK,
                           LeaseTypeOK
  <2> QED  BY <1>8, <2>1
           DEF LeaseLapses, OrphanExpires, TypeOK, local, wire, history
<1>9. CASE UNCHANGED vars
  BY <1>9 DEF vars, local, wire, leaseVars, history, TypeOK, LeaseTypeOK
<1> QED  BY <1>1, <1>2, <1>3, <1>4, <1>5, <1>6, <1>7, <1>8, <1>9, SubmitType,
            WindowType, AnsweredRunsType, ServeType, CrashType DEF Next, Instance

\* Every variable keeps its type, whatever the mode, the set of instances and
\* the bounds.
THEOREM TypeCorrect == Spec => []TypeOK
BY InitType, StepType, PTL DEF Spec

(***************************************************************************)
(* The slot of one instance, case by case (SlotOf is about values only).   *)
(***************************************************************************)
LEMMA AppendAt ==
  ASSUME NEW S, NEW s \in Seq(S), NEW e \in S
  PROVE  /\ DOMAIN Append(s, e) = 1..(Len(s) + 1)
         /\ Len(Append(s, e)) = Len(s) + 1
         /\ DOMAIN s = 1..Len(s) /\ Len(s) \in Nat
         /\ \A i \in DOMAIN s : Append(s, e)[i] = s[i]
         /\ Append(s, e)[Len(s) + 1] = e
BY AppendProperties, LenProperties

LEMMA TailAt ==
  ASSUME NEW S, NEW s \in Seq(S), s # <<>>
  PROVE  /\ Head(s) = s[1] /\ 1 \in DOMAIN s
         /\ DOMAIN Tail(s) = 1..(Len(s) - 1)
         /\ Len(Tail(s)) = Len(s) - 1
         /\ DOMAIN s = 1..Len(s) /\ Len(s) \in Nat
         /\ \A i \in DOMAIN Tail(s) : Tail(s)[i] = s[i + 1]
         /\ Len(s) = 1 => Tail(s) = <<>>
<1>1. Tail(s) \in Seq(S) /\ Len(Tail(s)) = Len(s) - 1
  BY HeadTailProperties
<1>2. Len(s) \in Nat /\ Len(s) # 0 /\ DOMAIN s = 1..Len(s)
  BY LenProperties, EmptySeq
<1>3. Len(s) = 1 => Tail(s) = <<>>
  <2>1. Tail(s) # <<>> => Len(Tail(s)) \in Nat \ {0}
    BY <1>1, EmptySeq
  <2> QED  BY <1>1, <2>1
<1>4. DOMAIN Tail(s) = 1..Len(Tail(s))
  BY <1>1, LenProperties
<1> QED  BY <1>1, <1>2, <1>3, <1>4, HeadTailProperties

LEMMA TailOnlyLast ==
  ASSUME NEW S, NEW s \in Seq(S), s # <<>>, OnlyLast(s)
  PROVE  OnlyLast(Tail(s))
BY TailAt DEF OnlyLast

LEMMA SlotEmpty == SlotOf(FALSE, {}, <<>>, <<>>, {}, NoTurn)
BY DEF SlotOf, Contains, AllRenewalsOf, OnlyLast

LEMMA SlotClaim ==
  ASSUME NEW T, NEW out \in Seq(Command), NEW in \in Seq(Answer), NEW armed,
         NEW ctl, SlotOf(FALSE, T, out, in, armed, ctl),
         NEW e \in Command, e.op \in Acquires
  PROVE  SlotOf(TRUE, T, Append(out, e), in, armed, ctl)
<1>1. T = {} /\ ~Contains(out, Acquires) /\ ~Contains(in, Acquires)
  BY DEF SlotOf
<1>2. OnlyLast(Append(out, e))
  BY <1>1, AppendAt DEF OnlyLast, Contains
<1> QED  BY <1>1, <1>2 DEF SlotOf

LEMMA SlotConsume ==
  ASSUME NEW flag \in BOOLEAN, NEW T, NEW out \in Seq(Command),
         NEW in \in Seq(Answer), NEW armed, NEW ctl,
         SlotOf(flag, T, out, in, armed, ctl),
         in # <<>>, Head(in).op \notin Acquires
  PROVE  SlotOf(flag, T, out, Tail(in), armed, ctl)
<1>1. Contains(Tail(in), Acquires) => Contains(in, Acquires)
  BY TailAt DEF Contains
<1>2. OnlyLast(in) => OnlyLast(Tail(in))
  BY TailOnlyLast
<1>3. ASSUME NEW id, AllRenewalsOf(in, id)
      PROVE  AllRenewalsOf(Tail(in), id)
  BY <1>3, TailAt DEF AllRenewalsOf
<1> QED  BY <1>1, <1>2, <1>3 DEF SlotOf

\* The answer to an acquisition is the last thing on the wire, and no turn is on.
LEMMA SlotAnswered ==
  ASSUME NEW flag \in BOOLEAN, NEW T, NEW out \in Seq(Command),
         NEW in \in Seq(Answer), NEW armed, NEW ctl,
         SlotOf(flag, T, out, in, armed, ctl),
         in # <<>>, Head(in).op \in Acquires
  PROVE  flag /\ T = {} /\ out = <<>> /\ Tail(in) = <<>> /\ armed = {}
<1>1. Contains(in, Acquires) /\ OnlyLast(in)
  BY TailAt DEF SlotOf, Contains
<1>2. Tail(in) = <<>>
  BY <1>1, TailAt DEF OnlyLast
<1> QED  BY <1>1, <1>2 DEF SlotOf

LEMMA SlotStart ==
  ASSUME NEW t
  PROVE  SlotOf(TRUE, {t}, <<>>, <<>>, {t.id}, t.id)
<1>1. /\ ~Contains(<<>>, Acquires) /\ OnlyLast(<<>>)
      /\ AllRenewalsOf(<<>>, t.id)
  BY DEF Contains, AllRenewalsOf, OnlyLast
<1>2. {t.id} = {u.id : u \in {t}}
  OBVIOUS
<1> QED  BY <1>1, <1>2, Zenon DEF SlotOf

LEMMA SlotServe ==
  ASSUME NEW flag \in BOOLEAN, NEW T, NEW out \in Seq(Command),
         NEW in \in Seq(Answer), NEW armed, NEW ctl,
         SlotOf(flag, T, out, in, armed, ctl), out # <<>>,
         NEW e \in Answer, e.op = Head(out).op, e.turn = Head(out).turn
  PROVE  SlotOf(flag, T, Tail(out), Append(in, e), armed, ctl)
<1>1. ~Contains(in, Acquires)
  BY DEF SlotOf
<1>2. Contains(Tail(out), Acquires) => Contains(out, Acquires)
  BY TailAt DEF Contains
<1>3. Contains(Append(in, e), Acquires) => Contains(out, Acquires)
  BY <1>1, TailAt, AppendAt DEF Contains
<1>4. OnlyLast(out) => OnlyLast(Tail(out))
  BY TailOnlyLast
<1>5. OnlyLast(Append(in, e))
  BY <1>1, AppendAt DEF OnlyLast, Contains
<1>6. OnlyLast(out) /\ Contains(Append(in, e), Acquires) => Tail(out) = <<>>
  <2>1. Contains(Append(in, e), Acquires) => e.op \in Acquires
    BY <1>1, AppendAt DEF Contains
  <2> QED  BY <2>1, TailAt DEF OnlyLast
<1>7. ASSUME NEW id, AllRenewalsOf(out, id), AllRenewalsOf(in, id)
      PROVE  AllRenewalsOf(Tail(out), id) /\ AllRenewalsOf(Append(in, e), id)
  BY <1>7, TailAt, AppendAt DEF AllRenewalsOf
<1> QED  BY <1>2, <1>3, <1>4, <1>5, <1>6, <1>7 DEF SlotOf

LEMMA SlotTick ==
  ASSUME NEW flag \in BOOLEAN, NEW T, NEW out \in Seq(Command),
         NEW in \in Seq(Answer), NEW armed, NEW ctl,
         SlotOf(flag, T, out, in, armed, ctl), NEW id \in armed,
         NEW e \in Command, e.op = "renew", e.turn = id
  PROVE  SlotOf(flag, T, Append(out, e), in, armed, ctl)
<1>1. PICK t \in T : t.id = id
  BY DEF SlotOf
<1>2. T = {t} /\ AllRenewalsOf(out, id) /\ AllRenewalsOf(in, id) /\ flag
  BY <1>1 DEF SlotOf
<1>3. AllRenewalsOf(Append(out, e), id)
  BY <1>2, AppendAt DEF AllRenewalsOf
<1>4. /\ ~Contains(Append(out, e), Acquires) /\ OnlyLast(Append(out, e))
      /\ ~Contains(in, Acquires)
  BY <1>2, <1>3 DEF AllRenewalsOf, Contains, OnlyLast, Acquires
<1> QED  BY <1>1, <1>2, <1>3, <1>4 DEF SlotOf

LEMMA SlotEnd ==
  ASSUME NEW flag \in BOOLEAN, NEW T, NEW out \in Seq(Command),
         NEW in \in Seq(Answer), NEW armed, NEW ctl,
         SlotOf(flag, T, out, in, armed, ctl), NEW t \in T,
         NEW e \in Command, e.op = "release"
  PROVE  SlotOf(FALSE, T \ {t}, Append(out, e), in, armed \ {t.id}, NoTurn)
<1>1. /\ T = {t} /\ armed = {t.id}
      /\ AllRenewalsOf(out, t.id) /\ AllRenewalsOf(in, t.id)
  BY DEF SlotOf
<1>2. /\ ~Contains(Append(out, e), Acquires) /\ OnlyLast(Append(out, e))
  BY <1>1, AppendAt DEF AllRenewalsOf, Contains, OnlyLast, Acquires
<1>3. ~Contains(in, Acquires) /\ OnlyLast(in)
  BY <1>1 DEF AllRenewalsOf, Contains, OnlyLast, Acquires
<1>4. T \ {t} = {} /\ armed \ {t.id} = {}
  BY <1>1
<1>5. {} = {u.id : u \in {}}
  OBVIOUS
<1> QED  BY <1>2, <1>3, <1>4, <1>5, Zenon DEF SlotOf

\* The turns after an abort: no turn is changed but in its signal.
Aborted(T, ctl, why) == {IF t.id = ctl /\ t.signal = "live"
                           THEN [t EXCEPT !.signal = why] ELSE t : t \in T}

LEMMA SlotAborting ==
  ASSUME NEW flag \in BOOLEAN, NEW T \in SUBSET Turn, NEW out, NEW in, NEW armed,
         NEW ctl, SlotOf(flag, T, out, in, armed, ctl), NEW why
  PROVE  SlotOf(flag, Aborted(T, ctl, why), out, in, armed, ctl)
<1> DEFINE A(t) == IF t.id = ctl /\ t.signal = "live"
                     THEN [t EXCEPT !.signal = why] ELSE t
<1>1. \A t \in T : A(t).id = t.id
  BY DEF Turn
<1> HIDE DEF A
<1>2. SlotOf(flag, {A(t) : t \in T}, out, in, armed, ctl)
  <2>1. {A(t).id : t \in T} = {t.id : t \in T}
    BY <1>1
  <2>2. {u.id : u \in {A(t) : t \in T}} = {A(t).id : t \in T}
    OBVIOUS
  <2>3. {A(t) : t \in T} = {} <=> T = {}
    OBVIOUS
  <2>4. \A u \in {A(t) : t \in T} : \E t \in T : u.id = t.id
    BY <1>1
  <2>5. (\A t, u \in T : t = u) => \A t, u \in {A(v) : v \in T} : t = u
    OBVIOUS
  <2> QED  BY <2>1, <2>2, <2>3, <2>4, <2>5 DEF SlotOf
<1> QED  BY <1>2 DEF A, Aborted

\* A step of n leaves the slots of the others alone.
Same(k) == /\ running'[k] = running[k] /\ turns'[k] = turns[k]
           /\ sent'[k] = sent[k] /\ answers'[k] = answers[k]
           /\ renewing'[k] = renewing[k] /\ abort'[k] = abort[k]

LEMMA OtherSlots ==
  ASSUME SlotInv, NEW n \in Node, \A k \in Node \ {n} : Same(k), Slot(n)'
  PROVE  SlotInv'
BY DEF SlotInv, Slot, Same

LEMMA DrainSlot ==
  ASSUME TypeOK, NEW n \in Node, NEW q, Drain(n, q), NEW in \in Seq(Answer),
         SlotOf(running[n], turns[n], sent[n], in, renewing[n], abort[n])
  PROVE  /\ SlotOf(running'[n], turns[n], sent'[n], in, renewing[n], abort[n])
         /\ \A k \in Node \ {n} : running'[k] = running[k] /\ sent'[k] = sent[k]
<1>1. CASE running[n] \/ q = <<>>
  BY <1>1 DEF Drain
<1>2. CASE ~(running[n] \/ q = <<>>)
  <2> DEFINE e == [op |-> "acquire", turn |-> NoTurn]
  <2>1. /\ running' = [running EXCEPT ![n] = TRUE]
        /\ sent' = [sent EXCEPT ![n] = Append(@, e)]
    BY <1>2 DEF Drain, Send
  <2>2. e \in Command /\ e.op \in Acquires
    BY DEF Command, Acquires, NoTurn
  <2>3. running[n] = FALSE /\ sent[n] \in Seq(Command)
    BY <1>2 DEF TypeOK
  <2>4. SlotOf(TRUE, turns[n], Append(sent[n], e), in, renewing[n], abort[n])
    BY <2>2, <2>3, SlotClaim
  <2> QED  BY <2>1, <2>4 DEF TypeOK
<1> QED  BY <1>1, <1>2

LEMMA AbortingSlot ==
  ASSUME TypeOK, SlotInv, NEW n \in Node, NEW why, turns' = Aborting(n, why),
         UNCHANGED <<running, renewing, abort>>,
         NEW out, NEW in,
         SlotOf(running[n], turns[n], out, in, renewing[n], abort[n])
  PROVE  /\ SlotOf(running'[n], turns'[n], out, in, renewing'[n], abort'[n])
         /\ \A k \in Node \ {n} : turns'[k] = turns[k]
<1>1. turns'[n] = Aborted(turns[n], abort[n], why)
  BY DEF Aborting, Aborted, TypeOK
<1>2. running[n] \in BOOLEAN /\ turns[n] \in SUBSET Turn
  BY DEF TypeOK
<1>3. SlotOf(running[n], Aborted(turns[n], abort[n], why), out, in, renewing[n], abort[n])
  BY <1>2, SlotAborting
<1>4. SlotOf(running[n], turns'[n], out, in, renewing[n], abort[n])
  BY <1>1, <1>3
<1> QED  BY <1>4 DEF Aborting, TypeOK

LEMMA SubmitSlot ==
  ASSUME TypeOK, SlotInv, NEW n \in Node, Submit(n)
  PROVE  SlotInv'
<1>1. UNCHANGED <<abort, renewing, answers>>
  BY DEF Submit
<1>2. Slot(n) /\ answers[n] \in Seq(Answer)
  BY DEF SlotInv, TypeOK
<1>3. CASE UNCHANGED <<running, sent, turns>>
  BY <1>1, <1>2, <1>3 DEF SlotInv, Slot
<1>4. ASSUME NEW m,
             /\ turns' = IF Mode[n] = "preempt" /\ running[n]
                           THEN Aborting(n, "preempted") ELSE turns
             /\ Drain(n, Append(queue[n], m))
      PROVE  SlotInv'
  <2>1. CASE Mode[n] = "preempt" /\ running[n]
    <3>1. UNCHANGED <<running, sent>>
      BY <1>4, <2>1 DEF Drain
    <3>2. /\ SlotOf(running'[n], turns'[n], sent[n], answers[n],
                    renewing'[n], abort'[n])
          /\ \A k \in Node \ {n} : turns'[k] = turns[k]
      BY <1>1, <1>2, <1>4, <2>1, <3>1, AbortingSlot DEF Slot
    <3> QED  BY <1>1, <3>1, <3>2, OtherSlots DEF Slot, Same
  <2>2. CASE ~(Mode[n] = "preempt" /\ running[n])
    <3>1. UNCHANGED turns
      BY <1>4, <2>2
    <3>2. /\ SlotOf(running'[n], turns[n], sent'[n], answers[n],
                    renewing[n], abort[n])
          /\ \A k \in Node \ {n} : running'[k] = running[k] /\ sent'[k] = sent[k]
      BY <1>2, <1>4, DrainSlot DEF Slot
    <3> QED  BY <1>1, <3>1, <3>2, OtherSlots DEF Slot, Same
  <2> QED  BY <2>1, <2>2
<1> QED  BY <1>3, <1>4 DEF Submit, SubmitToQueue, SubmitToWindow

LEMMA DrainersSlot ==
  ASSUME TypeOK, SlotInv, NEW n \in Node,
         WindowCloses(n) \/ RetryFires(n) \/ Released(n)
  PROVE  SlotInv'
<1>1. UNCHANGED <<turns, abort, renewing>>
  BY DEF WindowCloses, RetryFires, Released
<1>2. answers[n] \in Seq(Answer) /\ running[n] \in BOOLEAN
      /\ sent[n] \in Seq(Command) /\ Slot(n)
  BY DEF SlotInv, TypeOK
<1>3. CASE UNCHANGED <<running, sent, answers>>
  BY <1>1, <1>2, <1>3 DEF SlotInv, Slot
<1>4. ASSUME NEW q, Drain(n, q), UNCHANGED answers
      PROVE  SlotInv'
  <2>1. /\ SlotOf(running'[n], turns[n], sent'[n], answers[n], renewing[n], abort[n])
        /\ \A k \in Node \ {n} : running'[k] = running[k] /\ sent'[k] = sent[k]
    BY <1>2, <1>4, DrainSlot DEF Slot
  <2> QED  BY <1>1, <1>4, <2>1, OtherSlots DEF Slot, Same
<1>5. CASE Released(n)
  <2>1. /\ answers[n] # <<>> /\ Head(answers[n]).op \notin Acquires
        /\ answers' = [answers EXCEPT ![n] = Tail(@)]
        /\ Drain(n, queue[n])
    BY <1>5 DEF Released, Answered, Consume, Acquires
  <2>2. SlotOf(running[n], turns[n], sent[n], Tail(answers[n]), renewing[n], abort[n])
    BY <1>2, <2>1, SlotConsume DEF Slot
  <2>3. Tail(answers[n]) \in Seq(Answer)
    BY <1>2, <2>1, HeadTailProperties
  <2>4. /\ SlotOf(running'[n], turns[n], sent'[n], Tail(answers[n]), renewing[n], abort[n])
        /\ \A k \in Node \ {n} : running'[k] = running[k] /\ sent'[k] = sent[k]
    BY <2>1, <2>2, <2>3, DrainSlot
  <2> QED  BY <1>1, <2>1, <2>4, OtherSlots DEF Slot, Same, TypeOK
<1>6. CASE WindowCloses(n)
  <2>1. UNCHANGED answers
    BY <1>6 DEF WindowCloses
  <2>2. CASE pending[n] = <<>>
    <3>1. UNCHANGED <<running, sent>>
      BY <1>6, <2>2 DEF WindowCloses
    <3> QED  BY <1>3, <2>1, <3>1
  <2>3. CASE pending[n] # <<>>
    <3>1. PICK q : Drain(n, q)
      BY <1>6, <2>3 DEF WindowCloses
    <3> QED  BY <1>4, <2>1, <3>1
  <2> QED  BY <2>2, <2>3
<1>7. CASE RetryFires(n)
  BY <1>4, <1>7 DEF RetryFires
<1> QED  BY <1>5, <1>6, <1>7

LEMMA ServeSlot ==
  ASSUME TypeOK, SlotInv, NEW n \in Node, Serve(n)
  PROVE  SlotInv'
<1> DEFINE c == Head(sent[n])
<1>1. /\ UNCHANGED <<running, turns, renewing, abort>>
      /\ sent[n] # <<>>
      /\ sent' = [sent EXCEPT ![n] = Tail(@)]
  BY DEF Serve, local
<1>2. \E word \in {"yes", "no", "error"} :
        answers' = [answers EXCEPT ![n] =
                      Append(@, [op |-> c.op, turn |-> c.turn, says |-> word])]
  BY DEF Serve
<1>3. PICK word \in {"yes", "no", "error"} :
        answers' = [answers EXCEPT ![n] =
                      Append(@, [op |-> c.op, turn |-> c.turn, says |-> word])]
  BY <1>2
<1> DEFINE e == [op |-> c.op, turn |-> c.turn, says |-> word]
<1>4. c \in Command /\ e \in Answer /\ e.op = c.op /\ e.turn = c.turn
  <2>1. c \in Command
    BY <1>1, HeadTailProperties DEF TypeOK
  <2> QED  BY <2>1 DEF Command, Answer
<1>5. SlotOf(running[n], turns[n], Tail(sent[n]), Append(answers[n], e),
             renewing[n], abort[n])
  <2>1. /\ running[n] \in BOOLEAN /\ sent[n] \in Seq(Command)
        /\ answers[n] \in Seq(Answer) /\ Slot(n)
    BY DEF TypeOK, SlotInv
  <2> HIDE DEF e
  <2> QED  BY <1>1, <1>4, <2>1, SlotServe DEF Slot
<1>6. Slot(n)'
  BY <1>1, <1>3, <1>5 DEF Slot, TypeOK
<1>7. \A k \in Node \ {n} : Same(k)
  BY <1>1, <1>3 DEF Same, TypeOK
<1> QED  BY <1>6, <1>7, OtherSlots

LEMMA AnsweredSlot ==
  ASSUME TypeOK, SlotInv, NEW n \in Node,
         DrainRuns(n) \/ ExplicitRuns(n) \/ DrainWaits(n) \/ ExplicitRefused(n)
  PROVE  SlotInv'
<1>1. /\ answers[n] # <<>> /\ Head(answers[n]).op \in Acquires
      /\ answers' = [answers EXCEPT ![n] = Tail(@)]
      /\ UNCHANGED sent
  BY DEF DrainRuns, ExplicitRuns, DrainWaits, ExplicitRefused, Answered,
         Consume, Acquires
<1>2. /\ running[n] /\ turns[n] = {} /\ sent[n] = <<>>
      /\ Tail(answers[n]) = <<>> /\ renewing[n] = {}
  <2>1. /\ running[n] \in BOOLEAN /\ sent[n] \in Seq(Command)
        /\ answers[n] \in Seq(Answer) /\ Slot(n)
    BY DEF TypeOK, SlotInv
  <2> QED  BY <1>1, <2>1, SlotAnswered DEF Slot
<1>3. answers'[n] = <<>> /\ sent'[n] = <<>>
      /\ \A k \in Node \ {n} : answers'[k] = answers[k]
  BY <1>1, <1>2 DEF TypeOK
<1>4. CASE DrainRuns(n) \/ ExplicitRuns(n)
  <2>1. UNCHANGED running /\ \E msgs : StartTurn(n, msgs)
    BY <1>4 DEF DrainRuns, ExplicitRuns
  <2>2. PICK msgs : StartTurn(n, msgs)
    BY <2>1
  <2> DEFINE t == [id |-> turnNo[n] + 1, msgs |-> msgs, signal |-> "live"]
  <2>3. /\ turns'[n] = {t} /\ renewing'[n] = {t.id} /\ abort'[n] = t.id
        /\ \A k \in Node \ {n} : /\ turns'[k] = turns[k]
                                 /\ renewing'[k] = renewing[k]
                                 /\ abort'[k] = abort[k]
    BY <1>2, <2>2 DEF StartTurn, TypeOK
  <2>4. SlotOf(TRUE, {t}, <<>>, <<>>, {t.id}, t.id)
    BY SlotStart
  <2>5. running'[n] = TRUE
    BY <1>2, <2>1 DEF TypeOK
  <2>6. Slot(n)'
    BY <1>3, <2>3, <2>4, <2>5 DEF Slot
  <2> QED  BY <1>1, <1>3, <2>1, <2>3, <2>6, OtherSlots DEF Same
<1>5. CASE DrainWaits(n) \/ ExplicitRefused(n)
  <2>1. /\ running' = [running EXCEPT ![n] = FALSE]
        /\ UNCHANGED <<turns, renewing, abort>>
    BY <1>5 DEF DrainWaits, ExplicitRefused
  <2>2. SlotOf(FALSE, {}, <<>>, <<>>, {}, abort[n])
    BY DEF SlotOf, Contains, AllRenewalsOf, OnlyLast
  <2>3. running'[n] = FALSE /\ \A k \in Node \ {n} : running'[k] = running[k]
    BY <2>1 DEF TypeOK
  <2>4. Slot(n)'
    BY <1>2, <1>3, <2>1, <2>2, <2>3 DEF Slot
  <2> QED  BY <1>1, <1>3, <2>1, <2>3, <2>4, OtherSlots DEF Same
<1> QED  BY <1>4, <1>5

LEMMA RunSlot ==
  ASSUME TypeOK, SlotInv, NEW n \in Node,
         RenewTick(n) \/ RenewAnswered(n) \/ \E t \in turns[n] : RunEnds(n, t)
  PROVE  SlotInv'
<1>1. /\ running[n] \in BOOLEAN /\ sent[n] \in Seq(Command)
      /\ answers[n] \in Seq(Answer) /\ turns[n] \in SUBSET Turn /\ Slot(n)
  BY DEF TypeOK, SlotInv
<1>2. CASE RenewTick(n)
  <2>1. PICK id \in renewing[n] :
          /\ Send(n, "renew", id)
          /\ UNCHANGED <<local, answers, leaseVars, arrivals, used, history>>
    BY <1>2 DEF RenewTick
  <2> DEFINE e == [op |-> "renew", turn |-> id]
  <2>2. e \in Command /\ e.op = "renew" /\ e.turn = id
    BY DEF TypeOK, Command
  <2>3. SlotOf(running[n], turns[n], Append(sent[n], e), answers[n],
               renewing[n], abort[n])
    BY <1>1, <2>2, SlotTick DEF Slot
  <2>4. sent'[n] = Append(sent[n], e) /\ \A k \in Node \ {n} : sent'[k] = sent[k]
    BY <2>1 DEF Send, TypeOK
  <2> QED  BY <2>1, <2>3, <2>4, OtherSlots DEF Same, Slot, local
<1>3. CASE RenewAnswered(n)
  <2>1. /\ answers[n] # <<>> /\ Head(answers[n]).op \notin Acquires
        /\ answers' = [answers EXCEPT ![n] = Tail(@)]
        /\ UNCHANGED <<running, sent, renewing, abort>>
        /\ turns' = turns \/ turns' = Aborting(n, "lease_lost")
    BY <1>3 DEF RenewAnswered, Answered, Consume, Acquires
  <2>2. SlotOf(running[n], turns[n], sent[n], Tail(answers[n]), renewing[n], abort[n])
    BY <1>1, <2>1, SlotConsume DEF Slot
  <2>3. /\ SlotOf(running'[n], turns'[n], sent[n], Tail(answers[n]),
                  renewing'[n], abort'[n])
        /\ \A k \in Node \ {n} : turns'[k] = turns[k]
    BY <2>1, <2>2, AbortingSlot
  <2>4. answers'[n] = Tail(answers[n])
        /\ \A k \in Node \ {n} : answers'[k] = answers[k]
    BY <2>1 DEF TypeOK
  <2> QED  BY <2>1, <2>3, <2>4, OtherSlots DEF Same, Slot
<1>4. CASE \E t \in turns[n] : RunEnds(n, t)
  <2>1. PICK t \in turns[n] : RunEnds(n, t)
    BY <1>4
  <2> DEFINE e == [op |-> "release", turn |-> t.id]
  <2>2. e \in Command /\ e.op = "release"
    BY <1>1 DEF Command, Turn
  <2>3. SlotOf(FALSE, turns[n] \ {t}, Append(sent[n], e), answers[n],
               renewing[n] \ {t.id}, NoTurn)
    BY <1>1, <2>2, SlotEnd DEF Slot
  <2>4. /\ running'[n] = FALSE /\ turns'[n] = turns[n] \ {t}
        /\ sent'[n] = Append(sent[n], e) /\ UNCHANGED answers
        /\ renewing'[n] = renewing[n] \ {t.id} /\ abort'[n] = NoTurn
        /\ \A k \in Node \ {n} : Same(k)
    BY <2>1 DEF RunEnds, Send, TypeOK, Same
  <2> QED  BY <2>3, <2>4, OtherSlots DEF Slot
<1> QED  BY <1>2, <1>3, <1>4

LEMMA StepSlot == TypeOK /\ SlotInv /\ [Next]_vars => SlotInv'
<1> SUFFICES ASSUME TypeOK, SlotInv, [Next]_vars PROVE SlotInv'
  OBVIOUS
<1>1. ASSUME NEW n \in Node, RunExplicit(n)  PROVE SlotInv'
  <2> DEFINE e == [op |-> "acquire_explicit", turn |-> NoTurn]
  <2>1. /\ ~running[n] /\ running' = [running EXCEPT ![n] = TRUE]
        /\ sent' = [sent EXCEPT ![n] = Append(@, e)]
        /\ UNCHANGED <<turns, answers, renewing, abort>>
    BY <1>1 DEF RunExplicit, Send
  <2>2. e \in Command /\ e.op \in Acquires
    BY DEF Command, Acquires, NoTurn
  <2>3. /\ running[n] = FALSE /\ sent[n] \in Seq(Command)
        /\ answers[n] \in Seq(Answer) /\ Slot(n)
    BY <2>1 DEF TypeOK, SlotInv
  <2>4. SlotOf(TRUE, turns[n], Append(sent[n], e), answers[n], renewing[n], abort[n])
    BY <2>2, <2>3, SlotClaim DEF Slot
  <2>5. /\ running'[n] = TRUE /\ sent'[n] = Append(sent[n], e)
        /\ \A k \in Node \ {n} : running'[k] = running[k] /\ sent'[k] = sent[k]
    BY <2>1 DEF TypeOK
  <2> QED  BY <2>1, <2>4, <2>5, OtherSlots DEF Slot, Same
<1>2. ASSUME NEW n \in Node, Interrupt(n)  PROVE SlotInv'
  <2>1. /\ turns' = Aborting(n, "interrupted")
        /\ UNCHANGED <<running, renewing, abort, sent, answers>>
    BY <1>2 DEF Interrupt, wire
  <2>2. SlotOf(running[n], turns[n], sent[n], answers[n], renewing[n], abort[n])
    BY DEF SlotInv, Slot
  <2>3. /\ SlotOf(running'[n], turns'[n], sent[n], answers[n], renewing'[n], abort'[n])
        /\ \A k \in Node \ {n} : turns'[k] = turns[k]
    BY <2>1, <2>2, AbortingSlot
  <2> QED  BY <2>1, <2>3, OtherSlots DEF Slot, Same
<1>3. ASSUME NEW n \in Node, Crash(n)  PROVE SlotInv'
  <2>1. /\ running'[n] = FALSE /\ turns'[n] = {} /\ sent'[n] = <<>>
        /\ answers'[n] = <<>> /\ renewing'[n] = {} /\ abort'[n] = NoTurn
        /\ \A k \in Node \ {n} : Same(k)
    BY <1>3 DEF Crash, TypeOK, Same
  <2> QED  BY <2>1, SlotEmpty, OtherSlots DEF Slot
<1>4. CASE LeaseLapses \/ OrphanExpires \/ UNCHANGED vars
  BY <1>4 DEF LeaseLapses, OrphanExpires, vars, local, wire, SlotInv, Slot
<1> QED  BY <1>1, <1>2, <1>3, <1>4, SubmitSlot, DrainersSlot, ServeSlot,
            AnsweredSlot, RunSlot DEF Next, Instance

(***************************************************************************)
(* The lease: who uses it without having lost it is its holder.            *)
(***************************************************************************)
\* A step that leaves the lease alone and makes nobody use it.
LEMMA LeaseKept ==
  ASSUME LeaseInv, UNCHANGED leaseVars, \A k \in Node : Using(k)' => Using(k)
  PROVE  LeaseInv'
BY DEF LeaseInv, leaseVars

LEMMA AbortingKeeps ==
  ASSUME TypeOK, NEW n \in Node, NEW why, turns' = Aborting(n, why)
  PROVE  \A k \in Node : turns'[k] # {} => turns[k] # {}
BY DEF TypeOK, Aborting

\* An answer handled was there before.
LEMMA ConsumeUses ==
  ASSUME TypeOK, NEW n \in Node, answers[n] # <<>>, Consume(n),
         \A k \in Node : turns'[k] # {} => turns[k] # {}
  PROVE  \A k \in Node : Using(k)' => Using(k)
<1>1. /\ answers'[n] = Tail(answers[n])
      /\ \A k \in Node \ {n} : answers'[k] = answers[k]
  BY DEF Consume, TypeOK
<1>2. \A i \in DOMAIN Tail(answers[n]) :
        i + 1 \in DOMAIN answers[n] /\ Tail(answers[n])[i] = answers[n][i + 1]
  <2>1. answers[n] \in Seq(Answer)
    BY DEF TypeOK
  <2> QED  BY <2>1, TailAt
<1>3. ASSUME NEW i \in DOMAIN answers'[n], answers'[n][i].op \in Acquires,
             answers'[n][i].says = "yes"
      PROVE  Using(n)
  <2>1. i + 1 \in DOMAIN answers[n] /\ answers'[n][i] = answers[n][i + 1]
    BY <1>1, <1>2
  <2> QED  BY <1>3, <2>1 DEF Using
<1>4. Using(n)' => Using(n)
  BY <1>3 DEF Using
<1>5. \A k \in Node \ {n} : Using(k)' => Using(k)
  BY <1>1 DEF Using
<1> QED  BY <1>4, <1>5

\* An instance that has an acquisition or a release on its way does not use
\* the lease.
LEMMA AskingIsNotUsing ==
  ASSUME TypeOK, SlotInv, NEW n \in Node, sent[n] # <<>>,
         Head(sent[n]).op # "renew"
  PROVE  ~Using(n)
<1>1. Slot(n) /\ sent[n] \in Seq(Command) /\ running[n] \in BOOLEAN
  BY DEF SlotInv, TypeOK
<1>2. 1 \in DOMAIN sent[n] /\ sent[n][1] = Head(sent[n])
  BY <1>1, TailAt
<1>3. turns[n] = {}
  BY <1>1, <1>2 DEF Slot, SlotOf, AllRenewalsOf
<1>4. ~Contains(answers[n], Acquires)
  BY <1>1 DEF Slot, SlotOf
<1> QED  BY <1>3, <1>4 DEF Using, Contains

LEMMA ServeLease ==
  ASSUME TypeOK, SlotInv, LeaseInv, NEW n \in Node, Serve(n)
  PROVE  LeaseInv'
<1> DEFINE c == Head(sent[n])
           a(word) == [op |-> c.op, turn |-> c.turn, says |-> word]
           Says(word) == answers' = [answers EXCEPT ![n] = Append(@, a(word))]
<1>1. sent[n] # <<>> /\ UNCHANGED turns /\ answers[n] \in Seq(Answer)
      /\ c \in Command
  BY HeadTailProperties DEF Serve, local, TypeOK
<1>2. PICK word \in {"yes", "no", "error"} :
        /\ Says(word)
        /\ \/ UNCHANGED leaseVars /\ (word = "yes" => c.op \notin Acquires)
           \/ \E yes \in BOOLEAN : Executes(n, c.op, yes) /\ (word = "yes" => yes)
  <2>1. CASE \E yes \in BOOLEAN : /\ Executes(n, c.op, yes)
                                  /\ Says(IF yes THEN "yes" ELSE "no")
    BY <2>1
  <2>2. CASE /\ Says("error")
             /\ UNCHANGED leaseVars \/ \E yes \in BOOLEAN : Executes(n, c.op, yes)
    BY <2>2
  <2> QED  BY <2>1, <2>2 DEF Serve
<1>3. \A k \in Node \ {n} : Using(k)' => Using(k)
  BY <1>1, <1>2 DEF Using, TypeOK
<1>4. Using(n)' => Using(n) \/ (word = "yes" /\ c.op \in Acquires)
  <2>1. a(word) \in Answer
    BY <1>1 DEF Answer, Command
  <2>2. answers'[n] = Append(answers[n], a(word))
    BY <1>2 DEF TypeOK
  <2>3. /\ \A i \in DOMAIN answers'[n] :
             \/ i \in DOMAIN answers[n] /\ answers'[n][i] = answers[n][i]
             \/ answers'[n][i] = a(word)
    <3> HIDE DEF a
    <3> QED  BY <1>1, <2>1, <2>2, AppendAt
  <2> QED  BY <1>1, <2>3 DEF Using
<1>5. CASE UNCHANGED leaseVars /\ (word = "yes" => c.op \notin Acquires)
  BY <1>3, <1>4, <1>5, LeaseKept
<1>6. ASSUME NEW yes \in BOOLEAN, Executes(n, c.op, yes), word = "yes" => yes
      PROVE  LeaseInv'
  <2>1. CASE c.op \in Acquires
    <3>1. Acquire(n, yes)
      BY <1>6, <2>1 DEF Executes, Acquires
    <3>2. ~Using(n)
      BY <1>1, <2>1, AskingIsNotUsing DEF Acquires
    <3>3. Using(n)' => holder' = n
      BY <1>4, <1>6, <3>1, <3>2 DEF Acquire
    <3>4. ASSUME NEW k \in Node \ {n}, Using(k)', k \notin lapsed'
          PROVE  holder' = k
      <4>1. Using(k) /\ k \notin lapsed
        BY <1>3, <3>1, <3>4 DEF Acquire
      <4>2. holder = k
        BY <4>1 DEF LeaseInv
      <4>3. ~Free(n)
        BY <3>4, <4>2, LeaseAssumption DEF LeaseAssumption, Free
      <4> QED  BY <3>1, <4>2, <4>3 DEF Acquire
    <3> QED  BY <3>3, <3>4 DEF LeaseInv
  <2>2. CASE c.op = "renew"
    <3>1. UNCHANGED leaseVars
      BY <1>6, <2>2 DEF Executes, Renew, Acquires
    <3> QED  BY <1>3, <1>4, <2>2, <3>1, LeaseKept DEF Acquires
  <2>3. CASE c.op = "release"
    <3>1. Release(n)
      BY <1>6, <2>3 DEF Executes, Acquires
    <3>2. ~Using(n)'
      BY <1>1, <1>4, <2>3, AskingIsNotUsing DEF Acquires
    <3> QED  BY <1>3, <3>1, <3>2 DEF Release, LeaseInv
  <2> QED  BY <1>1, <2>1, <2>2, <2>3 DEF Command
<1> QED  BY <1>2, <1>5, <1>6

LEMMA StepLease == TypeOK /\ SlotInv /\ LeaseInv /\ [Next]_vars => LeaseInv'
<1> SUFFICES ASSUME TypeOK, SlotInv, LeaseInv, [Next]_vars PROVE LeaseInv'
  OBVIOUS
<1>1. ASSUME NEW n \in Node,
             Submit(n) \/ WindowCloses(n) \/ RunExplicit(n) \/ Interrupt(n)
               \/ RetryFires(n) \/ RenewTick(n)
      PROVE  LeaseInv'
  <2>1. UNCHANGED <<answers, leaseVars>>
    BY <1>1 DEF Submit, WindowCloses, RunExplicit, Interrupt, RetryFires,
                RenewTick, wire
  <2>2. UNCHANGED turns \/ \E why : turns' = Aborting(n, why)
    BY <1>1 DEF Submit, SubmitToQueue, SubmitToWindow, WindowCloses, RunExplicit,
                Interrupt, RetryFires, RenewTick, local
  <2>3. \A k \in Node : turns'[k] # {} => turns[k] # {}
    BY <2>2, AbortingKeeps
  <2> QED  BY <2>1, <2>3, LeaseKept DEF Using
<1>2. ASSUME NEW n \in Node,
             DrainWaits(n) \/ ExplicitRefused(n) \/ RenewAnswered(n) \/ Released(n)
      PROVE  LeaseInv'
  <2>1. answers[n] # <<>> /\ Consume(n) /\ UNCHANGED leaseVars
    BY <1>2 DEF DrainWaits, ExplicitRefused, RenewAnswered, Released, Answered
  <2>2. UNCHANGED turns \/ turns' = Aborting(n, "lease_lost")
    BY <1>2 DEF DrainWaits, ExplicitRefused, RenewAnswered, Released
  <2>3. \A k \in Node : turns'[k] # {} => turns[k] # {}
    BY <2>2, AbortingKeeps
  <2> QED  BY <2>1, <2>3, ConsumeUses, LeaseKept
<1>3. ASSUME NEW n \in Node, DrainRuns(n) \/ ExplicitRuns(n)
      PROVE  LeaseInv'
  <2>1. /\ answers[n] # <<>> /\ Head(answers[n]).op \in Acquires
        /\ Head(answers[n]).says = "yes"
        /\ Consume(n) /\ UNCHANGED leaseVars
    BY <1>3 DEF DrainRuns, ExplicitRuns, Answered, Acquires
  <2>2. Using(n)
    <3>1. answers[n] \in Seq(Answer)
      BY DEF TypeOK
    <3>2. 1 \in DOMAIN answers[n] /\ answers[n][1] = Head(answers[n])
      BY <2>1, <3>1, TailAt
    <3> QED  BY <2>1, <3>2 DEF Using
  <2>3. \A k \in Node \ {n} : turns'[k] = turns[k] /\ answers'[k] = answers[k]
    BY <1>3, <2>1 DEF DrainRuns, ExplicitRuns, StartTurn, Consume, TypeOK
  <2> QED  BY <2>1, <2>2, <2>3, LeaseKept DEF Using
<1>4. ASSUME NEW n \in Node, NEW t \in turns[n], RunEnds(n, t)
      PROVE  LeaseInv'
  <2>1. /\ UNCHANGED <<answers, leaseVars>>
        /\ \A k \in Node : turns'[k] # {} => turns[k] # {}
    BY <1>4 DEF RunEnds, TypeOK
  <2> QED  BY <2>1, LeaseKept DEF Using
<1>5. ASSUME NEW n \in Node, Crash(n)  PROVE LeaseInv'
  <2>1. ~Using(n)'
    BY <1>5 DEF Crash, Using, TypeOK
  <2>2. \A k \in Node \ {n} : Using(k)' => Using(k)
    BY <1>5 DEF Crash, Using, TypeOK
  <2>3. \A k \in Node \ {n} : /\ k \notin lapsed' => k \notin lapsed
                              /\ holder = k => holder' = k
    BY <1>5, LeaseAssumption DEF LeaseAssumption, Crash, Orphan
  <2> QED  BY <2>1, <2>2, <2>3 DEF LeaseInv
<1>6. CASE LeaseLapses \/ OrphanExpires
  <2>1. Expire /\ UNCHANGED <<turns, answers>>
    BY <1>6 DEF LeaseLapses, OrphanExpires, local, wire
  <2> QED  BY <2>1 DEF Expire, LeaseInv, Using
<1>7. CASE UNCHANGED vars
  <2>1. UNCHANGED <<turns, answers, leaseVars>>
    BY <1>7 DEF vars, local, wire
  <2> QED  BY <2>1, LeaseKept DEF Using
<1> QED  BY <1>1, <1>2, <1>3, <1>4, <1>5, <1>6, <1>7, ServeLease
         DEF Next, Instance

(***************************************************************************)
(* The inductive invariant and what follows from it.                       *)
(***************************************************************************)
LEMMA InitTurnInv == Init => TurnInv
<1> SUFFICES ASSUME Init PROVE TurnInv
  OBVIOUS
<1>1. TypeOK
  BY InitType
<1>2. SlotInv
  BY SlotEmpty DEF Init, SlotInv, Slot
<1>3. LeaseInv
  BY DEF Init, LeaseInv, Using
<1> QED  BY <1>1, <1>2, <1>3 DEF TurnInv

\* The conjunction of types, slots and lease is kept by every step.
THEOREM TurnInvHolds == Spec => []TurnInv
<1>1. TurnInv /\ [Next]_vars => TurnInv'
  BY StepType, StepSlot, StepLease DEF TurnInv
<1> QED  BY <1>1, InitTurnInv, PTL DEF Spec

\* Of two instances that run turns of the session at the same time, the lease
\* has expired under one: for any number of instances, either lease backend,
\* and any interleaving of failures, crashes, interrupts and submissions.
THEOREM OneRunner == Spec => []OneRunnerPerLease
<1>1. TurnInv => OneRunnerPerLease
  BY DEF TurnInv, LeaseInv, OneRunnerPerLease, Using, Running
<1> QED  BY <1>1, TurnInvHolds, PTL

\* One instance has at most one turn in progress, in every mode.
THEOREM OneTurn == Spec => []OneTurnPerInstance
<1>1. TurnInv => OneTurnPerInstance
  BY DEF TurnInv, SlotInv, Slot, SlotOf, OneTurnPerInstance
<1> QED  BY <1>1, TurnInvHolds, PTL

\* No answer to a renewal of an earlier turn is still to come while a turn
\* runs, so none can abort it.
THEOREM OwnRenewals == Spec => []OnlyOwnRenewals
<1>1. TurnInv => OnlyOwnRenewals
  BY DEF TurnInv, SlotInv, Slot, SlotOf, AllRenewalsOf, OnlyOwnRenewals
<1> QED  BY <1>1, TurnInvHolds, PTL

-----------------------------------------------------------------------------
(* The refinement: TurnTaking's owner and overrunners are those whose turn  *)
(* is on with, and without, the lease.                                      *)

\* The abstract owner and overrunners, by name.
Own == IF Owners = {} THEN NoOne ELSE CHOOSE n \in Owners : TRUE
Over == {n \in Node : Running(n) /\ n \in lapsed}

LEMMA OwnerIs ==
  ASSUME TurnInv, NEW n \in Node
  PROVE  /\ Own = n <=> Running(n) /\ n \notin lapsed
         /\ Own = NoOne <=> Owners = {}
<1>1. \A k \in Owners : holder = k
  BY DEF TurnInv, LeaseInv, Owners, Running, Using
<1>2. Owners # {} => Own \in Owners
  BY DEF Own
<1>3. Owners \subseteq Node /\ NoOne \notin Node
  BY LeaseAssumption DEF LeaseAssumption, Owners
<1> QED  BY <1>1, <1>2, <1>3 DEF Own, Owners

LEMMA SameTaking ==
  ASSUME \A k \in Node : /\ Running(k)' <=> Running(k)
                         /\ Running(k) => (k \in lapsed' <=> k \in lapsed)
  PROVE  UNCHANGED <<Own, Over>>
<1>1. Owners' = Owners
  BY DEF Owners
<1>2. Over' = Over
  BY DEF Over
<1> QED  BY <1>1, <1>2 DEF Own

LEMMA StartTaking ==
  ASSUME TurnInv, TurnInv', NEW n \in Node, Using(n), ~Running(n), Running(n)',
         \A k \in Node \ {n} : Running(k)' <=> Running(k), UNCHANGED lapsed
  PROVE  Taking!Begin(n) \/ Taking!BeginLate(n)
<1>1. CASE n \in lapsed
  <2>1. Owners' = Owners /\ Over' = Over \cup {n}
    BY <1>1 DEF Owners, Over
  <2>2. Own # n /\ n \notin Over
    BY OwnerIs DEF Over
  <2> QED  BY <2>1, <2>2 DEF Taking!BeginLate, Own, Over
<1>2. CASE n \notin lapsed
  <2>1. holder = n
    BY <1>2 DEF TurnInv, LeaseInv
  <2>2. Owners = {}
    BY <2>1 DEF Owners, TurnInv, LeaseInv, Running, Using
  <2>3. Owners' = {n} /\ Over' = Over /\ n \notin Over
    BY <1>2, <2>2 DEF Owners, Over
  <2> QED  BY <2>2, <2>3 DEF Taking!Begin, Own, Over
<1> QED  BY <1>1, <1>2

LEMMA EndTaking ==
  ASSUME TurnInv, NEW n \in Node, Running(n), ~Running(n)',
         \A k \in Node \ {n} : /\ Running(k)' <=> Running(k)
                               /\ k \in lapsed' <=> k \in lapsed
  PROVE  Taking!End(n)
<1>1. CASE n \in lapsed
  <2>1. Owners' = Owners /\ Over' = Over \ {n} /\ n \in Over
    BY <1>1 DEF Owners, Over
  <2> QED  BY <2>1 DEF Taking!End, Own, Over
<1>2. CASE n \notin lapsed
  <2>1. Owners = {n}
    BY <1>2 DEF Owners, TurnInv, LeaseInv, Running, Using
  <2>2. Owners' = {} /\ Over' = Over
    BY <1>2, <2>1 DEF Owners, Over
  <2> QED  BY <2>1, <2>2 DEF Taking!End, Own, Over
<1> QED  BY <1>1, <1>2

LEMMA ExpireTaking ==
  ASSUME TurnInv, Expire, UNCHANGED turns
  PROVE  (\E n \in Node : Taking!Lapse(n)) \/ UNCHANGED <<Own, Over>>
<1>1. CASE holder \in Owners
  <2>1. Owners = {holder}
    BY <1>1 DEF Owners, TurnInv, LeaseInv, Running, Using
  <2>2. Owners' = {} /\ Over' = Over \cup {holder} /\ holder \in Node
    BY <1>1, <2>1 DEF Owners, Over, Expire, Running
  <2> QED  BY <2>1, <2>2 DEF Taking!Lapse, Own, Over
<1>2. CASE holder \notin Owners
  <2>1. \A k \in Node : Running(k) => (k \in lapsed' <=> k \in lapsed)
    BY <1>2 DEF Owners, Expire
  <2> QED  BY <2>1, SameTaking DEF Running
<1> QED  BY <1>1, <1>2

LEMMA ServeTaking ==
  ASSUME TurnInv, NEW n \in Node, Serve(n)
  PROVE  UNCHANGED <<Own, Over>>
<1>1. sent[n] # <<>> /\ UNCHANGED turns
  BY DEF Serve, local
<1>2. UNCHANGED leaseVars \/ \E yes \in BOOLEAN : Executes(n, Head(sent[n]).op, yes)
  BY DEF Serve
<1>3. CASE UNCHANGED leaseVars
  BY <1>1, <1>3, SameTaking DEF leaseVars, Running
<1>4. ASSUME NEW yes \in BOOLEAN, Executes(n, Head(sent[n]).op, yes)
      PROVE  UNCHANGED <<Own, Over>>
  <2>1. CASE Acquire(n, yes) /\ Head(sent[n]).op \in Acquires
    <3>1. ~Running(n)
      BY <1>1, <2>1, AskingIsNotUsing DEF TurnInv, Acquires, Using, Running
    <3> QED  BY <1>1, <2>1, <3>1, SameTaking DEF Acquire, Running
  <2>2. CASE Renew(n, yes) \/ Release(n)
    BY <1>1, <2>2, SameTaking DEF Renew, Release, leaseVars, Running
  <2> QED  BY <1>4, <2>1, <2>2 DEF Executes
<1> QED  BY <1>2, <1>3, <1>4

LEMMA AbortingRuns ==
  ASSUME TypeOK, NEW n \in Node, NEW why, turns' = Aborting(n, why)
  PROVE  \A k \in Node : Running(k)' <=> Running(k)
<1> DEFINE A == {IF t.id = abort[n] /\ t.signal = "live"
                  THEN [t EXCEPT !.signal = why] ELSE t : t \in turns[n]}
<1>1. turns' = [turns EXCEPT ![n] = A] /\ turns \in [Node -> SUBSET Turn]
  BY DEF TypeOK, Aborting
<1>2. A = {} <=> turns[n] = {}
  OBVIOUS
<1> HIDE DEF A
<1>3. \A k \in Node : turns'[k] # {} <=> turns[k] # {}
  BY <1>1, <1>2
<1> QED  BY <1>3 DEF Running

LEMMA StepTaking ==
  TurnInv /\ TurnInv' /\ [Next]_vars => [Taking!Next]_(Taking!ttVars)
<1> SUFFICES ASSUME TurnInv, TurnInv', [Next]_vars
             PROVE  Taking!Next \/ UNCHANGED <<Own, Over>>
  BY DEF Taking!ttVars, Own, Over
<1>1. ASSUME NEW n \in Node,
             Submit(n) \/ WindowCloses(n) \/ RunExplicit(n) \/ Interrupt(n)
               \/ RetryFires(n) \/ RenewTick(n) \/ DrainWaits(n)
               \/ ExplicitRefused(n) \/ RenewAnswered(n) \/ Released(n)
      PROVE  UNCHANGED <<Own, Over>>
  <2>1. UNCHANGED leaseVars
    BY <1>1 DEF Submit, WindowCloses, RunExplicit, Interrupt, RetryFires,
                RenewTick, DrainWaits, ExplicitRefused, RenewAnswered, Released
  <2>2. UNCHANGED turns \/ \E why : turns' = Aborting(n, why)
    BY <1>1 DEF Submit, SubmitToQueue, SubmitToWindow, WindowCloses, RunExplicit,
                Interrupt, RetryFires, RenewTick, DrainWaits, ExplicitRefused,
                RenewAnswered, Released, local
  <2>3. \A k \in Node : Running(k)' <=> Running(k)
    BY <2>2, AbortingRuns DEF Running, TurnInv
  <2> QED  BY <2>1, <2>3, SameTaking DEF leaseVars
<1>2. ASSUME NEW n \in Node, DrainRuns(n) \/ ExplicitRuns(n)
      PROVE  Taking!Next
  <2>1. /\ answers[n] # <<>> /\ Head(answers[n]).op \in Acquires
        /\ Head(answers[n]).says = "yes" /\ UNCHANGED lapsed
    BY <1>2 DEF DrainRuns, ExplicitRuns, Answered, Acquires, leaseVars
  <2>2. answers[n] \in Seq(Answer) /\ sent[n] \in Seq(Command)
        /\ running[n] \in BOOLEAN /\ Slot(n)
    BY DEF TurnInv, TypeOK, SlotInv
  <2>3. Using(n)
    <3>1. 1 \in DOMAIN answers[n] /\ answers[n][1] = Head(answers[n])
      BY <2>1, <2>2, TailAt
    <3> QED  BY <2>1, <3>1 DEF Using
  <2>4. ~Running(n)
    BY <2>1, <2>2, SlotAnswered DEF Slot, Running
  <2>5. Running(n)' /\ \A k \in Node \ {n} : Running(k)' <=> Running(k)
    <3>1. PICK msgs : StartTurn(n, msgs)
      BY <1>2 DEF DrainRuns, ExplicitRuns
    <3>2. PICK t : turns' = [turns EXCEPT ![n] = @ \cup {t}]
      BY <3>1 DEF StartTurn
    <3> QED  BY <3>2 DEF TurnInv, TypeOK, Running
  <2> QED  BY <2>1, <2>3, <2>4, <2>5, StartTaking DEF Taking!Next
<1>3. ASSUME NEW n \in Node, NEW t \in turns[n], RunEnds(n, t)
      PROVE  Taking!Next
  <2>1. turns[n] = {t}
    BY DEF TurnInv, SlotInv, Slot, SlotOf
  <2>2. Running(n) /\ ~Running(n)' /\ UNCHANGED lapsed
        /\ \A k \in Node \ {n} : Running(k)' <=> Running(k)
    BY <1>3, <2>1 DEF RunEnds, TurnInv, TypeOK, Running, leaseVars
  <2> QED  BY <2>2, EndTaking DEF Taking!Next
<1>4. ASSUME NEW n \in Node, Crash(n)
      PROVE  Taking!Next \/ UNCHANGED <<Own, Over>>
  <2>1. ~Running(n)' /\ lapsed' = lapsed \ {n}
        /\ \A k \in Node \ {n} : Running(k)' <=> Running(k)
    BY <1>4 DEF Crash, Orphan, TurnInv, TypeOK, Running
  <2>2. CASE Running(n)
    BY <2>1, <2>2, EndTaking DEF Taking!Next
  <2>3. CASE ~Running(n)
    BY <2>1, <2>3, SameTaking
  <2> QED  BY <2>2, <2>3
<1>5. CASE LeaseLapses \/ OrphanExpires
  BY <1>5, ExpireTaking DEF LeaseLapses, OrphanExpires, local, Taking!Next
<1>6. CASE UNCHANGED vars
  BY <1>6, SameTaking DEF vars, local, leaseVars, Running
<1> QED  BY <1>1, <1>2, <1>3, <1>4, <1>5, <1>6, ServeTaking DEF Next, Instance

LEMMA InitTaking == Init => Taking!Init
BY DEF Init, Taking!Init, Owners, Running

\* The turn controllers of any number of instances, with the lease between
\* them, implement turn-taking.
THEOREM TakesTurnsHolds == Spec => TakesTurns
BY TurnInvHolds, InitTaking, StepTaking, PTL DEF Spec, TakesTurns, Taking!Spec

\* Aborting changes only a live current turn's signal.
LEMMA AbortingChanges ==
  ASSUME TurnInv, NEW n \in Node, NEW why, turns' = Aborting(n, why)
  PROVE  \A k \in Node : \A t \in turns[k] : \A u \in turns'[k] :
           t.id = u.id /\ t.signal # u.signal =>
             k = n /\ t.signal = "live" /\ u.signal = why
<1> SUFFICES ASSUME NEW k \in Node, NEW t \in turns[k], NEW u \in turns'[k],
                    t.id = u.id, t.signal # u.signal
             PROVE  k = n /\ t.signal = "live" /\ u.signal = why
  OBVIOUS
<1>1. turns[k] = {t} /\ turns[k] \subseteq Turn
  BY DEF TurnInv, TypeOK, SlotInv, Slot, SlotOf
<1>2. k = n
  BY <1>1 DEF Aborting, TurnInv, TypeOK
<1>3. u \in {IF v.id = abort[n] /\ v.signal = "live"
               THEN [v EXCEPT !.signal = why] ELSE v : v \in turns[n]}
  BY <1>2 DEF Aborting, TurnInv, TypeOK
<1>4. u = IF t.id = abort[n] /\ t.signal = "live"
            THEN [t EXCEPT !.signal = why] ELSE t
  BY <1>1, <1>2, <1>3
<1> QED  BY <1>1, <1>2, <1>4 DEF Turn

\* A step changes the signal of a turn that goes on only if nothing aborted it
\* before, and to "lease_lost" only on the answer to a renewal of that very turn.
THEOREM OnlyOwnRenewalsAbort == Spec => LeaseLostOnlyByOwnRenewal
<1>1. TurnInv /\ TurnInv' /\ [Next]_vars =>
        [\A n \in Node : \A t \in turns[n] : \A u \in turns'[n] :
           t.id = u.id /\ t.signal # u.signal =>
             /\ t.signal = "live"
             /\ u.signal = "lease_lost" => /\ Answered(n, {"renew"})
                                           /\ Head(answers[n]).turn = t.id]_vars
  <2> SUFFICES ASSUME TurnInv, TurnInv', [Next]_vars, NEW k \in Node,
                      NEW t \in turns[k], NEW u \in turns'[k],
                      t.id = u.id, t.signal # u.signal
               PROVE  /\ t.signal = "live"
                      /\ u.signal = "lease_lost" => /\ Answered(k, {"renew"})
                                                    /\ Head(answers[k]).turn = t.id
    OBVIOUS
  <2>1. turns[k] = {t} /\ turns'[k] = {u} /\ Slot(k)
        /\ answers[k] \in Seq(Answer) /\ sent[k] \in Seq(Command)
        /\ running[k] \in BOOLEAN
    BY DEF TurnInv, TypeOK, SlotInv, Slot, SlotOf
  <2>2. ~UNCHANGED turns
    BY <2>1
  <2>3. ASSUME NEW n \in Node, Submit(n) \/ Interrupt(n)
        PROVE  t.signal = "live" /\ u.signal # "lease_lost"
    <3>1. turns' = Aborting(n, "preempted") \/ turns' = Aborting(n, "interrupted")
      BY <2>2, <2>3 DEF Submit, SubmitToQueue, SubmitToWindow, Interrupt
    <3> QED  BY <3>1, AbortingChanges
  <2>4. ASSUME NEW n \in Node, RenewAnswered(n)
        PROVE  /\ t.signal = "live" /\ Answered(k, {"renew"})
               /\ Head(answers[k]).turn = t.id
    <3>1. turns' = Aborting(n, "lease_lost") /\ Answered(n, {"renew"})
      BY <2>2, <2>4 DEF RenewAnswered
    <3>2. k = n /\ t.signal = "live"
      BY <3>1, AbortingChanges
    <3>3. 1 \in DOMAIN answers[k] /\ Head(answers[k]) = answers[k][1]
      BY <2>1, <3>1, <3>2, TailAt DEF Answered
    <3> QED  BY <3>1, <3>2, <3>3 DEF TurnInv, SlotInv, Slot, SlotOf, AllRenewalsOf
  <2>5. ASSUME NEW n \in Node, DrainRuns(n) \/ ExplicitRuns(n)
        PROVE  FALSE
    <3>1. answers[n] # <<>> /\ Head(answers[n]).op \in Acquires
          /\ answers[n] \in Seq(Answer) /\ sent[n] \in Seq(Command)
          /\ running[n] \in BOOLEAN /\ Slot(n)
      BY <2>5 DEF DrainRuns, ExplicitRuns, Answered, Acquires, TurnInv, TypeOK,
                  SlotInv
    <3>2. turns[n] = {}
      BY <3>1, SlotAnswered DEF Slot
    <3>3. turns'[k] = turns[k]
      BY <2>1, <2>5, <3>2 DEF DrainRuns, ExplicitRuns, StartTurn, TurnInv, TypeOK
    <3> QED  BY <2>1, <3>3
  <2>6. ASSUME NEW n \in Node, NEW v \in turns[n], RunEnds(n, v)
        PROVE  FALSE
    <3>1. turns'[k] \subseteq turns[k]
      BY <2>6 DEF RunEnds, TurnInv, TypeOK
    <3> QED  BY <2>1, <3>1
  <2>7. ASSUME NEW n \in Node, Crash(n)
        PROVE  FALSE
    <3>1. turns'[k] \subseteq turns[k]
      BY <2>7 DEF Crash, TurnInv, TypeOK
    <3> QED  BY <2>1, <3>1
  <2>8. ASSUME NEW n \in Node,
               WindowCloses(n) \/ RunExplicit(n) \/ RetryFires(n) \/ RenewTick(n)
                 \/ DrainWaits(n) \/ ExplicitRefused(n) \/ Released(n) \/ Serve(n)
        PROVE  FALSE
    BY <2>2, <2>8 DEF WindowCloses, RunExplicit, RetryFires, RenewTick, DrainWaits,
                      ExplicitRefused, Released, Serve, local
  <2>9. CASE LeaseLapses \/ OrphanExpires \/ UNCHANGED vars
    BY <2>2, <2>9 DEF LeaseLapses, OrphanExpires, local, vars
  <2> QED  BY <2>3, <2>4, <2>5, <2>6, <2>7, <2>8, <2>9 DEF Next, Instance
<1> QED  BY <1>1, TurnInvHolds, PTL DEF Spec, LeaseLostOnlyByOwnRenewal
=============================================================================
