----------------------------- MODULE RoomProofs -----------------------------
(***************************************************************************)
(* Proofs about Room, for any people, any number of calls and of sweeps    *)
(* under way at once, and any windows of presence.                         *)
(***************************************************************************)
EXTENDS Room, TLAPS

(***************************************************************************)
(* The rows of steps, written out, and what is left of each after a step.  *)
(***************************************************************************)
LEMMA SameElements ==
  ASSUME NEW S, NEW s \in Seq(S), NEW t \in Seq(S), Len(s) = Len(t),
         \A k \in 1..Len(s) : s[k] = t[k]
  PROVE  s = t
OBVIOUS

LEMMA Concatenates ==
  ASSUME NEW S, NEW s \in Seq(S), NEW t \in Seq(S), NEW u \in Seq(S),
         Len(u) = Len(s) + Len(t),
         \A k \in 1..Len(s) : u[k] = s[k],
         \A k \in 1..Len(t) : u[Len(s) + k] = t[k]
  PROVE  s \o t = u
<1>1. s \o t \in Seq(S) /\ Len(s \o t) = Len(s) + Len(t)
  OBVIOUS
<1>2. \A k \in 1..Len(u) : (s \o t)[k] = u[k]
  <2> TAKE k \in 1..Len(u)
  <2>1. CASE k <= Len(s)
    BY <2>1
  <2>2. CASE k > Len(s)
    <3>1. k - Len(s) \in 1..Len(t) /\ Len(s) + (k - Len(s)) = k
      BY <2>2
    <3>2. (s \o t)[k] = t[k - Len(s)]
      BY <2>2
    <3> QED  BY <3>1, <3>2
  <2> QED  BY <2>1, <2>2
<1> QED  BY <1>1, <1>2, SameElements

LEMMA HeartbeatRow == Heartbeat = <<"beat", "list", "show">>
<1> DEFINE s == <<"beat">>
           t == <<"list", "show">>
           u == <<"beat", "list", "show">>
<1>1. s \in Seq(Steps) /\ t \in Seq(Steps) /\ u \in Seq(Steps)
  BY DEF Steps
<1>2. Len(s) = 1 /\ Len(t) = 2 /\ Len(u) = 3
  OBVIOUS
<1>3. \A k \in 1..1 : u[k] = s[k]
  OBVIOUS
<1>4. \A k \in 1..2 : u[1 + k] = t[k]
  OBVIOUS
<1>5. s \o t = u
  <2> HIDE DEF s, t, u
  <2>1. \A k \in 1..Len(s) : u[k] = s[k]
    BY <1>2, <1>3
  <2>2. \A k \in 1..Len(t) : u[Len(s) + k] = t[k]
    BY <1>2, <1>4
  <2>3. Len(u) = Len(s) + Len(t)
    BY <1>2
  <2> QED  BY <1>1, <2>1, <2>2, <2>3, Concatenates, Zenon
<1> QED  BY <1>5 DEF Heartbeat, Broadcast

LEMMA JoinRow == JoinSteps = <<"add", "tell_joined", "beat", "list", "show">>
<1> DEFINE s == <<"add", "tell_joined">>
           t == <<"beat", "list", "show">>
           u == <<"add", "tell_joined", "beat", "list", "show">>
<1>1. s \in Seq(Steps) /\ t \in Seq(Steps) /\ u \in Seq(Steps)
  BY DEF Steps
<1>2. Len(s) = 2 /\ Len(t) = 3 /\ Len(u) = 5
  OBVIOUS
<1>3. \A k \in 1..2 : u[k] = s[k]
  OBVIOUS
<1>4. \A k \in 1..3 : u[2 + k] = t[k]
  OBVIOUS
<1>5. s \o t = u
  <2> HIDE DEF s, t, u
  <2>1. \A k \in 1..Len(s) : u[k] = s[k]
    BY <1>2, <1>3
  <2>2. \A k \in 1..Len(t) : u[Len(s) + k] = t[k]
    BY <1>2, <1>4
  <2>3. Len(u) = Len(s) + Len(t)
    BY <1>2
  <2> QED  BY <1>1, <2>1, <2>2, <2>3, Concatenates, Zenon
<1> QED  BY <1>5, HeartbeatRow DEF JoinSteps

LEMMA DisconnectedRow == Disconnected = <<"clear", "list", "show">>
<1> DEFINE s == <<"clear">>
           t == <<"list", "show">>
           u == <<"clear", "list", "show">>
<1>1. s \in Seq(Steps) /\ t \in Seq(Steps) /\ u \in Seq(Steps)
  BY DEF Steps
<1>2. Len(s) = 1 /\ Len(t) = 2 /\ Len(u) = 3
  OBVIOUS
<1>3. \A k \in 1..1 : u[k] = s[k]
  OBVIOUS
<1>4. \A k \in 1..2 : u[1 + k] = t[k]
  OBVIOUS
<1>5. s \o t = u
  <2> HIDE DEF s, t, u
  <2>1. \A k \in 1..Len(s) : u[k] = s[k]
    BY <1>2, <1>3
  <2>2. \A k \in 1..Len(t) : u[Len(s) + k] = t[k]
    BY <1>2, <1>4
  <2>3. Len(u) = Len(s) + Len(t)
    BY <1>2
  <2> QED  BY <1>1, <2>1, <2>2, <2>3, Concatenates, Zenon
<1> QED  BY <1>5 DEF Disconnected, Broadcast

LEMMA PresenceLeavesRow == PresenceLeaves = <<"clear", "tell_left", "list", "show">>
<1> DEFINE s == <<"clear", "tell_left">>
           t == <<"list", "show">>
           u == <<"clear", "tell_left", "list", "show">>
<1>1. s \in Seq(Steps) /\ t \in Seq(Steps) /\ u \in Seq(Steps)
  BY DEF Steps
<1>2. Len(s) = 2 /\ Len(t) = 2 /\ Len(u) = 4
  OBVIOUS
<1>3. \A k \in 1..2 : u[k] = s[k]
  OBVIOUS
<1>4. \A k \in 1..2 : u[2 + k] = t[k]
  OBVIOUS
<1>5. s \o t = u
  <2> HIDE DEF s, t, u
  <2>1. \A k \in 1..Len(s) : u[k] = s[k]
    BY <1>2, <1>3
  <2>2. \A k \in 1..Len(t) : u[Len(s) + k] = t[k]
    BY <1>2, <1>4
  <2>3. Len(u) = Len(s) + Len(t)
    BY <1>2
  <2> QED  BY <1>1, <2>1, <2>2, <2>3, Concatenates, Zenon
<1> QED  BY <1>5 DEF PresenceLeaves, Broadcast

LEMMA LeaveRow == LeaveSteps = <<"clear", "tell_left", "list", "show", "remove", "clear">>
<1> DEFINE s == <<"clear", "tell_left", "list", "show">>
           t == <<"remove", "clear">>
           u == <<"clear", "tell_left", "list", "show", "remove", "clear">>
<1>1. s \in Seq(Steps) /\ t \in Seq(Steps) /\ u \in Seq(Steps)
  BY DEF Steps
<1>2. Len(s) = 4 /\ Len(t) = 2 /\ Len(u) = 6
  OBVIOUS
<1>3. \A k \in 1..4 : u[k] = s[k]
  OBVIOUS
<1>4. \A k \in 1..2 : u[4 + k] = t[k]
  OBVIOUS
<1>5. s \o t = u
  <2> HIDE DEF s, t, u
  <2>1. \A k \in 1..Len(s) : u[k] = s[k]
    BY <1>2, <1>3
  <2>2. \A k \in 1..Len(t) : u[Len(s) + k] = t[k]
    BY <1>2, <1>4
  <2>3. Len(u) = Len(s) + Len(t)
    BY <1>2
  <2> QED  BY <1>1, <2>1, <2>2, <2>3, Concatenates, Zenon
<1> QED  BY <1>5, PresenceLeavesRow DEF LeaveSteps

Telling == <<"tell_left", "list", "show", "remove", "clear">>

LEMMA RowTypes == /\ JoinSteps \in Seq(Steps) /\ LeaveSteps \in Seq(Steps)
                  /\ Heartbeat \in Seq(Steps) /\ Disconnected \in Seq(Steps)
                  /\ JoinSteps # <<>> /\ LeaveSteps # <<>>
                  /\ Heartbeat # <<>> /\ Disconnected # <<>>
<1>1. JoinSteps \in Seq(Steps) /\ JoinSteps # <<>>
  BY JoinRow DEF Steps
<1>2. LeaveSteps \in Seq(Steps) /\ LeaveSteps # <<>>
  BY LeaveRow DEF Steps
<1>3. Heartbeat \in Seq(Steps) /\ Heartbeat # <<>>
  BY HeartbeatRow DEF Steps
<1>4. Disconnected \in Seq(Steps) /\ Disconnected # <<>>
  BY DisconnectedRow DEF Steps
<1> QED  BY <1>1, <1>2, <1>3, <1>4

\* The rows of which the invariant says something, and the others.
Marked == {JoinSteps, Added, Heartbeat, Removed} \cup Leaving
Quiet == {<<>>, Broadcast, <<"show">>, LeaveSteps, Telling, Disconnected}

LEMMA RowKinds ==
  /\ Rows = Marked \cup Quiet
  /\ Quiet \cap Marked = {}
  /\ JoinSteps \notin {Added, Heartbeat, Removed} \cup Leaving
  /\ Added \notin {Heartbeat, Removed} \cup Leaving
  /\ Heartbeat \notin {Removed} \cup Leaving
  /\ Removed \notin Leaving
  /\ <<>> \notin Marked
<1> USE JoinRow, LeaveRow, HeartbeatRow, DisconnectedRow
<1>1. Rows = Marked \cup Quiet
  BY DEF Rows, Marked, Quiet, Telling
<1>2. JoinSteps \notin {Added, Heartbeat, Removed} \cup Leaving \cup Quiet
  BY DEF Added, Removed, Leaving, Quiet, Broadcast, Telling
<1>3. Added \notin {Heartbeat, Removed} \cup Leaving \cup Quiet
  BY DEF Added, Removed, Leaving, Quiet, Broadcast, Telling
<1>4. Heartbeat \notin {Removed} \cup Leaving \cup Quiet
  BY DEF Added, Removed, Leaving, Quiet, Broadcast, Telling
<1>5. Removed \notin Leaving \cup Quiet
  BY DEF Added, Removed, Leaving, Quiet, Broadcast, Telling
<1>6. Leaving \cap Quiet = {}
  BY DEF Added, Removed, Leaving, Quiet, Broadcast, Telling
<1>7. <<>> \in Quiet
  BY DEF Quiet
<1> QED  BY <1>1, <1>2, <1>3, <1>4, <1>5, <1>6, <1>7 DEF Marked

\* Which rows begin with a step, and what is left of them.
LEMMA AfterStep ==
  ASSUME NEW row \in Rows, row # <<>>
  PROVE  /\ Head(row) = "add" => row = JoinSteps /\ Tail(row) = Added
         /\ Head(row) = "tell_joined" => row = Added /\ Tail(row) = Heartbeat
         /\ Head(row) = "beat" => row = Heartbeat /\ Tail(row) \in Quiet
         /\ Head(row) \in {"list", "show"} => \/ row \in Quiet /\ Tail(row) \in Quiet
                                              \/ row \in Leaving /\ Tail(row) \in Leaving
         /\ Head(row) = "clear" => row \in Quiet \cup {Removed} /\ Tail(row) \in Quiet
         /\ Head(row) = "tell_left" => row \in Quiet /\ Tail(row) \in Leaving
         /\ Head(row) = "remove" => row \in Leaving /\ Tail(row) = Removed
<1>1. CASE row = JoinSteps
  <2>1. Head(JoinSteps) = "add" /\ Tail(JoinSteps) = Added
    BY JoinRow DEF Added
  <2> QED  BY <1>1, <2>1
<1>2. CASE row = Added
  <2>1. Head(Added) = "tell_joined" /\ Tail(Added) = Heartbeat
    BY HeartbeatRow DEF Added
  <2> QED  BY <1>2, <2>1
<1>3. CASE row = Heartbeat
  <2>1. Head(Heartbeat) = "beat" /\ Tail(Heartbeat) = Broadcast
    BY HeartbeatRow DEF Broadcast
  <2> QED  BY <1>3, <2>1 DEF Quiet
<1>4. CASE row = Broadcast
  <2>1. Head(Broadcast) = "list" /\ Tail(Broadcast) = <<"show">>
    BY DEF Broadcast
  <2> QED  BY <1>4, <2>1 DEF Quiet
<1>5. CASE row = <<"show">>
  <2>1. Head(<<"show">>) = "show" /\ Tail(<<"show">>) = <<>>
    OBVIOUS
  <2> QED  BY <1>5, <2>1 DEF Quiet
<1>6. CASE row = LeaveSteps
  <2>1. Head(LeaveSteps) = "clear" /\ Tail(LeaveSteps) = Telling
    BY LeaveRow DEF Telling
  <2> QED  BY <1>6, <2>1 DEF Quiet
<1>7. CASE row = Telling
  <2>1. Head(Telling) = "tell_left" /\ Tail(Telling) = <<"list", "show", "remove", "clear">>
    BY DEF Telling
  <2> QED  BY <1>7, <2>1 DEF Quiet, Leaving
<1>8. CASE row = Removed
  <2>1. Head(Removed) = "clear" /\ Tail(Removed) = <<>>
    BY DEF Removed
  <2> QED  BY <1>8, <2>1 DEF Quiet
<1>9. CASE row = Disconnected
  <2>1. Head(Disconnected) = "clear" /\ Tail(Disconnected) = Broadcast
    BY DisconnectedRow DEF Broadcast
  <2> QED  BY <1>9, <2>1 DEF Quiet
<1>10. CASE row = <<"list", "show", "remove", "clear">>
  <2>1. /\ Head(<<"list", "show", "remove", "clear">>) = "list"
        /\ Tail(<<"list", "show", "remove", "clear">>) = <<"show", "remove", "clear">>
    OBVIOUS
  <2> QED  BY <1>10, <2>1 DEF Leaving
<1>11. CASE row = <<"show", "remove", "clear">>
  <2>1. /\ Head(<<"show", "remove", "clear">>) = "show"
        /\ Tail(<<"show", "remove", "clear">>) = <<"remove", "clear">>
    OBVIOUS
  <2> QED  BY <1>11, <2>1 DEF Leaving
<1>12. CASE row = <<"remove", "clear">>
  <2>1. Head(<<"remove", "clear">>) = "remove" /\ Tail(<<"remove", "clear">>) = <<"clear">>
    OBVIOUS
  <2> QED  BY <1>12, <2>1 DEF Leaving, Removed
<1> QED
  BY <1>1, <1>2, <1>3, <1>4, <1>5, <1>6, <1>7, <1>8, <1>9, <1>10, <1>11, <1>12
  DEF Rows, Leaving, Telling

(***************************************************************************)
(* Types.                                                                  *)
(***************************************************************************)
LEMMA ConstantTypes == /\ MaxName \in Nat /\ DropAfter \in Nat /\ 0 \in Names /\ 1 \in Names
                       /\ Away \in Presences /\ Nobody \in [Person -> Statuses]
BY RoomAssumption DEF Names, Away, Presences, Statuses, Nobody

LEMMA FreeFields ==
  /\ Free.todo = <<>> /\ Free.who = Anyone /\ Free.name = 0 /\ Free.listed = Nobody
  /\ Free.later = {} /\ Free \in Calling
BY ConstantTypes DEF Free, Calling

LEMMA AtType ==
  ASSUME NEW p \in Person, NEW name \in Names, NEW row \in Seq(Steps)
  PROVE  /\ At(p, name, row) \in Calling
         /\ At(p, name, row).todo = row /\ At(p, name, row).who = p
         /\ At(p, name, row).name = name /\ At(p, name, row).later = {}
<1>1. At(p, name, row) = [Free EXCEPT !.who = p, !.name = name, !.todo = row]
  BY DEF At
<1> QED  BY <1>1, ConstantTypes DEF Free, Calling

LEMMA WithLater ==
  ASSUME NEW request \in Calling, NEW tasks \in SUBSET Tasks
  PROVE  LET next == [request EXCEPT !.later = tasks]
         IN  /\ next \in Calling /\ next.later = tasks /\ next.todo = request.todo
             /\ next.who = request.who /\ next.name = request.name
BY DEF Calling

LEMMA LaterType ==
  ASSUME NEW tasks \in SUBSET Tasks
  PROVE  /\ Later(tasks) \in Calling
         /\ Later(tasks).todo = <<>> /\ Later(tasks).later = tasks
<1>1. Later(tasks) = [Free EXCEPT !.later = tasks]
  BY DEF Later
<1> QED  BY <1>1, FreeFields, WithLater

LEMMA DoType ==
  ASSUME NEW what, NEW p, NEW name
  PROVE  /\ Do(what, p, name).what = what /\ Do(what, p, name).who = p
         /\ Do(what, p, name).name = name
         /\ what \in {"look", "absent", "leave"} /\ p \in Person /\ name \in Names
              => Do(what, p, name) \in Tasks
BY DEF Do, Tasks

LEMMA CallType ==
  ASSUME RoomTypeOK, NEW c \in Caller
  PROVE  /\ call[c].todo \in Seq(Steps) /\ call[c].who \in Person \cup {Anyone}
         /\ call[c].name \in Names /\ call[c].listed \in [Person -> Statuses]
         /\ call[c].later \in SUBSET Tasks /\ call[c] \in Calling
<1>1. call[c] \in Calling
  BY DEF RoomTypeOK
<1> QED  BY <1>1 DEF Calling

LEMMA PresenceType ==
  ASSUME RoomTypeOK
  PROVE  /\ Listed \in [Person -> Statuses]
         /\ \A p \in Person : /\ presence[p].status \in Statuses
                              /\ presence[p].age \in 0..DropAfter
                              /\ presence[p] \in Presences
<1>1. \A p \in Person : presence[p] \in Presences
  BY DEF RoomTypeOK
<1> QED  BY <1>1 DEF Presences, Listed

LEMMA OlderType ==
  ASSUME NEW entry \in Presences
  PROVE  Older(entry) \in Presences /\ Older(entry).status = entry.status
<1>1. entry.status \in Statuses /\ entry.age \in 0..DropAfter /\ DropAfter \in Nat
  BY ConstantTypes DEF Presences
<1>2. CASE entry.status = "away" \/ entry.age = DropAfter
  BY <1>2 DEF Older
<1>3. CASE ~(entry.status = "away" \/ entry.age = DropAfter)
  <2>1. Older(entry) = [entry EXCEPT !.age = entry.age + 1]
    BY <1>3 DEF Older
  <2>2. entry.age + 1 \in 0..DropAfter
    BY <1>1, <1>3
  <2> QED  BY <2>1, <2>2, <1>1 DEF Presences
<1> QED  BY <1>2, <1>3

\* What a step of a row does to the calls: the row loses its first step.
MovesOn(c, rest) ==
  /\ \A d \in Caller \ {c} : call'[d] = call[d]
  /\ call'[c].todo = rest /\ call'[c].later = call[c].later
  /\ rest # <<>> => call'[c].who = call[c].who /\ call'[c].name = call[c].name

LEMMA GoesMoves ==
  ASSUME RoomTypeOK, NEW c \in Caller, call[c].todo # <<>>,
         NEW listed \in [Person -> Statuses], Goes(c, Rest(c), listed)
  PROVE  call' \in [Caller -> Calling] /\ MovesOn(c, Tail(call[c].todo))
<1> DEFINE rest == Tail(call[c].todo)
<1>1. rest \in Seq(Steps) /\ call \in [Caller -> Calling]
  BY CallType DEF RoomTypeOK
<1>2. CASE rest = <<>>
  <2>1. call' = [call EXCEPT ![c] = Later(call[c].later)]
    BY <1>2 DEF Goes, Rest
  <2>2. Later(call[c].later) \in Calling
    BY CallType, LaterType
  <2> QED  BY <1>1, <1>2, <2>1, <2>2, CallType, LaterType DEF MovesOn
<1>3. CASE rest # <<>>
  <2> DEFINE next == [call[c] EXCEPT !.todo = rest, !.listed = listed]
  <2>1. call' = [call EXCEPT ![c] = next]
    BY <1>3 DEF Goes, Rest
  <2>2. /\ next \in Calling /\ next.todo = rest /\ next.later = call[c].later
        /\ next.who = call[c].who /\ next.name = call[c].name
    BY <1>1, CallType DEF Calling
  <2> HIDE DEF next
  <2> QED  BY <1>1, <2>1, <2>2 DEF MovesOn
<1> QED  BY <1>2, <1>3

LEMMA ProceedsMoves ==
  ASSUME RoomTypeOK, NEW c \in Caller, call[c].todo # <<>>, Proceeds(c)
  PROVE  call' \in [Caller -> Calling] /\ MovesOn(c, Tail(call[c].todo))
BY GoesMoves, ConstantTypes DEF Proceeds

\* What beginning a task does.
LEMMA BeginsTask ==
  ASSUME RoomTypeOK, NEW c \in Caller, NEW task \in call[c].later, NEW row \in Seq(Steps),
         Begins(c, task, row)
  PROVE  /\ call' \in [Caller -> Calling]
         /\ \A d \in Caller \ {c} : call'[d] = call[d]
         /\ call'[c].todo = row /\ call'[c].later = call[c].later \ {task}
         /\ row # <<>> => call'[c].who = task.who /\ call'[c].name = task.name
<1> DEFINE rest == call[c].later \ {task}
<1>1. /\ task \in Tasks /\ task.who \in Person /\ task.name \in Names
      /\ rest \in SUBSET Tasks /\ call \in [Caller -> Calling]
  BY CallType DEF Tasks, RoomTypeOK
<1>2. CASE row = <<>>
  <2>1. call' = [call EXCEPT ![c] = Later(rest)]
    BY <1>2 DEF Begins
  <2> QED  BY <1>1, <1>2, <2>1, LaterType
<1>3. CASE row # <<>>
  <2> DEFINE request == At(task.who, task.name, row)
             next == [request EXCEPT !.later = rest]
  <2>1. call' = [call EXCEPT ![c] = next]
    BY <1>3 DEF Begins
  <2>2. /\ request \in Calling /\ request.todo = row
        /\ request.who = task.who /\ request.name = task.name
    BY <1>1, AtType
  <2>3. /\ next \in Calling /\ next.todo = row /\ next.later = rest
        /\ next.who = task.who /\ next.name = task.name
    <3> HIDE DEF request, rest
    <3> QED  BY <1>1, <2>2, WithLater
  <2> HIDE DEF next
  <2> QED  BY <1>1, <2>1, <2>3
<1> QED  BY <1>2, <1>3

LEMMA SweepType ==
  ASSUME RoomTypeOK, NEW s \in Sweeper
  PROVE  /\ sweep[s].at \in {"idle", "entries", "list", "show"}
         /\ sweep[s].listed \in [Person -> Presences]
         /\ sweep[s].todo \in SUBSET Person /\ sweep[s] \in Sweeping
<1>1. sweep[s] \in Sweeping
  BY DEF RoomTypeOK
<1> QED  BY <1>1 DEF Sweeping

LEMMA InitTyped == Init => RoomTypeOK
<1> SUFFICES ASSUME Init PROVE RoomTypeOK
  OBVIOUS
<1>1. NoSweep \in Sweeping
  BY ConstantTypes DEF NoSweep, Sweeping
<1> QED  BY <1>1, ConstantTypes, FreeFields DEF Init, RoomTypeOK

LEMMA CallsTyped ==
  ASSUME RoomTypeOK, NEW c \in Caller, NEW request \in Calling, Calls(c, request)
  PROVE  RoomTypeOK'
BY DEF RoomTypeOK, Calls, shown

\* The requests of the next-state relation.
Requests(c, request) ==
  \/ /\ request.todo \in {JoinSteps, LeaveSteps, Heartbeat, Disconnected}
     /\ request.later = {} /\ request.who \in Person
     /\ request.todo = JoinSteps => request.name # 0
     /\ request.todo = Heartbeat => roster[request.who] # 0
  \/ /\ request.todo = <<>>
     /\ \A task, other \in request.later : task.who = other.who => task = other
     /\ \A task \in request.later : task.what = "look" => task.name # 0

LEMMA ReconcileRequests ==
  ASSUME NEW c \in Caller, NEW snapshot \in [Channel -> Names], NEW authoritative \in BOOLEAN,
         Reconcile(c, snapshot, authoritative)
  PROVE  \E request \in Calling : Calls(c, request) /\ Requests(c, request)
<1> DEFINE named == {p \in Channel : snapshot[p] # 0}
           looks == {Do("look", p, snapshot[p]) : p \in named}
           absent == {Do("absent", p, 0) : p \in Channel \ named}
           tasks == looks \cup (IF authoritative THEN absent ELSE {})
<1>1. \A task \in looks : /\ task \in Tasks /\ task.what = "look" /\ task.name # 0
                          /\ task.who \in named /\ task = Do("look", task.who, snapshot[task.who])
  BY DoType DEF Person
<1>2. \A task \in absent : /\ task \in Tasks /\ task.what = "absent"
                           /\ task.who \notin named /\ task = Do("absent", task.who, 0)
  BY DoType, ConstantTypes DEF Person
<1>3. tasks \subseteq looks \cup absent
  OBVIOUS
<1>4. Calls(c, Later(tasks))
  BY DEF Reconcile
<1> HIDE DEF named, looks, absent, tasks
<1>5. tasks \in SUBSET Tasks
  BY <1>1, <1>2, <1>3
<1>6. \A task, other \in tasks : task.who = other.who => task = other
  BY <1>1, <1>2, <1>3
<1>7. \A task \in tasks : task.what = "look" => task.name # 0
  BY <1>1, <1>2, <1>3
<1> QED  BY <1>4, <1>5, <1>6, <1>7, LaterType DEF Requests

LEMMA NextRequests ==
  ASSUME RoomTypeOK, NEW c \in Caller,
         \/ \E p \in Web : Join(c, p) \/ Leave(c, p) \/ Beats(c, p) \/ HangsUp(c, p)
         \/ \E p \in Channel, name \in 1..MaxName : Receive(c, p, name)
         \/ \E snapshot \in [Channel -> Names], authoritative \in BOOLEAN :
              Reconcile(c, snapshot, authoritative)
  PROVE  \E request \in Calling : Calls(c, request) /\ Requests(c, request)
<1>1. ASSUME NEW p \in Web, Join(c, p) \/ Leave(c, p) \/ Beats(c, p) \/ HangsUp(c, p)
      PROVE  \E request \in Calling : Calls(c, request) /\ Requests(c, request)
  <2>0. p \in Person
    BY DEF Person
  <2> DEFINE G(name, row) == At(p, name, row)
  <2>1. \A name \in Names, row \in Seq(Steps) :
          /\ G(name, row) \in Calling /\ G(name, row).todo = row /\ G(name, row).who = p
          /\ G(name, row).name = name /\ G(name, row).later = {}
    BY <2>0, AtType
  <2>2. CASE Join(c, p)
    <3>1. Calls(c, G(1, JoinSteps))
      BY <2>2 DEF Join
    <3>2. Requests(c, G(1, JoinSteps))
      BY <2>0, <2>1, RowTypes, RowKinds, ConstantTypes DEF Requests
    <3> QED  BY <2>1, <3>1, <3>2, RowTypes, ConstantTypes
  <2>3. CASE Leave(c, p)
    <3>1. Calls(c, G(0, LeaveSteps))
      BY <2>3 DEF Leave
    <3>2. Requests(c, G(0, LeaveSteps))
      BY <2>0, <2>1, RowTypes, RowKinds, ConstantTypes DEF Requests, Marked, Quiet
    <3> QED  BY <2>1, <3>1, <3>2, RowTypes, ConstantTypes
  <2>4. CASE Beats(c, p)
    <3>1. Calls(c, G(0, Heartbeat)) /\ roster[p] # 0
      BY <2>4 DEF Beats, Member
    <3>2. Requests(c, G(0, Heartbeat))
      BY <2>0, <2>1, <3>1, RowTypes, RowKinds, ConstantTypes DEF Requests
    <3> QED  BY <2>1, <3>1, <3>2, RowTypes, ConstantTypes
  <2>5. CASE HangsUp(c, p)
    <3>1. Calls(c, G(0, Disconnected))
      BY <2>5 DEF HangsUp
    <3>2. Requests(c, G(0, Disconnected))
      BY <2>0, <2>1, RowTypes, RowKinds, ConstantTypes DEF Requests, Marked, Quiet
    <3> QED  BY <2>1, <3>1, <3>2, RowTypes, ConstantTypes
  <2> QED  BY <1>1, <2>2, <2>3, <2>4, <2>5
<1>2. ASSUME NEW p \in Channel, NEW name \in 1..MaxName, Receive(c, p, name)
      PROVE  \E request \in Calling : Calls(c, request) /\ Requests(c, request)
  <2> DEFINE task == Do("look", p, name)
  <2>1. task \in Tasks /\ task.name # 0
    BY DoType, ConstantTypes DEF Person, Names
  <2>2. Calls(c, Later({task}))
    BY <1>2 DEF Receive
  <2> HIDE DEF task
  <2> QED  BY <2>1, <2>2, LaterType DEF Requests
<1> QED  BY <1>1, <1>2, ReconcileRequests

LEMMA StepTyped ==
  ASSUME RoomTypeOK, NEW c \in Caller,
         \/ Adds(c) \/ Removes(c) \/ TellsJoined(c) \/ TellsLeft(c)
         \/ SetsPresence(c) \/ ClearsPresence(c) \/ Lists(c) \/ Shows(c)
  PROVE  RoomTypeOK' /\ call[c].todo # <<>> /\ MovesOn(c, Tail(call[c].todo))
<1>1. call[c].todo # <<>>
  BY DEF Adds, Removes, TellsJoined, TellsLeft, SetsPresence, ClearsPresence, Lists, Shows, Is
<1>2. call' \in [Caller -> Calling] /\ MovesOn(c, Tail(call[c].todo))
  <2>1. CASE Lists(c)
    BY <1>1, <2>1, GoesMoves, PresenceType DEF Lists
  <2>2. CASE ~Lists(c)
    BY <1>1, <2>2, ProceedsMoves
    DEF Adds, Removes, TellsJoined, TellsLeft, SetsPresence, ClearsPresence, Shows
  <2> QED  BY <2>1, <2>2
<1>3. UNCHANGED <<sweep, gone>>
  BY DEF Adds, Removes, TellsJoined, TellsLeft, SetsPresence, ClearsPresence, Lists, Shows
<1>4. /\ roster' \in [Person -> Names] /\ members' \in [Person -> Names]
      /\ presence' \in [Person -> Presences] /\ lookers' \in [Person -> Statuses]
  <2> USE CallType, ConstantTypes DEF RoomTypeOK, shown
  <2>1. CASE Adds(c)
    BY <2>1 DEF Adds
  <2>2. CASE Removes(c)
    BY <2>2 DEF Removes
  <2>3. CASE TellsJoined(c)
    BY <2>3 DEF TellsJoined
  <2>4. CASE TellsLeft(c)
    BY <2>4 DEF TellsLeft
  <2>5. CASE SetsPresence(c)
    <3>1. [status |-> "active", age |-> 0] \in Presences
      BY DEF Presences, Statuses
    <3> QED  BY <2>5, <3>1 DEF SetsPresence
  <2>6. CASE ClearsPresence(c)
    BY <2>6 DEF ClearsPresence
  <2>7. CASE Lists(c) \/ Shows(c)
    BY <2>7 DEF Lists, Shows
  <2> QED  BY <2>1, <2>2, <2>3, <2>4, <2>5, <2>6, <2>7
<1> QED  BY <1>1, <1>2, <1>3, <1>4 DEF RoomTypeOK

LEMMA TaskTyped ==
  ASSUME RoomTypeOK, NEW c \in Caller,
         \/ \E task \in call[c].later : Looks(c, task) \/ Leaves(c, task)
         \/ FindsAbsent(c)
  PROVE  RoomTypeOK'
<1>1. ASSUME NEW task \in call[c].later, Looks(c, task) \/ Leaves(c, task)
      PROVE  RoomTypeOK'
  <2>1. \E row \in Seq(Steps) : Begins(c, task, row)
    <3>1. \A row \in {<<>>, JoinSteps, LeaveSteps} : row \in Seq(Steps)
      <4>1. <<>> \in Seq(Steps)
        OBVIOUS
      <4> QED  BY <4>1, RowTypes, Zenon
    <3>2. \E row \in {<<>>, JoinSteps, LeaveSteps} : Begins(c, task, row)
      <4>1. CASE Looks(c, task)
        <5>1. CASE Known(task.who, task.name)
          BY <4>1, <5>1 DEF Looks
        <5>2. CASE ~Known(task.who, task.name)
          BY <4>1, <5>2 DEF Looks
        <5> QED  BY <5>1, <5>2
      <4>2. CASE Leaves(c, task)
        BY <4>2 DEF Leaves
      <4> QED  BY <1>1, <4>1, <4>2
    <3> QED  BY <3>1, <3>2
  <2>2. call' \in [Caller -> Calling]
    BY <2>1, BeginsTask
  <2> QED  BY <1>1, <2>2 DEF RoomTypeOK, Looks, Leaves, shown
<1>2. CASE FindsAbsent(c)
  <2> DEFINE absent == {p \in About(call[c]) : roster[p] # 0}
             tasks == {Do("leave", p, 0) : p \in absent}
  <2>1. absent \subseteq Person
    BY <1>2, CallType DEF About, FindsAbsent, Tasks
  <2>2. tasks \in SUBSET Tasks
    BY <2>1, DoType, ConstantTypes
  <2>3. call' = [call EXCEPT ![c] = Later(tasks)]
    BY <1>2 DEF FindsAbsent
  <2> HIDE DEF tasks
  <2> QED  BY <1>2, <2>2, <2>3, LaterType DEF RoomTypeOK, FindsAbsent, shown
<1> QED  BY <1>1, <1>2

LEMMA TickTyped == ASSUME RoomTypeOK, Tick PROVE RoomTypeOK'
<1>1. presence' \in [Person -> Presences]
  BY PresenceType, OlderType DEF Tick
<1>2. ASSUME NEW s \in Sweeper PROVE sweep'[s] \in Sweeping
  <2> DEFINE listed == [p \in Person |-> IF p \in sweep[s].todo THEN Older(sweep[s].listed[p])
                                                              ELSE sweep[s].listed[p]]
  <2>1. listed \in [Person -> Presences]
    BY SweepType, OlderType
  <2>2. sweep'[s] = [sweep[s] EXCEPT !.listed = listed]
    BY DEF Tick
  <2> HIDE DEF listed
  <2> QED  BY <2>1, <2>2, SweepType DEF Sweeping
<1>3. sweep' \in [Sweeper -> Sweeping]
  BY <1>2 DEF Tick
<1> QED  BY <1>1, <1>3 DEF RoomTypeOK, Tick, shown

\* What the steps of a sweep do: nobody becomes active, nobody is added to what it
\* has yet to take, and what it has listed is as idle as before.
SweepMoves(s) ==
  /\ UNCHANGED <<roster, members, call, gone>>
  /\ \A other \in Sweeper \ {s} : sweep'[other] = sweep[other]
  /\ \A p \in Person : presence'[p].status = "active" => presence[p].status = "active"
  /\ SweepInv(s)'

LEMMA SweepListsMoves ==
  ASSUME RoomTypeOK, NEW s \in Sweeper, SweepLists(s)
  PROVE  RoomTypeOK' /\ SweepMoves(s)
<1> DEFINE due == {p \in Person : Stale(presence[p]) \/ Idles(presence[p])}
           Mark(p) == [presence[p] EXCEPT !.status = IF Stale(presence[p]) THEN "away" ELSE "idle"]
           listed == [p \in Person |-> IF p \in due THEN Mark(p) ELSE Away]
           next == [NoSweep EXCEPT !.at = "entries", !.todo = due, !.listed = listed]
<1>1. \A p \in Person : Mark(p) \in Presences /\ Mark(p).status # "active"
  BY PresenceType DEF Presences, Statuses
<1>2. sweep' = [sweep EXCEPT ![s] = next]
  BY DEF SweepLists
<1>3. due \in SUBSET Person
  OBVIOUS
<1> HIDE DEF due, Mark
<1>4. /\ listed \in [Person -> Presences]
      /\ \A p \in due : listed[p].status # "active"
  BY <1>1, <1>3, ConstantTypes
<1> HIDE DEF listed
<1>5. next \in Sweeping /\ next.at = "entries" /\ next.todo = due /\ next.listed = listed
  BY <1>3, <1>4, ConstantTypes DEF NoSweep, Sweeping
<1> HIDE DEF next
<1>6. /\ UNCHANGED <<roster, presence, members, lookers, call, gone>>
  BY DEF SweepLists, shown
<1>7. /\ sweep' \in [Sweeper -> Sweeping] /\ sweep'[s] = next
      /\ \A other \in Sweeper \ {s} : sweep'[other] = sweep[other]
  BY <1>2, <1>5 DEF RoomTypeOK
<1>8. SweepInv(s)'
  BY <1>4, <1>5, <1>7 DEF SweepInv
<1> QED  BY <1>6, <1>7, <1>8 DEF RoomTypeOK, SweepMoves

LEMMA SweepTakesMoves ==
  ASSUME RoomTypeOK, NEW s \in Sweeper, SweepInv(s), NEW p \in Person, SweepTakes(s, p)
  PROVE  RoomTypeOK' /\ SweepMoves(s)
<1> DEFINE listed == sweep[s].listed
           entry == IF listed[p].status = "away" THEN Away ELSE listed[p]
           next == [sweep[s] EXCEPT !.todo = sweep[s].todo \ {p}, !.listed[p] = Away,
                                    !.at = IF sweep[s].todo = {p} THEN "list" ELSE @]
<1>1. /\ listed \in [Person -> Presences] /\ p \in sweep[s].todo
      /\ sweep[s].todo \in SUBSET Person
  BY SweepType DEF SweepTakes
<1>2. entry \in Presences /\ entry.status # "active"
  BY <1>1, ConstantTypes DEF SweepInv, Away
<1>3. presence' = [presence EXCEPT ![p] = entry] /\ sweep' = [sweep EXCEPT ![s] = next]
  BY DEF SweepTakes
<1>4. /\ next \in Sweeping /\ next.todo = sweep[s].todo \ {p}
      /\ next.at = IF sweep[s].todo = {p} THEN "list" ELSE sweep[s].at
      /\ \A q \in Person \ {p} : next.listed[q] = listed[q]
  BY <1>1, SweepType, ConstantTypes DEF Sweeping
<1> HIDE DEF entry, next
<1>5. /\ UNCHANGED <<roster, members, lookers, call, gone>>
  BY DEF SweepTakes, shown
<1>6. /\ sweep' \in [Sweeper -> Sweeping] /\ sweep'[s] = next
      /\ \A other \in Sweeper \ {s} : sweep'[other] = sweep[other]
  BY <1>3, <1>4 DEF RoomTypeOK
<1>7. /\ presence' \in [Person -> Presences]
      /\ \A q \in Person : presence'[q].status = "active" => presence[q].status = "active"
  BY <1>2, <1>3 DEF RoomTypeOK
<1>8. SweepInv(s)'
  BY <1>1, <1>4, <1>6 DEF SweepInv
<1> QED  BY <1>5, <1>6, <1>7, <1>8 DEF RoomTypeOK, SweepMoves

LEMMA SweepReadsMoves ==
  ASSUME RoomTypeOK, NEW s \in Sweeper, SweepInv(s), SweepReads(s)
  PROVE  RoomTypeOK' /\ SweepMoves(s)
<1> DEFINE listed == [p \in Person |-> [presence[p] EXCEPT !.age = 0]]
           next == [sweep[s] EXCEPT !.at = "show", !.listed = listed]
<1>1. listed \in [Person -> Presences]
  BY PresenceType, ConstantTypes DEF Presences
<1>2. sweep' = [sweep EXCEPT ![s] = next]
  BY DEF SweepReads
<1> HIDE DEF listed
<1>3. next \in Sweeping /\ next.todo = sweep[s].todo /\ next.at = "show"
  BY <1>1, SweepType DEF Sweeping
<1> HIDE DEF next
<1>4. UNCHANGED <<roster, presence, members, lookers, call, gone>>
  BY DEF SweepReads, shown
<1>5. /\ sweep' \in [Sweeper -> Sweeping] /\ sweep'[s] = next
      /\ \A other \in Sweeper \ {s} : sweep'[other] = sweep[other]
  BY <1>2, <1>3 DEF RoomTypeOK
<1>6. RoomTypeOK'
  BY <1>4, <1>5 DEF RoomTypeOK
<1>7. SweepInv(s)'
  BY <1>3, <1>5 DEF SweepInv, SweepReads
<1> QED  BY <1>4, <1>5, <1>6, <1>7 DEF SweepMoves

LEMMA SweepShowsMoves ==
  ASSUME RoomTypeOK, NEW s \in Sweeper, SweepShows(s)
  PROVE  RoomTypeOK' /\ SweepMoves(s)
<1>1. NoSweep \in Sweeping /\ NoSweep.todo = {}
  BY ConstantTypes DEF NoSweep, Sweeping
<1>2. \A p \in Person : sweep[s].listed[p].status \in Statuses
  BY SweepType DEF Presences
<1> HIDE DEF NoSweep
<1>3. /\ UNCHANGED <<roster, presence, members, call, gone>>
      /\ lookers' \in [Person -> Statuses] /\ sweep' = [sweep EXCEPT ![s] = NoSweep]
  BY <1>2 DEF SweepShows
<1>4. /\ sweep' \in [Sweeper -> Sweeping] /\ sweep'[s] = NoSweep
      /\ \A other \in Sweeper \ {s} : sweep'[other] = sweep[other]
  BY <1>1, <1>3 DEF RoomTypeOK
<1>5. SweepInv(s)'
  BY <1>1, <1>4 DEF SweepInv
<1> QED  BY <1>3, <1>4, <1>5 DEF RoomTypeOK, SweepMoves

(***************************************************************************)
(* The calls, and what they leave undone.                                  *)
(***************************************************************************)
LEMMA Alone ==
  ASSUME Apart, NEW c \in Caller, NEW d \in Caller, c # d,
         call[c].todo # <<>>, call[d].todo # <<>>
  PROVE  Who(c) # Who(d)
BY DEF Apart, About, Who

\* Whoever is acted on by a call is acted on by that one.
LEMMA ActsAlone ==
  ASSUME Apart, NEW c \in Caller, call[c].todo # <<>>, NEW rows, <<>> \notin rows,
         Acts(Who(c), rows)
  PROVE  call[c].todo \in rows
BY Alone DEF Acts

\* A step of a row disturbs nobody but whom it is for.
LEMMA RowKeeps ==
  ASSUME RowsInv, NEW c \in Caller, call[c].todo # <<>>, NEW p \in Person, Who(c) = p,
         NEW rest \in Rows, MovesOn(c, rest),
         rest # JoinSteps, rest = Added => call[c].todo = JoinSteps,
         \A q \in Person \ {p} : /\ roster'[q] = roster[q] /\ members'[q] = members[q]
                                      /\ presence'[q].status = presence[q].status,
         UNCHANGED sweep, DoneInv(c)', PersonInv(p)'
  PROVE  RowsInv'
<1>1. CallInv(c) /\ Apart
  BY DEF RowsInv
<1>2. About(call'[c]) \subseteq About(call[c])
  BY DEF MovesOn, About
<1>3. Apart'
  BY <1>1, <1>2 DEF Apart, MovesOn
<1>4. CallInv(c)'
  <2>1. rest # <<>> => call'[c].who = p /\ call'[c].name = call[c].name
    BY DEF MovesOn, Who
  <2>2. /\ rest # <<>> => p \in Person /\ \A task \in call'[c].later : task.who # p
        /\ \A task, other \in call'[c].later : task.who = other.who => task = other
        /\ \A task \in call'[c].later : task.what = "look" => task.name # 0
    BY <1>1 DEF CallInv, MovesOn
  <2>3. rest \in {JoinSteps, Added} => rest # <<>> /\ call[c].name # 0
    BY <1>1, RowKinds DEF CallInv, Marked
  <2> QED  BY <2>1, <2>2, <2>3 DEF CallInv, MovesOn, Who
<1>5. ASSUME NEW d \in Caller \ {c} PROVE CallInv(d)' /\ DoneInv(d)'
  <2>1. call'[d] = call[d] /\ CallInv(d) /\ DoneInv(d)
    BY DEF MovesOn, RowsInv
  <2>2. CallInv(d)'
    BY <2>1 DEF CallInv, Who
  <2>3. CASE call[d].todo # <<>>
    <3>1. Who(d) \in Person \ {p}
      BY <1>1, <2>1, <2>3, Alone DEF CallInv
    <3> QED  BY <2>1, <2>2, <3>1 DEF DoneInv, Who
  <2>4. CASE call[d].todo = <<>>
    BY <2>1, <2>2, <2>4, RowKinds DEF DoneInv, Marked
  <2> QED  BY <2>3, <2>4
<1>6. ASSUME NEW q \in Person, q # p PROVE PersonInv(q)'
  <2>1. /\ PersonInv(q) /\ roster'[q] = roster[q] /\ members'[q] = members[q]
        /\ presence'[q].status = presence[q].status
    BY <1>6 DEF RowsInv
  <2>2. ASSUME NEW rows, Acts(q, rows) PROVE Acts(q, rows)'
    <3>1. PICK d \in Caller : Who(d) = q /\ call[d].todo \in rows
      BY <2>2 DEF Acts
    <3>2. call'[d] = call[d]
      BY <1>6, <3>1 DEF MovesOn
    <3> QED  BY <3>1, <3>2 DEF Acts, Who
  <2> QED  BY <2>1, <2>2 DEF PersonInv
<1>7. \A s \in Sweeper : SweepInv(s)'
  BY DEF RowsInv, SweepInv
<1> QED  BY <1>3, <1>4, <1>5, <1>6, <1>7 DEF RowsInv

\* A call that comes in or that takes up a task disturbs nobody.
LEMMA StartKeeps ==
  ASSUME RowsInv, NEW c \in Caller, call[c].todo = <<>>,
         \A d \in Caller \ {c} : call'[d] = call[d],
         \A d \in Caller \ {c} : About(call'[c]) \cap About(call[d]) = {},
         UNCHANGED <<roster, presence, members, sweep>>, CallInv(c)', DoneInv(c)'
  PROVE  RowsInv'
<1>1. Apart'
  BY DEF Apart, RowsInv
<1>2. ASSUME NEW d \in Caller \ {c} PROVE CallInv(d)' /\ DoneInv(d)'
  BY DEF RowsInv, CallInv, DoneInv, Who
<1>3. ASSUME NEW q \in Person PROVE PersonInv(q)'
  <2>1. PersonInv(q)
    BY DEF RowsInv
  <2>2. ASSUME NEW rows, <<>> \notin rows, Acts(q, rows) PROVE Acts(q, rows)'
    <3>1. PICK d \in Caller : Who(d) = q /\ call[d].todo \in rows
      BY <2>2 DEF Acts
    <3>2. call'[d] = call[d]
      BY <2>2, <3>1
    <3> QED  BY <3>1, <3>2 DEF Acts, Who
  <2>3. <<>> \notin {Added} \cup Leaving /\ <<>> \notin {Removed}
    BY RowKinds DEF Marked
  <2> QED  BY <2>1, <2>2, <2>3 DEF PersonInv
<1>4. \A s \in Sweeper : SweepInv(s)'
  BY DEF RowsInv, SweepInv
<1> QED  BY <1>1, <1>2, <1>3, <1>4 DEF RowsInv

\* What a call leaves behind when it takes a step of its row.
LEMMA StepDone ==
  ASSUME RoomTypeOK, RowsInv, NEW c \in Caller, NEW p \in Person, Who(c) = p,
         call[c].todo # <<>>, NEW rest \in Rows, rest = Tail(call[c].todo), MovesOn(c, rest),
         \/ Adds(c) \/ Removes(c) \/ TellsJoined(c) \/ TellsLeft(c)
         \/ SetsPresence(c) \/ ClearsPresence(c) \/ Lists(c) \/ Shows(c)
  PROVE  /\ DoneInv(c)' /\ PersonInv(p)' /\ rest # JoinSteps
         /\ rest = Added => call[c].todo = JoinSteps
<1> DEFINE row == call[c].todo
<1>1. Apart /\ CallInv(c) /\ DoneInv(c) /\ PersonInv(p) /\ row \in Rows
  BY DEF RowsInv, CallInv
<1>2. /\ members[p] # roster[p] => row \in {Added} \cup Leaving
      /\ roster[p] = 0 /\ presence[p].status = "active" => row = Removed
  <2>1. <<>> \notin {Added} \cup Leaving /\ <<>> \notin {Removed}
    BY RowKinds DEF Marked
  <2> QED  BY <1>1, <2>1, ActsAlone DEF PersonInv
<1>3. /\ call'[c].todo = rest
      /\ rest # <<>> => call'[c].who = p /\ call'[c].name = call[c].name
  BY DEF MovesOn, Who
<1>4. \A rows : rest \in rows /\ rest # <<>> => Acts(p, rows)'
  BY <1>3 DEF Acts, Who
<1>5. ASSUME rest \in Quiet
      PROVE  DoneInv(c)' /\ rest # JoinSteps /\ rest # Added
  BY <1>3, <1>5, RowKinds DEF DoneInv, Marked
<1>6. ASSUME rest \in Leaving
      PROVE  /\ rest \notin {JoinSteps, Added, Heartbeat} /\ rest # <<>>
             /\ members'[p] = 0 => DoneInv(c)'
  BY <1>3, <1>6, RowKinds DEF DoneInv, Marked, Who
<1>7. CASE Adds(c)
  <2>1. row = JoinSteps /\ rest = Added
    BY <1>1, <1>7, AfterStep DEF Adds, Is
  <2>2. Added # <<>> /\ Added # JoinSteps /\ Added # Heartbeat /\ Added \notin Leaving
    BY RowKinds DEF Marked
  <2>3. call[c].name # 0
    BY <1>1, <2>1 DEF CallInv
  <2>4. roster'[p] = call[c].name
    BY <1>7 DEF Adds, RoomTypeOK, Who
  <2>5. DoneInv(c)'
    BY <1>3, <2>1, <2>2, <2>4 DEF DoneInv, Who
  <2>6. Acts(p, {Added} \cup Leaving)'
    BY <1>4, <2>1, <2>2
  <2> QED  BY <2>1, <2>2, <2>3, <2>4, <2>5, <2>6 DEF PersonInv
<1>8. CASE TellsJoined(c)
  <2>1. row = Added /\ rest = Heartbeat
    BY <1>1, <1>8, AfterStep DEF TellsJoined, Is
  <2>2. Heartbeat # <<>> /\ Heartbeat # JoinSteps /\ Heartbeat # Added /\ Heartbeat \notin Leaving
    BY RowKinds DEF Marked
  <2>3. call[c].name # 0 /\ roster[p] = call[c].name
    BY <1>1, <2>1 DEF CallInv, DoneInv
  <2>4. members'[p] = call[c].name /\ roster' = roster
    BY <1>8 DEF TellsJoined, RoomTypeOK, Who
  <2>5. DoneInv(c)'
    BY <1>3, <2>1, <2>2, <2>3, <2>4 DEF DoneInv, Who
  <2> QED  BY <2>1, <2>2, <2>3, <2>4, <2>5 DEF PersonInv
<1>9. CASE SetsPresence(c)
  <2>1. row = Heartbeat /\ rest \in Quiet
    BY <1>1, <1>9, AfterStep DEF SetsPresence, Is
  <2>2. Heartbeat \notin {Added} \cup Leaving
    BY RowKinds
  <2>3. roster[p] # 0 /\ members[p] = roster[p]
    BY <1>1, <1>2, <2>1, <2>2 DEF DoneInv
  <2>4. roster' = roster /\ members' = members
    BY <1>9 DEF SetsPresence, shown
  <2> QED  BY <1>5, <2>1, <2>3, <2>4 DEF PersonInv
<1>10. CASE Lists(c) \/ Shows(c)
  <2>1. UNCHANGED <<roster, presence, members>>
    BY <1>10 DEF Lists, Shows, shown
  <2>2. \/ row \in Quiet /\ rest \in Quiet
        \/ row \in Leaving /\ rest \in Leaving
    BY <1>1, <1>10, AfterStep DEF Lists, Shows, Is
  <2>3. CASE row \in Quiet /\ rest \in Quiet
    <3>1. row \notin {Added} \cup Leaving /\ row # Removed
      BY <2>3, RowKinds DEF Marked
    <3> QED  BY <1>2, <1>5, <2>1, <2>3, <3>1 DEF PersonInv
  <2>4. CASE row \in Leaving /\ rest \in Leaving
    <3>1. members[p] = 0 /\ row # Removed
      BY <1>1, <2>4, RowKinds DEF DoneInv
    <3>2. Acts(p, {Added} \cup Leaving)'
      BY <1>4, <1>6, <2>4
    <3> QED  BY <1>2, <1>6, <2>1, <2>4, <3>1, <3>2 DEF PersonInv
  <2> QED  BY <2>2, <2>3, <2>4
<1>11. CASE ClearsPresence(c)
  <2>1. row \in Quiet \cup {Removed} /\ rest \in Quiet
    BY <1>1, <1>11, AfterStep DEF ClearsPresence, Is
  <2>2. row \notin {Added} \cup Leaving
    BY <2>1, RowKinds DEF Marked
  <2>3. presence'[p].status # "active" /\ roster' = roster /\ members' = members
    BY <1>11 DEF ClearsPresence, RoomTypeOK, Who, Away, shown
  <2> QED  BY <1>2, <1>5, <2>1, <2>2, <2>3 DEF PersonInv
<1>12. CASE TellsLeft(c)
  <2>1. row \in Quiet /\ rest \in Leaving
    BY <1>1, <1>12, AfterStep DEF TellsLeft, Is
  <2>2. row # Removed
    BY <2>1, RowKinds DEF Marked
  <2>3. members'[p] = 0 /\ roster' = roster /\ presence' = presence
    BY <1>12 DEF TellsLeft, RoomTypeOK, Who
  <2>4. Acts(p, {Added} \cup Leaving)'
    BY <1>4, <1>6, <2>1
  <2> QED  BY <1>2, <1>6, <2>1, <2>2, <2>3, <2>4 DEF PersonInv
<1>13. CASE Removes(c)
  <2>1. row \in Leaving /\ rest = Removed
    BY <1>1, <1>13, AfterStep DEF Removes, Is
  <2>2. Removed # <<>> /\ Removed \notin {JoinSteps, Added, Heartbeat} \cup Leaving
    BY RowKinds DEF Marked
  <2>3. members[p] = 0
    BY <1>1, <2>1 DEF DoneInv
  <2>4. roster'[p] = 0 /\ members' = members
    BY <1>13 DEF Removes, RoomTypeOK, Who, shown
  <2>5. DoneInv(c)'
    BY <1>3, <2>1, <2>2 DEF DoneInv
  <2>6. Acts(p, {Removed})'
    BY <1>4, <2>1, <2>2
  <2> QED  BY <2>1, <2>2, <2>3, <2>4, <2>5, <2>6 DEF PersonInv
<1> QED  BY <1>7, <1>8, <1>9, <1>10, <1>11, <1>12, <1>13

LEMMA StepRows ==
  ASSUME RoomTypeOK, RowsInv, NEW c \in Caller,
         \/ Adds(c) \/ Removes(c) \/ TellsJoined(c) \/ TellsLeft(c)
         \/ SetsPresence(c) \/ ClearsPresence(c) \/ Lists(c) \/ Shows(c)
  PROVE  RowsInv'
<1>1. call[c].todo # <<>> /\ MovesOn(c, Tail(call[c].todo))
  BY StepTyped
<1>2. Who(c) \in Person /\ call[c].todo \in Rows
  BY <1>1 DEF RowsInv, CallInv
<1>3. Tail(call[c].todo) \in Rows
  <2>1. Head(call[c].todo) \in {"add", "remove", "tell_joined", "tell_left", "beat", "clear",
                                 "list", "show"}
    BY DEF Adds, Removes, TellsJoined, TellsLeft, SetsPresence, ClearsPresence, Lists, Shows, Is
  <2> QED  BY <1>1, <1>2, <2>1, AfterStep, RowKinds DEF Marked
<1>4. PICK p \in Person : Who(c) = p
  BY <1>2
<1>5. PICK rest \in Rows : rest = Tail(call[c].todo)
  BY <1>3
<1>6. \A q \in Person \ {p} : /\ roster'[q] = roster[q] /\ members'[q] = members[q]
                              /\ presence'[q].status = presence[q].status
  BY <1>4 DEF Adds, Removes, TellsJoined, TellsLeft, SetsPresence, ClearsPresence, Lists, Shows,
              shown, RoomTypeOK
<1>7. UNCHANGED sweep
  BY DEF Adds, Removes, TellsJoined, TellsLeft, SetsPresence, ClearsPresence, Lists, Shows
<1>8. MovesOn(c, rest)
  BY <1>1, <1>5
<1>9. /\ DoneInv(c)' /\ PersonInv(p)' /\ rest # JoinSteps
      /\ rest = Added => call[c].todo = JoinSteps
  BY <1>1, <1>4, <1>5, <1>8, StepDone
<1> QED  BY <1>1, <1>4, <1>6, <1>7, <1>8, <1>9, RowKeeps

LEMMA CallRows ==
  ASSUME RowsInv, ~Overlap, RoomTypeOK, NEW c \in Caller, NEW request \in Calling,
         Calls(c, request), Requests(c, request)
  PROVE  RowsInv'
<1>1. /\ call[c].todo = <<>> /\ call[c].later = {}
  BY FreeFields DEF Calls
<1>2. /\ call'[c] = request /\ \A d \in Caller \ {c} : call'[d] = call[d]
      /\ UNCHANGED <<roster, presence, members, sweep>>
  BY DEF Calls, RoomTypeOK, shown
<1>3. \A d \in Caller \ {c} : About(call'[c]) \cap About(call[d]) = {}
  BY <1>2 DEF Calls, Busy
<1>4. request.todo \in {<<>>, JoinSteps, LeaveSteps, Heartbeat, Disconnected}
  BY DEF Requests
<1>5. request.todo \in Rows
  BY <1>4, RowKinds DEF Marked, Quiet
<1>6. request.todo \notin {Added} \cup Leaving
  <2>1. /\ <<>> \notin Marked /\ LeaveSteps \notin Marked /\ Disconnected \notin Marked
    BY RowKinds DEF Quiet
  <2> QED  BY <1>4, <2>1, RowKinds DEF Marked
<1>7. JoinSteps # <<>> /\ Heartbeat # <<>> /\ JoinSteps # Heartbeat
  BY RowTypes, RowKinds
<1>8. CallInv(c)'
  BY <1>2, <1>5, <1>6, <1>7 DEF Requests, CallInv, Who
<1>9. DoneInv(c)'
  BY <1>2, <1>6, <1>7 DEF Requests, DoneInv, Who
<1> QED  BY <1>1, <1>2, <1>3, <1>8, <1>9, StartKeeps

LEMMA TaskRows ==
  ASSUME RoomTypeOK, RowsInv, NEW c \in Caller,
         \/ \E task \in call[c].later : Looks(c, task) \/ Leaves(c, task)
         \/ FindsAbsent(c)
  PROVE  RowsInv'
<1>0. /\ CallInv(c) /\ Apart
      /\ UNCHANGED <<roster, presence, members, sweep>>
  BY DEF RowsInv, Looks, Leaves, FindsAbsent, shown
<1>1. ASSUME NEW task \in call[c].later, Looks(c, task) \/ Leaves(c, task)
      PROVE  RowsInv'
  <2>1. call[c].todo = <<>> /\ task \in Tasks
    BY <1>1, CallType DEF Looks, Leaves, Takes
  <2>2. PICK row \in {<<>>, JoinSteps, LeaveSteps} :
          Begins(c, task, row) /\ (row = JoinSteps => task.name # 0)
    <3>1. JoinSteps # LeaveSteps /\ JoinSteps # <<>>
      BY RowTypes, RowKinds DEF Marked, Quiet
    <3>2. CASE Looks(c, task)
      <4>1. task.name # 0
        BY <1>0, <3>2 DEF CallInv, Looks
      <4>2. CASE Known(task.who, task.name)
        BY <3>2, <4>1, <4>2 DEF Looks
      <4>3. CASE ~Known(task.who, task.name)
        BY <3>2, <4>1, <4>3 DEF Looks
      <4> QED  BY <4>2, <4>3
    <3>3. CASE Leaves(c, task)
      BY <3>1, <3>3 DEF Leaves
    <3> QED  BY <1>1, <3>2, <3>3
  <2>3. row \in Seq(Steps) /\ row \in Rows /\ row \notin {Added, Heartbeat} \cup Leaving
    <3>1. <<>> \in Seq(Steps)
      OBVIOUS
    <3>2. row \in Seq(Steps)
      BY <2>2, <3>1, RowTypes, Zenon
    <3> QED  BY <2>2, <3>2, RowKinds DEF Marked, Quiet
  <2>4. /\ \A d \in Caller \ {c} : call'[d] = call[d]
        /\ call'[c].todo = row /\ call'[c].later = call[c].later \ {task}
        /\ row # <<>> => call'[c].who = task.who /\ call'[c].name = task.name
    BY <2>2, <2>3, BeginsTask
  <2>5. About(call'[c]) \subseteq About(call[c])
    BY <2>4 DEF About
  <2>6. \A d \in Caller \ {c} : About(call'[c]) \cap About(call[d]) = {}
    BY <1>0, <2>5 DEF Apart
  <2>7. CallInv(c)'
    <3>1. task.who \in Person
      BY <2>1 DEF Tasks
    <3>2. \A other \in call'[c].later : other.who # task.who
      BY <1>0, <2>4 DEF CallInv
    <3>3. /\ \A one, other \in call'[c].later : one.who = other.who => one = other
          /\ \A other \in call'[c].later : other.what = "look" => other.name # 0
      BY <1>0, <2>4 DEF CallInv
    <3>4. row \in {JoinSteps, Added} => row # <<>> /\ task.name # 0
      BY <2>2, <2>3, RowTypes
    <3> QED  BY <2>3, <2>4, <3>1, <3>2, <3>3, <3>4 DEF CallInv, Who
  <2>8. DoneInv(c)'
    BY <2>3, <2>4 DEF DoneInv
  <2> QED  BY <1>0, <2>1, <2>4, <2>6, <2>7, <2>8, StartKeeps
<1>2. CASE FindsAbsent(c)
  <2> DEFINE absent == {p \in About(call[c]) : roster[p] # 0}
             tasks == {Do("leave", p, 0) : p \in absent}
  <2>1. absent \subseteq Person
    BY <1>2, CallType DEF About, FindsAbsent, Tasks
  <2>2. /\ tasks \in SUBSET Tasks
        /\ \A task \in tasks : /\ task.what = "leave" /\ task.who \in absent
                              /\ task = Do("leave", task.who, 0)
    BY <2>1, DoType, ConstantTypes
  <2>3. call' = [call EXCEPT ![c] = Later(tasks)] /\ call[c].todo = <<>>
    BY <1>2 DEF FindsAbsent
  <2>4. absent \subseteq About(call[c])
    OBVIOUS
  <2> HIDE DEF absent, tasks
  <2>5. /\ call'[c].todo = <<>> /\ call'[c].later = tasks
        /\ \A d \in Caller \ {c} : call'[d] = call[d]
    BY <2>2, <2>3, LaterType DEF RoomTypeOK
  <2>6. About(call'[c]) \subseteq About(call[c])
    BY <2>2, <2>4, <2>5 DEF About
  <2>7. \A d \in Caller \ {c} : About(call'[c]) \cap About(call[d]) = {}
    BY <1>0, <2>6 DEF Apart
  <2>8. <<>> \in Rows /\ <<>> \notin {JoinSteps, Added, Heartbeat} \cup Leaving
    BY RowKinds DEF Marked, Quiet
  <2>9. CallInv(c)' /\ DoneInv(c)'
    BY <2>2, <2>5, <2>8 DEF CallInv, DoneInv
  <2> QED  BY <1>0, <2>3, <2>5, <2>7, <2>9, StartKeeps
<1> QED  BY <1>1, <1>2

(***************************************************************************)
(* The sweep, time, and the theorems.                                      *)
(***************************************************************************)
LEMMA SweepRows ==
  ASSUME RowsInv, NEW s \in Sweeper, SweepMoves(s)
  PROVE  RowsInv'
<1>1. UNCHANGED <<roster, members, call>>
  BY DEF SweepMoves
<1>2. Apart' /\ \A c \in Caller : CallInv(c)' /\ DoneInv(c)'
  BY <1>1 DEF RowsInv, Apart, CallInv, DoneInv, Who
<1>3. ASSUME NEW p \in Person PROVE PersonInv(p)'
  <2>1. \A rows : Acts(p, rows) => Acts(p, rows)'
    BY <1>1 DEF Acts, Who
  <2> QED  BY <1>1, <2>1 DEF RowsInv, PersonInv, SweepMoves
<1>4. \A other \in Sweeper : SweepInv(other)'
  BY DEF RowsInv, SweepInv, SweepMoves
<1> QED  BY <1>2, <1>3, <1>4 DEF RowsInv

LEMMA TickRows == ASSUME RoomTypeOK, RowsInv, Tick PROVE RowsInv'
<1>1. UNCHANGED <<roster, members, call>>
  BY DEF Tick, shown
<1>2. Apart' /\ \A c \in Caller : CallInv(c)' /\ DoneInv(c)'
  BY <1>1 DEF RowsInv, Apart, CallInv, DoneInv, Who
<1>3. ASSUME NEW p \in Person PROVE PersonInv(p)'
  <2>1. \A rows : Acts(p, rows) => Acts(p, rows)'
    BY <1>1 DEF Acts, Who
  <2>2. presence'[p].status = presence[p].status
    BY PresenceType, OlderType DEF Tick
  <2> QED  BY <1>1, <2>1, <2>2 DEF RowsInv, PersonInv
<1>4. ASSUME NEW s \in Sweeper PROVE SweepInv(s)'
  <2> DEFINE listed == [p \in Person |-> IF p \in sweep[s].todo THEN Older(sweep[s].listed[p])
                                                              ELSE sweep[s].listed[p]]
  <2>1. sweep'[s] = [sweep[s] EXCEPT !.listed = listed]
    BY DEF Tick
  <2>2. \A p \in Person : listed[p].status = sweep[s].listed[p].status
    BY SweepType, OlderType
  <2> HIDE DEF listed
  <2>3. /\ sweep'[s].at = sweep[s].at /\ sweep'[s].todo = sweep[s].todo
        /\ sweep'[s].listed = listed
    BY <2>1, SweepType DEF Sweeping
  <2> QED  BY <2>2, <2>3, SweepType DEF RowsInv, SweepInv
<1> QED  BY <1>2, <1>3, <1>4 DEF RowsInv

LEMMA InitRows == Init => RowsInv
<1> SUFFICES ASSUME Init PROVE RowsInv
  OBVIOUS
<1>1. \A c \in Caller : call[c].todo = <<>> /\ call[c].later = {}
  BY FreeFields DEF Init
<1>2. <<>> \in Rows /\ <<>> \notin {JoinSteps, Added, Heartbeat} \cup Leaving
  BY RowKinds DEF Marked, Quiet
<1>3. Apart /\ \A c \in Caller : CallInv(c) /\ DoneInv(c)
  BY <1>1, <1>2 DEF Apart, About, CallInv, DoneInv
<1>4. \A p \in Person : PersonInv(p)
  BY DEF Init, PersonInv, Away
<1>5. \A s \in Sweeper : SweepInv(s)
  BY DEF Init, SweepInv, NoSweep
<1> QED  BY <1>3, <1>4, <1>5 DEF RowsInv

LEMMA NextRows ==
  ASSUME RoomTypeOK, RowsInv, ~Overlap, [Next]_vars
  PROVE  RoomTypeOK' /\ RowsInv'
<1>1. ASSUME NEW c \in Caller,
             \/ \E p \in Web : Join(c, p) \/ Leave(c, p) \/ Beats(c, p) \/ HangsUp(c, p)
             \/ \E p \in Channel, name \in 1..MaxName : Receive(c, p, name)
             \/ \E snapshot \in [Channel -> Names], authoritative \in BOOLEAN :
                  Reconcile(c, snapshot, authoritative)
      PROVE  RoomTypeOK' /\ RowsInv'
  <2>1. PICK request \in Calling : Calls(c, request) /\ Requests(c, request)
    BY <1>1, NextRequests
  <2> QED  BY <2>1, CallsTyped, CallRows
<1>2. ASSUME NEW c \in Caller, CallGoesOn(c)
      PROVE  RoomTypeOK' /\ RowsInv'
  BY <1>2, StepTyped, StepRows, TaskTyped, TaskRows DEF CallGoesOn
<1>3. ASSUME \/ \E p \in Person : Dies(p)
             \/ UNCHANGED vars
      PROVE  RoomTypeOK' /\ RowsInv'
  <2>1. UNCHANGED <<roster, members, lookers, presence, call, sweep>>
    BY <1>3 DEF Dies, vars, shown
  <2>2. gone' \subseteq Person
    BY <1>3 DEF Dies, vars, RoomTypeOK
  <2>3. RoomTypeOK'
    BY <2>1, <2>2 DEF RoomTypeOK
  <2>4. RowsInv'
    BY <2>1 DEF RowsInv, Apart, CallInv, DoneInv, PersonInv, SweepInv, Acts, Who
  <2> QED  BY <2>3, <2>4
<1>4. CASE Tick
  BY <1>4, TickTyped, TickRows
<1>5. ASSUME NEW s \in Sweeper, SweepLists(s) \/ SweepGoesOn(s)
      PROVE  RoomTypeOK' /\ RowsInv'
  <2>1. SweepInv(s)
    BY DEF RowsInv
  <2>2. RoomTypeOK' /\ SweepMoves(s)
    BY <1>5, <2>1, SweepListsMoves, SweepTakesMoves, SweepReadsMoves, SweepShowsMoves
    DEF SweepGoesOn
  <2> QED  BY <2>2, SweepRows
<1> QED  BY <1>1, <1>2, <1>3, <1>4, <1>5 DEF Next

LEMMA RowsAlways == ASSUME ~Overlap PROVE Spec => [](RoomTypeOK /\ RowsInv)
<1>1. Init => RoomTypeOK /\ RowsInv
  BY InitTyped, InitRows
<1>2. (RoomTypeOK /\ RowsInv) /\ [Next]_vars => (RoomTypeOK /\ RowsInv)'
  BY NextRows
<1> QED  BY <1>1, <1>2, PTL DEF Spec

\* Nobody is acted on who is not in a call.
LEMMA ActsBusy ==
  ASSUME RowsInv, NEW p \in Person \ Busy, NEW rows, <<>> \notin rows
  PROVE  ~Acts(p, rows)
BY DEF Acts, Busy, About, Who

LEMMA MarkedRows == <<>> \notin {Added} \cup Leaving /\ <<>> \notin {Removed}
BY RowKinds DEF Marked

\* Calls for one person that do not overlap leave nobody active who is not on the
\* roster, whatever sweeps and calls for others they interleave with.
THEOREM RoomInvHolds == ASSUME ~Overlap PROVE Spec => []RoomInv
<1>1. RoomTypeOK /\ RowsInv => RoomInv
  BY ActsBusy, MarkedRows DEF RoomInv, RowsInv, PersonInv
<1> QED  BY <1>1, RowsAlways, PTL

\* Once such calls have ended, the room shows the roster as it is stored.
THEOREM RosterIsShown == ASSUME ~Overlap PROVE Spec => []RosterIsTold
<1>1. RoomTypeOK /\ RowsInv => RosterIsTold
  BY ActsBusy, MarkedRows DEF RosterIsTold, RowsInv, PersonInv
<1> QED  BY <1>1, RowsAlways, PTL
=============================================================================
