-------------------------------- MODULE Room --------------------------------
(***************************************************************************)
(* Who is in one session and who is looking at it: join and leave          *)
(* (src/session.ts), PresenceManager (src/presence), the routes and the    *)
(* client that call them (src/server, src/client), the ChannelBridge       *)
(* (src/channels), over the store's roster and presence tables             *)
(* (src/storage).  Every call is a row of steps, one round trip each, for  *)
(* one person at a time, and the steps of several calls interleave.  The   *)
(* room reads the events of the bus in their order: what it shows is a     *)
(* function of them.                                                       *)
(***************************************************************************)
EXTENDS Naturals, Sequences

CONSTANTS
  Web, Channel,         \* people by surface: browsers, and members of a channel
  Caller, Sweeper,      \* slots for calls and for sweeps under way
  MaxName,              \* participants are compared: how many versions of each
  IdleAfter, DropAfter,
  Overlap               \* whether calls for the same person overlap

Person == Web \cup Channel
ASSUME RoomAssumption == /\ Web \cap Channel = {} /\ MaxName \in Nat \ {0}
                         /\ IdleAfter \in Nat /\ DropAfter \in Nat /\ IdleAfter < DropAfter
                         /\ Overlap \in BOOLEAN

VARIABLES
  roster,    \* stored: which version of each person, 0 for none
  presence,  \* stored: status of each person, and since when unchanged
  members,   \* shown: the roster as participant.joined and .left tell it
  lookers,   \* shown: the list of the last presence.updated
  call,      \* each call: the steps it has yet to take for one person and under which
             \* name, what it has listed, and the tasks it has for later
  sweep,     \* each sweep likewise
  gone       \* people who do nothing any more: a dead browser, a silent member

shown == <<members, lookers>>
vars == <<roster, presence, shown, call, sweep, gone>>

Names == 0..MaxName
Statuses == {"away", "active", "idle"}
Away == [status |-> "away", age |-> 0]   \* no row
Presences == [status : Statuses, age : 0..DropAfter]
Listed == [p \in Person |-> presence[p].status]
Nobody == [p \in Person |-> "away"]

\* A task is to look whether somebody has to join, or is absent, or has to leave.
Do(what, p, name) == [what |-> what, who |-> p, name |-> name]
Tasks == [what : {"look", "absent", "leave"}, who : Person, name : Names]
Steps == {"add", "tell_joined", "beat", "list", "show", "clear", "tell_left", "remove"}
Anyone == CHOOSE p \in Person : TRUE
Free == [todo |-> <<>>, who |-> Anyone, name |-> 0, listed |-> Nobody, later |-> {}]
NoSweep == [at |-> "idle", listed |-> [p \in Person |-> Away], todo |-> {}]

Calling == [todo : Seq(Steps), who : Person \cup {Anyone}, name : Names,
            listed : [Person -> Statuses], later : SUBSET Tasks]
Sweeping == [at : {"idle", "entries", "list", "show"}, listed : [Person -> Presences],
             todo : SUBSET Person]

RoomTypeOK ==
  /\ roster \in [Person -> Names] /\ members \in [Person -> Names]
  /\ presence \in [Person -> Presences]
  /\ lookers \in [Person -> Statuses]
  /\ call \in [Caller -> Calling]
  /\ sweep \in [Sweeper -> Sweeping]
  /\ gone \subseteq Person

Init ==
  /\ roster = [p \in Person |-> 0] /\ members = [p \in Person |-> 0]
  /\ presence = [p \in Person |-> Away] /\ lookers = Nobody
  /\ call = [c \in Caller |-> Free]
  /\ sweep = [s \in Sweeper |-> NoSweep]
  /\ gone = {}

-----------------------------------------------------------------------------
(* The calls, as rows of steps.                                            *)

Broadcast == <<"list", "show">>
Heartbeat == <<"beat">> \o Broadcast
JoinSteps == <<"add", "tell_joined">> \o Heartbeat
Disconnected == <<"clear">> \o Broadcast
\* Presence first: what PresenceManager.leave does ...
PresenceLeaves == <<"clear", "tell_left">> \o Broadcast
\* Mutants: the room is not told; the presence is left to the sweep.
LeaveQuietly == Disconnected \o <<"remove", "clear">>
LeaveOnly == <<"tell_left">> \o Broadcast \o <<"remove">>
\* ... and then removeParticipant, which clears it again in a statement of its own.
LeaveSteps == PresenceLeaves \o <<"remove", "clear">>

About(request) == {task.who : task \in request.later}
                    \cup (IF request.todo = <<>> THEN {} ELSE {request.who})
Busy == UNION {About(call[c]) : c \in Caller}

\* A request comes in.
Calls(c, request) ==
  /\ call[c] = Free
  /\ Overlap \/ About(request) \cap Busy = {}
  /\ call' = [call EXCEPT ![c] = request]
  /\ UNCHANGED <<roster, presence, shown, sweep, gone>>

At(p, name, row) == [Free EXCEPT !.who = p, !.name = name, !.todo = row]
Later(tasks) == [Free EXCEPT !.later = tasks]

\* rosterMembership: join is for everyone, the other routes for those on the roster.
Member(p) == roster[p] # 0
Join(c, p) == p \notin gone /\ Calls(c, At(p, 1, JoinSteps))
Leave(c, p) == p \notin gone /\ Member(p) /\ Calls(c, At(p, 0, LeaveSteps))
Beats(c, p) == p \notin gone /\ Member(p) /\ Calls(c, At(p, 0, Heartbeat))
\* The stream of p is cancelled, perhaps after p has left: a reconnect, a closed tab,
\* or the end.
HangsUp(c, p) == Calls(c, At(p, 0, Disconnected))

\* ChannelBridge.receive, of a message that is not ignored, by p under a name.
Receive(c, p, name) == p \notin gone /\ Calls(c, Later({Do("look", p, name)}))

\* reconcileRoster, given the members of the channel and their names: first those
\* in the snapshot, and then, if it is authoritative, those who are not.
Reconcile(c, snapshot, authoritative) ==
  LET named == {p \in Channel : snapshot[p] # 0}
      looks == {Do("look", p, snapshot[p]) : p \in named}
      absent == {Do("absent", p, 0) : p \in Channel \ named}
  IN  /\ authoritative \/ named # {}
      /\ named \cap gone = {}
      /\ Calls(c, Later(looks \cup (IF authoritative THEN absent ELSE {})))

Dies(p) ==
  /\ p \notin gone /\ gone' = gone \cup {p}
  /\ UNCHANGED <<roster, presence, shown, call, sweep>>

-----------------------------------------------------------------------------
(* The steps.                                                              *)

Is(c, what) == call[c].todo # <<>> /\ Head(call[c].todo) = what
Who(c) == call[c].who
Rest(c) == Tail(call[c].todo)
\* A row that ends leaves the tasks for later, or nothing.
Goes(c, rest, listed) ==
  call' = [call EXCEPT ![c] = IF rest = <<>> THEN Later(call[c].later)
                              ELSE [call[c] EXCEPT !.todo = rest, !.listed = listed]]
Proceeds(c) == Goes(c, Rest(c), Nobody)

\* addParticipant: an upsert.
Adds(c) ==
  /\ Is(c, "add") /\ Proceeds(c)
  /\ roster' = [roster EXCEPT ![Who(c)] = call[c].name]
  /\ UNCHANGED <<presence, shown, sweep, gone>>

Removes(c) ==
  /\ Is(c, "remove") /\ Proceeds(c)
  /\ roster' = [roster EXCEPT ![Who(c)] = 0]
  /\ UNCHANGED <<presence, shown, sweep, gone>>

\* participant.joined and participant.left, and what the client makes of them.
TellsJoined(c) ==
  /\ Is(c, "tell_joined") /\ Proceeds(c)
  /\ members' = [members EXCEPT ![Who(c)] = call[c].name]
  /\ UNCHANGED <<roster, presence, lookers, sweep, gone>>

TellsLeft(c) ==
  /\ Is(c, "tell_left") /\ Proceeds(c)
  /\ members' = [members EXCEPT ![Who(c)] = 0]
  /\ UNCHANGED <<roster, presence, lookers, sweep, gone>>

SetsPresence(c) ==
  /\ Is(c, "beat") /\ Proceeds(c)
  /\ presence' = [presence EXCEPT ![Who(c)] = [status |-> "active", age |-> 0]]
  /\ UNCHANGED <<roster, shown, sweep, gone>>

ClearsPresence(c) ==
  /\ Is(c, "clear") /\ Proceeds(c)
  /\ presence' = [presence EXCEPT ![Who(c)] = Away]
  /\ UNCHANGED <<roster, shown, sweep, gone>>

\* broadcast: the list is read, and then published.
Lists(c) ==
  /\ Is(c, "list") /\ Goes(c, Rest(c), Listed)
  /\ UNCHANGED <<roster, presence, shown, sweep, gone>>

Shows(c) ==
  /\ Is(c, "show") /\ Proceeds(c)
  /\ lookers' = call[c].listed
  /\ UNCHANGED <<roster, presence, members, sweep, gone>>

Known(p, name) == roster[p] = name

\* A task of a call whose row has ended.
Takes(c, task) == call[c].todo = <<>> /\ task \in call[c].later
Begins(c, task, row) ==
  call' = [call EXCEPT ![c] = IF row = <<>> THEN Later(call[c].later \ {task})
                              ELSE [At(task.who, task.name, row)
                                      EXCEPT !.later = call[c].later \ {task}]]

\* ensureJoined, and the same look of reconcileRoster: only a difference joins.
Looks(c, task) ==
  /\ Takes(c, task) /\ task.what = "look"
  /\ Begins(c, task, IF Known(task.who, task.name) THEN <<>> ELSE JoinSteps)
  /\ UNCHANGED <<roster, presence, shown, sweep, gone>>

\* The roster is listed again for those who are not in the snapshot.
FindsAbsent(c) ==
  /\ call[c].todo = <<>> /\ call[c].later # {}
  /\ \A task \in call[c].later : task.what = "absent"
  /\ LET absent == {p \in About(call[c]) : roster[p] # 0}
     IN  call' = [call EXCEPT ![c] = Later({Do("leave", p, 0) : p \in absent})]
  /\ UNCHANGED <<roster, presence, shown, sweep, gone>>

\* Each of them leaves.
Leaves(c, task) ==
  /\ Takes(c, task) /\ task.what = "leave"
  /\ Begins(c, task, LeaveSteps)
  /\ UNCHANGED <<roster, presence, shown, sweep, gone>>

CallGoesOn(c) ==
  \/ Adds(c) \/ Removes(c) \/ TellsJoined(c) \/ TellsLeft(c)
  \/ SetsPresence(c) \/ ClearsPresence(c) \/ Lists(c) \/ Shows(c)
  \/ \E task \in call[c].later : Looks(c, task) \/ Leaves(c, task)
  \/ FindsAbsent(c)

-----------------------------------------------------------------------------
(* Time and the sweep.                                                     *)

Older(entry) == IF entry.status = "away" \/ entry.age = DropAfter THEN entry
                                                                  ELSE [entry EXCEPT !.age = @ + 1]

Tick ==
  /\ presence' = [p \in Person |-> Older(presence[p])]
  /\ sweep' = [s \in Sweeper |->
                 [sweep[s] EXCEPT !.listed = [p \in Person |-> IF p \in sweep[s].todo
                                                THEN Older(@[p]) ELSE @[p]]]]
  /\ UNCHANGED <<roster, shown, call, gone>>

\* Mutant: whoever was marked idle is looked at no more.
StaleIfActive(entry) == entry.status = "active" /\ entry.age >= DropAfter
Stale(entry) == entry.status # "away" /\ entry.age >= DropAfter
Idles(entry) == entry.status = "active" /\ entry.age >= IdleAfter /\ ~Stale(entry)

\* The sweep lists, and knows by that list whom it drops or marks.
SweepLists(s) ==
  /\ sweep[s].at = "idle"
  /\ LET due == {p \in Person : Stale(presence[p]) \/ Idles(presence[p])}
     IN  /\ due # {}
         /\ sweep' = [sweep EXCEPT ![s] =
              [NoSweep EXCEPT !.at = "entries", !.todo = due,
                 !.listed = [p \in Person |-> IF p \in due
                     THEN [presence[p] EXCEPT !.status =
                             IF Stale(presence[p]) THEN "away" ELSE "idle"]
                     ELSE Away]]]
  /\ UNCHANGED <<roster, presence, shown, call, gone>>

\* One entry: cleared, or written back as it was listed, but idle.
SweepTakes(s, p) ==
  /\ p \in sweep[s].todo
  /\ presence' = [presence EXCEPT ![p] =
       IF sweep[s].listed[p].status = "away" THEN Away ELSE sweep[s].listed[p]]
  /\ sweep' = [sweep EXCEPT ![s].todo = @ \ {p}, ![s].listed[p] = Away,
                            ![s].at = IF sweep[s].todo = {p} THEN "list" ELSE @]
  /\ UNCHANGED <<roster, shown, call, gone>>

SweepReads(s) ==
  /\ sweep[s].at = "list"
  /\ sweep' = [sweep EXCEPT ![s].at = "show",
                            ![s].listed = [p \in Person |-> [presence[p] EXCEPT !.age = 0]]]
  /\ UNCHANGED <<roster, presence, shown, call, gone>>

SweepShows(s) ==
  /\ sweep[s].at = "show"
  /\ lookers' = [p \in Person |-> sweep[s].listed[p].status]
  /\ sweep' = [sweep EXCEPT ![s] = NoSweep]
  /\ UNCHANGED <<roster, presence, members, call, gone>>

SweepGoesOn(s) == SweepReads(s) \/ SweepShows(s) \/ \E p \in Person : SweepTakes(s, p)

Next ==
  \/ \E c \in Caller :
       \/ \E p \in Web : Join(c, p) \/ Leave(c, p) \/ Beats(c, p) \/ HangsUp(c, p)
       \/ \E p \in Channel, name \in 1..MaxName : Receive(c, p, name)
       \/ \E snapshot \in [Channel -> Names], authoritative \in BOOLEAN :
            Reconcile(c, snapshot, authoritative)
       \/ CallGoesOn(c)
  \/ \E p \in Person : Dies(p)
  \/ Tick
  \/ \E s \in Sweeper : SweepLists(s) \/ SweepGoesOn(s)

Spec == Init /\ [][Next]_vars

\* Calls and sweeps go on; sweeps come back; whose browser lives sends heartbeats.
FairSpec ==
  /\ Spec
  /\ WF_vars(Tick)
  /\ \A c \in Caller : WF_vars(CallGoesOn(c))
  /\ \A s \in Sweeper : WF_vars(SweepGoesOn(s)) /\ SF_vars(SweepLists(s))
  /\ \A p \in Web : SF_vars(\E c \in Caller : Beats(c, p))

-----------------------------------------------------------------------------
(* Properties, with calls that do not overlap for the same person.         *)

\* The rows that calls can be in the middle of: before the room is told of who was
\* added, and after it is told of who is not yet removed.
Added == <<"tell_joined", "beat", "list", "show">>
Leaving == {<<"list", "show", "remove", "clear">>, <<"show", "remove", "clear">>,
            <<"remove", "clear">>}
Removed == <<"clear">>
Rows == {<<>>, JoinSteps, Added, Heartbeat, Broadcast, <<"show">>, LeaveSteps,
         <<"tell_left", "list", "show", "remove", "clear">>, Removed, Disconnected}
          \cup Leaving

\* A call acts on one person at a time, and has one task for each of the others.
CallInv(c) ==
  /\ call[c].todo \in Rows
  /\ call[c].todo # <<>> => Who(c) \in Person /\ \A task \in call[c].later : task.who # Who(c)
  /\ \A task, other \in call[c].later : task.who = other.who => task = other
  /\ call[c].todo \in {JoinSteps, Added} => call[c].name # 0
  /\ \A task \in call[c].later : task.what = "look" => task.name # 0
Apart == \A c, d \in Caller : c # d => About(call[c]) \cap About(call[d]) = {}

\* What a call in the middle of its row has done is still there ...
DoneInv(c) ==
  /\ call[c].todo = Added => roster[Who(c)] = call[c].name
  /\ call[c].todo = Heartbeat => roster[Who(c)] # 0
  /\ call[c].todo \in Leaving => members[Who(c)] = 0

\* ... and what roster, room and presence do not agree on, one is about to set right.
Acts(p, rows) == \E c \in Caller : Who(c) = p /\ call[c].todo \in rows
PersonInv(p) ==
  /\ members[p] # roster[p] => Acts(p, {Added} \cup Leaving)
  /\ roster[p] = 0 /\ presence[p].status = "active" => Acts(p, {Removed})

\* A sweep writes nobody back as active.
SweepInv(s) == /\ sweep[s].at # "entries" => sweep[s].todo = {}
               /\ \A p \in sweep[s].todo : sweep[s].listed[p].status # "active"

RowsInv ==
  /\ Apart
  /\ \A c \in Caller : CallInv(c) /\ DoneInv(c)
  /\ \A p \in Person : PersonInv(p)
  /\ \A s \in Sweeper : SweepInv(s)

\* Who has left is not held active by anything: at most a sweep that listed them
\* before has written them back as idle, to age away again.
RoomInv == RoomTypeOK /\ \A p \in Person \ Busy : roster[p] = 0 => presence[p].status # "active"

\* Once nobody acts on a person any more, the room shows on its roster what is
\* stored: that person or not, under the same name.
RosterIsTold == \A p \in Person \ Busy : members[p] = roster[p]

\* Whoever does nothing any more is in the end not shown any more, as long as there
\* is a browser in the room, whatever broadcasts and sweeps overtake each other.
GhostsVanish ==
  \A p \in Person : \/ <>[](p \in gone => lookers[p] = "away")
                    \/ []<>(\A q \in Web : q \in gone \/ roster[q] = 0)

\* Claimed, and not kept.  presence/index.ts: "Whoever last checked in within the
\* window is present."  A sweep clears by a list it read before the heartbeat.
PresentInWindow ==
  [][\A p \in Person, s \in Sweeper :
       SweepTakes(s, p) /\ presence[p].status # "away" /\ presence'[p] = Away
         => presence[p].age >= DropAfter]_vars
=============================================================================
