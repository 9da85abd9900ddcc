----------------------- MODULE ApprovalResumerProofs -----------------------
(***************************************************************************)
(* Proofs about ApprovalResumer, where calls of the gate do not overlap:   *)
(* for any number of instances, resumers, calls, crashes and lapses.  They *)
(* rest on the invariants of the gate, which the resumer keeps.            *)
(***************************************************************************)
EXTENDS ApprovalResumer, ApprovalGateProofs

Decided == stored # NoRequest /\ ~IsPending

\* What ResumerInv and StepObeysDecision lack: the gate's own invariants, and
\* that a run is woken only when its request is decided.
WokenInv ==
  /\ GateInv
  /\ SerialInv
  /\ ResumerInv
  /\ StepObeysDecision
  /\ run \in {"resumed", "done", "bailed"} => Decided

(***************************************************************************)
(* The gate, as the resumer's actions move it.                             *)
(***************************************************************************)
\* What is decided is not touched again.
LEMMA DecidedStays ==
  ASSUME GateInv, SerialInv, Decided, [Next]_vars
  PROVE  stored' = stored
<1>1. ~RequestSaved
  BY DEF RequestSaved, GateInv, Decided
<1>2. ASSUME NEW c \in Caller PROVE ~Saves(c)
  BY DEF Saves, SerialInv, HolderInv, MayReplace, Decided, IsPending
<1> QED  BY <1>1, <1>2
         DEF Next, vars, RequestLedgered, RequestPublished, RequestFails, DeadlinePasses,
             VoteReads, RefreshReads, Reads, Continues, VoteDecides, RefreshDecides,
             VoteLedgered, Publishes, ResolutionLedgered, Notifies, Fails, Caller

\* A step of a resumer leaves the gate alone, but for the bound on failures.
Aside == UNCHANGED <<gate, stored, saved>> /\ faults' \in Nat

LEMMA AsideKeeps == ASSUME GateInv, SerialInv, Aside PROVE GateInv' /\ SerialInv'
<1>1. GateInv'
  <2>1. GateTypeOK'
    BY DEF Aside, gate, calls, outside, GateInv, GateTypeOK
  <2>2. DecisionJustified'
    BY DEF Aside, gate, GateInv, DecisionJustified
  <2>3. AnnouncedWasStored'
    BY DEF Aside, gate, outside, GateInv, AnnouncedWasStored
  <2>4. ASSUME NEW d \in Caller PROVE CallInv(d)'
    BY CallKept DEF Aside, gate, calls, outside, GateInv
  <2> QED  BY <2>1, <2>2, <2>3, <2>4 DEF Aside, gate, GateInv
<1>2. SerialInv'
  <2>1. \A c, d \in Holding' : c = d
    BY DEF Aside, gate, calls, SerialInv, Holding
  <2> QED  BY <2>1, Carried DEF SerialInv, Stays, Aside, gate, calls, outside
<1> QED  BY <1>1, <1>2

\* Which of the two a step is.
GateMoves == [Next]_vars \/ Aside

LEMMA GateKeeps ==
  ASSUME GateInv, SerialInv, Overlap <= 1, GateMoves
  PROVE  GateInv' /\ SerialInv' /\ (Decided => stored' = stored /\ Decided')
<1>1. GateInv' /\ SerialInv'
  BY NextInv, NextSerial, AsideKeeps DEF GateMoves
<1>2. ASSUME Decided PROVE stored' = stored
  BY <1>2, DecidedStays DEF GateMoves, Aside
<1> QED  BY <1>1, <1>2 DEF Decided, IsPending

\* A handler is called only for a request that is decided.
LEMMA NotifiedIsDecided ==
  ASSUME GateInv, SerialInv, NEW c \in Caller, at[c] = "notify"
  PROVE  Decided
<1>1. Resolving(c) /\ copy[c] = stored /\ copy[c] \in Request
  BY DEF SerialInv, HolderInv, ResolvesInv, Resolving, GateInv, CallInv, GateTypeOK
<1> QED  BY <1>1, GateAssumption DEF Decided, IsPending, Resolving

(***************************************************************************)
(* The resumers.                                                           *)
(***************************************************************************)
Runs == {"running", "suspended", "resumed", "done", "bailed", "failed"}
JobPlaces == {"idle", "acquire", "look", "wake", "awaiting", "read", "save", "release"}

\* Once a request is decided, its record is what it was.
LEMMA ObeysStill ==
  ASSUME WokenInv, stored' = stored, late => late',
         run' = run \/ run' \in {"running", "suspended", "resumed", "failed"}
  PROVE  StepObeysDecision'
<1>1. Justified(stored, late) => Justified(stored, late')
  BY JustifiedLater
<1> QED  BY <1>1 DEF WokenInv, StepObeysDecision

LEMMA InitWoken == ResumerInit => WokenInv
<1> SUFFICES ASSUME ResumerInit PROVE WokenInv
  OBVIOUS
<1>1. GateInv /\ SerialInv
  BY InitInv, InitSerial DEF ResumerInit
<1>2. ResumerTypeOK
  BY <1>1 DEF GateInv, ResumerInit, ResumerTypeOK, LeaseInit, LeaseTypeOK, Record
<1> QED  BY <1>1, <1>2 DEF WokenInv, ResumerInit, ResumerInv, StepObeysDecision

\* A call of the gate goes on.  No job begins but by a handler's call.
LEMMA CallKeeps ==
  ASSUME WokenInv, Overlap <= 1, [Next]_vars,
         run' \in {run, "failed"}, resumedAt' \in BOOLEAN, carried' \in [Caller -> BOOLEAN],
         UNCHANGED <<up, held, leaseVars>>,
         job' = job \/ (Decided /\ \E i \in Node : job' = [job EXCEPT ![<<i, "heard">>] = "acquire"])
  PROVE  WokenInv'
<1>1. GateInv' /\ SerialInv' /\ (Decided => stored' = stored /\ Decided')
  BY GateKeeps DEF WokenInv, GateMoves
<1>2. job' \in [Job -> JobPlaces]
  BY DEF WokenInv, ResumerInv, ResumerTypeOK, JobPlaces
<1>3. ASSUME NEW j \in Job
      PROVE  job'[j] = job[j] \/ (Decided /\ job'[j] = "acquire")
  BY DEF WokenInv, ResumerInv, ResumerTypeOK
<1>4. ResumerTypeOK'
  BY <1>1, <1>2 DEF WokenInv, ResumerInv, ResumerTypeOK, GateInv, LeaseTypeOK,
                    leaseVars, JobPlaces
<1>5. ASSUME NEW j \in Job
      PROVE  /\ job'[j] # "idle" => Decided'
             /\ job'[j] = "save" => held'[j] = stored'
             /\ job'[j] = "awaiting" => run' \notin {"running", "suspended"}
  BY <1>1, <1>3 DEF WokenInv, ResumerInv, Decided
<1>6. ResumerInv'
  BY <1>4, <1>5 DEF ResumerInv, Decided, IsPending
<1>7. StepObeysDecision'
  <2>1. CASE Decided
    <3>1. late => late'
      BY DEF Next, vars, RequestSaved, RequestLedgered, RequestPublished, RequestFails,
             DeadlinePasses, VoteReads, RefreshReads, Reads, Continues, VoteDecides,
             RefreshDecides, Saves, VoteLedgered, Publishes, ResolutionLedgered,
             Notifies, Fails
    <3> QED  BY <1>1, <2>1, <3>1, ObeysStill
  <2>2. CASE ~Decided
    BY <2>2 DEF WokenInv, StepObeysDecision
  <2> QED  BY <2>1, <2>2
<1> QED  BY <1>1, <1>6, <1>7 DEF WokenInv

\* A step of the resumers, or of the run.
LEMMA JobKeeps ==
  ASSUME WokenInv, Overlap <= 1, Aside, ResumerTypeOK',
         \A j \in Job :
           /\ job'[j] # "idle" => job[j] # "idle" \/ Decided
           /\ job'[j] = "save" => held'[j] = stored
           /\ job'[j] = "awaiting" => run' \notin {"running", "suspended"},
         run' \in {"resumed", "done", "bailed"} => Decided,
         run' = "done" /\ run # "done" => stored.status = "approved",
         run' = "bailed" /\ run # "bailed" => stored.status \in {"denied", "expired"}
  PROVE  WokenInv'
<1>1. GateInv' /\ SerialInv' /\ (Decided => Decided') /\ stored' = stored /\ late' = late
  BY GateKeeps DEF WokenInv, GateMoves, Aside, gate
<1>2. ASSUME NEW j \in Job
      PROVE  /\ job'[j] # "idle" => Decided'
             /\ job'[j] = "save" => held'[j] = stored'
             /\ job'[j] = "awaiting" => run' \notin {"running", "suspended"}
  BY <1>1 DEF WokenInv, ResumerInv, Decided
<1>3. ResumerInv'
  BY <1>2 DEF ResumerInv, Decided, IsPending
<1>4. Decided => Justified(stored, late)
  BY DEF WokenInv, GateInv, DecisionJustified, Decided
<1>5. StepObeysDecision'
  BY <1>1, <1>4 DEF WokenInv, StepObeysDecision
<1> QED  BY <1>1, <1>3, <1>5 DEF WokenInv

(***************************************************************************)
(* Action by action.                                                       *)
(***************************************************************************)
\* Steps of the gate, as the step and the calls make them.
LEMMA GateStepKeeps ==
  ASSUME WokenInv, Overlap <= 1,
         StepAsks \/ StepFails \/ Elsewhere \/ \E c \in Caller : CallReads(c) \/ CallContinues(c)
  PROVE  WokenInv'
<1>1. carried \in [Caller -> BOOLEAN] /\ resumedAt \in BOOLEAN
  BY DEF WokenInv, ResumerInv, ResumerTypeOK
<1>2. CASE StepAsks
  <2>1. [Next]_vars
    BY <1>2 DEF StepAsks, Next
  <2> QED  BY <1>1, <1>2, <2>1, CallKeeps DEF StepAsks, resumers
<1>3. CASE StepFails
  <2>1. [Next]_vars
    BY <1>3 DEF StepFails, Next
  <2> QED  BY <1>1, <1>3, <2>1, CallKeeps DEF StepFails, resumers
<1>4. CASE Elsewhere
  <2>1. [Next]_vars
    BY <1>4 DEF Elsewhere, Next
  <2> QED  BY <1>1, <1>4, <2>1, CallKeeps DEF Elsewhere, resumers
<1>5. ASSUME NEW c \in Caller, CallReads(c) PROVE WokenInv'
  <2>1. [Next]_vars
    BY <1>5 DEF CallReads, Next, Caller
  <2>2. carried' \in [Caller -> BOOLEAN]
    BY <1>1, <1>5 DEF CallReads
  <2> QED  BY <1>1, <1>5, <2>1, <2>2, CallKeeps DEF CallReads, resumers
<1>6. ASSUME NEW c \in Caller, CallSaves(c) PROVE WokenInv'
  <2>1. [Next]_vars
    BY <1>6 DEF CallSaves, Next, Continues
  <2>2. resumedAt' \in BOOLEAN
    BY <1>1, <1>6 DEF CallSaves
  <2> QED  BY <1>1, <1>6, <2>1, <2>2, CallKeeps DEF CallSaves, resumers
<1>7. ASSUME NEW c \in Caller, CallNotifies(c) PROVE WokenInv'
  <2>1. [Next]_vars
    BY <1>7 DEF CallNotifies, Next, Continues
  <2>2. Decided
    BY <1>7, NotifiedIsDecided DEF CallNotifies, Notifies, WokenInv
  <2>3. job' = job \/ \E i \in Node : job' = [job EXCEPT ![<<i, "heard">>] = "acquire"]
    BY <1>7 DEF CallNotifies, JobGoes
  <2> QED  BY <1>1, <1>7, <2>1, <2>2, <2>3, CallKeeps DEF CallNotifies
<1>8. ASSUME NEW c \in Caller, CallGoesOn(c) PROVE WokenInv'
  <2>1. [Next]_vars
    BY <1>8 DEF CallGoesOn, Next, Continues
  <2> QED  BY <1>1, <1>8, <2>1, CallKeeps DEF CallGoesOn, resumers
<1> QED  BY <1>2, <1>3, <1>4, <1>5, <1>6, <1>7, <1>8 DEF CallContinues

\* A job that moves by itself, the others standing still.
LEMMA OneJobMoves ==
  ASSUME WokenInv, Overlap <= 1, Aside, NEW j \in Job,
         NEW place \in JobPlaces, JobGoes(j, place), held' \in [Job -> Record],
         \A k \in Job \ {j} : held'[k] = held[k],
         job[j] # "idle" \/ Decided,
         place = "save" => held'[j] = stored,
         run' \in Runs, run' \notin {"running", "suspended"} \/ run' = run,
         place = "awaiting" => run' \notin {"running", "suspended"},
         run' \in {"resumed", "done", "bailed"} => Decided,
         run' \in {"done", "bailed"} => run' = run,
         resumedAt' \in BOOLEAN, UNCHANGED <<carried, up>>, LeaseTypeOK'
  PROVE  WokenInv'
<1>1. /\ job' \in [Job -> JobPlaces] /\ job'[j] = place
      /\ \A k \in Job \ {j} : job'[k] = job[k]
  BY DEF WokenInv, ResumerInv, ResumerTypeOK, JobPlaces, JobGoes
<1>2. GateTypeOK'
  BY GateKeeps DEF WokenInv, GateMoves, GateInv
<1>3. ResumerTypeOK'
  BY <1>1, <1>2 DEF WokenInv, ResumerInv, ResumerTypeOK, JobPlaces, Runs
<1>4. ASSUME NEW k \in Job
      PROVE  /\ job'[k] # "idle" => job[k] # "idle" \/ Decided
             /\ job'[k] = "save" => held'[k] = stored
             /\ job'[k] = "awaiting" => run' \notin {"running", "suspended"}
  BY <1>1 DEF WokenInv, ResumerInv
<1> QED  BY <1>3, <1>4, JobKeeps

\* What every step of a job that has begun gives.
LEMMA JobIsDecided ==
  ASSUME WokenInv, NEW j \in Job, job[j] # "idle"
  PROVE  Decided
BY DEF WokenInv, ResumerInv, Decided

LEMMA LeaseKept ==
  ASSUME LeaseTypeOK, NEW i \in Node, NEW granted,
         Acquire(i, granted) \/ Release(i) \/ Orphan(i) \/ Expire \/ UNCHANGED leaseVars
  PROVE  LeaseTypeOK'
BY DEF LeaseTypeOK, Acquire, Release, Orphan, Expire, leaseVars, Free

LEMMA JobStepKeeps ==
  ASSUME WokenInv, Overlap <= 1, NEW j \in Job, JobContinues(j)
  PROVE  WokenInv'
<1> DEFINE i == j[1]
<1>1. /\ i \in Node /\ LeaseTypeOK /\ held \in [Job -> Record] /\ run \in Runs
      /\ resumedAt \in BOOLEAN /\ faults \in Nat /\ stored \in Record
  BY DEF Job, WokenInv, ResumerInv, ResumerTypeOK, Runs, GateInv, GateTypeOK
<1>2. run \in {"resumed", "done", "bailed"} => Decided
  BY DEF WokenInv
<1>3. ASSUME faults' = faults \/ faults' = faults + 1 PROVE faults' \in Nat
  BY <1>1, <1>3
<1>4. CASE TakesLease(j)
  <2>1. job[j] # "idle" /\ Aside
    BY <1>1, <1>3, <1>4 DEF TakesLease, Aside, Faulty
  <2>2. LeaseTypeOK'
    BY <1>1, <1>4, LeaseKept DEF TakesLease
  <2>3. PICK place \in JobPlaces \ {"save", "awaiting"} : JobGoes(j, place)
    BY <1>4 DEF TakesLease, JobPlaces
  <2> QED  BY <1>1, <1>2, <1>4, <2>1, <2>2, <2>3, OneJobMoves DEF TakesLease
<1>5. CASE Looks(j)
  <2>1. job[j] # "idle" /\ Aside
    BY <1>1, <1>3, <1>5 DEF Looks, Aside, Faulty
  <2>2. LeaseTypeOK'
    BY <1>1, <1>5, LeaseKept DEF Looks
  <2>3. PICK place \in JobPlaces \ {"save", "awaiting"} : JobGoes(j, place)
    BY <1>5 DEF Looks, JobPlaces
  <2> QED  BY <1>1, <1>2, <1>5, <2>1, <2>2, <2>3, OneJobMoves DEF Looks
<1>6. CASE WakesRun(j)
  <2>1. job[j] # "idle" /\ Aside
    BY <1>1, <1>3, <1>6 DEF WakesRun, Wakes, Aside, Faulty
  <2>2. LeaseTypeOK'
    BY <1>1, <1>6, LeaseKept DEF WakesRun, Wakes
  <2>3. PICK place \in JobPlaces \ {"save"} :
          /\ JobGoes(j, place)
          /\ run' = "resumed" \/ (run' = run /\ place # "awaiting")
    BY <1>6 DEF WakesRun, Wakes, JobPlaces
  <2>4. /\ run' \in Runs /\ (run' \notin {"running", "suspended"} \/ run' = run)
        /\ place = "awaiting" => run' \notin {"running", "suspended"}
        /\ run' \in {"done", "bailed"} => run' = run
    BY <1>1, <2>3 DEF Runs
  <2>5. Decided
    BY <2>1, JobIsDecided
  <2> QED  BY <1>1, <1>6, <2>1, <2>2, <2>3, <2>4, <2>5, OneJobMoves DEF WakesRun, Wakes
<1>7. CASE RunReturns(j)
  <2>1. job[j] # "idle" /\ Aside
    BY <1>1, <1>7 DEF RunReturns, Aside, vars, gate
  <2>2. LeaseTypeOK'
    BY <1>1, <1>7, LeaseKept DEF RunReturns
  <2>3. "read" \in JobPlaces /\ JobGoes(j, "read")
    BY <1>7 DEF RunReturns, JobPlaces
  <2> QED  BY <1>1, <1>2, <1>7, <2>1, <2>2, <2>3, OneJobMoves DEF RunReturns
<1>8. CASE MarkReads(j)
  <2>1. job[j] # "idle" /\ Aside
    BY <1>1, <1>8 DEF MarkReads, Aside, vars, gate
  <2>2. LeaseTypeOK'
    BY <1>1, <1>8, LeaseKept DEF MarkReads
  <2>3. "save" \in JobPlaces /\ JobGoes(j, "save")
    BY <1>8 DEF MarkReads, JobPlaces
  <2>4. /\ held' \in [Job -> Record] /\ held'[j] = stored
        /\ \A k \in Job \ {j} : held'[k] = held[k]
    BY <1>1, <1>8 DEF MarkReads
  <2> QED  BY <1>1, <1>2, <1>8, <2>1, <2>2, <2>3, <2>4, OneJobMoves DEF MarkReads
<1>9. CASE MarkSaves(j)
  <2>1. job[j] = "save" /\ held[j] = stored
    BY <1>9 DEF MarkSaves, WokenInv, ResumerInv
  <2>2. Aside
    BY <1>1, <1>3, <1>9, <2>1 DEF MarkSaves, Aside, Faulty
  <2>3. LeaseTypeOK'
    BY <1>1, <1>9, LeaseKept DEF MarkSaves
  <2>4. "release" \in JobPlaces /\ JobGoes(j, "release")
    BY <1>9 DEF MarkSaves, JobPlaces
  <2>5. /\ held' \in [Job -> Record] /\ \A k \in Job \ {j} : held'[k] = held[k]
        /\ resumedAt' \in BOOLEAN
    BY <1>1, <1>9 DEF MarkSaves, Record
  <2> QED  BY <1>1, <1>2, <1>9, <2>1, <2>2, <2>3, <2>4, <2>5, OneJobMoves DEF MarkSaves
<1>10. CASE Releases(j)
  <2>1. job[j] # "idle" /\ Aside
    BY <1>1, <1>10 DEF Releases, Aside, vars, gate
  <2>2. LeaseTypeOK'
    BY <1>1, <1>10, LeaseKept DEF Releases
  <2>3. "idle" \in JobPlaces /\ JobGoes(j, "idle")
    BY <1>10 DEF Releases, JobPlaces
  <2> QED  BY <1>1, <1>2, <1>10, <2>1, <2>2, <2>3, OneJobMoves DEF Releases
<1> QED  BY <1>4, <1>5, <1>6, <1>7, <1>8, <1>9, <1>10 DEF JobContinues

LEMMA ReconcileKeeps ==
  ASSUME WokenInv, Overlap <= 1, NEW i \in Node, Reconcile(i)
  PROVE  WokenInv'
<1> DEFINE j == <<i, "swept">>
<1>1. j \in Job /\ JobGoes(j, "acquire") /\ Decided
  BY DEF Job, Reconcile, Begins, Decided
<1>2. Aside
  BY DEF Reconcile, Begins, Aside, vars, gate, WokenInv, GateInv, GateTypeOK
<1>3. /\ LeaseTypeOK' /\ held \in [Job -> Record] /\ run \in Runs /\ resumedAt \in BOOLEAN
  BY LeaseKept DEF WokenInv, ResumerInv, ResumerTypeOK, Runs, Reconcile, Begins
<1>4. "acquire" \in JobPlaces
  BY DEF JobPlaces
<1> HIDE DEF j
<1> QED  BY <1>1, <1>2, <1>3, <1>4, OneJobMoves DEF Reconcile, Begins

\* The run, the processes and the lease.
LEMMA OthersKeep ==
  ASSUME WokenInv, Overlap <= 1,
         (\/ StepSuspends \/ LeaseExpires
          \/ \E same \in BOOLEAN : StepGoesOn(same)
          \/ \E i \in Node : Crashes(i) \/ Stops(i) \/ Starts(i)
          \/ UNCHANGED all)
  PROVE  WokenInv'
<1>1. /\ LeaseTypeOK /\ held \in [Job -> Record] /\ job \in [Job -> JobPlaces]
      /\ run \in Runs /\ resumedAt \in BOOLEAN /\ faults \in Nat
      /\ carried \in [Caller -> BOOLEAN] /\ up \subseteq Node /\ stored \in Record
  BY DEF WokenInv, ResumerInv, ResumerTypeOK, Runs, JobPlaces, GateInv, GateTypeOK
<1>2. Aside
  BY <1>1 DEF StepSuspends, LeaseExpires, StepGoesOn, Crashes, Stops, Starts, Faulty, Aside,
              all, vars, gate
<1>3. LeaseTypeOK'
  BY <1>1 DEF StepSuspends, LeaseExpires, StepGoesOn, Crashes, Stops, Starts, all,
              LeaseTypeOK, Expire, Orphan, leaseVars
<1>4. /\ resumedAt' \in BOOLEAN /\ carried' \in [Caller -> BOOLEAN] /\ up' \subseteq Node
  BY <1>1 DEF StepSuspends, LeaseExpires, StepGoesOn, Crashes, Stops, Starts, all, resumers
<1>5. /\ job' \in [Job -> JobPlaces] /\ held' \in [Job -> Record]
      /\ \A j \in Job : job'[j] = "idle" \/ (job'[j] = job[j] /\ held'[j] = held[j])
  <2>1. ASSUME NEW i \in Node, Crashes(i)
        PROVE  /\ job' \in [Job -> JobPlaces] /\ held' \in [Job -> Record]
               /\ \A j \in Job : job'[j] = "idle" \/ (job'[j] = job[j] /\ held'[j] = held[j])
    BY <1>1, <2>1 DEF Crashes, JobPlaces, Record
  <2>2. CASE UNCHANGED <<job, held>>
    BY <1>1, <2>2
  <2> QED  BY <2>1, <2>2 DEF StepSuspends, LeaseExpires, StepGoesOn, Stops, Starts, all, resumers
<1>6. /\ run' \in Runs
      /\ run' = "suspended" => run \in {"running", "suspended"}
      /\ run' = "running" => run = "running"
      /\ run' = "resumed" => run = "resumed"
      /\ run' \in {"done", "bailed"} => run' = run \/ \E same \in BOOLEAN : StepGoesOn(same)
  BY <1>1 DEF StepSuspends, LeaseExpires, StepGoesOn, Crashes, Stops, Starts, all, Runs
<1>7. ResumerTypeOK'
  <2>1. GateTypeOK'
    BY <1>2, GateKeeps DEF WokenInv, GateMoves, GateInv
  <2> QED  BY <1>3, <1>4, <1>5, <1>6, <2>1 DEF ResumerTypeOK, Runs, JobPlaces
<1>8. ASSUME NEW same \in BOOLEAN, StepGoesOn(same)
      PROVE  /\ Decided
             /\ run' = "done" => stored.status = "approved"
             /\ run' = "bailed" => stored.status \in {"denied", "expired"}
  <2>1. Decided /\ stored \in Request
    BY <1>1, <1>8 DEF StepGoesOn, WokenInv, Decided, Record
  <2>2. stored.status \in Statuses /\ stored.status # "pending"
    BY <2>1 DEF Request, Decided, IsPending
  <2> QED  BY <1>8, <2>1, <2>2 DEF StepGoesOn, Statuses
<1>9. /\ run' \in {"resumed", "done", "bailed"} => Decided
      /\ run' = "done" /\ run # "done" => stored.status = "approved"
      /\ run' = "bailed" /\ run # "bailed" => stored.status \in {"denied", "expired"}
  BY <1>6, <1>8 DEF WokenInv
<1>10. ASSUME NEW j \in Job
       PROVE  /\ job'[j] # "idle" => job[j] # "idle" \/ Decided
              /\ job'[j] = "save" => held'[j] = stored
              /\ job'[j] = "awaiting" => run' \notin {"running", "suspended"}
  BY <1>5, <1>6 DEF WokenInv, ResumerInv
<1> QED  BY <1>2, <1>7, <1>9, <1>10, JobKeeps

LEMMA NextWoken == ASSUME WokenInv, Overlap <= 1, [ResumerNext]_all PROVE WokenInv'
<1>1. CASE \/ StepAsks \/ StepFails \/ Elsewhere
           \/ \E c \in Caller : CallReads(c) \/ CallContinues(c)
  BY <1>1, GateStepKeeps
<1>2. ASSUME NEW j \in Job, JobContinues(j) PROVE WokenInv'
  BY <1>2, JobStepKeeps
<1>3. ASSUME NEW i \in Node, Reconcile(i) PROVE WokenInv'
  BY <1>3, ReconcileKeeps
<1>4. CASE \/ StepSuspends \/ LeaseExpires
           \/ \E same \in BOOLEAN : StepGoesOn(same)
           \/ \E i \in Node : Crashes(i) \/ Stops(i) \/ Starts(i)
           \/ UNCHANGED all
  BY <1>4, OthersKeep
<1> QED  BY <1>1, <1>2, <1>3, <1>4 DEF ResumerNext

(***************************************************************************)
(* The theorems.                                                           *)
(***************************************************************************)
\* Where calls of the gate do not overlap: the invariant.
THEOREM WokenInvHolds == ASSUME Overlap <= 1 PROVE ResumerSpec => []WokenInv
<1>1. WokenInv /\ [ResumerNext]_all => WokenInv'
  BY NextWoken
<1> QED  BY <1>1, InitWoken, PTL DEF ResumerSpec

\* However resumers race, crash and lose their lease, one is at work only on a
\* request that was decided, and its whole-record save changes nothing but
\* resumedAt; while it waits for the run, nobody finds the run suspended.
THEOREM ResumersAreOrderly == ASSUME Overlap <= 1 PROVE ResumerSpec => []ResumerInv
<1>1. WokenInv => ResumerInv
  BY DEF WokenInv
<1> QED  BY <1>1, WokenInvHolds, PTL

\* However the workflow was woken, approvalStep goes on only on an approval in
\* the store that its votes justify, and bails only on a refusal or on silence.
THEOREM StepObeys == ASSUME Overlap <= 1 PROVE ResumerSpec => []StepObeysDecision
<1>1. WokenInv => StepObeysDecision
  BY DEF WokenInv
<1> QED  BY <1>1, WokenInvHolds, PTL
=============================================================================
