----------------------------- MODULE TurnLease -----------------------------
(***************************************************************************)
(* The lease of one session: who may run an agent turn for it right now.   *)
(* src/concurrency/lease.ts is the interface and the in-memory lease,      *)
(* src/concurrency/redis-lease.ts the Redis one.  Both are modelled: they  *)
(* differ only in whether a holder that asks again is told yes.            *)
(*                                                                         *)
(* The TTL is abstracted to the step Expire, which may come at any time    *)
(* while the lease is held; a module that uses this one says when.         *)
(***************************************************************************)

CONSTANTS Node,       \* the instances (processes) that share the session
          NoOne,      \* the lease is free
          Gone,       \* the holder id of a process that no longer exists
          Reentrant   \* TRUE: in-memory lease, FALSE: Redis (SET NX)

ASSUME LeaseAssumption ==
         /\ NoOne \notin Node
         /\ Gone \notin Node
         /\ NoOne # Gone
         /\ Reentrant \in BOOLEAN

VARIABLES holder,     \* who holds the lease
          lapsed      \* history: instances whose lease expired under them
                      \* and that were not granted it again since

leaseVars == <<holder, lapsed>>

LeaseTypeOK == /\ holder \in Node \cup {NoOne, Gone}
               /\ lapsed \subseteq Node

LeaseInit == /\ holder = NoOne
             /\ lapsed = {}

\* Mutated forms, which the properties of TurnController must tell apart from
\* the operators they stand beside: a renewal that sets the key for whoever
\* asks, ...
RenewSteals(n, held) == held /\ holder' = n /\ UNCHANGED lapsed
\* ... and a release that does not compare the holder.
ReleaseAnyones(n) == holder' = NoOne /\ UNCHANGED lapsed

\* SET key holder PX ttl NX, or the in-memory test of the current holder.
Free(n) == \/ holder = NoOne
           \/ Reentrant /\ holder = n

Acquire(n, granted) ==
  /\ granted = Free(n)
  /\ holder' = IF granted THEN n ELSE holder
  /\ lapsed' = IF granted THEN lapsed \ {n} ELSE lapsed

\* Extends the lease only for its holder: an expired lease is never revived.
Renew(n, held) ==
  /\ held = (holder = n)
  /\ UNCHANGED leaseVars

\* Deletes the lease only for its holder.
Release(n) ==
  /\ holder' = IF holder = n THEN NoOne ELSE holder
  /\ UNCHANGED lapsed

Expire ==
  /\ holder # NoOne
  /\ holder' = NoOne
  /\ lapsed' = lapsed \cup ({holder} \cap Node)

\* The process n dies: nobody will ever renew or release what it held.
Orphan(n) ==
  /\ holder' = IF holder = n THEN Gone ELSE holder
  /\ lapsed' = lapsed \ {n}
=============================================================================
