----------------------------- MODULE TurnTaking -----------------------------
(***************************************************************************)
(* What turn-taking across instances promises (docs/CONCURRENCY.md,        *)
(* "Guarantees" and "Running on more than one instance"): one instance     *)
(* owns the session's turn.  An owner whose lease lapses becomes an        *)
(* overrunner, which may only finish; it never owns the turn again before  *)
(* it has, and a new owner begins only when nobody owns the turn.          *)
(***************************************************************************)
CONSTANTS Node, NoOne

VARIABLES owner,    \* the instance whose run is the session's, or NoOne
          overrun   \* instances still finishing a run they lost the right to

ttVars == <<owner, overrun>>

Init == owner = NoOne /\ overrun = {}

Begin(n) == /\ owner = NoOne
            /\ n \notin overrun
            /\ owner' = n
            /\ UNCHANGED overrun

\* The lease lapsed between being granted and the run's first step.
BeginLate(n) == /\ owner # n /\ n \notin overrun
                /\ overrun' = overrun \cup {n}
                /\ UNCHANGED owner

Lapse(n) == /\ owner = n
            /\ owner' = NoOne
            /\ overrun' = overrun \cup {n}

End(n) == \/ owner = n /\ owner' = NoOne /\ UNCHANGED overrun
          \/ n \in overrun /\ overrun' = overrun \ {n} /\ UNCHANGED owner

Next == \E n \in Node : Begin(n) \/ BeginLate(n) \/ Lapse(n) \/ End(n)

Spec == Init /\ [][Next]_ttVars
=============================================================================
