----------------------------- MODULE RunLifecycle -----------------------------
(***************************************************************************)
(* What the background worker promises for each task object it is handed   *)
(* (a run): the phases of docs/architecture.md, "Pending -> Running ->     *)
(* Success/Failure", with cancellation and the loss of the process.  A run *)
(* starts at most once, ends at most once, ends "cancelled" only if        *)
(* somebody asked for it, and does not end "failed" once somebody has.     *)
(***************************************************************************)
CONSTANT Runs

VARIABLES phase, \* the phase of each run
          asked  \* the runs somebody asked to stop

vars == <<phase, asked>>

Move(r, from, to) == /\ phase[r] \in from
                     /\ phase' = [phase EXCEPT ![r] = to]
                     /\ UNCHANGED asked

Init == /\ phase = [r \in Runs |-> "new"]
        /\ asked = {}

Accept(r) == Move(r, {"new"}, "pending")

Start(r) == Move(r, {"pending"}, "running")

Succeed(r) == Move(r, {"running"}, "succeeded")

Fail(r) == r \notin asked /\ Move(r, {"running"}, "failed")

Stop(r) == r \in asked /\ Move(r, {"running"}, "cancelled")

\* Requests to stop pile up and say nothing about the phase.
Ask == /\ asked \subseteq asked'
       /\ asked' \subseteq Runs
       /\ UNCHANGED phase

\* The process goes away with everything it had not finished.
Crash == /\ \E unfinished \in SUBSET Runs :
              /\ \A r \in unfinished : phase[r] \in {"pending", "running"}
              /\ phase' = [r \in Runs |-> IF r \in unfinished THEN "lost" ELSE phase[r]]
         /\ UNCHANGED asked

Next == \/ \E r \in Runs : Accept(r) \/ Start(r) \/ Succeed(r) \/ Fail(r) \/ Stop(r)
        \/ Ask
        \/ Crash

Spec == Init /\ [][Next]_vars
===============================================================================
