----------------------------- MODULE BoundedRun -----------------------------
(***************************************************************************)
(* What the runtime dispatcher promises about one worker run, leaving out  *)
(* processes, pipes and timers: the run is stopped at most once and for    *)
(* one cause, it is over exactly once, it is a PASS only if nobody stopped *)
(* it, and it does come to an end.  RuntimeSupervisor implements it.       *)
(***************************************************************************)
CONSTANTS None, Causes, States

VARIABLES
  phase,    \* "running", "stopping" or "over"
  cause,    \* why the run was stopped, or None
  outcome   \* the run state reported, or None

boundedVars == <<phase, cause, outcome>>

BoundedInit == phase = "running" /\ cause = None /\ outcome = None

Stop(c) ==
  /\ phase = "running"
  /\ phase' = "stopping" /\ cause' = c
  /\ UNCHANGED outcome

Finish(s) ==
  /\ phase \in {"running", "stopping"}
  /\ s = "PASS" => cause = None
  /\ phase' = "over" /\ outcome' = s
  /\ UNCHANGED cause

BoundedNext == (\E c \in Causes : Stop(c)) \/ (\E s \in States : Finish(s))

BoundedSpec ==
  /\ BoundedInit /\ [][BoundedNext]_boundedVars
  /\ WF_boundedVars(\E s \in States : Finish(s))
=============================================================================
