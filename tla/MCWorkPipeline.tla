---------------------------- MODULE MCWorkPipeline ----------------------------
(* Constants for TLC: two descriptions the controller may release alone. *)
EXTENDS WorkPipeline

CONSTANTS clean, other            \* descriptions
CONSTANTS s1, d1, d2, r1, r2, a1  \* processes

OneDescription == {clean}
TwoDescriptions == {clean, other}
NoDefects == [h \in Hashes |-> {}]
NoStage065 == [h \in Hashes |-> "RUNTIME_READY_SKIPPED"]
NoRouting == [h \in Hashes |-> None]
LowGate == [h \in Hashes |-> "HG-1"]
FounderGate == [h \in Hashes |-> IF h = other THEN "HG-4" ELSE "HG-1"]
NoAuthority == [h \in Hashes |-> "none"]

NoProcess == {}
OneScheduler == {s1}
OneDispatcher == {d1}
TwoDispatchers == {d1, d2}
OneRuntime == {r1}
TwoRuntimes == {r1, r2}
AllEnds == Outcomes
PassOrFail == {"PASS", "FAILED"}
OneAuditor == {a1}
AllRuns == Dispatchers \cup Runtimes
(* Bound: explore no further once a dispatcher has failed. *)
NoneFails ==
  /\ \A d \in Dispatchers : dispatcher[d].exit \in {"none", "0"}
  /\ \A r \in Runtimes : runtime[r].exit # "1"
Symmetric == Permutations(Dispatchers) \cup Permutations(Runtimes)
================================================================================
