---------------------------- MODULE MCDispatchLock ----------------------------
(* Constants for TLC.  `rejected' passes the contract review but not the    *)
(* Stage 0.65 checks; `gated' passes only after a human-gate release.       *)
EXTENDS DispatchLock

CONSTANTS clean, gated, rejected, broken  \* descriptions
CONSTANTS c1, s1, s2, d1, d2, d3          \* processes

Gate == {clean, gated}
Gated == {gated}
Edits == {clean, rejected, broken}
Clean == {clean}
AllDefects == clean :> {} @@ gated :> {"ceo-gate"} @@ rejected :> {}
              @@ broken :> {"validator-fail"}
DefectsOf == [h \in Hashes |-> AllDefects[h]]
RuntimeReadyOf == [h \in Hashes |->
  IF h = rejected THEN "RUNTIME_READY_REJECT" ELSE "RUNTIME_READY_SKIPPED"]
RoutingOf == [h \in Hashes |-> None]

NoProcess == {}
OneController == {c1}
OneScheduler == {s1}
OneDispatcher == {d1}
TwoDispatchers == {d1, d2}
ThreeDispatchers == {d1, d2, d3}
DispatcherSymmetry == Permutations(Dispatchers)
===============================================================================
