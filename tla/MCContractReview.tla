--------------------------- MODULE MCContractReview ---------------------------
(* Constants for TLC: three descriptions, one of each kind of outcome. *)
EXTENDS ContractReview

CONSTANTS clean, gated, flawed  \* descriptions
CONSTANTS c1, s1, s2            \* processes

MCHashes == {clean, gated, flawed}
MCDefects == clean :> {} @@ gated :> {"ceo-gate"} @@ flawed :> {"ceo-gate", "patch"}
MCRuntimeReady == clean :> "RUNTIME_READY_REJECT"
               @@ gated :> "RUNTIME_READY_PASS" @@ flawed :> "RUNTIME_READY_SKIPPED"
MCRouting == clean :> "lock-allowed-executive-first" @@ gated :> None @@ flawed :> None
MCControllers == {c1}
MCSchedulers == {s1, s2}
MCSymmetry == Permutations(MCSchedulers)
================================================================================
