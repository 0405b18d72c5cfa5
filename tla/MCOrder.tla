------------------------------- MODULE MCOrder -------------------------------
(* What stands around one run of a worker, for TLC: the contract it starts    *)
(* from, the items it waits for, the files it writes, what models may cost,   *)
(* the goal it is part of.  The parts share no state: a behaviour runs one of *)
(* them, the others stand still.                                              *)
EXTENDS DependencyGate, ContractGates, WriteAttribution, BudgetBrake, GoalProgress, TLC

CONSTANTS i1, i2, r1, r2   \* items, and a run of each

VARIABLE part      \* which part this behaviour is about

(* DependencyGate: an item that waits for another one, whose number an item   *)
(* of another project has as well; both have a run                            *)
ChainRefs == i1 :> {} @@ i2 :> [own : BOOLEAN, item : {i1}]
ItemOfRun == r1 :> i1 @@ r2 :> i2

(* ContractGates: one good contract, and all that differ in one or two fields *)
GoodPaper ==
  [agent |-> "claude", dispatch |-> "ready", labels |-> 1, shape |-> "flat",
   humanGate |-> "HG-2", pauseArtifact |-> FALSE, risk |-> "none", inferenceP4 |-> FALSE,
   broad |-> FALSE, major |-> FALSE, weak |-> FALSE, implement |-> TRUE, sandbox |-> TRUE,
   writePaths |-> TRUE, workspace |-> "sandbox", planMode |-> FALSE, runtimeAuth |-> TRUE,
   limits |-> TRUE, spend |-> "zero", browser |-> "undeclared", ui |-> {},
   profile |-> "registered", misfit |-> "none", deps |-> "none", report |-> "absolute",
   sourceCovered |-> TRUE, gateCovered |-> TRUE, toolResults |-> FALSE,
   gateTools |-> "derived", secret |-> FALSE]
Other ==
  [agent |-> {"none", "other", "human", "codex"}, dispatch |-> {"manual"}, labels |-> {0, 2},
   shape |-> {"wrapped", "missing"}, humanGate |-> {"HG-3", "HG-3.5", "HG-4", "HG-9"},
   pauseArtifact |-> {TRUE}, risk |-> {"high", "strategic"}, inferenceP4 |-> {TRUE},
   broad |-> {TRUE}, major |-> {TRUE}, weak |-> {TRUE}, implement |-> {FALSE},
   sandbox |-> {FALSE}, writePaths |-> {FALSE},
   workspace |-> {"none", "malformed", "slug", "alias", "outside"}, planMode |-> {TRUE},
   runtimeAuth |-> {FALSE}, limits |-> {FALSE}, spend |-> {"none", "paid"},
   browser |-> {"unknown", "none", "session"}, ui |-> {{"review"}, {"dispatcher"}},
   profile |-> {"none", "unregistered"},
   misfit |-> {"role", "tool", "workspace", "autonomy", "memory"},
   deps |-> {"plane", "number", "uuid", "prose"}, report |-> {"none", "relative"},
   sourceCovered |-> {FALSE}, gateCovered |-> {FALSE}, toolResults |-> {TRUE},
   gateTools |-> {"declared", "undeclared", "unsafe"}, secret |-> {TRUE}]
SomePapers ==
  UNION {UNION {{[GoodPaper EXCEPT ![f] = v, ![g] = w] :
                   v \in Other[f], w \in Other[g] \cup {GoodPaper[g]}} :
                 g \in DOMAIN Other} : f \in DOMAIN Other}

(* BudgetBrake *)
SomeLists == {<<"grok">>, <<"grok", "deepseek">>, <<"claude">>}

(* GoalProgress: two children at the gates of the CEO and of the founder's proxy *)
ParentOfChild(i) == 0
GateOfChild(i) == IF i = 2 THEN "founder_proxy" ELSE "ceo_codex"
ContractOfChild(i) == "ready"

-------------------------------------------------------------------------------
MCInit ==
  /\ part \in {"dependencies", "contract", "writes", "budget", "goal"}
  /\ DepInit /\ GateInit /\ AttributionInit /\ BudgetInit /\ GoalInit

MCNext ==
  /\ UNCHANGED part
  /\ \/ /\ part = "dependencies" /\ DepNext
        /\ UNCHANGED <<gateVars, attributionVars, budgetVars, goalVars>>
     \/ /\ part = "contract" /\ GateNext
        /\ UNCHANGED <<depVars, attributionVars, budgetVars, goalVars>>
     \/ /\ part = "writes" /\ AttributionNext
        /\ UNCHANGED <<depVars, gateVars, budgetVars, goalVars>>
     \/ /\ part = "budget" /\ BudgetNext
        /\ UNCHANGED <<depVars, gateVars, attributionVars, goalVars>>
     \/ /\ part = "goal" /\ GoalNext
        /\ UNCHANGED <<depVars, gateVars, attributionVars, budgetVars>>

(* The fairness of DepSpec; no PollKill is possible in the other parts. *)
MCSpec ==
  /\ MCInit
  /\ [][MCNext]_<<part, depVars, gateVars, attributionVars, budgetVars, goalVars>>
  /\ \A r \in Runner : WF_depVars(PollKill(r))
===============================================================================
