------------------------------- MODULE MCPlane -------------------------------
(* What the kit's tools do around Plane and its comments, for TLC.  The parts *)
(* share no state: a behaviour runs one of them, the others stand still.      *)
EXTENDS PlaneSeeding, GoalPlane, HumanGates, FounderQueue, QualityLoop, TLC

CONSTANTS s1, s2, m1, m2, a1, a2, w1, w2, h1, h2   \* processes, two of each kind

VARIABLE part      \* which part this behaviour is about

Seeders == {s1, s2}
Movers == {m1, m2}
Appliers == {a1, a2}
Writers == {w1, w2}
TwoHandoffs == {h1, h2}
(* Only one kind of process ever moves, so the pairs may as well swap together. *)
Swap(x, y) == x :> y @@ y :> x
Twins == {IF f[h1] = h1 THEN f ELSE f @@ Swap(s1, s2) @@ Swap(m1, m2) @@ Swap(a1, a2)
                                      @@ Swap(w1, w2) : f \in Permutations(TwoHandoffs)}

(* PlaneSeeding *)
Family == <<[key |-> "P", parent |-> "none"], [key |-> "C", parent |-> "P"]>>
Single(k) == <<[key |-> k, parent |-> "none"]>>
SeedCatalog ==
  "contracts" :> Family @@ "closure" :> Family @@ "supergoal" :> Family
  @@ "cockpit" :> Single("M") @@ "labels" :> (Single("role:a") \o Single("role:b"))
Job(kind, applies, overwrites) ==
  [kind |-> kind, applies |-> applies, overwrites |-> overwrites]
SeedJobs ==
  {Job("contracts", TRUE, FALSE), Job("contracts", TRUE, TRUE), Job("closure", TRUE, TRUE),
   Job("supergoal", TRUE, FALSE), Job("cockpit", TRUE, FALSE),
   Job("labels", TRUE, FALSE), Job("labels", FALSE, FALSE)}

(* GoalPlane: a goal whose two untitled children share the default title, two *)
(* goals with a child of one name, and one without its labels                  *)
Goal(parent, children, labelled) ==
  [parent |-> parent, children |-> children, labelled |-> labelled, project |-> TRUE]
SomeGoals == {Goal("launch", <<"page">>, TRUE),
              Goal("growth", <<"page", "worker", "worker">>, TRUE),
              Goal("growth", <<"page">>, FALSE)}

(* HumanGates: cards that just pass and cards with one thing changed *)
GoodCard(level) ==
  [level |-> level, confidence |-> Threshold[level], scope |-> {"report"},
   by |-> CASE level = "HG-3.5" -> "Chief-of-Staff" [] level = "HG-4" -> "Founder"
            [] OTHER -> "CEO",
   authority |-> "CEO", cao |-> TRUE, rollback |-> "verified", blast |-> "bounded",
   lacks |-> "nothing"]
SomeCards ==
  {GoodCard(level) : level \in {"HG-2.5", "HG-4"}}
  \cup {[GoodCard(level) EXCEPT !.scope = {what}] :
          level \in {"HG-2", "HG-2.5"}, what \in {"merge"}}
  \cup {[GoodCard("HG-3") EXCEPT !.scope = {what}] :
          what \in {"schema", "pivot", "release of a pivot"}}
  \cup {[GoodCard(level) EXCEPT !.rollback = "trivial"] : level \in {"HG-2.5", "HG-3"}}
  \cup {[GoodCard("HG-0") EXCEPT !.by = "Founder"],
        [GoodCard("HG-1") EXCEPT !.confidence = -1],
        [GoodCard("HG-2") EXCEPT !.by = "Chief-of-Staff"],
        [GoodCard("HG-2.5") EXCEPT !.scope = {"schema"}],
        [GoodCard("HG-3") EXCEPT !.confidence = 95],
        [GoodCard("HG-3") EXCEPT !.lacks = "sources"],
        [GoodCard("HG-3.5") EXCEPT !.scope = {"pivot"}],
        [GoodCard("HG-3.5") EXCEPT !.by = "CEO"],
        [GoodCard("HG-4") EXCEPT !.by = "Chief-of-Staff"]}

(* FounderQueue *)
GateOfItem == [i \in Asked |-> IF i = "b" THEN "HG-3.5" ELSE "HG-4"]

(* QualityLoop *)
PlainContract == [explicit |-> "none", shared |-> FALSE, crossRepo |-> FALSE, docs |-> FALSE,
          risky |-> FALSE, paths |-> TRUE, policy |-> "default", origin |-> "human"]
SomeContracts ==
  {PlainContract, [PlainContract EXCEPT !.paths = FALSE], [PlainContract EXCEPT !.risky = TRUE],
   [PlainContract EXCEPT !.explicit = "P4"], [PlainContract EXCEPT !.shared = TRUE, !.policy = "off"],
   [PlainContract EXCEPT !.docs = TRUE, !.policy = "required"]}
Run(state, cao, severity, security) ==
  [state |-> state, cao |-> cao, severity |-> severity, security |-> security]
SomeEvidence == {Run("PASS", "PASS", "none", FALSE),
                 Run("PASS", "REJECT", "medium", FALSE),
                 Run("REJECT", "REJECT", "high", TRUE)}

-------------------------------------------------------------------------------
MCInit ==
  /\ part \in {"seeding", "states", "goals", "gates", "queue", "quality"}
  /\ SeedInit /\ MoveInit /\ GoalPlaneInit /\ GateInit /\ QueueInit /\ QualityInit

MCNext ==
  /\ UNCHANGED part
  /\ \/ /\ part = "seeding" /\ SeedNext
        /\ UNCHANGED <<moveVars, goalPlaneVars, gateVars, queueVars, qualityVars>>
     \/ /\ part = "states" /\ MoveNext
        /\ UNCHANGED <<seedVars, goalPlaneVars, gateVars, queueVars, qualityVars>>
     \/ /\ part = "goals" /\ GoalPlaneNext
        /\ UNCHANGED <<seedVars, moveVars, gateVars, queueVars, qualityVars>>
     \/ /\ part = "gates" /\ GateNext
        /\ UNCHANGED <<seedVars, moveVars, goalPlaneVars, queueVars, qualityVars>>
     \/ /\ part = "queue" /\ QueueNext
        /\ UNCHANGED <<seedVars, moveVars, goalPlaneVars, gateVars, qualityVars>>
     \/ /\ part = "quality" /\ QualityNext
        /\ UNCHANGED <<seedVars, moveVars, goalPlaneVars, gateVars, queueVars>>
===============================================================================
