---------------------------- MODULE GoalProgress ----------------------------
(* goal.mjs run, loop, synthesize and supergoal --dry-run: readers that list  *)
(* the items of a goal, then fetch the comments of one child after the other,  *)
(* and conclude from item state and newest comments which child is next and    *)
(* whether the parent may be reviewed as complete. Work goes on while they     *)
(* read: workers report, CAO and controller judge, self-fixes are accepted,    *)
(* people move items to done or cancelled and reopen them.                     *)
EXTENDS Integers, Sequences, FiniteSetsExt, Functions

CONSTANTS Descendant,   \* the goal's descendants, by sequence number
          ParentOf(_),  \* 0, the goal itself, or an item
          Gate(_),      \* "local", "ceo_codex", "founder_proxy" or "founder"
          ContractOf(_),\* "draft" (it only lacks dispatch: ready), "ready" or "broken"
          Reader,       \* invocations of goal.mjs
          MaxMarks,     \* comments of interest on all items
          MaxAmid       \* writes of others while a reader fetches

ASSUME GoalAssumption == Descendant \subseteq Nat

VARIABLES marks,        \* item -> comments, oldest first
          state,        \* item -> "open", "done" or "cancelled"
          reader
goalVars == <<marks, state, reader>>

Commands == {"run", "synthesize", "supergoal"}
Verdicts == {"PASS", "REJECT", "PARK"}
Modes == {"AUTO-GO", "SELF-FIX", "ASK-FOUNDER"}
Marks == {"worker.reported", "followup-HG3", "followup-HG4", "accepted"} \cup Verdicts \cup Modes

Depth1 == {i \in Descendant : ParentOf(i) = 0}
Leaf(i) == \A j \in Descendant : ParentOf(j) # i

\* The newest comment of a kind in a ledger: its position, or 0, and the comment
\* itself, or "none" (findLatestMarkerComment).
LastOf(kind, m) == Max({0} \cup {n \in DOMAIN m : m[n] \in kind})
Newest(kind, m) == IF LastOf(kind, m) = 0 THEN "none" ELSE m[LastOf(kind, m)]

\* classifySynthesisChild: complete, and what stands in the way of the parent.
\* Cancelled is not done here.
Complete(s, m) ==
    \/ s = "done"
    \/ Newest(Modes, m) = "AUTO-GO"
    \/ Newest({"accepted"}, m) = "accepted"
\* Mutant: the verdicts on an item that was moved to done are not looked at.
ChildBlockersDone(s, m) ==
    LET reported == Newest({"worker.reported"}, m) # "none"
        verdict == Newest(Verdicts, m)
    IN  IF s = "done" \/ Newest({"accepted"}, m) = "accepted" THEN {}
        ELSE {b \in {"worker.reported-missing"} : ~reported}
               \cup {b \in {"cao.verdict-missing"} : reported /\ verdict = "none"}
               \cup {b \in {"REJECT", "PARK"} : verdict = b}
               \cup {b \in {"founder-attention"} : Newest(Modes, m) = "ASK-FOUNDER"}
ChildBlockers(s, m) ==
    LET reported == Newest({"worker.reported"}, m) # "none"
        verdict == Newest(Verdicts, m)
        mode == Newest(Modes, m)
        review == {b \in {"followup-HG3", "followup-HG4"} :
                      Newest({"followup-HG3", "followup-HG4"}, m) = b}
    IN  IF Newest({"accepted"}, m) = "accepted" THEN {}
        ELSE {b \in {"worker.reported-missing"} : ~reported /\ s # "done"}
               \cup {b \in {"cao.verdict-missing"} :
                        reported /\ verdict = "none" /\ s # "done" /\ review = {}}
               \cup {b \in review : s # "done" /\ mode # "AUTO-GO"}
               \cup {b \in {"REJECT", "PARK"} : verdict = b}
               \cup {b \in {"controller.decision-missing"} :
                        verdict = "PASS" /\ mode = "none" /\ s # "done"}
               \cup {b \in {"founder-attention"} : mode = "ASK-FOUNDER"}

\* buildGoalSynthesis over the parent's children as read.
Synthesis(seen) ==
    IF Depth1 # {} /\ \A i \in Depth1 : /\ Complete(seen.state[i], seen.marks[i])
                                        /\ ChildBlockers(seen.state[i], seen.marks[i]) = {}
    THEN "READY_FOR_PARENT_COMPLETION_REVIEW" ELSE "BLOCKED_DEPENDENCY"

\* planGoalRun: cancelled counts as done here. It selects the first open child
\* with a valid contract, and is complete when no child is open.
RunComplete(seen, i) ==
    seen.state[i] \in {"done", "cancelled"} \/ Complete(seen.state[i], seen.marks[i])
First(S) == IF S = {} THEN {} ELSE {Min(S)}
GoalRun(seen) ==
    LET open == {i \in Depth1 : ~RunComplete(seen, i)}
        ready == {i \in open : ContractOf(i) = "ready"}
    IN  [status |-> IF Depth1 # {} /\ open = {} THEN "COMPLETE"
                    ELSE IF ready = {} THEN "BLOCKED_DEPENDENCY" ELSE "READY",
         selected |-> First(ready)]

\* buildSupergoalPlan: leaves at any depth, local before ceo_codex; founder and
\* founder-proxy gates queue for people; without a runnable leaf the first
\* contract that only lacks dispatch: ready goes to Stage 0.5.
\* Mutant: founder-proxy work counts as the controller's.
SupergoalProxyRuns(seen) ==
    LET open == {i \in Descendant : ~RunComplete(seen, i)}
        able == {i \in open : Leaf(i) /\ ContractOf(i) = "ready"}
        local == {i \in able : Gate(i) = "local"}
        ceo == {i \in able : Gate(i) \in {"ceo_codex", "founder_proxy"}}
    IN  [status |-> IF open = {} THEN "COMPLETE" ELSE "READY_FOR_CONTROLLER_LOOP",
         selected |-> IF local # {} THEN First(local) ELSE First(ceo)]
Supergoal(seen) ==
    LET open == {i \in Descendant : ~RunComplete(seen, i)}
        able == {i \in open : Leaf(i) /\ ContractOf(i) = "ready"}
        draft == {i \in open : Leaf(i) /\ ContractOf(i) = "draft"}
        local == {i \in able : Gate(i) = "local"}
        ceo == {i \in able : Gate(i) = "ceo_codex"}
        held(g) == \E i \in able : Gate(i) = g
    IN  IF open = {} THEN [status |-> "COMPLETE", selected |-> {}]
        ELSE IF local \cup ceo # {}
        THEN [status |-> "READY_FOR_CONTROLLER_LOOP",
              selected |-> IF local # {} THEN First(local) ELSE First(ceo)]
        ELSE [status |-> CASE draft # {} -> "READY_FOR_STAGE_05_REVIEW"
                           [] draft = {} /\ held("founder") -> "NEEDS_HUMAN"
                           [] draft = {} /\ ~held("founder") /\ held("founder_proxy") -> "NEEDS_HG35_REVIEW"
                           [] OTHER -> "BLOCKED_DEPENDENCY",
              selected |-> {}]

-----------------------------------------------------------------------------
Unread == [i \in Descendant |-> <<"unread">>]
NoSight == [state |-> [i \in Descendant |-> "open"], marks |-> Unread]
Idle == [pc |-> "idle", command |-> "run", seen |-> NoSight, amid |-> 0,
         status |-> "none", selected |-> {}]
Outdated == [Idle EXCEPT !.pc = "done"]

GoalInit ==
    /\ marks = [i \in Descendant |-> <<>>]
    /\ state = [i \in Descendant |-> "open"]
    /\ reader = [r \in Reader |-> Idle]

\* listPlaneWorkItems: the state of all items at one time.
ListItems(r) ==
    /\ reader[r].pc = "idle"
    /\ \E c \in Commands :
          reader' = [reader EXCEPT ![r].pc = "comments", ![r].command = c,
                         ![r].seen = [state |-> state, marks |-> Unread]]
    /\ UNCHANGED <<marks, state>>

\* The children whose comments a command fetches, in the order of their numbers.
Fetched(command) == IF command = "supergoal" THEN Descendant ELSE Depth1
ToFetch(r) == {i \in Fetched(reader[r].command) : reader[r].seen.marks[i] = <<"unread">>}
FetchComments(r) ==
    /\ reader[r].pc = "comments"
    /\ \E i \in First(ToFetch(r)) :
          \/ reader' = [reader EXCEPT ![r].seen.marks[i] = marks[i]]
          \/ reader' = [reader EXCEPT ![r] = [@ EXCEPT !.pc = "done", !.seen = NoSight,
                                                       !.status = "PLANE_COMMENTS_FAILED"]]
    /\ UNCHANGED <<marks, state>>

\* All comments are in: conclude and print. Nothing is written to Plane.
Conclude(r) ==
    /\ reader[r].pc = "comments"
    /\ ToFetch(r) = {}
    /\ LET seen == reader[r].seen
           said == CASE reader[r].command = "run" -> GoalRun(seen)
                     [] reader[r].command = "synthesize" ->
                            [status |-> Synthesis(seen), selected |-> {}]
                     [] reader[r].command = "supergoal" -> Supergoal(seen)
       IN  reader' = [reader EXCEPT ![r] = [@ EXCEPT !.pc = "done", !.seen = NoSight,
                                   !.status = said.status, !.selected = said.selected]]
    /\ UNCHANGED <<marks, state>>

ReaderStep(r) == ListItems(r) \/ FetchComments(r) \/ Conclude(r)

-----------------------------------------------------------------------------
(* The rest of the system, as the readers see it.                             *)
\* What a finished reader printed stays on the screen, and is out of date.
Disturb ==
    /\ \A r \in Reader : reader[r].pc = "comments" => reader[r].amid < MaxAmid
    /\ reader' = [r \in Reader |->
                     CASE reader[r].pc = "idle" -> reader[r]
                       [] reader[r].pc = "comments" -> [reader[r] EXCEPT !.amid = @ + 1]
                       [] reader[r].pc = "done" -> Outdated]
Mark(i, mark) ==
    /\ SumFunction([j \in Descendant |-> Len(marks[j])]) < MaxMarks
    /\ marks' = [marks EXCEPT ![i] = Append(@, mark)]
    /\ Disturb
    /\ UNCHANGED state

\* A worker reports under a ready contract; the CAO judges the newest report; the
\* controller decides on the newest verdict, and releases only a PASS.
WorkerReports(i) == ContractOf(i) = "ready" /\ Mark(i, "worker.reported")
CaoJudges(i) ==
    /\ LastOf({"worker.reported"}, marks[i]) > LastOf(Verdicts, marks[i])
    /\ \E v \in Verdicts : Mark(i, v)
ControllerDecides(i) ==
    /\ LastOf(Verdicts, marks[i]) > LastOf(Modes, marks[i])
    /\ \E d \in Modes : (d = "AUTO-GO" => Newest(Verdicts, marks[i]) = "PASS") /\ Mark(i, d)
AuditFollowsUp(i) ==
    Newest({"worker.reported"}, marks[i]) # "none"
    /\ \E f \in {"followup-HG3", "followup-HG4"} : Mark(i, f)

\* buildSelfFixAcceptance: an applied self-fix, a report it can stand on and a
\* commit on main with green gates.
AcceptSelfFix(i) ==
    /\ Newest({"worker.reported"}, marks[i]) # "none"
    /\ Newest(Modes, marks[i]) = "SELF-FIX"
    /\ Mark(i, "accepted")

MoveItem(i) ==
    /\ \E s \in {"open", "done", "cancelled"} \ {state[i]} : state' = [state EXCEPT ![i] = s]
    /\ Disturb
    /\ UNCHANGED marks

GoalNext ==
    \/ \E r \in Reader : ReaderStep(r)
    \/ \E i \in Descendant : \/ WorkerReports(i) \/ CaoJudges(i) \/ ControllerDecides(i)
                       \/ AuditFollowsUp(i) \/ AcceptSelfFix(i) \/ MoveItem(i)

GoalSpec == GoalInit /\ [][GoalNext]_goalVars

-----------------------------------------------------------------------------
\* A parent is offered for completion review only if, nobody having written
\* meanwhile, every child is done, self-fixed and accepted, or released on a
\* newest verdict that is neither REJECT nor PARK (classifySynthesisChild,
\* buildGoalSynthesis).
ReadyIsEarned ==
    \A r \in Reader :
       reader[r].status = "READY_FOR_PARENT_COMPLETION_REVIEW" /\ reader[r].amid = 0 =>
          \A i \in Depth1 :
             \/ Newest({"accepted"}, marks[i]) = "accepted"
             \/ /\ state[i] = "done" \/ Newest(Modes, marks[i]) = "AUTO-GO"
                /\ Newest(Verdicts, marks[i]) \notin {"REJECT", "PARK"}

\* The supergoal planner never hands out work that waits for the founder or the
\* founder's proxy, nor a container of open children (buildSupergoalPlan).
HeldWorkStaysHeld ==
    \A r \in Reader : reader[r].command = "supergoal" =>
       \A i \in reader[r].selected : Leaf(i) /\ Gate(i) \in {"local", "ceo_codex"}

\* What the goal commands offer or hand out has come that far.
PlansAreEarned == ReadyIsEarned /\ HeldWorkStaysHeld

\* When `run` says that all children are completed or cancelled and asks to
\* "synthesize the parent outcome and ask for CEO review" (goal-core.mjs:569),
\* the synthesis of the same items agrees.
CompleteCanBeSynthesized ==
    \A r \in Reader :
       reader[r].command = "run" /\ reader[r].status = "COMPLETE" /\ reader[r].amid = 0 =>
          Synthesis([state |-> state, marks |-> marks])
             = "READY_FOR_PARENT_COMPLETION_REVIEW"
=============================================================================
