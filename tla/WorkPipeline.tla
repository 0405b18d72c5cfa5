---------------------------- MODULE WorkPipeline ----------------------------
(***************************************************************************)
(* From the lock to the decision: the processes that execute a locked work *)
(* item, judge what was reported and decide on it.                         *)
(*                                                                         *)
(*   runtime  runtime-dispatcher-v1.mjs --mode run --controller post       *)
(*            --codex-controller post: fetches the item, lists the         *)
(*            comments, checks the lock, runs the worker (RuntimeSupervisor*)
(*            models that run; here only its outcome counts), posts        *)
(*            worker.run-summary and worker.reported and, after a PASS,    *)
(*            starts the other two and waits for them in turn.             *)
(*   audit    cao-pass.mjs --mode post: reads everything afresh and posts  *)
(*            controller.verdict.  Also started by hand.                   *)
(*   decider  codex-controller-dryrun.mjs --mode post: reads everything    *)
(*            afresh and posts controller.decision.                        *)
(*                                                                         *)
(* They share nothing but the ledger and exit codes, and they interleave   *)
(* with the reviewers and lock dispatchers of DispatchLock.                *)
(***************************************************************************)
EXTENDS DispatchLock, WorkLedger

CONSTANTS
  Runtimes,  \* runtime dispatchers; a run id is the process's own name
  Auditors,  \* CAO processes started by hand
  Ends       \* bound: the ways a worker run can end, out of Outcomes

ASSUME PipelineAssumption ==
  /\ Runtimes \subseteq Runs /\ Runtimes \cap Dispatchers = {}
  /\ Auditors \cap Runtimes = {}
  /\ Ends \subseteq Outcomes

VARIABLES
  runtime,  \* state of the runtime dispatchers
  audit,    \* state of the CAO processes
  decider   \* state of the Codex controllers

workVars == <<runtime, audit, decider>>
pipelineVars == <<vars, workVars>>

(* hash: description the process fetched; seen: length of the ledger it    *)
(* read; lock: position of the lock it runs under; posted: did the summary *)
(* POST answer ok; exit: its exit code.                                    *)
RuntimeState ==
  [pc : {"idle", "fetched", "listed", "running", "summary", "reporting",
         "auditing", "deciding", "exited"},
   hash : Hashes \cup {None}, seen : Nat, lock : Nat,
   outcome : Outcomes \cup {None}, posted : BOOLEAN,
   exit : {"none", "0", "1", "2"}]

AuditState ==
  [pc : {"off", "started", "fetched", "posting", "exited"},
   hash : Hashes \cup {None}, verdict : Comment \cup {None},
   exit : {"none", "0", "1", "2"}]

DeciderState ==
  [pc : {"off", "started", "fetched", "posting", "exited"},
   hash : Hashes \cup {None}, decision : DecisionModes \cup {None},
   exit : {"none", "0", "1"}]

AuditOff == [pc |-> "off", hash |-> None, verdict |-> None, exit |-> "none"]
DeciderOff == [pc |-> "off", hash |-> None, decision |-> None, exit |-> "none"]

PipelineInit ==
  /\ Init
  /\ runtime = [r \in Runtimes |->
       [pc |-> "idle", hash |-> None, seen |-> 0, lock |-> 0, outcome |-> None,
        posted |-> FALSE, exit |-> "none"]]
  /\ audit = [a \in Runtimes \cup Auditors |-> AuditOff]
  /\ decider = [r \in Runtimes |-> DeciderOff]

-----------------------------------------------------------------------------
(* The runtime dispatcher *)

RuntimeExit(r, code) ==
  runtime' = [runtime EXCEPT ![r].pc = "exited", ![r].exit = code,
                             ![r].seen = 0, ![r].lock = 0,
                             ![r].outcome = None, ![r].posted = FALSE]

RuntimeFetch(r) ==
  /\ runtime[r].pc = "idle"
  /\ runtime' = [runtime EXCEPT ![r].pc = "fetched", ![r].hash = description]
  /\ UNCHANGED <<vars, audit, decider>>

RuntimeList(r) ==
  /\ runtime[r].pc = "fetched"
  /\ runtime' = [runtime EXCEPT ![r].pc = "listed", ![r].seen = Len(ledger)]
  /\ UNCHANGED <<vars, audit, decider>>

(* runDryRun, after further requests for the dependencies: the comments are *)
(* those listed before, the clock is read now.  othersPass: the preflights  *)
(* that do not look at the ledger.                                         *)
RuntimePreflight(r, othersPass) ==
  LET lock == LockInForce(SubSeq(ledger, 1, runtime[r].seen), runtime[r].hash, now)
  IN  /\ runtime[r].pc = "listed"
      /\ IF lock # 0 /\ othersPass
         THEN runtime' = [runtime EXCEPT ![r].pc = "running", ![r].seen = 0,
                                         ![r].lock = lock]
         ELSE RuntimeExit(r, "2")
      /\ UNCHANGED <<vars, audit, decider>>

WorkerEnds(r, outcome) ==
  /\ runtime[r].pc = "running"
  /\ runtime' = [runtime EXCEPT ![r].pc = "summary", ![r].outcome = outcome]
  /\ UNCHANGED <<vars, audit, decider>>

(* Nobody reads the worker.run-summary comment: the ledger leaves it out.   *)
PostSummary(r, answer) ==
  /\ runtime[r].pc = "summary"
  /\ IF answer = "exception"
     THEN RuntimeExit(r, "1")
     ELSE runtime' = [runtime EXCEPT ![r].pc = "reporting",
                                     ![r].posted = (answer = "ok")]
  /\ UNCHANGED <<vars, audit, decider>>

(* Exit 1 when a POST failed, exit 2 for anything but a PASS; otherwise the *)
(* CAO is started.                                                         *)
PostReport(r, landed, ok) ==
  LET me == runtime[r]
  IN  /\ me.pc = "reporting"
      /\ Post(ReportComment(r, me.outcome), landed, ok)
      /\ CASE ~ok \/ ~me.posted ->
                RuntimeExit(r, "1") /\ UNCHANGED audit
           [] ok /\ me.posted /\ me.outcome \notin {"PASS", "PASS-bare"} ->
                RuntimeExit(r, "2") /\ UNCHANGED audit
           [] OTHER ->
                /\ runtime' = [runtime EXCEPT ![r].pc = "auditing"]
                /\ audit' = [audit EXCEPT ![r].pc = "started"]
      /\ UNCHANGED <<description, edits, reviewer, now, dispatcher, decider>>

(* Mutant: the controller is started whatever the CAO said. *)
AuditReturnsAlways(r) ==
  /\ runtime[r].pc = "auditing" /\ audit[r].pc = "exited"
  /\ runtime' = [runtime EXCEPT ![r].pc = "deciding"]
  /\ decider' = [decider EXCEPT ![r].pc = "started"]
  /\ UNCHANGED <<vars, audit>>

AuditReturns(r) ==
  /\ runtime[r].pc = "auditing" /\ audit[r].pc = "exited"
  /\ IF audit[r].exit = "0"
     THEN /\ runtime' = [runtime EXCEPT ![r].pc = "deciding"]
          /\ decider' = [decider EXCEPT ![r].pc = "started"]
     ELSE RuntimeExit(r, "2") /\ UNCHANGED decider
  /\ UNCHANGED <<vars, audit>>

(* evaluated: the prompt-result evaluation did not raise an error. *)
DeciderReturns(r, evaluated) ==
  /\ runtime[r].pc = "deciding" /\ decider[r].pc = "exited"
  /\ RuntimeExit(r, IF decider[r].exit = "0" /\ evaluated THEN "0" ELSE "2")
  /\ UNCHANGED <<vars, audit, decider>>

(* A failed GET, an exception, or a signal.  The processes it has started   *)
(* have process groups of their own and go on.                             *)
RuntimeAbort(r) ==
  /\ runtime[r].pc \notin {"idle", "exited"}
  /\ RuntimeExit(r, "1")
  /\ UNCHANGED <<vars, audit, decider>>

-----------------------------------------------------------------------------
(* The CAO *)

AuditStart(a) ==
  /\ a \in Auditors /\ audit[a].pc = "off"
  /\ audit' = [audit EXCEPT ![a].pc = "started"]
  /\ UNCHANGED <<vars, runtime, decider>>

AuditFetch(a) ==
  /\ audit[a].pc = "started"
  /\ audit' = [audit EXCEPT ![a].pc = "fetched", ![a].hash = description]
  /\ UNCHANGED <<vars, runtime, decider>>

AuditRead(a) ==
  /\ audit[a].pc = "fetched"
  /\ audit' = [audit EXCEPT ![a].pc = "posting", ![a].hash = None,
                            ![a].verdict = Verdict(ledger, audit[a].hash, now)]
  /\ UNCHANGED <<vars, runtime, decider>>

AuditExit(a, code) ==
  audit' = [audit EXCEPT ![a] = [AuditOff EXCEPT !.pc = "exited", !.exit = code]]

AuditPost(a, landed, ok) ==
  /\ audit[a].pc = "posting"
  /\ Post(audit[a].verdict, landed, ok)
  /\ AuditExit(a, CASE ~ok -> "1"
                    [] ok /\ audit[a].verdict.value = "PASS" -> "0"
                    [] OTHER -> "2")
  /\ UNCHANGED <<description, edits, reviewer, now, dispatcher, runtime, decider>>

(* Also the end of the two minutes its parent grants it. *)
AuditAbort(a) ==
  /\ audit[a].pc \notin {"off", "exited"}
  /\ AuditExit(a, "1")
  /\ UNCHANGED <<vars, runtime, decider>>

-----------------------------------------------------------------------------
(* The Codex controller *)

DeciderFetch(r) ==
  /\ decider[r].pc = "started"
  /\ decider' = [decider EXCEPT ![r].pc = "fetched", ![r].hash = description]
  /\ UNCHANGED <<vars, runtime, audit>>

DeciderRead(r) ==
  /\ decider[r].pc = "fetched"
  /\ decider' = [decider EXCEPT ![r].pc = "posting", ![r].hash = None,
                                ![r].decision = Decision(ledger, decider[r].hash)]
  /\ UNCHANGED <<vars, runtime, audit>>

DeciderExit(r, code) ==
  decider' = [decider EXCEPT ![r] = [DeciderOff EXCEPT !.pc = "exited", !.exit = code]]

DeciderPost(r, landed, ok) ==
  /\ decider[r].pc = "posting"
  /\ Post(DecisionComment(decider[r].decision), landed, ok)
  /\ DeciderExit(r, IF ok THEN "0" ELSE "1")
  /\ UNCHANGED <<description, edits, reviewer, now, dispatcher, runtime, audit>>

DeciderAbort(r) ==
  /\ decider[r].pc \notin {"off", "exited"}
  /\ DeciderExit(r, "1")
  /\ UNCHANGED <<vars, runtime, audit>>

-----------------------------------------------------------------------------
RuntimeStep(r) ==
  \/ RuntimeFetch(r)
  \/ RuntimeList(r)
  \/ \E othersPass \in BOOLEAN : RuntimePreflight(r, othersPass)
  \/ \E outcome \in Ends : WorkerEnds(r, outcome)
  \/ \E answer \in {"ok", "error", "exception"} : PostSummary(r, answer)
  \/ \E landed, ok \in BOOLEAN : PostReport(r, landed, ok)
  \/ AuditReturns(r)
  \/ \E evaluated \in BOOLEAN : DeciderReturns(r, evaluated)
  \/ RuntimeAbort(r)

AuditStep(a) ==
  \/ AuditStart(a)
  \/ AuditFetch(a)
  \/ AuditRead(a)
  \/ \E landed, ok \in BOOLEAN : AuditPost(a, landed, ok)
  \/ AuditAbort(a)

DeciderStep(r) ==
  \/ DeciderFetch(r)
  \/ DeciderRead(r)
  \/ \E landed, ok \in BOOLEAN : DeciderPost(r, landed, ok)
  \/ DeciderAbort(r)

PipelineNext ==
  \/ Next /\ UNCHANGED workVars
  \/ \E r \in Runtimes : RuntimeStep(r) \/ DeciderStep(r)
  \/ \E a \in Runtimes \cup Auditors : AuditStep(a)

PipelineSpec == PipelineInit /\ [][PipelineNext]_pipelineVars

-----------------------------------------------------------------------------
PipelineTypeOK ==
  /\ TypeOK
  /\ runtime \in [Runtimes -> RuntimeState]
  /\ audit \in [Runtimes \cup Auditors -> AuditState]
  /\ decider \in [Runtimes -> DeciderState]

WorkReports == At(ledger, "worker.reported")
Passed == {i \in At(ledger, "controller.verdict") : ledger[i].value = "PASS"}
AutoGos == {i \in At(ledger, "controller.decision") : ledger[i].value = "AUTO-GO"}

(* Whatever was reported was done under a lock for the very description the *)
(* worker was given, posted before the report; and with --contract-review   *)
(* require that description had passed its review before that.              *)
WorkIsLockedAndReviewed ==
  \A p \in WorkReports :
    LET hash == runtime[ledger[p].run].hash
    IN  \E l \in Locks :
          /\ l < p /\ ledger[l].hash = hash
          /\ ReviewMode = "require" => \E c \in PassReviews(ledger, hash) : c < l

(* What is always true of the ledger and of the processes of the pipeline. *)
PipelineInv == PipelineTypeOK /\ WorkIsLockedAndReviewed

(* However many CAO processes judge an item, and whenever they read it, the *)
(* PASS verdicts for one lock all accept the same report.                   *)
OneReportPerLock ==
  \A u, v \in Passed : ledger[u].run = ledger[v].run => ledger[u].prev = ledger[v].prev

(* A runtime dispatcher exits 0 only when its own report was accepted, or   *)
(* when a newer lock has taken the item over since it reported and somebody *)
(* else's report was accepted under that one.                               *)
ExitZeroIsAccepted ==
  \A r \in Runtimes : runtime[r].exit = "0" =>
    \E p \in WorkReports, v \in Passed :
      /\ ledger[p].run = r /\ p < v
      /\ \/ ledger[v].prev = r
         \/ \E l \in Locks : p < l /\ l < v /\ ledger[l].run = ledger[v].run

(* Every AUTO-GO stands on a whole chain: a lock, then a PASS reported after *)
(* it, then a verdict that accepts that report under that lock.             *)
AutoGoIsEarned ==
  \A d \in AutoGos :
    \E l \in Locks, p \in WorkReports, v \in Passed :
      /\ l < p /\ p < v /\ v < d
      /\ ledger[p].value = "PASS"
      /\ ledger[v].run = ledger[l].run /\ ledger[v].prev = ledger[p].run

-----------------------------------------------------------------------------
(* What the documents say and the code does not do; TLC refutes each. *)

(* "Verifies the description hash matches the lock hash (no mid-run         *)
(* mutation)": the report a PASS verdict accepts is of a run that was given *)
(* the description the verdict is about.                                    *)
NoMidRunMutation ==
  \A v \in Passed : runtime[ledger[v].prev].hash = ledger[v].hash

(* "These categories never become AUTO-GO regardless of confidence": work    *)
(* accepted for a description at HG-4 is not followed by an AUTO-GO.        *)
FounderGateHolds ==
  \A d \in AutoGos :
    \E v \in Passed : v < d /\ HumanGate[ledger[v].hash] # "HG-4"
=============================================================================
