---------------------------- MODULE QualityLoop ----------------------------
(***************************************************************************)
(* What follows a worker's report: the Codex controller plans audits and   *)
(* hotfixes (post-worker-quality-loop-core.mjs) and writes its plan into   *)
(* the decision comment; post-worker-quality-plane-handoff.mjs reads the   *)
(* newest such comment of an item, or of every item of the project, and    *)
(* posts one scheduler.lower-worker-candidate per requested worker; a      *)
(* candidate may become a work item of its own, whose worker is judged in  *)
(* the same way.  Controllers, handoffs and workers share only comments.   *)
(***************************************************************************)
EXTENDS Integers, Sequences, FiniteSets, FiniteSetsExt

CONSTANTS
  Handoffs,     \* processes running post-worker-quality-plane-handoff.mjs
  Contracts,    \* contracts of the first work item (see Contract)
  PostLimit,    \* --post-limit
  MaxItems,     \* bound: work items, those made from candidates included
  MaxDecisions, \* bound: controller decisions, on all items
  MaxReports,   \* bound: worker reports on one item
  Evidences     \* bound: what controllers find, out of Evidence

VARIABLES
  item,     \* the work items: a sequence of contracts
  thread,   \* thread[i]: the comments of item i that this loop reads
  handoff   \* state of the handoff processes

qualityVars == <<item, thread, handoff>>

Classes == {"P0", "P1", "P2", "P3", "P4"}
AuditWorkers == {"quality-auditor", "security-auditor",
                 "bug-regression-auditor", "deep-audit-worker"}
Workers == AuditWorkers \cup {"hotfix-worker", "controller-only"}

(* explicit: the InferenceClass field; shared, crossRepo, docs: what the   *)
(* class is inferred from without one; risky: the contract                 *)
(* text matches a high-risk pattern; paths: it names AllowedWritePaths;    *)
(* policy: PostWorkerQualityPolicy; origin: who asked for the item.        *)
Contract ==
  [explicit : Classes \cup {"none", "auto"}, shared : BOOLEAN, crossRepo : BOOLEAN,
   docs : BOOLEAN, risky : BOOLEAN, paths : BOOLEAN,
   policy : {"off", "required", "default"},
   origin : {"human"} \cup Workers]

-----------------------------------------------------------------------------
(* The plan *)

(* Mutant: a contract without InferenceClass is bounded code. *)
ClassOfDefault(c) == IF c.explicit \in Classes THEN c.explicit ELSE "P1"

(* inferPostWorkerQualityClass, inferClass: the first pattern that matches. *)
ClassOf(c) ==
  CASE c.explicit \in Classes                                -> c.explicit
    [] c.explicit = "none" /\ c.crossRepo                    -> "P3"
    [] c.explicit = "none" /\ ~c.crossRepo /\ c.shared       -> "P2"
    [] c.explicit = "none" /\ ~c.crossRepo /\ ~c.shared /\ c.docs -> "P0"
    [] OTHER                                                 -> "P1"

(* The matrix of the registry. *)
Mandatory(class) ==
  CASE class = "P0" -> {"controller-only"}
    [] class = "P1" -> {"controller-only"}
    [] class = "P2" -> {"quality-auditor"}
    [] class = "P3" -> {"quality-auditor", "deep-audit-worker"}
    [] class = "P4" -> {}
AuditOnFail(class) ==
  CASE class = "P0" -> {"quality-auditor"}
    [] class = "P1" -> {"bug-regression-auditor"}
    [] class = "P2" -> {"quality-auditor", "security-auditor"}
    [] class = "P3" -> {"quality-auditor", "deep-audit-worker", "security-auditor"}
    [] class = "P4" -> {"security-auditor", "deep-audit-worker"}
AutoHotfix(class) == class = "P1"
HotfixRounds(class) == 1

(* What the controller looks at: the newest report, the newest verdict,    *)
(* the severity of its findings, and whether a finding is about security.  *)
Evidence == [state : {"PASS", "REJECT"}, cao : {"PASS", "REJECT"},
             severity : {"none", "low", "medium", "high"}, security : BOOLEAN]

ASSUME QualityAssumption ==
  /\ PostLimit \in Nat \ {0} /\ MaxItems \in Nat \ {0} /\ MaxDecisions \in Nat
  /\ Contracts \subseteq {c \in Contract : c.origin = "human"}
  /\ Evidences \subseteq Evidence

HighRisk(c, e) == ClassOf(c) = "P4" \/ e.severity = "high" \/ c.risky
NeedsFix(e) == e.state = "REJECT" \/ e.cao = "REJECT" \/ e.severity \in {"medium", "high"}

(* The workers the plan asks for, the controller itself left out.          *)
(* previousHotfixRounds keeps its default: no caller passes it.            *)
Followups(c, e) ==
  LET class == ClassOf(c)
      previousHotfixRounds == 0
  IN  (Mandatory(class) \ {"controller-only"})
        \cup (IF NeedsFix(e) THEN AuditOnFail(class) ELSE {})
        \cup (IF e.security THEN {"security-auditor"} ELSE {})
        \cup (IF /\ NeedsFix(e) /\ AutoHotfix(class) /\ ~HighRisk(c, e)
                 /\ previousHotfixRounds < HotfixRounds(class)
              THEN {"hotfix-worker"} ELSE {})

(* Mutant: a high risk is noted, and the scheduler may spawn all the same. *)
PlanIgnoringRisk(c, e) ==
  [kind |-> "decision",
   markers |-> Followups(c, e) \cup (Mandatory(ClassOf(c)) \cap {"controller-only"}),
   status |-> IF Followups(c, e) # {} THEN "FOLLOWUP_READY" ELSE "NO_FOLLOWUP",
   maySpawn |-> Followups(c, e) # {},
   marker |-> 0, worker |-> "none", seen |-> 0]

(* planPostWorkerQualityLoop, as emitPostWorkerQualityPlan writes it. *)
Plan(c, e) ==
  LET followups == Followups(c, e)
  IN  [kind     |-> "decision",
       markers  |-> followups \cup (Mandatory(ClassOf(c)) \cap {"controller-only"}),
       status   |-> CASE HighRisk(c, e)                       -> "NEEDS_HUMAN"
                      [] ~HighRisk(c, e) /\ followups # {}    -> "FOLLOWUP_READY"
                      [] OTHER                                -> "NO_FOLLOWUP",
       maySpawn |-> ~HighRisk(c, e) /\ followups # {},
       marker   |-> 0, worker |-> "none", seen |-> 0]

(* shouldRunPostWorkerQuality: asks is whether the decision waits for a    *)
(* human.                                                                  *)
RunsQuality(c, asks) == c.policy = "required" \/ (c.policy = "default" /\ ~asks)

-----------------------------------------------------------------------------
(* Comments *)

(* kind "decision": a controller.decision with a plan; "terminal": a       *)
(* marker comment whose state says the audit or hotfix is reported;        *)
(* "worker.reported"; "candidate": for the marker comment at `marker'.     *)
(* seen (not in the text): the comments of the item its author had read.   *)
Note == [kind : {"decision", "terminal", "worker.reported", "candidate"},
         markers : SUBSET Workers,
         status : {"NEEDS_HUMAN", "FOLLOWUP_READY", "NO_FOLLOWUP", "none"},
         maySpawn : BOOLEAN, marker : Nat, worker : Workers \cup {"none"},
         seen : Nat]

Plain(kind) == [kind |-> kind, markers |-> {}, status |-> "none",
                maySpawn |-> FALSE, marker |-> 0, worker |-> "none", seen |-> 0]

(* renderPlaneCandidateMarkdown *)
Candidate(marker, worker, seen) ==
  [Plain("candidate") EXCEPT !.marker = marker, !.worker = worker, !.seen = seen]

Append1(i, c) == thread' = [thread EXCEPT ![i] = Append(@, c)]

(* Mutant: the first comment with a marker. *)
NewestMarkerOldest(cs) ==
  LET marked == {k \in DOMAIN cs : cs[k].markers # {} \/ cs[k].kind = "terminal"}
  IN  IF marked = {} THEN 0 ELSE Min(marked)

(* latestQualityMarkers: the newest comment that has a marker, 0 without. *)
NewestMarker(cs) ==
  LET marked == {k \in DOMAIN cs : cs[k].markers # {} \/ cs[k].kind = "terminal"}
  IN  IF marked = {} THEN 0 ELSE Max(marked)

(* buildLowerWorkerDispatchFromResolvedMarker, for a worker the note asks  *)
(* for.  The rounds it compares were written by the controller: 0 of 1.    *)
MarkerStatus(c, note, worker) ==
  CASE \/ note.kind = "decision" /\ (~note.maySpawn \/ note.status = "NEEDS_HUMAN")
       \/ note.kind = "terminal"
       \/ worker = "controller-only"                        -> "NO_SPAWN"
    [] /\ note.kind = "decision" /\ note.maySpawn /\ note.status # "NEEDS_HUMAN"
       /\ worker = "hotfix-worker" /\ ~c.paths              -> "BLOCKED"
    [] OTHER                                                -> "LOWER_WORKER_READY"

(* buildLowerWorkerDispatchesFromMarkers and postableCandidateResults: one *)
(* blocked marker holds back the candidates of all.                        *)
Postable(c, cs) ==
  LET at == NewestMarker(cs)
  IN  IF at = 0 \/ \E w \in cs[at].markers : MarkerStatus(c, cs[at], w) = "BLOCKED"
      THEN {}
      ELSE {w \in cs[at].markers : MarkerStatus(c, cs[at], w) = "LOWER_WORKER_READY"}

(* Mutant: nothing has been posted before. *)
AlreadyPostedNever(cs, marker, worker) == FALSE

(* findExistingCandidateComment *)
AlreadyPosted(cs, marker, worker) ==
  \E k \in DOMAIN cs : /\ cs[k].kind = "candidate"
                       /\ cs[k].marker = marker /\ cs[k].worker = worker

-----------------------------------------------------------------------------
(* Processes *)

Task == [item : Nat, marker : Nat, worker : Workers, seen : Nat]

HandoffState ==
  [pc : {"idle", "reading", "posting", "exited"}, todo : SUBSET Nat,
   tasks : SUBSET Task]

HandoffIdle == [pc |-> "idle", todo |-> {}, tasks |-> {}]

QualityInit ==
  /\ item = <<>>
  /\ thread = <<>>
  /\ handoff = [h \in Handoffs |-> HandoffIdle]

(* Somebody writes the first contract. *)
NewItem(c) ==
  /\ item = <<>>
  /\ item' = <<c>> /\ thread' = << <<>> >>
  /\ UNCHANGED handoff

Count(i, kind) == Cardinality({k \in DOMAIN thread[i] : thread[i][k].kind = kind})

Decisions ==
  UNION {{<<j, k>> : k \in {k \in DOMAIN thread[j] : thread[j][k].kind = "decision"}} :
           j \in DOMAIN thread}

WorkerReports(i) ==
  /\ Count(i, "worker.reported") < MaxReports
  /\ Append1(i, Plain("worker.reported"))
  /\ UNCHANGED <<item, handoff>>

(* A controller run, started by a runtime dispatcher or by hand. *)
ControllerDecides(i, e, asks) ==
  /\ Count(i, "worker.reported") > 0
  /\ Cardinality(Decisions) < MaxDecisions
  /\ RunsQuality(item[i], asks)
  /\ Append1(i, [Plan(item[i], e) EXCEPT !.seen = Len(thread[i])])
  /\ UNCHANGED <<item, handoff>>

(* An auditor or hotfix worker reports on the item that asked for it. *)
FollowupReports(i) ==
  /\ Count(i, "terminal") = 0
  /\ Count(i, "candidate") > 0
  /\ Append1(i, Plain("terminal"))
  /\ UNCHANGED <<item, handoff>>

(* A candidate becomes a work item.  renderLowerWorkerContractMarkdown     *)
(* names the quality registry as a source of truth, so the text of the new *)
(* contract always looks like shared code.                                 *)
GeneratedContract(c, worker, crossRepo, risky) ==
  [explicit |-> "none", shared |-> TRUE, crossRepo |-> crossRepo, docs |-> TRUE,
   risky |-> risky, paths |-> (worker = "hotfix-worker" /\ c.paths),
   policy |-> "required", origin |-> worker]

Materialise(i, k, crossRepo, risky) ==
  /\ Len(item) < MaxItems
  /\ thread[i][k].kind = "candidate"
  /\ item' = Append(item, GeneratedContract(item[i], thread[i][k].worker, crossRepo, risky))
  /\ thread' = Append(thread, <<>>)
  /\ UNCHANGED handoff

(* --sequence: one item; --scan-project: all items, one listing after the  *)
(* other.                                                                  *)
HandoffStart(h, items) ==
  /\ handoff[h].pc = "idle"
  /\ items # {}
  /\ handoff' = [handoff EXCEPT ![h].pc = "reading", ![h].todo = items]
  /\ UNCHANGED <<item, thread>>

(* In a scan a listing that fails counts as no comments, and so does, here, *)
(* a contract that does not validate.                                      *)
HandoffRead(h, i, listed) ==
  LET seen == IF listed THEN Len(thread[i]) ELSE 0
      cs   == SubSeq(thread[i], 1, seen)
      new  == {[item |-> i, marker |-> NewestMarker(cs), worker |-> w, seen |-> seen] :
                 w \in Postable(item[i], cs)}
  IN  /\ handoff[h].pc = "reading" /\ i \in handoff[h].todo
      /\ handoff' = [handoff EXCEPT ![h].todo = @ \ {i}, ![h].tasks = @ \cup new]
      /\ UNCHANGED <<item, thread>>

(* slice(0, postLimit): which candidates come first is Plane's order. *)
HandoffListed(h, kept) ==
  /\ handoff[h].pc = "reading" /\ handoff[h].todo = {}
  /\ kept \subseteq handoff[h].tasks
  /\ Cardinality(kept) = IF Cardinality(handoff[h].tasks) > PostLimit
                         THEN PostLimit ELSE Cardinality(handoff[h].tasks)
  /\ handoff' = [handoff EXCEPT ![h].pc = "posting", ![h].tasks = kept]
  /\ UNCHANGED <<item, thread>>

(* One candidate: skipped when the snapshot has it, else posted; an answer *)
(* that is an error does not stop the loop.  Nobody reads the exit code.   *)
HandoffPost(h, t, landed) ==
  LET snapshot == SubSeq(thread[t.item], 1, t.seen)
      skip     == AlreadyPosted(snapshot, t.marker, t.worker)
  IN  /\ handoff[h].pc = "posting" /\ t \in handoff[h].tasks
      /\ skip => ~landed
      /\ IF landed THEN Append1(t.item, Candidate(t.marker, t.worker, t.seen))
                   ELSE UNCHANGED thread
      /\ handoff' = [handoff EXCEPT ![h].tasks = @ \ {t}]
      /\ UNCHANGED item

HandoffExit(h) ==
  /\ handoff[h].pc = "posting" /\ handoff[h].tasks = {}
  /\ handoff' = [handoff EXCEPT ![h].pc = "exited"]
  /\ UNCHANGED <<item, thread>>

(* Authentication, registry or item cannot be read; or the process dies.   *)
HandoffAbort(h) ==
  /\ handoff[h].pc \in {"reading", "posting"}
  /\ handoff' = [handoff EXCEPT ![h] = [HandoffIdle EXCEPT !.pc = "exited"]]
  /\ UNCHANGED <<item, thread>>

QualityNext ==
  \/ \E c \in Contracts : NewItem(c)
  \/ \E i \in DOMAIN item :
       \/ WorkerReports(i)
       \/ \E e \in Evidences, asks \in BOOLEAN : ControllerDecides(i, e, asks)
       \/ FollowupReports(i)
       \/ \E k \in DOMAIN thread[i], crossRepo, risky \in BOOLEAN :
            Materialise(i, k, crossRepo, risky)
  \/ \E h \in Handoffs :
       \/ \E items \in {{i} : i \in DOMAIN item} \cup {DOMAIN item} : HandoffStart(h, items)
       \/ \E i \in DOMAIN item, listed \in BOOLEAN : HandoffRead(h, i, listed)
       \/ \E kept \in SUBSET handoff[h].tasks : HandoffListed(h, kept)
       \/ \E t \in handoff[h].tasks, landed \in BOOLEAN : HandoffPost(h, t, landed)
       \/ HandoffExit(h)
       \/ HandoffAbort(h)

QualitySpec == QualityInit /\ [][QualityNext]_qualityVars

-----------------------------------------------------------------------------
(* Properties *)

(* Type correctness of work items, comments and handoff processes. *)
QualityTypeOK ==
  /\ item \in Seq(Contract)
  /\ thread \in Seq(Seq(Note)) /\ Len(thread) = Len(item)
  /\ handoff \in [Handoffs -> HandoffState]

Candidates(i) == {k \in DOMAIN thread[i] : thread[i][k].kind = "candidate"}

(* Planner, comment, parser and handoff agree about who may be sent: every *)
(* candidate on the ledger goes back to a controller plan that was not     *)
(* left to a human; a hotfix candidate in addition to a contract that may  *)
(* be repaired automatically and that bounds what the worker may write.    *)
CandidatesAreAuthorised ==
  \A i \in DOMAIN item : \A k \in Candidates(i) :
    LET c == thread[i][k]
        d == thread[i][c.marker]
    IN  /\ c.marker \in 1..(k - 1) /\ d.kind = "decision" /\ c.worker \in d.markers
        /\ ~item[i].risky /\ ClassOf(item[i]) # "P4" /\ d.status # "NEEDS_HUMAN"
        /\ c.worker = "hotfix-worker" => AutoHotfix(ClassOf(item[i])) /\ item[i].paths

(* Two candidates for one request come from a race only: the second        *)
(* process had listed the comments before the first candidate landed.      *)
CandidateOncePerMarker ==
  \A i \in DOMAIN item : \A j, k \in Candidates(i) :
    (j < k /\ thread[i][j].marker = thread[i][k].marker
           /\ thread[i][j].worker = thread[i][k].worker)
      => thread[i][k].seen < j

(* A candidate answers the newest request its author could see: a request *)
(* that was replaced or reported done is not handed over again.            *)
CandidateForNewestRequest ==
  \A i \in DOMAIN item : \A k \in Candidates(i) :
    LET c == thread[i][k]
    IN  \A m \in (c.marker + 1)..c.seen :
          thread[i][m].kind # "terminal" /\ thread[i][m].markers = {}

(* A request is handed over once, but for races, and while it is the newest. *)
CandidatesAreTimely ==
  QualityTypeOK /\ CandidateOncePerMarker /\ CandidateForNewestRequest

(* The repair of a repair is never automatic: nothing passes the number of *)
(* rounds on from item to item, but the contract of a generated item is    *)
(* always classed as shared code, and that class has no automatic hotfix.  *)
HotfixChainStops ==
  \A i \in DOMAIN item : item[i].origin # "human" =>
    \A k \in DOMAIN thread[i] : "hotfix-worker" \notin thread[i][k].markers

(* docs/orchestration/post-worker-quality-loop.md:140: the loop stops      *)
(* before more than one autonomous hotfix round for the same failure.  Two *)
(* hotfix candidates of one item, both after the same newest report, are   *)
(* two rounds for one failure.  The code allows it: the controller never   *)
(* passes previousHotfixRounds.                                            *)
OneHotfixRound ==
  \A i \in DOMAIN item : \A j, k \in Candidates(i) :
    (/\ j < k /\ thread[i][j].worker = "hotfix-worker" /\ thread[i][k].worker = "hotfix-worker"
     /\ thread[i][j].marker # thread[i][k].marker)
      => \E m \in j..k : thread[i][m].kind = "worker.reported"

(* docs/orchestration/post-worker-quality-loop.md:53: a hotfix of bounded   *)
(* code stops on a security signal.  The code does not stop: a finding of   *)
(* medium severity adds a security audit to the hotfix.                     *)
SecurityStopsHotfix ==
  \A i \in DOMAIN item : \A k \in DOMAIN thread[i] :
    (ClassOf(item[i]) = "P1" /\ "security-auditor" \in thread[i][k].markers)
      => "hotfix-worker" \notin thread[i][k].markers
=============================================================================
