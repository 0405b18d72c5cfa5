----------------------------- MODULE WorkLedger -----------------------------
(***************************************************************************)
(* What the processes after the lock read off the comments of an item:     *)
(* the runtime dispatcher the lock it may run under, the CAO the report it *)
(* is to judge, the Codex controller the verdict it is to act on.          *)
(***************************************************************************)
EXTENDS PlaneLedger

CONSTANTS
  HumanGate,   \* HumanGate[h]: the level description h declares
  Authority,   \* Authority[h]: the release authority it declares
  Unfit,       \* descriptions that fail the CAO's own checks of the contract
  Confidence   \* --confidence of the Codex controller, in percent

GateLevels == {"HG-0", "HG-1", "HG-2", "HG-2.5", "HG-3", "HG-3.5", "HG-4"}
Authorities == {"none", "CEO_AUTONOMOUS", "CEO_CRITICAL", "FOUNDER_REQUIRED"}

ASSUME WorkLedgerAssumption ==
  /\ HumanGate \in [Hashes -> GateLevels]
  /\ Authority \in [Hashes -> Authorities]
  /\ Unfit \subseteq Hashes
  /\ Confidence \in 0 .. 100

(* Mutant: an unexpired lock will do, whatever description it is for. *)
LockInForceAnyHash(cs, hash, t) ==
  LET active == Unexpired(cs, t)
  IN  IF active = {} THEN 0 ELSE FirstListed(active)

(* preflightLock: the first unexpired lock listed must be for the current  *)
(* description; no other lock is considered.  0: there is none to run on.  *)
LockInForce(cs, hash, t) ==
  LET active == Unexpired(cs, t)
  IN  IF active # {} /\ cs[FirstListed(active)].hash = hash
      THEN FirstListed(active) ELSE 0

-----------------------------------------------------------------------------
(* runCaoPass *)

(* findLockComment: the newest, expired or not; 0: none. *)
NewestLock(cs) ==
  LET locks == At(cs, "worker.lock") IN IF locks = {} THEN 0 ELSE Max(locks)

(* findReportComments: those after the newest lock. *)
Reports(cs) == {i \in At(cs, "worker.reported") : i > NewestLock(cs)}

(* Mutant: the newest PASS wins, whatever else was reported. *)
SelectedReportNewestPass(cs) ==
  LET passes == {i \in Reports(cs) : cs[i].value \in {"PASS", "PASS-bare"}}
  IN  CASE Reports(cs) = {} -> 0
        [] passes # {} -> Max(passes)
        [] OTHER -> Max(Reports(cs))

(* selectReportForCao: a single report, or a PASS preceded by nothing but   *)
(* failures; 0: none, or a duplicate.                                      *)
SelectedReport(cs) ==
  LET reports == Reports(cs)
  IN  CASE Cardinality(reports) = 1 -> Max(reports)
        [] /\ Cardinality(reports) > 1
           /\ cs[Max(reports)].value \in {"PASS", "PASS-bare"}
           /\ \A i \in reports \ {Max(reports)} : cs[i].value = "FAILED" -> Max(reports)
        [] OTHER -> 0

(* Mutant: the blocks the contract asks for are not looked for. *)
CaoAcceptsBare(cs, hash, t) ==
  /\ hash \notin Unfit
  /\ NewestLock(cs) # 0
  /\ cs[NewestLock(cs)].hash = hash
  /\ cs[NewestLock(cs)].expires >= t
  /\ At(cs, "worker.context") # {}
  /\ SelectedReport(cs) # 0
  /\ cs[SelectedReport(cs)].value \in {"PASS", "PASS-bare"}

(* No reason code against the work.  HG-3.5 pauses (verdict PARK) are left  *)
(* out: no report that buildWorkerReportedYaml writes carries one.         *)
CaoAccepts(cs, hash, t) ==
  /\ hash \notin Unfit
  /\ NewestLock(cs) # 0
  /\ cs[NewestLock(cs)].hash = hash
  /\ cs[NewestLock(cs)].expires >= t
  /\ At(cs, "worker.context") # {}
  /\ SelectedReport(cs) # 0
  /\ cs[SelectedReport(cs)].value = "PASS"

Verdict(cs, hash, t) ==
  VerdictComment(hash, IF CaoAccepts(cs, hash, t) THEN "PASS" ELSE "REJECT",
                 IF NewestLock(cs) = 0 THEN None ELSE cs[NewestLock(cs)].run,
                 IF SelectedReport(cs) = 0 THEN None ELSE cs[SelectedReport(cs)].run)

-----------------------------------------------------------------------------
(* codex-controller-dryrun.mjs *)

(* findCaoVerdictComment *)
NewestVerdict(cs) ==
  LET verdicts == At(cs, "controller.verdict")
  IN  IF verdicts = {} THEN "missing" ELSE cs[Max(verdicts)].value

Threshold == [l \in {"HG-0", "HG-1", "HG-2", "HG-2.5", "HG-3"} |->
  CASE l = "HG-0" -> 0 [] l = "HG-1" -> 80 [] l = "HG-2" -> 85
    [] l = "HG-2.5" -> 92 [] l = "HG-3" -> 96]

(* decideController for a PASS, without a self-fix request *)
DecisionOnPass(hash) ==
  LET level == HumanGate[hash]
      ask == CASE level = "HG-3" -> "ASK-CEO-HG3" [] OTHER -> "ASK-FOUNDER"
  IN  IF \/ level = "HG-4"
         \/ level = "HG-3" /\ Authority[hash] # "CEO_CRITICAL"
         \/ level = "HG-2.5" /\ Authority[hash] = "FOUNDER_REQUIRED"
         \/ Confidence < 70
      THEN ask
      ELSE IF level \in DOMAIN Threshold /\ Confidence >= Threshold[level]
      THEN "AUTO-GO" ELSE "DELEGATE"

Decision(cs, hash) ==
  CASE NewestVerdict(cs) = "missing" -> "PARK"
    [] NewestVerdict(cs) = "REJECT"  -> "REJECT"
    [] OTHER                         -> DecisionOnPass(hash)
=============================================================================
