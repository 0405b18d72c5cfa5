---------------------------- MODULE PlaneLedger ----------------------------
(***************************************************************************)
(* The comments of one Plane work item: the only state the separate        *)
(* command-line processes of scripts/orchestration share.  A process reads *)
(* all comments in one GET, decides on that snapshot, and appends comments *)
(* with later POSTs; Plane offers neither a transaction nor a conditional  *)
(* append.  This module holds the shape of a comment and the pure          *)
(* functions the processes decide with.                                    *)
(*                                                                         *)
(* A ledger is a sequence of comments; the position of a comment stands    *)
(* for its created_at.                                                     *)
(***************************************************************************)
EXTENDS Integers, Sequences, FiniteSets, FiniteSetsExt

CONSTANTS
  Hashes,       \* canonical hashes of the descriptions the item can have
  Runs,         \* run ids: one per process, each calls randomUUID once
  None,         \* "no hash", "no run", "no comment"
  NewestFirst   \* TRUE iff Plane lists the newest comment first

ASSUME LedgerAssumption ==
  /\ None \notin Hashes \cup Runs
  /\ NewestFirst \in BOOLEAN

Titles == {"contract-review", "remediation-routed", "executive-routing",
           "runtime-ready", "human-gate-released",
           "worker.lock", "worker.context", "worker.reported",
          "controller.verdict", "controller.decision"}

(* What evaluateContractForDispatch can hold against a contract; "patch"   *)
(* stands for all codes that only ask for a better text.                   *)
GateCodes == {"founder-gate", "ceo-gate"}
ReasonCodes == GateCodes \cup
  {"inference-p4", "scope-broad", "validator-fail", "spec-required", "patch"}

ReviewVerdicts ==
  {"CONTRACT_PASS", "CONTRACT_PATCH_REQUIRED", "SPEC_REQUIRED",
   "SPLIT_REQUIRED", "CEO_GATE_REQUIRED", "FOUNDER_GATE_REQUIRED"}
RuntimeVerdicts ==
  {"RUNTIME_READY_PASS", "RUNTIME_READY_REJECT", "RUNTIME_READY_SKIPPED"}
RoutingDecisions == {"lock-allowed-executive-first",
                     "lock-blocked-executive-missing-profile",
                     "lock-blocked-executive-over-lane",
                     "lock-blocked-executive-over-budget"}
(* What a worker run can report: "PASS-bare" is a PASS without the blocks   *)
(* (reflection, learning proposals) its contract asks for, "FAILED" one of *)
(* NEEDS_HUMAN, RUNTIME_ERROR and TIMEOUT, "BLOCKED" one of BLOCKED_*.     *)
Outcomes == {"PASS", "PASS-bare", "REJECT", "FAILED", "BLOCKED"}
CaoVerdicts == {"PASS", "REJECT"}
DecisionModes == {"AUTO-GO", "DELEGATE", "ASK-CEO-HG3", "ASK-FOUNDER",
                  "REJECT", "PARK"}
Values == ReviewVerdicts \cup RuntimeVerdicts \cup RoutingDecisions
            \cup Outcomes \cup CaoVerdicts \cup DecisionModes
            \cup {"released", "active", "prompt"}

(* One record shape serves every title: `value' is the verdict or decision *)
(* a comment carries, `reasons' belongs to a review, `expires' and `prev'  *)
(* (the superseded run) to a worker.lock.  A controller.verdict names the  *)
(* run that locked (`run') and the run whose report it selected (`prev').  *)
Comment == [title : Titles, hash : Hashes \cup {None}, value : Values,
            reasons : SUBSET ReasonCodes,
            run : Runs \cup {None}, expires : Nat, prev : Runs \cup {None}]

(* Mutant: the two arguments of a review swapped. *)
ReviewCommentSwapped(hash, verdict, reasons) ==
  [title |-> "contract-review", hash |-> verdict, value |-> hash,
   reasons |-> reasons, run |-> None, expires |-> 0, prev |-> None]

ReviewComment(hash, verdict, reasons) ==
  [title |-> "contract-review", hash |-> hash, value |-> verdict,
   reasons |-> reasons, run |-> None, expires |-> 0, prev |-> None]

StageComment(title, hash, value) ==
  [title |-> title, hash |-> hash, value |-> value,
   reasons |-> {}, run |-> None, expires |-> 0, prev |-> None]

(* Mutant: expiry and superseded run swapped. *)
LockCommentSwapped(hash, run, expires, prev) ==
  [title |-> "worker.lock", hash |-> hash, value |-> "active",
   reasons |-> {}, run |-> run, expires |-> prev, prev |-> expires]

LockComment(hash, run, expires, prev) ==
  [title |-> "worker.lock", hash |-> hash, value |-> "active",
   reasons |-> {}, run |-> run, expires |-> expires, prev |-> prev]

ContextComment(run) ==
  [title |-> "worker.context", hash |-> None, value |-> "prompt",
   reasons |-> {}, run |-> run, expires |-> 0, prev |-> None]

ReportComment(run, outcome) ==
  [title |-> "worker.reported", hash |-> None, value |-> outcome,
   reasons |-> {}, run |-> run, expires |-> 0, prev |-> None]

(* Mutant: description and verdict swapped. *)
VerdictCommentSwapped(hash, verdict, lockedBy, reportedBy) ==
  [title |-> "controller.verdict", hash |-> verdict, value |-> hash,
   reasons |-> {}, run |-> lockedBy, expires |-> 0, prev |-> reportedBy]

VerdictComment(hash, verdict, lockedBy, reportedBy) ==
  [title |-> "controller.verdict", hash |-> hash, value |-> verdict,
   reasons |-> {}, run |-> lockedBy, expires |-> 0, prev |-> reportedBy]

DecisionComment(mode) ==
  [title |-> "controller.decision", hash |-> None, value |-> mode,
   reasons |-> {}, run |-> None, expires |-> 0, prev |-> None]

At(cs, title) == {i \in DOMAIN cs : cs[i].title = title}

(* A loop over the rows of a listing meets the positions in this order. *)
FirstListed(S) == IF NewestFirst THEN Max(S) ELSE Min(S)
LastListed(S)  == IF NewestFirst THEN Min(S) ELSE Max(S)

-----------------------------------------------------------------------------
(* Stage readers *)

(* findLatestStageCommentFields, equivalentControllerComment: the newest   *)
(* comment of c's title says what c says.                                  *)
SameAsLatest(cs, c) ==
  LET same == At(cs, c.title) IN same # {} /\ cs[Max(same)] = c

HumanGateReleased(cs) == At(cs, "human-gate-released") # {}

PassReviews(cs, hash) ==
  {i \in At(cs, "contract-review") :
     cs[i].hash = hash /\ cs[i].value = "CONTRACT_PASS"}

(* Mutant: any PASS is good enough, whatever description it was for. *)
ContractReviewGateAnyHash(cs, hash) ==
  IF \E i \in At(cs, "contract-review") : cs[i].value = "CONTRACT_PASS"
  THEN "ok" ELSE "contract-review.not-pass"

(* findContractReviewGate: a matching PASS anywhere suffices; only without *)
(* one does the newest review decide which reason the refusal carries.     *)
ContractReviewGate(cs, hash) ==
  LET reviews == At(cs, "contract-review")
  IN  CASE PassReviews(cs, hash) # {}            -> "ok"
        [] reviews = {}                          -> "contract-review.missing"
        [] reviews # {} /\ PassReviews(cs, hash) = {}
             /\ cs[Max(reviews)].hash # hash     -> "contract-review.stale"
        [] OTHER                                 -> "contract-review.not-pass"

-----------------------------------------------------------------------------
(* findExistingLock: what the lock dispatcher sees at time t *)

Unexpired(cs, t) == {i \in At(cs, "worker.lock") : cs[i].expires > t}
ActiveLocks(cs, hash, t) == {i \in Unexpired(cs, t) : cs[i].hash = hash}
StaleActive(cs, hash, t) == Unexpired(cs, t) \ ActiveLocks(cs, hash, t)

LongestLived(cs, S) ==
  {i \in S : \A j \in S : cs[j].expires <= cs[i].expires}

(* Mutant: unexpired locks of another description are skipped silently. *)
SupersededRunExpiredOnly(cs, hash, t) ==
  LET expired == At(cs, "worker.lock") \ Unexpired(cs, t)
  IN  IF expired = {} THEN None
      ELSE cs[FirstListed(LongestLived(cs, expired))].run

(* The run a new lock supersedes.  An unexpired lock of another description *)
(* replaces whatever the loop has found, so the last one listed wins; among *)
(* expired locks the latest expiry wins, the first listed on a tie.         *)
SupersededRun(cs, hash, t) ==
  LET stale == StaleActive(cs, hash, t)
      locks == At(cs, "worker.lock")
  IN  CASE stale # {}                -> cs[LastListed(stale)].run
        [] stale = {} /\ locks # {}  -> cs[FirstListed(LongestLived(cs, locks))].run
        [] OTHER                     -> None
=============================================================================
