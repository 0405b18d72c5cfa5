--------------------------- MODULE ContractReview ---------------------------
(***************************************************************************)
(* Stage 0.5, 0.6 and 0.65: the processes that review the contract of a    *)
(* work item before it may be locked.                                      *)
(*                                                                         *)
(*   controller  contract-controller.mjs --mode post: fetches the item,    *)
(*               evaluates it without looking at any comment, posts one    *)
(*               review.                                                   *)
(*   scheduler   scheduler-stage-0506.mjs --mode post: fetches the item,   *)
(*               then the comments, decides, drops the comments that equal *)
(*               the newest of their title, posts the rest one by one and  *)
(*               stops at the first failure.                               *)
(*                                                                         *)
(* Every process runs once, from "idle" to "exited"; a cron job or an      *)
(* operator who calls the tool again is another process.  People edit the  *)
(* description and post human-gate releases at any moment.                 *)
(***************************************************************************)
EXTENDS PlaneLedger, SequencesExt

CONSTANTS
  Controllers, Schedulers,  \* processes
  Defects,       \* Defects[h]: the reason codes description h earns
  RuntimeReady,  \* RuntimeReady[h]: verdict of the Stage 0.65 checks on h
  Routing,       \* Routing[h]: executive-first decision on h, or None
  MaxEdits, MaxReleases  \* bounds: description edits, gate releases

Reviewers == Controllers \cup Schedulers

ASSUME ReviewAssumption ==
  /\ Defects \in [Hashes -> SUBSET ReasonCodes]
  /\ RuntimeReady \in [Hashes -> RuntimeVerdicts]
  /\ Routing \in [Hashes -> RoutingDecisions \cup {None}]
  /\ Controllers \cap Schedulers = {}
  /\ MaxEdits \in Nat /\ MaxReleases \in Nat

VARIABLES
  description,  \* hash of the item's description now
  edits,        \* number of edits so far
  ledger,       \* the comments of the item
  reviewer      \* process state

reviewVars == <<description, edits, ledger, reviewer>>

(* hash: description the process fetched; queue: what it will still post;  *)
(* seen: length of the ledger it read.                                     *)
ReviewerState == [pc : {"idle", "fetched", "posting", "exited"},
                  hash : Hashes \cup {None}, queue : Seq(Comment), seen : Nat]
Blank(pc) == [pc |-> pc, hash |-> None, queue |-> <<>>, seen |-> 0]

-----------------------------------------------------------------------------
(* The verdict on a contract *)

(* Mutant: a release waives every reason, the technical ones included. *)
ReasonsOfReleaseWaivesAll(hash, released, labelsOk) ==
  IF released THEN {} ELSE Defects[hash]

(* evaluateContractForDispatch: a release suppresses the two gate codes    *)
(* and nothing else; without labels the formal validator fails.            *)
ReasonsOf(hash, released, labelsOk) ==
  (Defects[hash] \ (IF released THEN GateCodes ELSE {}))
    \cup (IF labelsOk THEN {} ELSE {"validator-fail"})

SelectVerdict(reasons) ==
  CASE reasons = {}                                 -> "CONTRACT_PASS"
    [] "founder-gate" \in reasons                   -> "FOUNDER_GATE_REQUIRED"
    [] "founder-gate" \notin reasons
         /\ {"ceo-gate", "inference-p4"} \cap reasons # {}
                                                    -> "CEO_GATE_REQUIRED"
    [] reasons \cap {"founder-gate", "ceo-gate", "inference-p4"} = {}
         /\ "scope-broad" \in reasons               -> "SPLIT_REQUIRED"
    [] reasons = {"spec-required"} \/ reasons = {"spec-required", "patch"}
                                                    -> "SPEC_REQUIRED"
    [] OTHER                                        -> "CONTRACT_PATCH_REQUIRED"

Review(hash, released, labelsOk) ==
  LET reasons == ReasonsOf(hash, released, labelsOk)
  IN  ReviewComment(hash, SelectVerdict(reasons), reasons)

(* routeContractReview: owner and message follow from verdict and reasons. *)
Route(review) ==
  [StageComment("remediation-routed", review.hash, review.value)
     EXCEPT !.reasons = review.reasons]

(* decideSchedulerStage0506: a PASS is followed by the executive routing,  *)
(* if any applies; any other verdict by its remediation route.             *)
FollowUp(review) ==
  CASE review.value # "CONTRACT_PASS" -> <<Route(review)>>
    [] review.value = "CONTRACT_PASS" /\ Routing[review.hash] # None ->
         <<StageComment("executive-routing", review.hash, Routing[review.hash])>>
    [] OTHER -> <<>>

(* applyStage065ToSchedulerDecision *)
RuntimeReadyResult(hash) ==
  IF RuntimeReady[hash] = "RUNTIME_READY_SKIPPED" THEN <<>>
  ELSE <<StageComment("runtime-ready", hash, RuntimeReady[hash])>>

(* Mutant: no dedupe. *)
UnlessRepeatedNever(cs, part) == part

(* selectSchedulerStage0506CommentsToPost: `part' is at most one comment. *)
UnlessRepeated(cs, part) ==
  IF part # <<>> /\ SameAsLatest(cs, Head(part)) THEN <<>> ELSE part

CommentsToPost(hash, cs) ==
  LET review == Review(hash, HumanGateReleased(cs), TRUE)
  IN  UnlessRepeated(cs, <<review>>)
        \o UnlessRepeated(cs, FollowUp(review))
        \o UnlessRepeated(cs, RuntimeReadyResult(hash))

-----------------------------------------------------------------------------
ReviewInit ==
  /\ description \in Hashes
  /\ edits = 0
  /\ ledger = <<>>
  /\ reviewer = [p \in Reviewers |-> Blank("idle")]

(* A POST either reaches Plane or not, and a caller that sees it fail (an  *)
(* error status or an exception) cannot tell which.                        *)
Post(c, landed, ok) ==
  /\ ok => landed
  /\ ledger' = IF landed THEN Append(ledger, c) ELSE ledger

(* A person edits the description in Plane. *)
EditDescription ==
  /\ edits < MaxEdits
  /\ \E h \in Hashes \ {description} : description' = h
  /\ edits' = edits + 1
  /\ UNCHANGED <<ledger, reviewer>>

(* A person, or a release tool, posts a human_gate.released comment. *)
ReleaseHumanGate ==
  /\ Cardinality(At(ledger, "human-gate-released")) < MaxReleases
  /\ ledger' = Append(ledger, StageComment("human-gate-released", None, "released"))
  /\ UNCHANGED <<description, edits, reviewer>>

(* contract-controller.mjs main: fetch, resolve labels, evaluate.  When    *)
(* the labels do not resolve it goes on with none.                         *)
ControllerFetch(p, labelsOk) ==
  /\ reviewer[p].pc = "idle"
  /\ reviewer' = [reviewer EXCEPT
       ![p] = [@ EXCEPT !.pc = "posting", !.hash = description,
                        !.queue = <<Review(description, FALSE, labelsOk)>>]]
  /\ UNCHANGED <<description, edits, ledger>>

(* scheduler-stage-0506.mjs main: fetch the item and its labels ... *)
SchedulerFetch(p) ==
  /\ reviewer[p].pc = "idle"
  /\ reviewer' = [reviewer EXCEPT ![p].pc = "fetched", ![p].hash = description]
  /\ UNCHANGED <<description, edits, ledger>>

(* ... then the comments; decide on the two snapshots ... *)
SchedulerRead(p) ==
  /\ reviewer[p].pc = "fetched"
  /\ reviewer' = [reviewer EXCEPT
       ![p] = [@ EXCEPT !.pc = "posting", !.seen = Len(ledger),
                        !.queue = CommentsToPost(reviewer[p].hash, ledger)]]
  /\ UNCHANGED <<description, edits, ledger>>

(* Mutant: the loop goes on after a failed post. *)
PostNextOnFailure(p, landed, ok) ==
  /\ reviewer[p].pc = "posting" /\ reviewer[p].queue # <<>>
  /\ Post(Head(reviewer[p].queue), landed, ok)
  /\ reviewer' = [reviewer EXCEPT ![p].queue = Tail(@)]
  /\ UNCHANGED <<description, edits>>

(* ... and post what is left, in order, up to the first failure. *)
PostNext(p, landed, ok) ==
  /\ reviewer[p].pc = "posting" /\ reviewer[p].queue # <<>>
  /\ Post(Head(reviewer[p].queue), landed, ok)
  /\ reviewer' = IF ok
                 THEN [reviewer EXCEPT ![p].queue = Tail(@)]
                 ELSE [reviewer EXCEPT ![p] = Blank("exited")]
  /\ UNCHANGED <<description, edits>>

ReviewerDone(p) ==
  /\ reviewer[p].pc = "posting" /\ reviewer[p].queue = <<>>
  /\ reviewer' = [reviewer EXCEPT ![p] = Blank("exited")]
  /\ UNCHANGED <<description, edits, ledger>>

(* Any request before the posts can fail and end the process; so can a     *)
(* scheduler's label resolution, and a signal at any time.                 *)
ReviewerAbort(p) ==
  /\ reviewer[p].pc \in {"fetched", "posting"}
  /\ reviewer' = [reviewer EXCEPT ![p] = Blank("exited")]
  /\ UNCHANGED <<description, edits, ledger>>

ReviewStep ==
  \/ EditDescription
  \/ ReleaseHumanGate
  \/ \E p \in Controllers, labelsOk \in BOOLEAN : ControllerFetch(p, labelsOk)
  \/ \E p \in Schedulers : SchedulerFetch(p) \/ SchedulerRead(p)
  \/ \E p \in Reviewers :
       \/ \E landed, ok \in BOOLEAN : PostNext(p, landed, ok)
       \/ ReviewerDone(p)
       \/ ReviewerAbort(p)

ReviewSpec == ReviewInit /\ [][ReviewStep]_reviewVars

-----------------------------------------------------------------------------
ReviewTypeOK ==
  /\ description \in Hashes
  /\ edits \in 0 .. MaxEdits
  /\ ledger \in Seq(Comment)
  /\ reviewer \in [Reviewers -> ReviewerState]
  /\ \A p \in Reviewers : reviewer[p].pc = "fetched" => reviewer[p].hash # None

(* No stage comment without the review it follows from: a remediation      *)
(* route repeats the verdict of an earlier review of the same description, *)
(* an executive routing comes after a PASS of it, a Stage 0.65 result      *)
(* after some review of it.  The scheduler may have skipped its own review *)
(* as a duplicate, and its review may have failed to post.                 *)
StageCommentsFollowReview ==
  \A i \in DOMAIN ledger :
    LET c == ledger[i]
        earlier == {ledger[j] : j \in {k \in 1 .. i - 1 :
                      ledger[k].title = "contract-review" /\ ledger[k].hash = c.hash}}
    IN  /\ c.title = "remediation-routed" => \E r \in earlier : r.value = c.value
        /\ c.title = "executive-routing" => \E r \in earlier : r.value = "CONTRACT_PASS"
        /\ c.title = "runtime-ready" => earlier # {}

(* A posted CONTRACT_PASS is earned: nothing but a human gate stands       *)
(* against the description it names, and if one does, a release was on the *)
(* ledger before the review.                                               *)
EarnedPass(c, releases) ==
  (c.title = "contract-review" /\ c.value = "CONTRACT_PASS") =>
    /\ Defects[c.hash] \subseteq GateCodes
    /\ Defects[c.hash] # {} => releases # {}

PassIsEarned ==
  \A i \in DOMAIN ledger :
    EarnedPass(ledger[i], {j \in At(ledger, "human-gate-released") : j < i})

(* A scheduler repeats the newest comment of a title only when another     *)
(* process posted that comment after the scheduler had read the ledger.    *)
DuplicateOnlyFromRace ==
  [][\A p \in Schedulers :
       (ledger' # ledger /\ reviewer'[p] # reviewer[p]) =>
         LET c == Last(ledger')
         IN  SameAsLatest(ledger, c) =>
               \E i \in At(ledger, c.title) : i > reviewer[p].seen]_reviewVars
=============================================================================
