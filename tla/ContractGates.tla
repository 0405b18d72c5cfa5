--------------------------- MODULE ContractGates ---------------------------
(***************************************************************************)
(* The gates a worker contract meets on its way to a worker, each of which *)
(* reads the same text in its own way: the ledger validator, the contract  *)
(* review (Stage 0.5), runtime executability (Stage 0.65), the lock, and   *)
(* the preflights of the runtime dispatcher.  The other modules take each  *)
(* gate for an unknown verdict; here a contract is the facets of its text  *)
(* that the gates tell apart, and the question is whether they agree.      *)
(***************************************************************************)
EXTENDS Integers, FiniteSets

CONSTANT Paper     \* the contracts somebody may write, out of Facets

VARIABLES
  paper,           \* the contract of the work item, or NoPaper
  gate             \* how far it has come, and what the gates have said

gateVars == <<paper, gate>>

NoPaper == [agent |-> "none"]

(* misfit: in what the registered profile does not fit the contract;       *)
(* ui: the patterns for browser work its lines match; gateTools: whether   *)
(* the gate commands are derivable, declared, undeclared or unsafe;        *)
(* deps: the form of the DependsOn entries; weak: any of the fields only   *)
(* the review judges is missing or not verifiable.                         *)
Facets ==
  [agent : {"none", "other", "human", "claude", "codex"},
   dispatch : {"ready", "manual"}, labels : 0..2, shape : {"flat", "wrapped", "missing"},
   humanGate : {"HG-2", "HG-3", "HG-3.5", "HG-4", "HG-9"}, pauseArtifact : BOOLEAN,
   risk : {"none", "high", "strategic"}, inferenceP4 : BOOLEAN,
   broad : BOOLEAN, major : BOOLEAN, weak : BOOLEAN,
   implement : BOOLEAN, sandbox : BOOLEAN, writePaths : BOOLEAN,
   workspace : {"none", "malformed", "slug", "alias", "outside", "sandbox"},
   planMode : BOOLEAN, runtimeAuth : BOOLEAN, limits : BOOLEAN,
   spend : {"none", "zero", "paid"},
   browser : {"undeclared", "unknown", "none", "session"},
   ui : SUBSET {"review", "dispatcher"},
   profile : {"none", "unregistered", "registered"},
   misfit : {"none", "role", "tool", "workspace", "autonomy", "memory"},
   deps : {"none", "plane", "number", "uuid", "prose"},
   report : {"none", "relative", "absolute"},
   sourceCovered : BOOLEAN, gateCovered : BOOLEAN, toolResults : BOOLEAN,
   gateTools : {"derived", "declared", "undeclared", "unsafe"}, secret : BOOLEAN]

RuntimeWorker(c) == c.agent \in {"claude", "codex"}
Live(c) == c.dispatch = "ready"

ASSUME PaperAssumption == Paper \subseteq Facets

-----------------------------------------------------------------------------
(* The validator, read by the review and by dispatcher v0 *)

(* extractContractBlock and parseContractText *)
Parsed(c) == c.shape # "missing"

(* validateContract: without a block nothing but the labels is looked at.   *)
ValidatorReasons(c) ==
  (IF c.labels # 1 THEN {"role.label"} ELSE {})
    \cup (IF ~Parsed(c) THEN {"required-field-missing"} ELSE {})
    \cup (IF c.shape = "wrapped" THEN {"fields-wrapped", "required-field-missing"} ELSE {})
    \cup (IF c.shape = "flat" THEN
             (IF c.agent = "none" \/ c.workspace = "none" \/ c.report = "none"
              THEN {"required-field-missing"} ELSE {})
               \cup (IF c.agent = "other" THEN {"unknown-agent"} ELSE {})
               \cup (IF ~Live(c) THEN {"dispatch-not-ready"} ELSE {})
               \cup (IF c.humanGate = "HG-9" THEN {"unknown-human-gate-level"} ELSE {})
               \cup (IF c.humanGate = "HG-3.5" /\ ~c.pauseArtifact
                     THEN {"hg35-pause-artifact-missing"} ELSE {})
               \cup (IF c.broad THEN {"scope-too-broad"} ELSE {})
          ELSE {})

-----------------------------------------------------------------------------
(* Stage 0.5 *)

(* The text of the human gate is matched as \bHG-3\b, which HG-3.5 is too.  *)
FounderRisk(c) == c.humanGate = "HG-4" \/ c.risk = "strategic"
HighRiskWork(c) == c.humanGate \in {"HG-3", "HG-3.5"} \/ c.risk = "high"

(* The checks whose codes lead to CONTRACT_PATCH_REQUIRED. *)
NeedsPatch(c) ==
  \/ c.weak \/ ~Parsed(c)
  \/ RuntimeWorker(c) /\ (c.profile = "none" \/ c.misfit = "role")
  \/ c.implement /\ (~c.sandbox \/ ~c.writePaths)
  \/ /\ RuntimeWorker(c) /\ Live(c)
     /\ \/ c.implement /\ c.planMode
        \/ ~c.runtimeAuth \/ ~c.limits \/ c.spend = "none"
        \/ "review" \in c.ui /\ c.browser = "undeclared"

(* Mutant: the CEO's gate is asked about only after the founder's. *)
ReviewReasonsFounderOnly(c, released) ==
  (IF ValidatorReasons(c) # {} THEN {"validator-fail"} ELSE {})
    \cup (IF FounderRisk(c) /\ ~released THEN {"strategic-founder-gate"} ELSE {})
    \cup (IF c.broad THEN {"scope-too-broad"} ELSE {})
    \cup (IF NeedsPatch(c) THEN {"patch"} ELSE {})

(* evaluateContractForDispatch.  released: a signed release of the gate     *)
(* counts for this description.                                            *)
ReviewReasons(c, released) ==
  (IF ValidatorReasons(c) # {} THEN {"validator-fail"} ELSE {})
    \cup (IF FounderRisk(c) /\ ~released THEN {"strategic-founder-gate"} ELSE {})
    \cup (IF HighRiskWork(c) /\ ~FounderRisk(c) /\ ~released
          THEN {"high-risk-ceo-gate"} ELSE {})
    \cup (IF c.inferenceP4 THEN {"inference-p4"} ELSE {})
    \cup (IF c.broad THEN {"scope-too-broad"} ELSE {})
    \cup (IF c.major THEN {"spec-required"} ELSE {})
    \cup (IF NeedsPatch(c) THEN {"patch"} ELSE {})

(* Mutant: what needs neither a gate nor a patch is rejected. *)
ReviewVerdictReject(reasons) == IF reasons = {} THEN "CONTRACT_PASS" ELSE "REJECT"

(* selectVerdict: the verdict REJECT of its enumeration it never gives. *)
ReviewVerdict(reasons) ==
  IF reasons = {} THEN "CONTRACT_PASS"
  ELSE IF "strategic-founder-gate" \in reasons THEN "FOUNDER_GATE_REQUIRED"
  ELSE IF reasons \cap {"high-risk-ceo-gate", "inference-p4"} # {} THEN "CEO_GATE_REQUIRED"
  ELSE IF "scope-too-broad" \in reasons THEN "SPLIT_REQUIRED"
  ELSE IF "validator-fail" \in reasons THEN "CONTRACT_PATCH_REQUIRED"
  ELSE IF "spec-required" \in reasons THEN "SPEC_REQUIRED"
  ELSE "CONTRACT_PATCH_REQUIRED"

-----------------------------------------------------------------------------
(* Stage 0.65 *)

(* evaluateRuntimeExecutability, for a runtime worker that is live.  A      *)
(* DependsOn entry is a Plane reference or a UUID.  An absent profile is    *)
(* left to others.                                                         *)
ExecutabilityReasons(c) ==
  (IF c.profile = "unregistered" THEN {"capability-profile-unregistered"} ELSE {})
    \cup (IF c.deps \in {"number", "prose"} THEN {"depends-on-unparseable"} ELSE {})
    \cup (IF c.report # "absolute" THEN {"outcome-artifact-not-absolute"} ELSE {})
    \cup (IF c.agent = "claude" /\ c.planMode /\ c.report = "absolute"
          THEN {"claude-plan-mode-report-artifact"} ELSE {})
    \cup (IF ~c.sourceCovered THEN {"allowed-read-paths-missing-source"} ELSE {})
    \cup (IF ~c.gateCovered THEN {"allowed-read-paths-missing-gate"} ELSE {})
    \cup (IF c.toolResults THEN {"claude-tool-result-read"} ELSE {})

Executability(c) ==
  CASE ~Parsed(c)                                     -> "RUNTIME_READY_REJECT"
    [] Parsed(c) /\ (~RuntimeWorker(c) \/ ~Live(c))   -> "RUNTIME_READY_SKIPPED"
    [] OTHER -> IF ExecutabilityReasons(c) = {} THEN "RUNTIME_READY_PASS"
                                                ELSE "RUNTIME_READY_REJECT"

-----------------------------------------------------------------------------
(* The preflights: each is the condition under which it passes.  env is    *)
(* what the dispatcher finds when it runs.                                 *)

Environment ==
  [sentinel : BOOLEAN, browserSession : BOOLEAN, profileFresh : BOOLEAN,
   reportParent : BOOLEAN, depsPass : BOOLEAN]

(* preflightAuth and runRuntimeAuthLiveCheck: only claude has a sentinel.   *)
AuthPasses(c, env) ==
  \/ c.agent = "human"
  \/ /\ RuntimeWorker(c) /\ c.runtimeAuth
     /\ c.agent = "claude" => env.sentinel

(* Mutant: whether the work is browser work was settled by the review. *)
BrowserPassesReviewed(c, env) ==
  c.browser \in {"none", "undeclared"} \/ (c.browser = "session" /\ env.browserSession)

(* preflightRuntimeBrowserAuth, with its own idea of browser work.  The     *)
(* live check is a probe command, a proof file or an environment variable. *)
BrowserPasses(c, env) ==
  \/ c.browser = "none"
  \/ c.browser = "undeclared" /\ "dispatcher" \notin c.ui
  \/ c.browser = "session" /\ env.browserSession

(* preflightBudget: main passes costRouterApproval = false. *)
BudgetPasses(c) == c.spend = "zero"

WorkspacePasses(c) == c.workspace \notin {"none", "malformed"}

(* Mutant: an absolute path is good enough for a sandbox. *)
SandboxPassesAbsolute(c) ==
  (c.implement /\ c.sandbox) => c.workspace \in {"none", "outside", "sandbox"}

(* preflightSandboxWorkspace: a missing workspace is another check's. *)
SandboxPasses(c) ==
  (c.implement /\ c.sandbox) => c.workspace \in {"none", "sandbox"}

(* evaluateCapabilityProfile: without a profile a human's work passes, and  *)
(* so does work that names no agent.                                       *)
CapabilityPasses(c, env) ==
  CASE c.profile = "none"         -> c.agent \in {"human", "none"}
    [] c.profile = "unregistered" -> FALSE
    [] c.profile = "registered"   -> env.profileFresh /\ c.misfit = "none"

(* evaluateGateToolAllowlist: every executable gate command is covered by   *)
(* a tool of the profile, of the contract, or derived from a safe prefix.  *)
GateToolsPass(c) == c.gateTools \in {"derived", "declared"}

(* preflightDependencies with loadPlaneDependencyStatusMap: a reference     *)
(* that is not a sequence number has the status unknown.                   *)
DependenciesPass(c, env) ==
  c.deps = "none" \/ (c.deps \in {"plane", "number"} /\ env.depsPass)

(* preflightSecrets looks for a key's shape in the whole description.        *)
SecretsPass(c) == ~c.secret

(* preflightTimeout: MaxRuntime, Heartbeat and KillSwitch are declared.      *)
TimeoutPasses(c) == c.limits

(* preflightRuntimeExecutability lets pass what it does not judge.          *)
ExecutabilityPasses(c) == Executability(c) # "RUNTIME_READY_REJECT"

(* preflightArtifactPaths *)
ArtifactsPass(c, env) == c.report = "absolute" /\ env.reportParent

(* runDryRun: every preflight is evaluated and the first failure names the  *)
(* state.  The lock's is PlaneLedger's; the two of the observability        *)
(* adapter look at the program, not at the contract.                       *)
PreflightPasses(c, env) ==
  /\ Parsed(c)
  /\ AuthPasses(c, env) /\ BrowserPasses(c, env) /\ BudgetPasses(c)
  /\ WorkspacePasses(c) /\ SandboxPasses(c) /\ SecretsPass(c)
  /\ CapabilityPasses(c, env) /\ GateToolsPass(c) /\ DependenciesPass(c, env)
  /\ TimeoutPasses(c) /\ ExecutabilityPasses(c) /\ ArtifactsPass(c, env)

(* resolveRuntimeWorkspacePath: an absolute path, or Company.OS itself. *)
Resolves(c) == c.workspace \in {"alias", "outside", "sandbox"}

-----------------------------------------------------------------------------
(* One work item *)

GateState ==
  [pc : {"unwritten", "written", "locked", "blocked", "started"},
   review : {"none", "CONTRACT_PASS", "CONTRACT_PATCH_REQUIRED", "SPEC_REQUIRED",
             "SPLIT_REQUIRED", "CEO_GATE_REQUIRED", "FOUNDER_GATE_REQUIRED"},
   ready : {"none", "RUNTIME_READY_PASS", "RUNTIME_READY_REJECT", "RUNTIME_READY_SKIPPED"},
   required : BOOLEAN, released : BOOLEAN, calm : BOOLEAN]

GateInit ==
  /\ paper = NoPaper
  /\ gate = [pc |-> "unwritten", review |-> "none", ready |-> "none",
             required |-> FALSE, released |-> FALSE, calm |-> FALSE]

WritePaper ==
  /\ gate.pc = "unwritten"
  /\ paper' \in Paper
  /\ gate' = [gate EXCEPT !.pc = "written"]

ReviewPaper(released) ==
  /\ gate.pc = "written" /\ gate.review = "none"
  /\ gate' = [gate EXCEPT !.review = ReviewVerdict(ReviewReasons(paper, released)),
                          !.released = released]
  /\ UNCHANGED paper

(* The scheduler judges executability after a passed review. *)
JudgeExecutability ==
  /\ gate.pc = "written" /\ gate.review = "CONTRACT_PASS" /\ gate.ready = "none"
  /\ gate' = [gate EXCEPT !.ready = Executability(paper)]
  /\ UNCHANGED paper

(* Dispatcher v0 validates the text itself and, with --contract-review      *)
(* require, asks for the review; Stage 0.65 it does not ask for.           *)
LockPaper(required) ==
  /\ gate.pc = "written"
  /\ ValidatorReasons(paper) = {}
  /\ required => gate.review = "CONTRACT_PASS"
  /\ gate' = [gate EXCEPT !.pc = "locked", !.required = required]
  /\ UNCHANGED paper

(* A run under the lock; calm: nothing outside the contract was amiss. *)
StartPaper(env) ==
  /\ gate.pc = "locked"
  /\ gate' = [gate EXCEPT !.pc = IF PreflightPasses(paper, env) /\ Resolves(paper)
                                 THEN "started" ELSE "blocked",
                          !.calm = \A f \in DOMAIN env : env[f]]
  /\ UNCHANGED paper

GateNext ==
  \/ WritePaper
  \/ \E released \in BOOLEAN : ReviewPaper(released)
  \/ JudgeExecutability
  \/ \E required \in BOOLEAN : LockPaper(required)
  \/ \E env \in Environment : StartPaper(env)

GateSpec == GateInit /\ [][GateNext]_gateVars

-----------------------------------------------------------------------------
(* Type correctness of the work item. *)
GateTypeOK ==
  /\ paper \in Facets \cup {NoPaper}
  /\ gate \in GateState

(* Neither the review nor a preflight says this alone: when reviews are     *)
(* required, edit-capable work that is started works in a sandbox of its   *)
(* own, within declared paths.                                             *)
WritersAreBoxed ==
  gate.pc = "started" /\ gate.required /\ paper.implement =>
    paper.sandbox /\ paper.workspace = "sandbox" /\ paper.writePaths

(* A model process that is started was reviewed for what a document demands *)
(* of it by some gate or other: it has a known profile that fits, spends    *)
(* nothing, stops in time, and has declared its browser if any gate thinks  *)
(* it needs one.                                                           *)
StartedIsBounded ==
  gate.pc = "started" /\ gate.required /\ RuntimeWorker(paper) =>
    /\ paper.profile = "registered" /\ paper.misfit = "none"
    /\ paper.spend = "zero" /\ paper.limits
    /\ paper.ui # {} => paper.browser # "undeclared"

(* A contract at a founder's or the CEO's gate is started only when the     *)
(* gate has been released, whatever else the contract says.                *)
GatesAreReleased ==
  gate.pc = "started" /\ gate.required /\ (FounderRisk(paper) \/ HighRiskWork(paper)) =>
    gate.released

(* What review, lock and preflights make sure of only together. *)
StartedIsReleased ==
  GateTypeOK /\ WritersAreBoxed /\ StartedIsBounded /\ GatesAreReleased

(* "This gate verifies that the contract is actually runnable by a bounded  *)
(* headless worker": a contract with both verdicts, in an environment where *)
(* nothing is amiss, is started.  TLC refutes it.                          *)
ReadyIsRunnable ==
  gate.pc = "blocked" => ~(gate.ready = "RUNTIME_READY_PASS" /\ gate.calm)
=============================================================================
