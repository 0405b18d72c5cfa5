# Company OS in TLA+

Company OS lets AI workers execute *work items* of an issue tracker called
Plane. Every decision about an item (is its contract good enough, may a worker
start, what did the worker report, was it accepted, may it be released) is
taken by a short command-line process, and everything such a process knows
about the others is in the comments of the item. This directory models those
processes and the ledger they share, checks them with TLC, and proves the main
safety properties with TLAPS.

    tlc -workers 2 -config WorkChain.cfg MCWorkPipeline     # one run
    tlapm DispatchLockProofs.tla                            # one proof module

`PROJECT.json` lists components, runs, mutants, the lines each definition
stands for, findings, hazards and theorems.

## 1. The system

### Shared state: the ledger

A work item has a description (the contract: a block of fields such as
`HumanGate`, `Agent`, `MaxRuntime`) and a list of comments. A process

1. GETs the item, and remembers the hash of its description;
2. GETs all comments, and decides on that snapshot;
3. POSTs one to three comments, one request each;
4. ends with exit code 0 (done), 2 (refused) or 1 (error).

Plane has neither transactions nor conditional appends. Descriptions are
edited by people at any time. A POST that fails may still have been executed.
So the hard behaviour of the system is all in the interleaving: what is decided
on a snapshot that is no longer true when the comment lands.

### Components

| Component | State it keeps | Operations | Model |
|---|---|---|---|
| Contract review (`contract-controller.mjs`, `scheduler-stage-0506*.mjs`) | comments `contract-review`, `remediation-routed`, `executive-routing`, `runtime-ready` | evaluate, post, skip repeated comments | `ContractReview`, `ContractGates` |
| Lock dispatcher v0 (`plane-dispatcher-v0.mjs`) | comments `worker.lock`, `worker.context` | gate on the review, refuse a second lock, supersede, post | `DispatchLock` |
| Runtime dispatcher v1 (`runtime-dispatcher-v1.mjs`, `-v12-core.mjs`) | one worker process; comment `worker.reported` | preflights, dependencies, run and supervise, attribute writes, report, start CAO and controller | `RuntimeSupervisor`, `WorkPipeline`, `DependencyGate`, `ContractGates`, `WriteAttribution` |
| CAO pass (`cao-pass.mjs`) | comment `controller.verdict` | judge the report under the newest lock | `WorkPipeline` |
| Codex controller (`codex-controller-dryrun.mjs`) | comment `controller.decision` | decide on the newest verdict, plan what follows | `WorkPipeline`, `QualityLoop` |
| Post-worker quality loop (`post-worker-quality-*.mjs`) | comments with candidates, items made from them | plan audits and hotfixes, hand them over once | `QualityLoop` |
| Plane seeding (`scripts/plane`, `plane-role-labels-bootstrap.mjs`) | items, labels, pages, label map; an item's state | list, create, overwrite, link, move | `PlaneSeeding` |
| Goals (`scripts/goal`) | a goal's items in Plane | materialize; status, run, synthesize, supergoal | `GoalPlane`, `GoalProgress` |
| Founder queue (`founder-daily-queue*.mjs`) | one artifact a day | fetch item by item, admit, order, cut | `FounderQueue` |
| Release gates, agent events (`scripts/release-gates`, `scripts/agent-events`; `scripts/dreams` and the Raindrop ingest also write) | append-only JSONL | judge a decision card, append (if missing), validate the file, reduce | `HumanGates` |
| Cost ledger, model router (`scripts/model-router`) | append-only JSONL, report directories | brake on the budget, scan, call, append | `BudgetBrake` |
| Plane app token (`plane-app-*.mjs`) | two keychain entries | check, refresh, repair | `PlaneToken` |
| Updater (`scripts/update`) | files of a workspace, a report | plan, copy | `KitUpdate` |
| Git hygiene (`scripts/git-hygiene`) | repositories | inspect, close, mirror | `GitMirror` |
| Install, first company (`scripts/install`, `scripts/onboarding`) | files of a company | copy kit, write packet, draft | `FirstInstall` |
| Operator shell (`scripts/operator-shell`) | checkout, build, overlay, home, sessions | install, start, close, update | `EveShell` |
| Public release (`scripts/release`, `scripts/page-index`) | mirror, bare remote, clone | plan, copy, index, verify, push, judge | `PublicRelease` |
| Routers, read models, reports, packs, encoders, checks of documents | none, or output files nobody decides on | pure functions, file I/O | not modelled |

Calls between them: the runtime dispatcher starts CAO and controller as child
processes and looks only at their exit codes; install scripts call each other's
functions in stages; everything else meets in Plane, in files or in git. Inside
the runtime dispatcher one Node event loop runs the listeners and timers around
the worker process.

What makes each part correct, in one line: a PASS review is earned and current;
a lock is for a reviewed description, and only a race makes two; a run ends,
once, for one reason, and its PASS is undisturbed; a verdict rests on one report
under one lock; a release rests on lock, report and verdict in that order;
work starts only on what it depends on; exit code 0 of a tool means that what it
promises is there; what a person wrote is not lost to a tool.

### Where it is hard

`hazards` in `PROJECT.json` lists the 40 places that matter most, at their lines.
The main families are: checking and posting are two requests; hash, comments and
clock are read at three moments; every tool lists once and acts entry by entry on
that listing; reports are matched to locks by time; several requests, copies or
git commands make one logical step and any of them may fail or be cut off; five
reasons to stop a worker race with its own exit; a kill-switch answer may arrive
after the end; independent processes append to one ledger in any order.

## 2. The modules

    PlaneLedger        shape of a comment; what review and lock dispatcher read off the ledger
      ContractReview   reviewers: controller and scheduler processes, edits, releases
        DispatchLock   + lock dispatchers and the clock
          WorkPipeline + runtime dispatchers, CAO, Codex controllers
      WorkLedger       what those read off the ledger
    RuntimeSupervisor  runProcess: one worker process tree, timers, listeners
      BoundedRun       the abstract run it implements
    ContractReviewProofs, DispatchLockProofs, WorkPipelineProofs,
    RuntimeSupervisorProofs                                   theorems about these

    around one run     ContractGates DependencyGate WriteAttribution BudgetBrake GoalProgress
      RunGatesProofs                                          theorems about them
    around Plane       PlaneSeeding GoalPlane HumanGates FounderQueue QualityLoop
      PlaneToolsProofs
    on one machine     KitUpdate GitMirror EveShell PlaneToken FirstInstall PublicRelease
      LocalToolsProofs
    CommonLemmas       facts about numbers, sets and sums that the proofs share

    MCContractReview, MCDispatchLock, MCWorkPipeline, MCRuntimeSupervisor   constants for TLC
    MCOrder, MCPlane, MCLocal    the same for the three groups

**PlaneLedger.** `ledger` is a sequence of records; a position stands for
`created_at`, so two comments never have the same time. A description is only
its hash: what the code concludes from the text is given by constants
(`Defects`, `RuntimeReady`, `Routing`, `HumanGate`, `Authority`, `Unfit`), so
every statement holds for any text. The order in which Plane lists comments
is not fixed by the code: `NewestFirst` is a constant, and the proofs hold for
both orders. `worker.run-summary` is left out: nothing reads it.

**ContractReview.** One process set for `contract-controller.mjs` and one for
the scheduler, which derives follow-up comments from its own review and drops
those equal to the newest of their title in its snapshot. Per process: fetch,
read and decide, one action per POST, exit, abort. The environment edits the
description and posts `human_gate.released`. POSTs have two independent
outcomes: the comment landed, and the process was told so.

**DispatchLock.** `--mode lock`. `DispatcherRead` is one action because gate,
duplicate check, run id and expiry are computed without an await after the
comments arrive. An HTTP error of the lock POST does not stop the context POST;
an exception does. `Tick` moves the clock.

**WorkPipeline.** `runtime[r]` is `runtime-dispatcher-v1.mjs --mode run
--controller post --codex-controller post`; `audit[a]` a CAO, started by its
runtime dispatcher or by hand; `decider[r]` the controller. The preflight
decides with the comments as listed and a clock read later, because requests
about dependencies lie between. Child processes live in process groups of their
own and go on when the parent is gone. Preflights that do not read the ledger
are one input (`othersPass`).

**RuntimeSupervisor.** `tree` is the worker and its descendants: each may stay
in the process group or leave it, hold the output pipe or close it, ignore
SIGTERM or not. `run` is the closure of `runProcess`. One action per listener or
timer; the heartbeat is split at its only `await`. Durations are left out: an
armed timer may fire at any time, which includes every real order. Output is a
sequence of chunks, told apart by what the guards and the state inference see.

**BoundedRun** is what a caller of `runProcess` relies on: running, possibly
stopping for one reason, over; once over it stays over with one outcome; it
ends; and it is a PASS only if it was never being stopped.
`ImplementsBoundedRun` checks the refinement, the fairness included.

### Around one run

**ContractGates.** Validator, review (Stage 0.5), executability (0.65), lock and
preflights each recognise by patterns of their own what a contract asks for. A
contract is the facets of its text that they tell apart, each gate the set of
reasons it finds, one action per gate. The question is what they ensure together.

**DependencyGate.** Several items and their comments. A run resolves each
reference by the newest comment that rules (`StatusOf`), one request at a time,
then works, and polls its own comments for a KILL. CAO, controllers and people
comment on every item, before its work as well as after: a person may release it, a
controller that has read no verdict posts PARK (`cao-missing`), and a decision may
rest on any verdict there ever was, since others come in before it is posted.

**WriteAttribution.** Which calls on the worker's stream and which files of
`git status` make the scope guards speak: baseline, subtraction, files the
dispatcher owns, calls cut by a chunk boundary, a git that fails.

**BudgetBrake.** A run of the router reads sums, reserves, calls one model after the
other and appends at the end. `real` is what was spent, `sound` that the
operator kept to the conditions under which the brake can hold (one run at a
time, brake and ledger on, workers within their reserve that print their usage).

**GoalProgress.** Readers list the items of a goal and fetch the comments child by
child while work goes on; `amid` counts what came in between.

### Around Plane

**PlaneSeeding.** Five scripts in one process type: they list once, then go
through a catalog entry by entry. `had` is how much of the project a row's
author had seen. The second half moves an item's state and reads it back.
**GoalPlane.** `materialize --apply`, with requests that fail and land, deaths
between two requests, and invocations that overlap or follow. `items[n]`
is the n-th item created. The input may name nothing: then every child of a goal
gets the goal's default title (`childGoalFromInput`), and children share a name.
**HumanGates.** A decision card goes
through the checks of the release gate, becomes a row, is stamped and appended, in
any order among the rows of others. The dream and the marketing ingest derive the
id of a row from what it is about (`KeyedRows`) and append it only if the file they
have read lacks it; `seen` is how much they had read. A reader first validates the
whole file, where one bad row or one repeated id is enough to refuse it (`Read`),
and then reduces the rows. Thresholds and lists are the code's. **FounderQueue.** Classification item by item of comments
fetched one after the other, caps; the order is stated by what it compares
(`Ranked`), not by how it is sorted. **QualityLoop.** Controller plan,
marker comment, scheduler, handoff, and items generated from candidates that
go through the same loop.

### On one machine

**KitUpdate.** A plan by hashes, then copies that can be cut short; kinds of files
as the update rules sort them. **GitMirror.** Refs as sets of commits; the mirror's
git commands one by one. **EveShell.** The stages of install and start over a
checkout, a build, an overlay, a home directory and a session, with pulls, a
killswitch and the founder's edits in between. **PlaneToken.** Two keychain
entries, written one after the other, and a clock. **FirstInstall.** Bootstrap, packet
and draft file by file. **PublicRelease.** Build, verification, push, clone and
judgement over a tree of files that is edited meanwhile. Builds share the `--out`
directory; each fresh-history run has a run root of its own. Files are copied in
the order of the plan (`IsNext`), the page index is written after them.

`alone` in these modules is a history variable: nobody else wrote since the
process began. Promises of an exit code are stated for such runs, because the
code claims nothing for others; safety of people's files is not conditional on it
unless the property says so.

## 3. What the runs check

Passing runs:

| Run | Instance | Checks |
|---|---|---|
| `contract_review` | 1 controller, 2 schedulers, edits, a release | `ReviewTypeOK`, `StageCommentsFollowReview`, `PassIsEarned`, `DuplicateOnlyFromRace` |
| `lock_gate` | a controller, a scheduler and 2 lock dispatchers, a gated description, an edit, a release | `TypeOK`, `LockedHashWasReviewed`, `ExitZeroMeansLocked` |
| `lock_expiry` | 3 lock dispatchers, an edit, a clock that lets locks expire | `OverlapOnlyFromRace`, `SupersededIsSpent` |
| `work_chain` | the whole pipeline once, an extra CAO, HG-1 and HG-4 texts, edit, expiry | `PipelineInv`, `AutoGoIsEarned` |
| `work_relock` | 2 runs under 1 or 2 locks, expiry, failed and repeated runs; stops where a dispatcher fails | `OneReportPerLock`, `ExitZeroIsAccepted` |
| `run_contained` | worker and a descendant in its group, 2 chunks of output | `RunIsSound`, `SettledIsFinal`, `ImplementsBoundedRun` |
| `run_gates` | an item that waits for another (and names one of another project), a run of each, 2 comments beside the reports; every contract that differs from a good one in at most 2 of its facets; 2 calls of a worker and 1 write of others; 2 routers' runs over 3 days; 2 children read while 1 comment comes in | `WorkFollowsOrder`, `StartedIsReleased`, `GuardIsFair`, `RoutersAreBounded`, `PlansAreEarned`, `KillStopsRun` |
| `plane_tools` | 2 processes of every kind, catalogs of 2 entries, 3 goals that share a child, one of which names two children alike, 3 rows of which at least one has an id of its own, 2 items of the founder's, 2 decisions | `SeededTree`, `ExitZeroIsDone`, `WritesAreGuarded`, `ApplyIsIdempotent`, `ReleasedIsAccepted`, `ReductionIsStable`, `QueueIsTrue`, `CandidatesAreAuthorised`, `CandidatesAreTimely`, `HotfixChainStops` |
| `local_tools` | 2 updaters, 4 files of different kinds, 2 releases; a mirror and a closer on 2 commits; an operator, a rotator, an installer with 2 intakes, a release of 3 files | `UpdateIsFaithful`, `ExitZeroIsSettled`, `PassIsPinned`, `StartIsSound`, `TokenIsTrue`, `InstallIsSound`, `DraftsAreGuarded`, `ReleaseIsHonest` |

The last three runs put several modules into one instance. Their parts share no
state; `part` chooses one at the start, and a behaviour runs that one while
the others stand still. It is several models checked by one command, not a
composition.

Many properties are conjunctions of named parts, each stated and commented where
it is defined (`UpdateIsFaithful == []BlockedNeverWritten /\ ReviewedFilesStay /\
PassMeansCurrent`).

Every property has a mutant: a variant of one definition with a plausible bug
(a dropped guard, a swapped argument, a guard on the wrong value) under which
TLC finds the property violated in the same run. For most conjunctions the
modules hold a mutant for each part; `PROJECT.json` lists one per property.

**Bounds.** Every process is a one-shot program, so a finite set of processes
bounds the ledger by itself; what is bounded explicitly is named: `MaxEdits`,
`MaxReleases`, `MaxTime`, `MaxOutput`, `MaxChecks`, and `Ends` (the outcomes a
worker can have). The interesting cases need two of a kind (two writers on one
snapshot, an old and a new lock, an old and a new text, two reports) and a run
provides two of each kind its properties talk about. `MaxTime = TTL` is enough
for a lock to expire while a process holds a snapshot in which it was active;
`lock_expiry` has `MaxTime = 2 * TTL`, so that a third lock can find an expired
and an active one, and its dispatchers do without a review (`off`), which the
properties it checks do not depend on.
`work_relock` needs two runs *and* two locks; its workers end in PASS or in a
failure that may be retried, and it stops (`NoneFails`) after a dispatcher has
failed. Failed dispatchers and the other outcomes are in `work_chain`. Processes
of a kind are symmetric; in `MCPlane` all pairs of processes swap at once,
which is enough since only one kind of them ever moves.

In the grouped runs a bound is one more than the property needs to be broken:
two processes for a race, a second invocation after a crash (the same
process begins again), one event of the environment between any two steps
(`MaxEdits`, `MaxEvents`, `MaxWrites`, `MaxFounderEdits`, `MaxTouches`,
`MaxOthers`, `MaxAmid`), as many rows, posts, marks and items as the longest
interesting history has (`MaxRows`, `MaxPlain`, `MaxPosts`, `MaxMarks`,
`MaxGoalItems`, `MaxItems`, `MaxDecisions`, `MaxReports`, `MaxBuilt`), a clock past every
lifetime in play (`MaxTime`, `MaxDay`, which also crosses a month). In
`MCLocal` one invocation of each tool but the updater is enough, since it may die
and begin again, and its properties are about runs that nobody disturbs.
`MaxNotices` bounds the comments that are not reports. `MaxPlain` bounds the rows built
before one whose id is derived, `MaxBuilt` all.

**Deadlock** is not checked in the ledger runs: the processes end, and so does the
behaviour.

**Fairness.** The ledger modules and the tools assume none and claim no liveness: a
process may be killed at any time and nobody restarts it. The exception is
`DependencyGate`: the heartbeat of a running dispatcher polls the comments on a
timer for as long as the worker lives, so its poll (`PollKill`) is weakly fair,
and `KillStopsRun` holds from that alone. `RuntimeSupervisor` assumes weak
fairness of the pending events of the Node event loop (data, timers, close, the
code after `runProcess`), and that a process that was sent SIGKILL, or SIGTERM
without ignoring it, dies. Nothing is assumed of an unsignalled worker or of
the answer to a kill-switch request. The timeout is armed from the start, and that is why
a run ends at all.

### Findings

Each is a run with one property taken from a document or a comment, which TLC
refutes for what the code does:

| Run | The documents say | The code |
|---|---|---|
| `work_founder_gate` | HG-4 is never AUTO-GO | the controller reads the text again |
| `release_scope` | HG-3 hands strategic direction on to HG-4 | the list of what to hand on is asked only if another list matches |
| `mirror_ignored` | included paths are in the mirror | the published `.gitignore` leaves some out of the commit |

More of the kind are stated as properties in the modules, each next to the quotation
it comes from. They are in no run; the configurations of the first five are kept
(`LockRace.cfg`, ...), and TLC finds each of these statements violated:

| Statement | The documents say | The code |
|---|---|---|
| `OneActiveLock` | one active lock per item (`plane-worker-dispatcher-v0.md:200`) | check and POST are two requests (`plane-dispatcher-v0.mjs:565`) |
| `LockFollowsLatestReview` | the latest review must be a PASS (`plane-worker-dispatcher-v0.md:153`) | any PASS of the hash opens the gate (`contract-controller.mjs:351`) |
| `NoSurvivors` | no child survives the decision (`company-os-runtime-dispatcher-v1.md:373`) | the leader's close disarms SIGKILL (`runtime-dispatcher-v1.mjs:1103`) |
| `StreamedDriftStops` | a streamed out-of-scope write is stopped at once (`company-os-runtime-dispatcher-v1.md:356`) | chunks are parsed one by one (`runtime-dispatcher-v1.mjs:1156`) |
| `NoMidRunMutation` | no mid-run mutation (`company-os-runtime-dispatcher-v1.md:500`) | reports are matched to locks by time (`cao-pass.mjs:424`) |
| `DuplicatesAreIgnored` | duplicate `event_id` rows are ignored (`agent-event-ledger.md:393`) | every reader validates first and refuses the file (`agent-event-core.mjs:214`) |
| `SecurityStopsHotfix` | a P1 hotfix stops on a security signal (`post-worker-quality-loop.md:53`) | a finding of medium severity adds a security audit to the hotfix (`post-worker-quality-loop-core.mjs:362`) |
| `ReadyIsRunnable` | a contract with both verdicts can be run (`contract-controller.mjs:398`) | preflights ask for more than the reviews do |
| `OutOfScopeNeverPasses` | out-of-scope writes end in NEEDS_HUMAN (`headless-worker-runtime-boot-contract.md:177`) | writes through Bash or to files dirty before are attributed to nobody |
| `NobodyElseIsBlamed` | parallel edits do not kill a run (`company-os-runtime-dispatcher-v1.md:349`) | a call quoted in the output blames the worker for another's edit (`runtime-dispatcher-v12-core.mjs:740`) |
| `OneHotfixRound` | one autonomous hotfix per failure (`post-worker-quality-loop.md:140`) | the rounds are never passed (`codex-controller-dryrun.mjs:511`) |
| `CompleteCanBeSynthesized` | COMPLETE asks for a synthesis (`goal-core.mjs:569`) | a cancelled child blocks it |
| `EmptyMeansNobodyWaits` | nobody is waiting (`founder-daily-queue-core.mjs:537`) | a failed request reads as no comments (`founder-daily-queue.mjs:236`) |
| `NoSecretShipped` | a secret in the kit never reaches a workspace (`company-os-update-core.mjs:51`) | the audit's result does not stop apply (`:320`) |
| `WorkStaysVisible` | work blocks the sync instead of being hidden (`git-worktree-hygiene-controller.md:161`) | commits ahead of upstream are left on no branch (`sync-main.mjs:109`) |
| `SameShaSameMirror` | one sha, one mirror (`public-mirror-builder-spec.md`, 5.4) | the tree may be dirty (`build-public-mirror.mjs:856`) |
| `FreshFacts` | stale facts are rejected (`adaptive-company-onboarding-domain-packs.md:661`) | the packet uses the confirmation's own date as now (`first-company-packet-core.mjs:749`) |
| `ForceOverwrites` | `--force` overwrites collisions (`public-rc.mjs:98`) | the packet stage blocks all the same (`public-rc-core.mjs:423`) |
| `ShownIsCurrent` | the brand is refreshed before the shell starts (`1.0-command-eve-operator-shell-alpha.md:125`) | the launcher starts without the check (`command-eve-installer-core.mjs:755`) |
| `CloseUnblocks` | close unblocks a polluted session (`workstream-session-continuity.md:213`) | close leaves the markers (`eve-session-registry-core.mjs:303`) |

`DuplicatesAreIgnored` is violated in the instance of `plane_tools`; for
`SecurityStopsHotfix` its evidence has to be extended by a medium security finding,
which is left out of the run because the state space grows past its time.
`WorkFollowsWork` of `DependencyGate` is no claim of a document but a reading of
`DependsOn` that suggests itself, that an item is worked on only after work on what
it depends on was reported. TLC finds it violated in the instance of `run_gates`: a
release counts as PASS before any work, and a controller without a verdict posts
PARK, which the preflight accepts as documented
(`company-os-runtime-dispatcher-v1.md:238`). What does hold is `WorkFollowsOrder`:
somebody answered for the item, at a moment since the run began.

Further places where reading showed the code doing other than its documents say,
and where a run would add nothing to the reading:

* `RUNTIME_READY_REJECT` is said to block the lock
  (`company-os-runtime-dispatcher-v1.md:107`); the lock dispatcher reads no
  `runtime-ready` comment (`plane-dispatcher-v0.mjs:582`).
* A second worker on one lock is forbidden
  (`headless-worker-runtime-boot-contract.md:168`); starting one leaves no trace
  that a second dispatcher could see (`runtime-dispatcher-v1.mjs:275`).
* The CAO is said to follow every PASS or REJECT
  (`company-os-runtime-dispatcher-v1.md:493`); `main` returns before it for
  everything but a PASS (`runtime-dispatcher-v1.mjs:2304`).
* A REJECT is said to need a fresh run
  (`codex-controller-runtime.md:243`); another CAO pass over the same report may
  accept it (`codex-controller-dryrun.mjs:694`).
* Low confidence is said to go to the founder
  (`codex-controller-runtime.md:149`); between 0.70 and the threshold of the level
  it is delegated (`codex-controller-dryrun.mjs:388`).

* An `agent: human` contract passes every preflight, and `--mode run` still spawns
  a model for it; `HG-3` in a pattern also matches `HG-3.5`.
* The secret scan of the model router does not see issue id and source; a
  malformed ledger line makes every later brake throw.
* A release is appended to the event ledger without validation; the module the
  gate imports for it is not in the repository (`human-gate-release.mjs:5`).
* HG-3.5 items are said to be shown when parked *and* awaiting a signature; either
  is enough (`founder-daily-queue-core.mjs:356`).
* The update's install record keeps the version of the first install.

The proved and checked properties are what remains true in spite of these: for
instance two locks may overlap, but only when the second dispatcher could not
have seen the first (`OverlapOnlyFromRace`).

## 4. What is proved

Every safety property the passing runs check is also a theorem: for any set of
processes, descriptions, items, catalogs, files, packs, releases and prices, any
values of the bounds and either listing order, under the named assumptions of
the modules only. These assumptions are

* that identifiers are distinct and references stay inside the project
  (`LedgerAssumption`, `ReviewAssumption`, `LockAssumption`, `WorkLedgerAssumption`,
  `PipelineAssumption`, `RefsAssumption`, `SupervisorAssumption`, `GoalAssumption`);
* that inputs have the shape their parsers give them: contracts have the fields
  of a contract (`PaperAssumption`), every catalog names an entry once
  (`CatalogAssumption`, `SeedingAssumption`), children are a list (`GoalInputs`),
  the kit is a list of its files (`KitAssumption`), a release's plan a list of the
  tree's (`ReleaseSets`), pins are numbers and there is a release (`ReleasePins`), a
  company is not called like a state of a file (`InstallInputs`), the places of
  a workspace do not overlap (`AttributionPlaces`);
* that amounts, days, lifetimes and caps are numbers, and the primary cap is not
  above the tracked one (`BudgetAssumption`, `TokenTimes`, `QueueCaps`,
  `QualityAssumption`).

| Theorem | Says |
|---|---|
| `ReviewTypeCorrect`, `TypeCorrect` | type correctness of review and lock modules |
| `PassesAreEarned`, `PassesStayEarned` | a CONTRACT_PASS is only for a text against which nothing but human gates stands, and these only after a release; also with dispatchers on the ledger |
| `StageCommentsStayBacked` | a remediation route, an executive routing or a Stage 0.65 result follows a review of its text, also when the scheduler skips that review as a repeat |
| `DuplicatesComeFromRaces` | a scheduler repeats the newest comment of a title only if it was posted after the scheduler had read |
| `LockedHashesAreReviewed` | with `require`, every lock follows a PASS for its own hash |
| `OverlapsAreRaces` | overlapping locks of one text come from a race |
| `SupersededRunsAreSpent`, `SupersededRunIsSpent` | the superseded run was read and had expired or was for another text |
| `ExitZeroIsLocked` | exit 0 of a lock dispatcher means lock, then context, on the ledger |
| `WorkStaysLocked` | type correctness of the pipeline; a report follows a lock, and a review, of the text its worker was given |
| `EveryGoIsEarned` | an AUTO-GO follows a verdict, a report and a lock that belong together |
| `OneReportIsAccepted` | the PASS verdicts under one lock accept one report |
| `ExitZeroIsAnswered` | exit 0 of a runtime dispatcher follows a PASS for its report or under a newer lock |
| `PassesAreUndisturbed` | a run judged PASS was stopped by nobody and exited with 0 |
| `DecisionsAreFinal` | no signal after the settlement; the first reason stays |
| `RefinesBoundedRun` | each step of the supervisor is a step of `BoundedRun` or a stutter |
| `OrderIsFollowed` | no worker starts but each item it depends on was at PASS or PARK at a moment since its run began, by a report, a release or a park, and not by a PASS with nothing behind it |
| `StartedAreReleased` | what is started is boxed, bounded and, at a gate, released |
| `GuardStaysFair` | a run is held for a write only on a record that was heard; a pass has no unseen whole edit call outside of its paths |
| `RoutersStayBounded` | runs that come one at a time overspend neither day nor month; no report keeps a secret |
| `PlansStayEarned` | a goal command offers only what was ready when it was read, and no held work |
| `ReleasesAreAccepted` | every row the release gate appends is one the validator of the ledger accepts |
| `ReductionStaysStable` | what a reader gets does not depend on the order of the appends; a file is refused only after two overlapping runs of a tool that repeats its ids |
| `SeededStaysTree`, `SeedingStaysDone` | two rows of an entry come from runs that overlapped, every row hangs where its entry says; exit 0 means every entry is there |
| `WritesStayGuarded` | no label that was read and still stands is taken away, nothing completed without `--confirm-done` |
| `ApplyStaysIdempotent` | invocations that do not overlap create no name twice, and exit 0 means all is linked |
| `QueueStaysTrue` | who waits for a person throughout a run is shown or behind a full list; who is asked did wait at some moment of the run |
| `CandidatesStayAuthorised`, `CandidatesStayTimely`, `HotfixChainsStop` | a candidate goes back to a plan that named its worker; it is handed over twice only by handoffs that could not see each other; generated items ask for no hotfix |
| `DraftsStayGuarded`, `InstallsStaySound` | a finance draft waits for HG-3; an install replaces no file without `--force`, and its pass leaves a whole company |
| `TokenStaysTrue` | the keychain promises no more than the server grants, and exit 0 means a token good for the window |
| `UpdatesStayFaithful` | blocked files are never written, reviewed ones replaced only under a plan made without them, exit 0 leaves the plain ones current |
| `ExitZeroStaysSettled` | a mirror that exits 0 has mirrored what it synced, a session that closes with 0 leaves no work unsettled |
| `ReleasesStayHonest` | what is published is clean and is the commit it names; a build is the whole mirror |
| `PassesStayPinned`, `StartsStaySound` | an install leaves what its release pins; a start is ready on an applied overlay and a clean session, and the founder's `SOUL.md` survives |

**The argument on the ledger.** None of the properties is inductive, because
what is posted was decided earlier. The invariant of `ContractReviewProofs`
(`PassInv`) says of every comment still *queued* in a process what the property
says of the ledger: it may be posted now, and stays postable since the ledger
only grows. That of `DispatchLockProofs`, `DInv == TypeOK /\ PassInv /\ LockInv`,
does the same for a dispatcher between read and POST: `seen` and `readAt` pin
down the prefix of the ledger on which gate, duplicate check and supersession
were evaluated, that prefix never changes, and a run id belongs to one process,
so every lock on the ledger leads back to the moment its dispatcher read.
Two properties have an invariant of their own, `QueueInv`. A queued stage comment
has its review before it, on the ledger or further ahead in the same queue
(`QueueBacked`); the review a scheduler leaves out as a repeat was in its snapshot.
And a scheduler's queue repeats nothing of what it has read (`QueueFresh`), so
when a comment repeats the newest of its title, that one came later.

`WorkPipelineProofs` builds on both. `WorkInv` has two more parts: `Just`, what
each comment on the ledger rests on (a report on a lock of the text its run was
given, a PASS verdict on a lock and the only report after it that is no failure,
an AUTO-GO on a PASS verdict, a lock on being its run's first), and what each
process carries from its reading to its POST (`RuntimeKnows`, `AuditKnows`,
`DeciderKnows`). The pure part is `VerdictIsBacked` (what `runCaoPass` accepts, on
any ledger) and `DecisionStandsOnPass`; the rest is that both survive an append
(`KnowledgeKept`, `JustKept`). `OneReportIsAccepted` follows from "the only report
that is no failure" and "one lock per run"; `ExitZeroIsAnswered` needs in
addition that a runtime dispatcher starts its CAO only after its report landed.

**The argument in one process.** `SoundInv` of `RuntimeSupervisorProofs` adds to
`RunIsSound` what holds between the listeners: once the promise is settled no timer is armed and
nobody holds the pipe (`Quiet`), output that drifts under a killing guard has given a cause
(`Answered`), the state is decided last (`DecidedLast`). The step lemma
(`StepIsSeen`) lists what a caller can see a step do, from which both
`DecisionsAreFinal` and the refinement follow.

**Around one run** (`RunGatesProofs`). `DepInv`: each dependency a run
has ticked off, and each of a run that works, was `Cleared` at a moment since the run
began (`Sure`), which a log that only grows cannot undo; and what the CAO and
controllers pass has a report of PASS behind it (`Grounded`), so the newest word of
PASS always leads back to somebody who answers for it. `GatesInv`: every verdict on record is one about the text that is
preflown in the end. `AttributionInv`: a file is named exactly by the lines that
were heard (`NamedIsHeard`), and the killing guard has answered each violation
among them (`ViolationKills`). `BudgetInv`: while the operator kept to the
conditions of the brake (`sound`), one run at most is under way, what was spent
and is not yet on the ledger is in its rows, and the reserve of the models it may
still call fits into day and month (`RunIsCovered`). `GoalInv`: if nobody wrote
meanwhile, what a reader has read is what there is (`SightIsTrue`).

**Around Plane** (`PlaneToolsProofs`). Each invariant says what a tool still
knows of a listing that has grown old. `SeedInv`: rows only come behind those a
run listed (`Follows`), the rows a run made have the keys it made them for, and
what it has dealt with is there. `GoalPlaneInv`, while nobody overlapped: each entry
still to come is absent if it is to be created, present if it is to be linked, and
those done hang under the parent (`EntryHolds`, `WriterHolds`); only a name that the
input itself gives twice (`Repeated`) may be there twice. `FileInv`: rows under way
are valid when they are built; it rests on the gate's and the validator's two
tables of thresholds being equal. `RaceInv` adds that two rows of one id, on file or
in hand, are of runs the later of which had read too little (`RepeatRaced`). `QueueInv` of the founder queue: a thread as fetched is one of the
states it had since the run began (`Since`). `QualityInv`: a task in hand was handed
over by a plan that no later comment of its reader's snapshot ends (`Handed`), and a
second candidate of one marker and worker was written by a handoff that read
before the first.

For `ReductionStaysStable` nothing is said about the states the reducer goes
through: a file and its reverse are valid or refused together, both
keep the same rows once (`DedupedKeepsOnce`), the
place of a row among them is the number of rows before it in time
(`PlacesAreTaken`), so the sorted files are *equal* (`SameRowsSameOrder`) and reduce
alike whatever a row means.

**On one machine** (`LocalToolsProofs`). What a tool promises it promises when it
was left alone; so the invariants have two kinds of parts. Some hold always
(`PlanIsCareful`, `OpClean`, `StaysClean`: a fresh-history run's clone is a clean copy
of a run root nobody else writes). The others are conditional on `alone` and say
how the files relate to what the process has still to do: what it has dealt with
is current (`PlanIsTrue`), written (`Brings`), mirrored or settled (`MirrorKnows`,
`CloserKnows`), the mirror of the tree but for the files left to copy
(`StaysTrue`), as pinned (`InstallKnows`) or as found (`StartKnows`). A step of
anybody else clears `alone`, which leaves nothing to show. `TokenInv` says of a
rotator between its two writes that the keychain already holds its token.
Two rotators that save at once may leave the token of one beside the expiry of the
other; that is why `TokenIsTrue` is conditional on `overlapped`.

**Inductions over data.** The library's induction theorems take an operator, which
no installed prover instantiates, but its theorem that a well-founded relation
has minimal elements (`WFMin`) takes a set. `CommonLemmas` derives from it
induction over numbers (`NatInduct`) and over the subsets of a finite set
(`SubsetsInduct`), and with these the recursions of the folds the models use:
sums (`SumUnfolds`, `SumTakes`) and the reducer's deduplication (`DedupUnfolds`).

**Only model-checked.** Liveness under fairness: `KillStopsRun` and the liveness
half of `ImplementsBoundedRun` (`RefinesBoundedRun` is its safety half). They need
ENABLED, which is out of the prover's reach, and stay with TLC. The three
statements of the findings are false of the code.

## 5. Not modelled, and why

* Text: encoding of comments, parsing of contracts, label resolution. They
  appear as constants of a description, as facets of a contract, as
  `validator-fail`, and as aborts.
* `PARK` verdicts of the CAO: they need a report with an `hg35` block, which
  the runtime dispatcher never writes. Role labels are part of `Unfit`.
* Dry-run modes that change no state.
* Pagination of listings: the page size is Plane's. The models list everything,
  while the seeding scripts (`plane-contract-materializer.mjs:127`) and the kill-switch
  poll read one page: beyond it an existing row would be created again and a KILL not
  be seen.
* What the code does badly in a way its properties have to excuse: a failed
  comment request reads as no comments, routers, rotators and starts that run at once
  lose one another's writes, a label set after a listing is undone by the PATCH, a
  file created after the plan is overwritten, the commit named on a mirror is read
  before the copy, a verdict that lands on a child already read goes unseen. The
  `note` of each such hazard in `PROJECT.json` says which part no property covers; where
  the excuse is a history variable (`alone`, `overlapped`, `sound`, `amid`), it is named.
* The text of the quality plan between controller and scheduler: what is rendered is
  taken to be what is parsed.
* Two tools of different groups on one machine at once: the parts share no
  state in the code except through files of the founder, whose edits are actions
  of each part.
* Components marked so in `PROJECT.json`: stateless classifiers and routers,
  generators of documents, checks of one document, build scripts.

## 6. Plan

Done: one module for every component with state that something decides on,
and a theorem for every safety property a run checks. Next, most important first:

1. An abstract specification of "list, then act entry by entry" (an entry is
   there once unless two runs overlap) that `PlaneSeeding`, `GoalPlane` and the
   handoff of `QualityLoop` each implement, with the step-by-step refinement proved
   from `SeedInv`, `GoalPlaneInv` and `QualityInv`.
2. Theorems for the statements of section 3 that hold under a condition the
   program's operators can meet: one active lock per item when reads and posts do
   not interleave, one report per run when no dispatcher is started twice on a lock.
3. Remediation router, self-fix requests, life cycle of sandboxes, goal loop:
   classifications today; worth a module once they act.
