--------------------------- MODULE DependencyGate ---------------------------
(***************************************************************************)
(* Work items that wait for one another.  A run of the runtime dispatcher  *)
(* resolves each DependsOn reference from the comments of the item it      *)
(* names, one request at a time, and starts only if all of them are at     *)
(* PASS or PARK; while its worker runs it polls its own item's comments    *)
(* for a KILL.  Meanwhile the CAO, controllers, people and other runs go    *)
(* on commenting on every item, before its work as well as after.          *)
(***************************************************************************)
EXTENDS Integers, Sequences, FiniteSets

CONSTANTS
  Item,            \* work items of the project
  Refs,            \* the DependsOn references of an item: [own, item]
  Runner,          \* runs of the dispatcher, each a process of its own
  ItemOf,          \* the item a run was started for
  MaxNotices       \* bound on the comments that are not reports

VARIABLES
  notices,         \* the comments of all items, oldest first
  runner           \* the runs

depVars == <<notices, runner>>

(* A reference to another project (own = FALSE) has the number of an item. *)
ASSUME RefsAssumption ==
  /\ Refs \in [Item -> SUBSET [own : BOOLEAN, item : Item]]
  /\ ItemOf \in [Runner -> Item]
  /\ MaxNotices \in Nat

-----------------------------------------------------------------------------
(* What a comment says of the item it is on.  "park" is the controller's     *)
(* PARK or HG-3.5-PENDING-ARTIFACT-REVIEW, "refuse" any other decision but   *)
(* AUTO-GO and ASK-CEO-HG3; the latter and a KILL say nothing.               *)
Spoken ==
  [release |-> "PASS", autogo |-> "PASS", park |-> "PARK", refuse |-> "REJECT",
   askceo |-> "", verdictpass |-> "PASS", verdictpark |-> "PARK",
   verdictreject |-> "REJECT", reportpass |-> "PASS", reportreject |-> "REJECT", kill |-> ""]

Notice == [item : Item, kind : DOMAIN Spoken]
Report == {"reportpass", "reportreject"}

Speaks(log, i) == {p \in DOMAIN log : log[p].item = i /\ Spoken[log[p].kind] # ""}

(* Mutant: the comments are sorted the other way round. *)
StatusOfOldest(log, i) ==
  IF Speaks(log, i) = {} THEN "unknown"
  ELSE Spoken[log[CHOOSE p \in Speaks(log, i) : \A q \in Speaks(log, i) : q >= p].kind]

(* resolveDependencyStatusFromComments: the newest comment that says        *)
(* something.                                                              *)
StatusOf(log, i) ==
  IF Speaks(log, i) = {} THEN "unknown"
  ELSE Spoken[log[CHOOSE p \in Speaks(log, i) : \A q \in Speaks(log, i) : q <= p].kind]

(* loadPlaneDependencyStatusMap for one reference.  The item is looked up   *)
(* by its number in the run's own project, whatever project the reference   *)
(* names; a request that fails leaves the status unknown.                   *)
Resolve(log, ref, ok) == IF ok THEN StatusOf(log, ref.item) ELSE "unknown"

-----------------------------------------------------------------------------
IdleRunner ==
  [pc |-> "idle", todo |-> {}, clear |-> TRUE,
   began |-> 0]     \* history: how many comments there were when it began

DepInit ==
  /\ notices = <<>>
  /\ runner = [r \in Runner |-> IdleRunner]

BeginRun(r) ==
  /\ runner[r].pc = "idle"
  /\ runner' = [runner EXCEPT ![r].pc = "resolving", ![r].todo = Refs[ItemOf[r]],
                  ![r].began = Len(notices)]
  /\ UNCHANGED notices

(* One reference; the order is that of the text. *)
ReadDependency(r, ref, ok) ==
  /\ runner[r].pc = "resolving" /\ ref \in runner[r].todo
  /\ runner' = [runner EXCEPT ![r].todo = @ \ {ref},
                  ![r].clear = @ /\ Resolve(notices, ref, ok) \in {"PASS", "PARK"}]
  /\ UNCHANGED notices

(* preflightDependencies and the start of the worker. *)
StartWorker(r) ==
  /\ runner[r].pc = "resolving" /\ runner[r].todo = {}
  /\ runner' = [runner EXCEPT ![r].pc = IF runner[r].clear THEN "running" ELSE "blocked"]
  /\ UNCHANGED notices

(* Mutant: only the newest comment of all is looked at. *)
KilledNewest(r) ==
  notices # <<>> /\ notices[Len(notices)] = [item |-> ItemOf[r], kind |-> "kill"]

(* checkPlaneKillSwitch looks at every comment of the item, old ones too,   *)
(* and consumes none.                                                      *)
Killed(r) ==
  \E p \in DOMAIN notices : notices[p] = [item |-> ItemOf[r], kind |-> "kill"]

(* A heartbeat whose poll is due; a poll that fails, or that is skipped      *)
(* since the last one is too recent, changes nothing.                       *)
PollKill(r) ==
  /\ runner[r].pc = "running" /\ Killed(r)
  /\ runner' = [runner EXCEPT ![r].pc = "killed"]
  /\ UNCHANGED notices

(* The worker is done, or has been stopped, and the run reports; the report *)
(* of a stopped worker is never a PASS, and a report may be lost.           *)
ReportRun(r, kind, landed) ==
  /\ runner[r].pc \in {"running", "killed"}
  /\ runner[r].pc = "killed" => kind = "reportreject"
  /\ runner' = [runner EXCEPT ![r].pc = "reported"]
  /\ notices' = IF landed THEN Append(notices, [item |-> ItemOf[r], kind |-> kind])
                          ELSE notices

(* runCaoPass: the CAO passes what a worker reported as PASS, parks what one *)
(* reported as waiting for the founder's proxy, and rejects anything, work   *)
(* that nobody has reported included.  (What else a PASS takes is           *)
(* WorkLedger's.)                                                           *)
CaoVerdicts(log, i) ==
  {"verdictreject"}
    \cup (IF \E p \in DOMAIN log : log[p] = [item |-> i, kind |-> "reportpass"]
          THEN {"verdictpass"} ELSE {})
    \cup (IF \E p \in DOMAIN log : log[p] = [item |-> i, kind |-> "reportreject"]
          THEN {"verdictpark"} ELSE {})

(* decideController, by the verdict it goes by: none is "cao-missing". *)
Decided ==
  [none |-> {"park"}, verdictreject |-> {"refuse"}, verdictpark |-> {"park"},
   verdictpass |-> {"autogo", "askceo", "refuse"}]

(* The controller goes by the newest verdict among the comments it has read. *)
(* Others come in before it posts: it may go by any verdict there ever was,  *)
(* or by none.                                                              *)
Decisions(log, i) ==
  Decided.none \cup UNION {Decided[log[p].kind] :
    p \in {q \in DOMAIN log : log[q].item = i /\ log[q].kind \in DOMAIN Decided}}

(* A person releases a gate or sends a KILL at any time. *)
Comment(i, kind) ==
  /\ Cardinality({p \in DOMAIN notices : notices[p].kind \notin Report}) < MaxNotices
  /\ kind \in {"release", "kill"} \cup CaoVerdicts(notices, i) \cup Decisions(notices, i)
  /\ notices' = Append(notices, [item |-> i, kind |-> kind])
  /\ UNCHANGED runner

DepNext ==
  \/ \E r \in Runner :
       \/ BeginRun(r) \/ StartWorker(r) \/ PollKill(r)
       \/ \E ref \in runner[r].todo, ok \in BOOLEAN : ReadDependency(r, ref, ok)
       \/ \E kind \in Report, landed \in BOOLEAN : ReportRun(r, kind, landed)
  \/ \E i \in Item, kind \in DOMAIN Spoken : Comment(i, kind)

DepSpec ==
  DepInit /\ [][DepNext]_depVars /\ \A r \in Runner : WF_depVars(PollKill(r))

-----------------------------------------------------------------------------
(* The word of the first n comments is that item i may be built on, and      *)
(* somebody answers for it: a worker that reported a PASS, a person who      *)
(* released it, or the CAO or a controller that parked it.                  *)
Cleared(log, n, i) ==
  \E q \in 1..n :
    /\ log[q].item = i /\ Spoken[log[q].kind] \in {"PASS", "PARK"}
    /\ \A s \in q + 1..n : log[s].item = i => Spoken[log[s].kind] = ""
    /\ \E g \in 1..q :
         log[g].item = i /\ log[g].kind \in {"reportpass", "release", "park", "verdictpark"}

(* "Every DependsOn reference must resolve to a PASS or PARK state": no       *)
(* worker was started but each item it depends on within the project was      *)
(* cleared at some moment since its run began, however runs, lost reports,    *)
(* verdicts, outdated decisions and releases interleave.  An older PASS that  *)
(* was withdrawn by then is not enough, nor is a PASS with nothing behind it. *)
WorkFollowsOrder ==
  \A r \in Runner : runner[r].pc \in {"running", "killed", "reported"} =>
    \A ref \in Refs[ItemOf[r]] : ref.own =>
      \E n \in runner[r].began..Len(notices) : Cleared(notices, n, ref.item)

(* Not so: that work is reported only after the work it depends on.  A        *)
(* release counts as PASS before any work, and a controller that finds no     *)
(* verdict posts PARK.                                                       *)
WorkFollowsWork ==
  \A p \in DOMAIN notices : notices[p].kind \in Report =>
    \A ref \in Refs[notices[p].item] : ref.own =>
      \E q \in 1..p - 1 : notices[q].item = ref.item /\ notices[q].kind \in Report

(* A KILL stops every run of its item, the runs that start after it as well; *)
(* nothing else has to happen for a run to notice it.                       *)
KillStopsRun ==
  \A r \in Runner : (runner[r].pc = "running" /\ Killed(r)) ~> runner[r].pc # "running"
=============================================================================
