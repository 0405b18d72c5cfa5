---------------------------- MODULE RunGatesProofs ----------------------------
(*****************************************************************************)
(* Proofs about the gates and accounts a run passes, for any items,          *)
(* contracts, files, prices and goals: DependencyGate, ContractGates,        *)
(* WriteAttribution, BudgetBrake and GoalProgress.                           *)
(*                                                                           *)
(* A dependency found reported stays reported, however long ago it was read; *)
(* a contract that starts keeps what each gate found of its text; a write is *)
(* held against a run only after the run was heard to make it or to name its *)
(* place; while runs come one at a time, what was spent and what the run at  *)
(* work may still spend fits in the day's and the month's budget; and a plan *)
(* says of an item only what was true when the item was read.                *)
(*****************************************************************************)
EXTENDS DependencyGate, ContractGates, WriteAttribution, BudgetBrake, GoalProgress,
        CommonLemmas

(* DependencyGate: what a run found reported stays reported                  *)

Refer == [own : BOOLEAN, item : Item]
RunnerState ==
  [pc : {"idle", "resolving", "running", "blocked", "killed", "reported"},
   todo : SUBSET Refer, clear : BOOLEAN, began : Nat]
DepTypeOK == notices \in Seq(Notice) /\ runner \in [Runner -> RunnerState]

(* A PASS of the CAO or of a controller rests on a report of PASS. *)
Passed(log, q, i) == \E g \in 1..q : log[g].item = i /\ log[g].kind = "reportpass"
Grounded(log) ==
  \A q \in DOMAIN log :
    log[q].kind \in {"verdictpass", "autogo"} => Passed(log, q, log[q].item)

(* What a run has made sure of: each item was cleared since the run began. *)
ClearedSince(log, b, i) == \E n \in b..Len(log) : Cleared(log, n, i)
Sure(log, r, me) ==
  LET CanBeSure(refs) == \A ref \in refs : ClearedSince(log, me.began, ref.item)
  IN  /\ me.began <= Len(log)
      /\ me.pc = "resolving" /\ me.clear => CanBeSure(Refs[ItemOf[r]] \ me.todo)
      /\ me.pc \in {"running", "killed", "reported"} => CanBeSure(Refs[ItemOf[r]])

DepInv ==
  /\ DepTypeOK /\ Grounded(notices)
  /\ \A r \in Runner : Sure(notices, r, runner[r])

-----------------------------------------------------------------------------
(* The log *)

LEMMA LogGrows ==
  ASSUME NEW log \in Seq(Notice), NEW c \in Notice
  PROVE  /\ Append(log, c) \in Seq(Notice)
         /\ DOMAIN Append(log, c) = DOMAIN log \cup {Len(log) + 1}
         /\ \A p \in DOMAIN log : Append(log, c)[p] = log[p]
         /\ Append(log, c)[Len(log) + 1] = c
  OBVIOUS

LEMMA ClearedStays ==
  ASSUME NEW log \in Seq(Notice), NEW c \in Notice, NEW n \in 0..Len(log), NEW i,
         Cleared(log, n, i)
  PROVE  Cleared(Append(log, c), n, i)
<1> DEFINE k == Append(log, c)
<1>1. \A p \in 1..n : k[p] = log[p] BY LogGrows
<1>2. PICK q \in 1..n :
        /\ log[q].item = i /\ Spoken[log[q].kind] \in {"PASS", "PARK"}
        /\ \A s \in q + 1..n : log[s].item = i => Spoken[log[s].kind] = ""
        /\ \E g \in 1..q : /\ log[g].item = i
                           /\ log[g].kind \in {"reportpass", "release", "park", "verdictpark"}
  BY DEF Cleared
<1> HIDE DEF k
<1>3. \A s \in q + 1..n : s \in 1..n OBVIOUS
<1>4. \A g \in 1..q : g \in 1..n OBVIOUS
<1>6. PICK g \in 1..q : /\ log[g].item = i
                       /\ log[g].kind \in {"reportpass", "release", "park", "verdictpark"}
  BY <1>2
<1>7. k[q] = log[q] /\ k[g] = log[g] BY <1>1, <1>4
<1>8. \A s \in q + 1..n : k[s] = log[s] BY <1>1, <1>3
<1>5. Cleared(k, n, i)
  <2>1. k[q].item = i /\ Spoken[k[q].kind] \in {"PASS", "PARK"} BY <1>2, <1>7
  <2>2. \A s \in q + 1..n : k[s].item = i => Spoken[k[s].kind] = "" BY <1>2, <1>8
  <2>3. \E h \in 1..q : /\ k[h].item = i
                        /\ k[h].kind \in {"reportpass", "release", "park", "verdictpark"}
    BY <1>6, <1>7
  <2> QED BY <2>1, <2>2, <2>3 DEF Cleared
<1> QED BY <1>5 DEF k

LEMMA ClearedSinceStays ==
  ASSUME NEW log \in Seq(Notice), NEW c \in Notice, NEW b \in Nat, NEW i,
         ClearedSince(log, b, i)
  PROVE  ClearedSince(Append(log, c), b, i)
<1>1. PICK n \in b..Len(log) : Cleared(log, n, i) BY DEF ClearedSince
<1>2. n \in 0..Len(log) OBVIOUS
<1>3. n \in b..Len(Append(log, c)) OBVIOUS
<1>4. Cleared(Append(log, c), n, i) BY <1>1, <1>2, ClearedStays
<1> QED BY <1>3, <1>4 DEF ClearedSince

LEMMA SureStays ==
  ASSUME NEW log \in Seq(Notice), NEW c \in Notice, NEW r, NEW me,
         me.began \in Nat, Sure(log, r, me)
  PROVE  Sure(Append(log, c), r, me)
<1>1. \A i : ClearedSince(log, me.began, i) => ClearedSince(Append(log, c), me.began, i)
  BY ClearedSinceStays
<1>2. Len(log) <= Len(Append(log, c)) OBVIOUS
<1>3. me.began <= Len(Append(log, c)) BY <1>2 DEF Sure
<1> QED BY <1>1, <1>3 DEF Sure

LEMMA GroundedStays ==
  ASSUME NEW log \in Seq(Notice), NEW c \in Notice, Grounded(log),
         c.kind \in {"verdictpass", "autogo"} => Passed(log, Len(log), c.item)
  PROVE  Grounded(Append(log, c))
<1> DEFINE k == Append(log, c)
<1>1. /\ DOMAIN k = DOMAIN log \cup {Len(log) + 1}
      /\ \A p \in DOMAIN log : k[p] = log[p]
      /\ k[Len(log) + 1] = c
  BY LogGrows
<1>2. DOMAIN log = 1..Len(log) /\ Len(log) \in Nat OBVIOUS
<1> HIDE DEF k
<1>3. ASSUME NEW q \in DOMAIN k, k[q].kind \in {"verdictpass", "autogo"}
      PROVE Passed(k, q, k[q].item)
  <2>1. CASE q \in DOMAIN log
    <3>1. k[q] = log[q] BY <1>1, <2>1
    <3>2. PICK g \in 1..q : log[g].item = k[q].item /\ log[g].kind = "reportpass"
      BY <1>3, <2>1, <3>1 DEF Grounded, Passed
    <3>3. k[g] = log[g] BY <1>1, <1>2, <2>1
    <3> QED BY <3>2, <3>3 DEF Passed
  <2>2. CASE q = Len(log) + 1
    <3>1. k[q] = c BY <1>1, <2>2
    <3>2. PICK g \in 1..Len(log) : log[g].item = c.item /\ log[g].kind = "reportpass"
      BY <1>3, <3>1 DEF Passed
    <3>3. g \in 1..q /\ k[g] = log[g] BY <1>1, <1>2, <2>2
    <3> QED BY <3>1, <3>2, <3>3 DEF Passed
  <2> QED BY <1>1, <2>1, <2>2
<1> QED BY <1>3 DEF Grounded, k

(* Somebody answers for every comment that says PASS or PARK. *)
LEMMA Answered ==
  ASSUME NEW log \in Seq(Notice), Grounded(log), NEW q \in DOMAIN log,
         Spoken[log[q].kind] \in {"PASS", "PARK"}
  PROVE  \E g \in 1..q : /\ log[g].item = log[q].item
                         /\ log[g].kind \in {"reportpass", "release", "park", "verdictpark"}
<1>1. log[q] \in Notice OBVIOUS
<1>2. q \in 1..q OBVIOUS
<1>5. log[q].kind \in {"release", "autogo", "park", "refuse", "askceo", "verdictpass",
                       "verdictpark", "verdictreject", "reportpass", "reportreject", "kill"}
  BY <1>1 DEF Notice, Spoken
<1>6. /\ Spoken.refuse = "REJECT" /\ Spoken.verdictreject = "REJECT"
      /\ Spoken.reportreject = "REJECT" /\ Spoken.askceo = "" /\ Spoken.kill = ""
  BY DEF Spoken
<1>3. log[q].kind \in {"reportpass", "release", "park", "verdictpark", "verdictpass", "autogo"}
  BY <1>5, <1>6
<1>4. CASE log[q].kind \in {"verdictpass", "autogo"} BY <1>4 DEF Grounded, Passed
<1> QED BY <1>2, <1>3, <1>4

(* An answer of PASS or PARK clears the item at the moment it is read. *)
LEMMA AnswerClears ==
  ASSUME NEW log \in Seq(Notice), Grounded(log), NEW ref \in Refer, NEW ok \in BOOLEAN,
         Resolve(log, ref, ok) \in {"PASS", "PARK"}
  PROVE  Cleared(log, Len(log), ref.item)
<1> DEFINE i == ref.item
           S == Speaks(log, i)
<1>1. S # {} /\ StatusOf(log, i) \in {"PASS", "PARK"} BY DEF Resolve, StatusOf
<1>2. S \subseteq DOMAIN log BY DEF Speaks
<1>10. DOMAIN log = 1..Len(log) /\ Len(log) \in Nat OBVIOUS
<1>3. S \subseteq 0..Len(log) BY <1>2, <1>10
<1>4. \E p \in S : \A q \in S : q <= p BY <1>1, <1>3, <1>10, GreatestExists
<1> DEFINE q == CHOOSE p \in S : \A s \in S : s <= p
<1>5. q \in S /\ \A s \in S : s <= q BY <1>4
<1>6. StatusOf(log, i) = Spoken[log[q].kind] BY <1>1 DEF StatusOf
<1> HIDE DEF q
<1>7. q \in 1..Len(log) /\ log[q].item = i BY <1>2, <1>5, <1>10 DEF Speaks
<1>8. ASSUME NEW s \in q + 1..Len(log), log[s].item = i PROVE Spoken[log[s].kind] = ""
  <2>1. s \in DOMAIN log /\ ~ (s <= q) BY <1>7, <1>10
  <2>2. s \notin S BY <1>5, <2>1
  <2> QED BY <1>8, <2>1, <2>2 DEF Speaks
<1>9. \E g \in 1..q : /\ log[g].item = i
                      /\ log[g].kind \in {"reportpass", "release", "park", "verdictpark"}
  BY <1>1, <1>6, <1>7, <1>10, Answered
<1> QED BY <1>1, <1>6, <1>7, <1>8, <1>9 DEF Cleared

-----------------------------------------------------------------------------
(* The steps *)

LEMMA DepInitInv == DepInit => DepInv
<1> SUFFICES ASSUME DepInit PROVE DepInv OBVIOUS
<1>1. IdleRunner \in RunnerState BY DEF IdleRunner, RunnerState
<1>2. DepTypeOK BY <1>1 DEF DepInit, DepTypeOK
<1>3. \A r \in Runner : Sure(notices, r, runner[r])
  BY DEF DepInit, IdleRunner, Sure
<1>4. DOMAIN notices = {} BY DEF DepInit
<1> QED BY <1>2, <1>3, <1>4 DEF DepInv, Grounded

(* A step of run r that says nothing. *)
LEMMA SilentStep ==
  ASSUME DepInv, NEW r \in Runner, NEW me \in RunnerState,
         runner' = [runner EXCEPT ![r] = me], UNCHANGED notices,
         Sure(notices, r, me)
  PROVE  DepInv'
<1>1. DepTypeOK' BY DEF DepInv, DepTypeOK
<1>2. \A q \in Runner : Sure(notices, q, runner'[q])
  BY DEF DepInv, DepTypeOK
<1> QED BY <1>1, <1>2 DEF DepInv

LEMMA BeginRunKeeps ==
  ASSUME DepInv, NEW r \in Runner, BeginRun(r)
  PROVE  DepInv'
<1> DEFINE me == [runner[r] EXCEPT !.pc = "resolving", !.todo = Refs[ItemOf[r]],
                                   !.began = Len(notices)]
<1>1. runner[r] \in RunnerState /\ ItemOf[r] \in Item
  BY RefsAssumption DEF DepInv, DepTypeOK
<1>2. Refs[ItemOf[r]] \subseteq Refer BY <1>1, RefsAssumption DEF Refer
<1>0. Len(notices) \in Nat BY DEF DepInv, DepTypeOK
<1>3. /\ me \in RunnerState /\ me.pc = "resolving" /\ me.todo = Refs[ItemOf[r]]
      /\ me.began = Len(notices)
  BY <1>0, <1>1, <1>2 DEF RunnerState
<1>4. runner' = [runner EXCEPT ![r] = me] /\ UNCHANGED notices
  BY DEF BeginRun, DepInv, DepTypeOK
<1> HIDE DEF me
<1>5. Sure(notices, r, me) BY <1>0, <1>3 DEF Sure
<1> QED BY <1>3, <1>4, <1>5, SilentStep

LEMMA ReadDependencyKeeps ==
  ASSUME DepInv, NEW r \in Runner, NEW ref \in runner[r].todo, NEW ok \in BOOLEAN,
         ReadDependency(r, ref, ok)
  PROVE  DepInv'
<1> DEFINE good == Resolve(notices, ref, ok) \in {"PASS", "PARK"}
           me == [runner[r] EXCEPT !.todo = @ \ {ref}, !.clear = @ /\ good]
<1>1. runner[r] \in RunnerState /\ ref \in Refer
  BY DEF DepInv, DepTypeOK, RunnerState
<1>2. /\ me \in RunnerState
      /\ me.pc = runner[r].pc /\ me.todo = runner[r].todo \ {ref}
      /\ me.clear = (runner[r].clear /\ good)
      /\ me.began = runner[r].began /\ me.began \in Nat
  BY <1>1 DEF RunnerState
<1>3. runner' = [runner EXCEPT ![r] = me] /\ UNCHANGED notices /\ runner[r].pc = "resolving"
  BY DEF ReadDependency, DepInv, DepTypeOK
<1>5. Sure(notices, r, runner[r]) BY DEF DepInv
<1>7. Len(notices) \in Nat /\ runner[r].began <= Len(notices)
  BY <1>5 DEF DepInv, DepTypeOK, Sure
<1>8. good => Cleared(notices, Len(notices), ref.item)
  BY <1>1, AnswerClears DEF DepInv, DepTypeOK
<1>9. Len(notices) \in runner[r].began..Len(notices) BY <1>2, <1>7
<1>4. good => ClearedSince(notices, runner[r].began, ref.item)
  BY <1>8, <1>9 DEF ClearedSince
<1> HIDE DEF me, good
<1>6. Sure(notices, r, me) BY <1>2, <1>3, <1>4, <1>5 DEF Sure
<1> QED BY <1>2, <1>3, <1>6, SilentStep

LEMMA StartWorkerKeeps ==
  ASSUME DepInv, NEW r \in Runner, StartWorker(r)
  PROVE  DepInv'
<1> DEFINE me == [runner[r] EXCEPT !.pc = IF runner[r].clear THEN "running" ELSE "blocked"]
<1>1. runner[r] \in RunnerState BY DEF DepInv, DepTypeOK
<1>2. /\ me \in RunnerState
      /\ me.pc = IF runner[r].clear THEN "running" ELSE "blocked"
      /\ me.began = runner[r].began
  BY <1>1 DEF RunnerState
<1>3. /\ runner' = [runner EXCEPT ![r] = me] /\ UNCHANGED notices
      /\ runner[r].pc = "resolving" /\ runner[r].todo = {}
  BY DEF StartWorker, DepInv, DepTypeOK
<1>4. Sure(notices, r, runner[r]) BY DEF DepInv
<1> HIDE DEF me
<1>5. Sure(notices, r, me) BY <1>2, <1>3, <1>4 DEF Sure
<1> QED BY <1>2, <1>3, <1>5, SilentStep

LEMMA PollKillKeeps ==
  ASSUME DepInv, NEW r \in Runner, PollKill(r)
  PROVE  DepInv'
<1> DEFINE me == [runner[r] EXCEPT !.pc = "killed"]
<1>1. runner[r] \in RunnerState BY DEF DepInv, DepTypeOK
<1>2. me \in RunnerState /\ me.pc = "killed" /\ me.began = runner[r].began
  BY <1>1 DEF RunnerState
<1>3. runner' = [runner EXCEPT ![r] = me] /\ UNCHANGED notices /\ runner[r].pc = "running"
  BY DEF PollKill, DepInv, DepTypeOK
<1>4. Sure(notices, r, runner[r]) BY DEF DepInv
<1> HIDE DEF me
<1>5. Sure(notices, r, me) BY <1>2, <1>3, <1>4 DEF Sure
<1> QED BY <1>2, <1>3, <1>5, SilentStep

(* Something is said; a PASS of the CAO or of a controller has its ground. *)
LEMMA SaidStep ==
  ASSUME DepInv, NEW c \in Notice, notices' = Append(notices, c),
         runner' \in [Runner -> RunnerState],
         \A r \in Runner : Sure(notices, r, runner'[r]),
         c.kind \in {"verdictpass", "autogo"} => Passed(notices, Len(notices), c.item)
  PROVE  DepInv'
<1>1. notices \in Seq(Notice) BY DEF DepInv, DepTypeOK
<1>2. Append(notices, c) \in Seq(Notice) BY <1>1, LogGrows
<1>3. Grounded(Append(notices, c)) BY <1>1, GroundedStays DEF DepInv
<1>4. \A r \in Runner : runner'[r].began \in Nat BY DEF RunnerState
<1>5. \A r \in Runner : Sure(Append(notices, c), r, runner'[r]) BY <1>1, <1>4, SureStays
<1> QED BY <1>2, <1>3, <1>5 DEF DepInv, DepTypeOK

LEMMA ReportRunKeeps ==
  ASSUME DepInv, NEW r \in Runner, NEW kind \in Report, NEW landed \in BOOLEAN,
         ReportRun(r, kind, landed)
  PROVE  DepInv'
<1> DEFINE me == [runner[r] EXCEPT !.pc = "reported"]
           c == [item |-> ItemOf[r], kind |-> kind]
<1>1. runner[r] \in RunnerState BY DEF DepInv, DepTypeOK
<1>2. me \in RunnerState /\ me.pc = "reported" /\ me.began = runner[r].began
  BY <1>1 DEF RunnerState
<1>3. /\ runner' = [runner EXCEPT ![r] = me] /\ runner[r].pc \in {"running", "killed"}
      /\ notices' = IF landed THEN Append(notices, c) ELSE notices
  BY DEF ReportRun, DepInv, DepTypeOK
<1>4. c \in Notice /\ c.item = ItemOf[r] /\ c.kind = kind
  BY RefsAssumption DEF Notice, Report, Spoken
<1>5. Sure(notices, r, runner[r]) BY DEF DepInv
<1> HIDE DEF me, c
<1>6. Sure(notices, r, me) BY <1>2, <1>3, <1>5 DEF Sure
<1>7. c.kind \notin {"verdictpass", "autogo"} BY <1>4 DEF Report
<1>8. CASE ~landed BY <1>2, <1>3, <1>6, <1>8, SilentStep
<1>9. CASE landed
  <2>1. runner' \in [Runner -> RunnerState] BY <1>2, <1>3 DEF DepInv, DepTypeOK
  <2>2. \A q \in Runner : Sure(notices, q, runner'[q])
    BY <1>3, <1>6 DEF DepInv, DepTypeOK
  <2> QED BY <1>3, <1>4, <1>7, <1>9, <2>1, <2>2, SaidStep
<1> QED BY <1>8, <1>9

(* A verdict rests on a report, an AUTO-GO on a verdict of PASS. *)
LEMMA CommentKeeps ==
  ASSUME DepInv, NEW i \in Item, NEW kind \in DOMAIN Spoken, Comment(i, kind)
  PROVE  DepInv'
<1> DEFINE c == [item |-> i, kind |-> kind]
<1>1. c \in Notice /\ c.item = i /\ c.kind = kind BY DEF Notice
<1>2. notices' = Append(notices, c) /\ UNCHANGED runner BY DEF Comment
<1>3. /\ notices \in Seq(Notice) /\ DOMAIN notices = 1..Len(notices)
      /\ Len(notices) \in Nat
  BY DEF DepInv, DepTypeOK
<1>4. kind \in {"release", "kill"} \cup CaoVerdicts(notices, i) \cup Decisions(notices, i)
  BY DEF Comment
<1>5. ASSUME kind = "verdictpass" PROVE Passed(notices, Len(notices), i)
  <2>1. kind \notin Decisions(notices, i) BY <1>5 DEF Decisions, Decided
  <2>2. kind \in CaoVerdicts(notices, i) BY <1>4, <1>5, <2>1
  <2>3. PICK p \in DOMAIN notices : notices[p] = [item |-> i, kind |-> "reportpass"]
    BY <1>5, <2>2 DEF CaoVerdicts
  <2> QED BY <1>3, <2>3 DEF Passed
<1>6. ASSUME kind = "autogo" PROVE Passed(notices, Len(notices), i)
  <2>1. kind \notin CaoVerdicts(notices, i) BY <1>6 DEF CaoVerdicts
  <2>2. kind \in Decisions(notices, i) BY <1>4, <1>6, <2>1
  <2>3. PICK p \in DOMAIN notices :
          /\ notices[p].item = i /\ notices[p].kind \in DOMAIN Decided
          /\ kind \in Decided[notices[p].kind]
    BY <1>6, <2>2 DEF Decisions, Decided
  <2>4. notices[p].kind = "verdictpass" BY <1>6, <2>3 DEF Decided
  <2>5. PICK g \in 1..p : notices[g].item = i /\ notices[g].kind = "reportpass"
    BY <2>3, <2>4 DEF DepInv, Grounded, Passed
  <2>6. g \in 1..Len(notices) BY <1>3, <2>5
  <2> QED BY <2>5, <2>6 DEF Passed
<1>7. kind \in {"verdictpass", "autogo"} => Passed(notices, Len(notices), i)
  BY <1>5, <1>6
<1> HIDE DEF c
<1> QED BY <1>1, <1>2, <1>7, SaidStep DEF DepInv, DepTypeOK

LEMMA DepNextKeeps == DepInv /\ [DepNext]_depVars => DepInv'
<1> SUFFICES ASSUME DepInv, [DepNext]_depVars PROVE DepInv' OBVIOUS
<1>1. CASE DepNext
  BY <1>1, BeginRunKeeps, ReadDependencyKeeps, StartWorkerKeeps, PollKillKeeps,
     ReportRunKeeps, CommentKeeps DEF DepNext
<1>2. CASE UNCHANGED depVars BY <1>2 DEF depVars, DepInv, DepTypeOK
<1> QED BY <1>1, <1>2

LEMMA DepInvOrders == DepInv => WorkFollowsOrder
  BY DEF DepInv, Sure, ClearedSince, WorkFollowsOrder

-----------------------------------------------------------------------------
(* For every graph of references, however runs, lost reports, failed         *)
(* requests, verdicts, decisions made on outdated comments and releases      *)
(* interleave, no worker is started (preflightDependencies) but every item   *)
(* it depends on was cleared at some moment since its run began, by somebody *)
(* who had a report of PASS to go by or took the responsibility to release   *)
(* or park it.                                                             *)
THEOREM OrderIsFollowed == DepSpec => []WorkFollowsOrder
<1>1. DepInv /\ [DepNext]_depVars => DepInv' BY DepNextKeeps
<1>2. DepInv => WorkFollowsOrder BY DepInvOrders
<1> QED BY <1>1, <1>2, DepInitInv, PTL DEF DepSpec

-----------------------------------------------------------------------------
(* ContractGates: what three gates make sure of only together                *)

(* The contract is written once; a verdict is about that text. *)
Written == gate.pc # "unwritten" => paper \in Facets
Unwritten == gate.pc = "unwritten" => gate.review = "none"
Reviewed ==
  gate.review = "CONTRACT_PASS" => ReviewReasons(paper, gate.released) = {}
Locked ==
  gate.pc \in {"locked", "blocked", "started"} =>
    /\ ValidatorReasons(paper) = {}
    /\ gate.required => gate.review = "CONTRACT_PASS"
Preflown ==
  gate.pc = "started" => \E env \in Environment : PreflightPasses(paper, env)

GatesInv == GateTypeOK /\ Written /\ Unwritten /\ Reviewed /\ Locked /\ Preflown

-----------------------------------------------------------------------------
(* What the verdicts mean *)

LEMMA VerdictInType ==
  ASSUME NEW reasons
  PROVE  /\ ReviewVerdict(reasons) \in
              {"CONTRACT_PASS", "CONTRACT_PATCH_REQUIRED", "SPEC_REQUIRED",
               "SPLIT_REQUIRED", "CEO_GATE_REQUIRED", "FOUNDER_GATE_REQUIRED"}
         /\ ReviewVerdict(reasons) = "CONTRACT_PASS" => reasons = {}
  BY DEF ReviewVerdict

LEMMA NoReasons ==
  ASSUME NEW c, NEW released \in BOOLEAN, ReviewReasons(c, released) = {}
  PROVE  /\ ~NeedsPatch(c)
         /\ FounderRisk(c) => released
         /\ HighRiskWork(c) => released
<1>1. ~NeedsPatch(c)
  <2>1. NeedsPatch(c) => "patch" \in ReviewReasons(c, released) BY DEF ReviewReasons
  <2> QED BY <2>1
<1>2. FounderRisk(c) => released
  <2>1. FounderRisk(c) /\ ~released =>
          "strategic-founder-gate" \in ReviewReasons(c, released)
    BY DEF ReviewReasons
  <2> QED BY <2>1
<1>3. HighRiskWork(c) => released
  <2>1. HighRiskWork(c) /\ ~FounderRisk(c) /\ ~released =>
          "high-risk-ceo-gate" \in ReviewReasons(c, released)
    BY DEF ReviewReasons
  <2> QED BY <1>2, <2>1
<1> QED BY <1>1, <1>2, <1>3

LEMMA ValidIsLive ==
  ASSUME NEW c \in Facets, ValidatorReasons(c) = {}
  PROVE  Live(c)
<1>1. c.shape \in {"flat", "wrapped", "missing"} BY DEF Facets
<1>2. c.shape = "missing" => "required-field-missing" \in ValidatorReasons(c)
  BY DEF ValidatorReasons, Parsed
<1>3. c.shape = "wrapped" => "fields-wrapped" \in ValidatorReasons(c)
  BY DEF ValidatorReasons
<1>4. c.shape = "flat" /\ ~Live(c) => "dispatch-not-ready" \in ValidatorReasons(c)
  BY DEF ValidatorReasons
<1> QED BY <1>1, <1>2, <1>3, <1>4

(* A contract that a review, a lock and the preflights let through. *)
LEMMA TogetherBounded ==
  ASSUME NEW c \in Facets, NEW env \in Environment, NEW released \in BOOLEAN,
         ReviewReasons(c, released) = {}, ValidatorReasons(c) = {},
         PreflightPasses(c, env)
  PROVE  /\ c.implement => c.sandbox /\ c.workspace = "sandbox" /\ c.writePaths
         /\ RuntimeWorker(c) =>
              /\ c.profile = "registered" /\ c.misfit = "none"
              /\ c.spend = "zero" /\ c.limits
              /\ c.ui # {} => c.browser # "undeclared"
<1>1. ~NeedsPatch(c) /\ Live(c) BY NoReasons, ValidIsLive
<1>2. c.implement => c.sandbox /\ c.writePaths BY <1>1 DEF NeedsPatch
<1>3. c.implement => c.workspace = "sandbox"
  BY <1>2 DEF PreflightPasses, WorkspacePasses, SandboxPasses
<1>4. ASSUME RuntimeWorker(c)
      PROVE  /\ c.profile = "registered" /\ c.misfit = "none"
             /\ c.spend = "zero" /\ c.limits
             /\ c.ui # {} => c.browser # "undeclared"
  <2>1. c.profile = "registered" /\ c.misfit = "none"
    <3>1. c.profile \in {"none", "unregistered", "registered"} BY DEF Facets
    <3>2. CapabilityPasses(c, env) BY DEF PreflightPasses
    <3>3. c.profile # "none" BY <1>1, <1>4 DEF NeedsPatch
    <3> QED BY <3>1, <3>2, <3>3 DEF CapabilityPasses
  <2>2. c.spend = "zero" /\ c.limits
    BY DEF PreflightPasses, BudgetPasses, TimeoutPasses
  <2>3. c.ui # {} => c.browser # "undeclared"
    <3>1. c.ui \subseteq {"review", "dispatcher"} BY DEF Facets
    <3>2. "review" \in c.ui => c.browser # "undeclared" BY <1>1, <1>4 DEF NeedsPatch
    <3>3. "dispatcher" \in c.ui => c.browser # "undeclared"
      BY DEF PreflightPasses, BrowserPasses
    <3> QED BY <3>1, <3>2, <3>3
  <2> QED BY <2>1, <2>2, <2>3
<1> QED BY <1>2, <1>3, <1>4

-----------------------------------------------------------------------------
LEMMA GateInitInv == GateInit => GatesInv
  BY DEF GateInit, GatesInv, GateTypeOK, GateState, Written, Unwritten, Reviewed, Locked,
         Preflown

LEMMA WritePaperKeeps == GatesInv /\ WritePaper => GatesInv'
<1> SUFFICES ASSUME GatesInv, WritePaper PROVE GatesInv' OBVIOUS
<1>1. gate \in GateState BY DEF GatesInv, GateTypeOK
<1>2. /\ gate' \in GateState /\ gate'.pc = "written" /\ gate'.review = gate.review
      /\ gate.review = "none" /\ paper' \in Facets
  BY <1>1, PaperAssumption DEF WritePaper, GateState, GatesInv, Unwritten
<1> QED BY <1>2 DEF GatesInv, GateTypeOK, Written, Unwritten, Reviewed, Locked, Preflown

LEMMA ReviewPaperKeeps ==
  ASSUME GatesInv, NEW released \in BOOLEAN, ReviewPaper(released)
  PROVE  GatesInv'
<1> DEFINE verdict == ReviewVerdict(ReviewReasons(paper, released))
<1>1. gate \in GateState BY DEF GatesInv, GateTypeOK
<1>2. /\ gate.pc = "written" /\ paper' = paper
      /\ gate' = [gate EXCEPT !.review = verdict, !.released = released]
  BY DEF ReviewPaper
<1>3. /\ verdict \in {"CONTRACT_PASS", "CONTRACT_PATCH_REQUIRED", "SPEC_REQUIRED",
                      "SPLIT_REQUIRED", "CEO_GATE_REQUIRED", "FOUNDER_GATE_REQUIRED"}
      /\ verdict = "CONTRACT_PASS" => ReviewReasons(paper, released) = {}
  BY VerdictInType
<1> HIDE DEF verdict
<1>4. /\ gate' \in GateState /\ gate'.pc = "written" /\ gate'.review = verdict
      /\ gate'.released = released
  BY <1>1, <1>2, <1>3 DEF GateState
<1>5. Reviewed' BY <1>2, <1>3, <1>4 DEF Reviewed
<1> QED BY <1>2, <1>4, <1>5 DEF GatesInv, GateTypeOK, Written, Unwritten, Locked, Preflown

LEMMA JudgeKeeps == GatesInv /\ JudgeExecutability => GatesInv'
<1> SUFFICES ASSUME GatesInv, JudgeExecutability PROVE GatesInv' OBVIOUS
<1>1. gate \in GateState BY DEF GatesInv, GateTypeOK
<1>2. Executability(paper) \in
        {"RUNTIME_READY_PASS", "RUNTIME_READY_REJECT", "RUNTIME_READY_SKIPPED"}
  BY DEF Executability
<1>3. /\ gate' \in GateState /\ gate'.pc = "written" /\ gate'.review = gate.review
      /\ gate'.released = gate.released /\ paper' = paper /\ gate.pc = "written"
  BY <1>1, <1>2 DEF JudgeExecutability, GateState
<1> QED BY <1>3 DEF GatesInv, GateTypeOK, Written, Unwritten, Reviewed, Locked, Preflown

LEMMA LockPaperKeeps ==
  ASSUME GatesInv, NEW required \in BOOLEAN, LockPaper(required)
  PROVE  GatesInv'
<1>1. gate \in GateState BY DEF GatesInv, GateTypeOK
<1>2. /\ gate' \in GateState /\ gate'.pc = "locked" /\ gate'.required = required
      /\ gate'.review = gate.review /\ gate'.released = gate.released
      /\ paper' = paper /\ gate.pc = "written"
      /\ ValidatorReasons(paper) = {} /\ (required => gate.review = "CONTRACT_PASS")
  BY <1>1 DEF LockPaper, GateState
<1> QED BY <1>2 DEF GatesInv, GateTypeOK, Written, Unwritten, Reviewed, Locked, Preflown

LEMMA StartPaperKeeps ==
  ASSUME GatesInv, NEW env \in Environment, StartPaper(env)
  PROVE  GatesInv'
<1> DEFINE calm == \A f \in DOMAIN env : env[f]
<1>1. gate \in GateState BY DEF GatesInv, GateTypeOK
<1>2. /\ gate.pc = "locked" /\ paper' = paper
      /\ gate' = [gate EXCEPT !.pc = IF PreflightPasses(paper, env) /\ Resolves(paper)
                                     THEN "started" ELSE "blocked",
                              !.calm = calm]
  BY DEF StartPaper
<1>3. calm \in BOOLEAN OBVIOUS
<1> HIDE DEF calm
<1>4. /\ gate' \in GateState /\ gate'.pc \in {"started", "blocked"}
      /\ gate'.pc = "started" => PreflightPasses(paper, env)
      /\ gate'.review = gate.review /\ gate'.released = gate.released
      /\ gate'.required = gate.required
  BY <1>1, <1>2, <1>3 DEF GateState
<1> QED BY <1>2, <1>4 DEF GatesInv, GateTypeOK, Written, Unwritten, Reviewed, Locked, Preflown

LEMMA GateNextKeeps == GatesInv /\ [GateNext]_gateVars => GatesInv'
<1> SUFFICES ASSUME GatesInv, [GateNext]_gateVars PROVE GatesInv' OBVIOUS
<1>1. CASE GateNext
  BY <1>1, WritePaperKeeps, ReviewPaperKeeps, JudgeKeeps, LockPaperKeeps,
     StartPaperKeeps DEF GateNext
<1>2. CASE UNCHANGED gateVars
  BY <1>2 DEF gateVars, GatesInv, GateTypeOK, Written, Unwritten, Reviewed, Locked, Preflown
<1> QED BY <1>1, <1>2

(* Whatever the contract says: with reviews required, what is started runs   *)
(* boxed if it may write, bounded if a model runs it, and released if it is *)
(* at a gate, although no single one of the review, the validator of the    *)
(* lock and runDryRun's preflights sees to any of the three alone.          *)
THEOREM StartedAreReleased == GateSpec => []StartedIsReleased
<1>1. GatesInv => StartedIsReleased
  <2> SUFFICES ASSUME GatesInv PROVE StartedIsReleased OBVIOUS
  <2>1. GateTypeOK BY DEF GatesInv
  <2>2. ASSUME gate.pc = "started", gate.required
        PROVE  /\ paper.implement =>
                    paper.sandbox /\ paper.workspace = "sandbox" /\ paper.writePaths
               /\ RuntimeWorker(paper) =>
                    /\ paper.profile = "registered" /\ paper.misfit = "none"
                    /\ paper.spend = "zero" /\ paper.limits
                    /\ paper.ui # {} => paper.browser # "undeclared"
               /\ FounderRisk(paper) \/ HighRiskWork(paper) => gate.released
    <3>1. /\ paper \in Facets /\ gate.released \in BOOLEAN
          /\ ReviewReasons(paper, gate.released) = {} /\ ValidatorReasons(paper) = {}
      BY <2>1, <2>2 DEF GatesInv, GateTypeOK, GateState, Written, Locked, Reviewed
    <3>2. PICK env \in Environment : PreflightPasses(paper, env)
      BY <2>2 DEF GatesInv, Preflown
    <3> QED BY <3>1, <3>2, TogetherBounded, NoReasons
  <2> QED BY <2>1, <2>2
          DEF StartedIsReleased, WritersAreBoxed, StartedIsBounded, GatesAreReleased
<1> QED BY <1>1, GateInitInv, GateNextKeeps, PTL DEF GateSpec

-----------------------------------------------------------------------------
(* WriteAttribution: who is held for a write *)

Places == Workspace \cup Foreign
Uses ==
  [tool : {"Write", "Read", "Bash", "Shell", "Quote"}, file : Places,
   whole : BOOLEAN, made : BOOLEAN]
RunState ==
  [phase : {"setup", "running", "closed", "over"}, baseline : SUBSET Strays,
   named : SUBSET Places,
   cause : {"", "scope-read-drift", "scope-write-drift", "scope-drift"},
   verdict : {"", "PASS", "NEEDS_HUMAN"}, blind : BOOLEAN]

AttributionTypeOK ==
  /\ guard \in [mode : {"kill", "warn"}, paths : BOOLEAN]
  /\ by \in [Workspace -> SUBSET Hands]
  /\ uses \in Seq(Uses)
  /\ heard \in 0..Len(uses)
  /\ run \in RunState

(* A file is named by the lines that were heard, and by nothing else.      *)
NamedIsHeard ==
  /\ \A f \in run.named : \E i \in 1..heard : Writes(uses[i]) /\ uses[i].file = f
  /\ \A i \in 1..heard : Writes(uses[i]) => uses[i].file \in run.named

(* The killing guard answers every line that violates the write scope.     *)
ViolationKills ==
  guard.mode = "kill" /\ (\E i \in 1..heard : WriteViolation(uses[i])) => run.cause # ""

Phases ==
  /\ run.phase = "setup" => uses = <<>> /\ heard = 0 /\ run.named = {} /\ run.cause = ""
  /\ run.phase \in {"closed", "over"} => heard = Len(uses)
  /\ run.phase # "over" => run.verdict = ""

AttributionInv ==
  /\ AttributionTypeOK /\ NamedIsHeard /\ ViolationKills /\ Phases /\ GuardIsFair

LEMMA TargetsArePlaces ==
  ASSUME NEW tool PROVE Targets(tool) \subseteq Places
  BY DEF Targets, Places, Workspace

LEMMA AttributionInitInv == AttributionInit => AttributionInv
<1> SUFFICES ASSUME AttributionInit PROVE AttributionInv OBVIOUS
<1>1. run = Waiting /\ uses = <<>> /\ heard = 0 BY DEF AttributionInit
<1>2. run \in RunState BY <1>1 DEF RunState, Waiting
<1>3. by \in [Workspace -> SUBSET Hands] /\ guard \in [mode : {"kill", "warn"}, paths : BOOLEAN]
  BY DEF AttributionInit
<1>4. uses \in Seq(Uses) /\ heard \in 0..Len(uses) BY <1>1
<1>5. AttributionTypeOK BY <1>2, <1>3, <1>4 DEF AttributionTypeOK
<1>6. run.cause = "" /\ run.verdict = "" /\ run.named = {} /\ run.phase = "setup"
  BY <1>1 DEF Waiting
<1>7. NamedIsHeard /\ ViolationKills
  <2>1. 1..heard = {} BY <1>1
  <2> QED BY <1>6, <2>1, Zenon DEF NamedIsHeard, ViolationKills
<1>8. Phases BY <1>1, <1>6 DEF Phases
<1>9. GuardIsFair BY <1>6 DEF GuardIsFair, BlameHasARecord, ToolWritesAreSeen, WriteCauses
<1> QED BY <1>5, <1>7, <1>8, <1>9 DEF AttributionInv

(* While the worker runs, neither half of the property can be lost to an   *)
(* edit of the files: nothing is concluded, and a reason rests on lines.   *)
LEMMA LaunchKeeps ==
  ASSUME AttributionInv, NEW mode \in {"kill", "warn"}, NEW dirty \in SUBSET Strays,
         NEW declared \in {"none", "unresolved", "resolves"},
         NEW scope \in {"none", "resolves"}, Launch(mode, declared, scope, dirty)
  PROVE  AttributionInv'
<1>1. /\ run.phase = "setup" /\ uses = <<>> /\ run.cause = "" /\ run.verdict = ""
      /\ heard = 0 /\ run.named = {}
  BY DEF AttributionInv, Phases, Launch
<1>2. run' \in RunState /\ run'.phase = "running" /\ run'.named = run.named
      /\ run'.cause = "" /\ run'.verdict = ""
  BY <1>1 DEF AttributionInv, AttributionTypeOK, Launch, RunState
<1>3. guard' \in [mode : {"kill", "warn"}, paths : BOOLEAN]
  BY DEF Launch, WritePaths
<1>4. by' \in [Workspace -> SUBSET Hands]
  BY DEF Launch, Hands
<1>5. uses' = <<>> /\ heard' = 0 BY <1>1 DEF Launch
<1>6. AttributionTypeOK'
  <2>1. uses' \in Seq(Uses) /\ heard' \in 0..Len(uses') BY <1>5
  <2> QED BY <1>2, <1>3, <1>4, <2>1 DEF AttributionTypeOK
<1>7. NamedIsHeard' /\ ViolationKills'
  <2>1. run'.named = {} BY <1>1, <1>2
  <2>2. heard' = 0 BY <1>5
  <2>3. 1..heard' = {} BY <2>2
  <2> QED BY <2>1, <2>3, Zenon DEF NamedIsHeard, ViolationKills
<1>8. Phases' BY <1>2 DEF Phases
<1>9. GuardIsFair' BY <1>2 DEF GuardIsFair, BlameHasARecord, ToolWritesAreSeen, WriteCauses
<1> QED BY <1>6, <1>7, <1>8, <1>9 DEF AttributionInv

(* A call added or made leaves the lines heard so far as they are.         *)
LEMMA LinesKeep ==
  ASSUME AttributionInv, run.phase = "running", UNCHANGED <<guard, heard, run>>,
         uses' \in Seq(Uses), by' \in [Workspace -> SUBSET Hands], Len(uses') >= Len(uses),
         \A i \in 1..heard : /\ uses'[i].tool = uses[i].tool
                             /\ uses'[i].file = uses[i].file
                             /\ uses'[i].whole = uses[i].whole
  PROVE  AttributionInv'
<1>1. \A i \in 1..heard : (Writes(uses[i])' <=> Writes(uses[i]))
                          /\ (WriteViolation(uses[i])' <=> WriteViolation(uses[i]))
  BY DEF Writes, WriteViolation, AllowedWrites
<1>2. heard \in 0..Len(uses') BY DEF AttributionInv, AttributionTypeOK
<1>3. AttributionTypeOK' BY <1>2 DEF AttributionInv, AttributionTypeOK
<1>4. NamedIsHeard' BY <1>1 DEF AttributionInv, NamedIsHeard
<1>5. ViolationKills' BY <1>1 DEF AttributionInv, ViolationKills
<1>6. Phases' BY DEF AttributionInv, Phases
<1>7. BlameHasARecord' BY <1>1 DEF AttributionInv, GuardIsFair, BlameHasARecord
<1>8. ToolWritesAreSeen' BY DEF AttributionInv, Phases, ToolWritesAreSeen
<1> QED BY <1>3, <1>4, <1>5, <1>6, <1>7, <1>8 DEF AttributionInv, GuardIsFair

LEMMA CallToolKeeps ==
  ASSUME AttributionInv, NEW tool \in {"Write", "Read", "Bash", "Shell", "Quote"},
         NEW file \in Targets(tool), NEW whole \in Wholes(tool), CallTool(tool, file, whole)
  PROVE  AttributionInv'
<1>1. Call(tool, file, whole) \in Uses
  BY TargetsArePlaces DEF Call, Uses, Wholes
<1> DEFINE u == Call(tool, file, whole)
<1>2. uses' = Append(uses, u) /\ u \in Uses /\ uses \in Seq(Uses) /\ heard \in 0..Len(uses)
  BY <1>1 DEF CallTool, AttributionInv, AttributionTypeOK
<1> HIDE DEF u
<1>3. /\ uses' \in Seq(Uses) /\ Len(uses') >= Len(uses)
      /\ \A i \in 1..heard : uses'[i] = uses[i]
  BY <1>2
<1> QED BY <1>3, LinesKeep DEF CallTool, AttributionInv, AttributionTypeOK

LEMMA MakeCallKeeps ==
  ASSUME AttributionInv, NEW writes \in BOOLEAN, MakeCall(writes)
  PROVE  AttributionInv'
<1> DEFINE n == Len(uses)
           made == [uses[n] EXCEPT !.made = TRUE]
<1>1. uses \in Seq(Uses) /\ heard \in 0..n /\ by \in [Workspace -> SUBSET Hands]
  BY DEF AttributionInv, AttributionTypeOK
<1>2. n \in DOMAIN uses BY <1>1 DEF MakeCall, Settled
<1>3. uses[n] \in Uses BY <1>1, <1>2
<1>4. /\ made \in Uses /\ made.tool = uses[n].tool /\ made.file = uses[n].file
      /\ made.whole = uses[n].whole
  BY <1>3 DEF Uses
<1>5. uses' = [uses EXCEPT ![n] = made] BY DEF MakeCall
<1> HIDE DEF made
<1>6. /\ uses' \in Seq(Uses) /\ Len(uses') = n
      /\ \A i \in 1..heard : uses'[i] = IF i = n THEN made ELSE uses[i]
  BY <1>1, <1>2, <1>4, <1>5
<1>7. by' \in [Workspace -> SUBSET Hands]
  BY <1>1, <1>3 DEF MakeCall, Effect, Hands, Uses
<1> QED BY <1>1, <1>4, <1>6, <1>7, LinesKeep DEF MakeCall

LEMMA HearLineKeeps == AttributionInv /\ HearLine => AttributionInv'
<1> SUFFICES ASSUME AttributionInv, HearLine PROVE AttributionInv' OBVIOUS
<1> DEFINE n == heard + 1
           u == uses[n]
           cause == CASE guard.mode = "kill" /\ ReadViolation(u) -> Reason("scope-read-drift")
                      [] guard.mode = "kill" /\ WriteViolation(u) -> Reason("scope-write-drift")
                      [] OTHER -> run.cause
           named == IF Writes(u) THEN run.named \cup {u.file} ELSE run.named
<1>1. /\ uses \in Seq(Uses) /\ n \in 1..Len(uses) /\ heard' = n /\ run \in RunState
      /\ run.phase = "running" /\ UNCHANGED <<guard, by, uses>> /\ heard \in Nat
  BY DEF AttributionInv, AttributionTypeOK, HearLine
<1>2. u \in Uses BY <1>1
<1>3. run' = [run EXCEPT !.named = named, !.cause = cause] BY DEF HearLine
<1>4. cause \in {"", "scope-read-drift", "scope-write-drift", "scope-drift"}
  BY <1>1 DEF Reason, RunState
<1>5. named \in SUBSET Places BY <1>1, <1>2 DEF RunState, Uses
<1>6. run.cause # "" => cause # "" BY DEF Reason
<1>7. guard.mode = "kill" /\ WriteViolation(u) => cause # "" BY DEF Reason
<1>8. cause \in WriteCauses => run.cause \in WriteCauses \/ WriteViolation(u)
  BY DEF Reason, WriteCauses
<1> HIDE DEF cause
<1>9. /\ run' \in RunState /\ run'.named = named /\ run'.cause = cause
      /\ run'.phase = "running" /\ run'.verdict = run.verdict
  BY <1>1, <1>3, <1>4, <1>5 DEF RunState
<1>10. /\ \A x \in Uses : (Writes(x)' <=> Writes(x)) /\ (WriteViolation(x)' <=> WriteViolation(x))
       /\ \A i \in 1..n : uses'[i] = uses[i] /\ uses[i] \in Uses
       /\ 1..n = 1..heard \cup {n}
  BY <1>1 DEF Writes, WriteViolation, AllowedWrites
<1>11. AttributionTypeOK'
  BY <1>1, <1>9 DEF AttributionInv, AttributionTypeOK
<1>12. NamedIsHeard'
  BY <1>1, <1>9, <1>10 DEF AttributionInv, NamedIsHeard
<1>13. ViolationKills'
  BY <1>1, <1>6, <1>7, <1>9, <1>10 DEF AttributionInv, ViolationKills
<1>14. Phases' BY <1>1, <1>9 DEF AttributionInv, Phases
<1>15. BlameHasARecord'
  <2> SUFFICES ASSUME cause \in WriteCauses
               PROVE  guard.paths /\ \E i \in 1..n : WriteViolation(uses[i])
    BY <1>1, <1>9, <1>10 DEF BlameHasARecord
  <2>1. CASE WriteViolation(u) BY <2>1, <1>1 DEF WriteViolation
  <2>2. CASE run.cause \in WriteCauses
    BY <2>2, <1>10 DEF AttributionInv, GuardIsFair, BlameHasARecord
  <2> QED BY <2>1, <2>2, <1>8
<1>16. ToolWritesAreSeen'
  BY <1>1, <1>9 DEF AttributionInv, Phases, ToolWritesAreSeen
<1> QED BY <1>11, <1>12, <1>13, <1>14, <1>15, <1>16 DEF AttributionInv, GuardIsFair

(* A changed file out of the scope that is the worker's was named by a     *)
(* line that is a violation: the dispatcher's own files are in the scope.  *)
LEMMA StraysHaveLines ==
  ASSUME AttributionInv, NEW answers \in BOOLEAN, NEW names \in SUBSET (run.named \cup Owned),
         OutOfScope(Attributed(NewChanges(answers), names)) # {}
  PROVE  guard.paths /\ \E i \in 1..heard : WriteViolation(uses[i])
<1>1. guard.paths BY DEF OutOfScope
<1>2. PICK f : f \in Changed /\ f \in names /\ f \notin AllowedWrites
  BY DEF OutOfScope, Attributed, NewChanges
<1>3. f \in run.named BY <1>1, <1>2 DEF AllowedWrites
<1>4. PICK i \in 1..heard : Writes(uses[i]) /\ uses[i].file = f
  BY <1>3 DEF AttributionInv, NamedIsHeard
<1>5. f \notin Scratch BY <1>2, AttributionPlaces DEF Changed, Workspace
<1> QED BY <1>1, <1>2, <1>4, <1>5 DEF WriteViolation

LEMMA HeartbeatKeeps ==
  ASSUME AttributionInv, NEW answers \in BOOLEAN, Heartbeat(answers)
  PROVE  AttributionInv'
<1>1. guard.paths /\ \E i \in 1..heard : WriteViolation(uses[i])
  BY StraysHaveLines DEF Heartbeat
<1>2. /\ run.phase = "running" /\ run' = [run EXCEPT !.cause = "scope-drift"]
      /\ run \in RunState /\ UNCHANGED <<guard, by, uses, heard>>
  BY DEF Heartbeat, AttributionInv, AttributionTypeOK
<1>3. /\ run' \in RunState /\ run'.named = run.named /\ run'.cause = "scope-drift"
      /\ run'.phase = "running" /\ run'.verdict = run.verdict
  BY <1>2 DEF RunState
<1>4. \A i \in 1..heard : (Writes(uses[i])' <=> Writes(uses[i]))
                          /\ (WriteViolation(uses[i])' <=> WriteViolation(uses[i]))
  BY <1>2 DEF Writes, WriteViolation, AllowedWrites
<1>5. AttributionTypeOK' /\ NamedIsHeard' /\ ViolationKills' /\ Phases'
  BY <1>2, <1>3, <1>4
     DEF AttributionInv, AttributionTypeOK, NamedIsHeard, ViolationKills, Phases
<1>6. BlameHasARecord' BY <1>1, <1>2, <1>4 DEF BlameHasARecord
<1>7. ToolWritesAreSeen' BY <1>2, <1>3 DEF AttributionInv, Phases, ToolWritesAreSeen
<1> QED BY <1>5, <1>6, <1>7 DEF AttributionInv, GuardIsFair

LEMMA WorkerClosesKeeps == AttributionInv /\ WorkerCloses => AttributionInv'
<1> SUFFICES ASSUME AttributionInv, WorkerCloses PROVE AttributionInv' OBVIOUS
<1>1. /\ run' \in RunState /\ run'.named = run.named /\ run'.cause = run.cause
      /\ run'.phase = "closed" /\ run'.verdict = run.verdict /\ run.verdict = ""
      /\ UNCHANGED <<guard, by, uses, heard>> /\ heard = Len(uses)
  BY DEF AttributionInv, AttributionTypeOK, Phases, WorkerCloses, RunState
<1>2. \A i \in 1..heard : (Writes(uses[i])' <=> Writes(uses[i]))
                          /\ (WriteViolation(uses[i])' <=> WriteViolation(uses[i]))
  BY <1>1 DEF Writes, WriteViolation, AllowedWrites
<1> QED BY <1>1, <1>2 DEF AttributionInv, AttributionTypeOK, NamedIsHeard, ViolationKills,
     Phases, GuardIsFair, BlameHasARecord, ToolWritesAreSeen

(* The verdict.  If git answers, a file the worker wrote out of the scope  *)
(* is among the changes; if it does not, only a killing guard has looked.  *)
LEMMA ConcludeRunKeeps ==
  ASSUME AttributionInv, NEW answers \in BOOLEAN, ConcludeRun(answers)
  PROVE  AttributionInv'
<1> DEFINE strays == OutOfScope(Attributed(NewChanges(answers), run.named \cup Owned))
           final == FinalState(run.cause, strays)
<1>1. /\ run.phase = "closed" /\ run \in RunState /\ UNCHANGED <<guard, by, uses, heard>>
      /\ run' = [run EXCEPT !.phase = "over", !.blind = ~answers,
                            !.cause = final[1], !.verdict = final[2]]
      /\ heard = Len(uses)
  BY DEF ConcludeRun, AttributionInv, AttributionTypeOK, Phases
<1>2. /\ final[1] \in {"", "scope-read-drift", "scope-write-drift", "scope-drift"}
      /\ final[2] \in {"PASS", "NEEDS_HUMAN"}
      /\ final[2] = "PASS" => run.cause = "" /\ strays = {}
      /\ run.cause # "" => final[1] # ""
      /\ final[1] \in WriteCauses => run.cause \in WriteCauses \/ strays # {}
  BY <1>1 DEF FinalState, RunState, WriteCauses
<1>3. strays # {} => guard.paths /\ \E i \in 1..heard : WriteViolation(uses[i])
  BY StraysHaveLines
<1>4. ASSUME NEW f \in Strays \ run.baseline, "tool" \in by[f], guard.paths,
             NEW i \in 1..Len(uses), uses[i].tool = "Write", uses[i].file = f, uses[i].whole,
             guard.mode = "kill" \/ answers
      PROVE  run.cause # "" \/ strays # {}
  <2>1. Writes(uses[i]) /\ i \in 1..heard BY <1>1, <1>4 DEF Writes
  <2>2. f \in run.named BY <2>1, <1>4 DEF AttributionInv, NamedIsHeard
  <2>3. f \notin AllowedWrites \cup Scratch
    BY <1>4, AttributionPlaces DEF AllowedWrites
  <2>4. CASE answers
    <3>1. f \in NewChanges(answers) BY <1>4, <2>4 DEF NewChanges, Changed, Workspace
    <3> QED BY <3>1, <2>2, <2>3, <1>4 DEF Attributed, OutOfScope
  <2>5. CASE guard.mode = "kill"
    <3>1. WriteViolation(uses[i]) BY <1>4, <2>1, <2>3 DEF WriteViolation
    <3> QED BY <3>1, <2>1, <2>5 DEF AttributionInv, ViolationKills
  <2> QED BY <1>4, <2>4, <2>5
<1> HIDE DEF final, strays
<1>5. /\ run' \in RunState /\ run'.phase = "over" /\ run'.cause = final[1]
      /\ run'.verdict = final[2] /\ run'.named = run.named /\ run'.blind = ~answers
      /\ run'.baseline = run.baseline
  BY <1>1, <1>2 DEF RunState
<1>6. /\ \A i \in 1..heard : /\ Writes(uses[i])' <=> Writes(uses[i])
                             /\ WriteViolation(uses[i])' <=> WriteViolation(uses[i])
  BY <1>1 DEF Writes, WriteViolation, AllowedWrites
<1>7. AttributionTypeOK' BY <1>1, <1>5 DEF AttributionInv, AttributionTypeOK
<1>8. NamedIsHeard' BY <1>1, <1>5, <1>6 DEF AttributionInv, NamedIsHeard
<1>9. ViolationKills'
  BY <1>1, <1>2, <1>5, <1>6 DEF AttributionInv, ViolationKills
<1>10. Phases' BY <1>1, <1>5 DEF AttributionInv, Phases
<1>11. BlameHasARecord'
  BY <1>1, <1>2, <1>3, <1>5, <1>6 DEF AttributionInv, GuardIsFair, BlameHasARecord
<1>12. ToolWritesAreSeen'
  <2> SUFFICES ASSUME final[2] = "PASS", guard.paths, guard.mode = "kill" \/ answers,
                      NEW f \in Strays \ run.baseline, "tool" \in by[f],
                      NEW i \in 1..Len(uses), uses[i].tool = "Write", uses[i].file = f
               PROVE  ~uses[i].whole
    BY <1>1, <1>5 DEF ToolWritesAreSeen
  <2> QED BY <1>2, <1>4
<1> QED BY <1>7, <1>8, <1>9, <1>10, <1>11, <1>12 DEF AttributionInv, GuardIsFair

LEMMA InterfereKeeps ==
  ASSUME AttributionInv, NEW f \in Strays, NEW hands \in SUBSET Hands, Interfere(f, hands)
  PROVE  AttributionInv'
<1>1. /\ UNCHANGED <<guard, uses, heard, run>> /\ run.phase \in {"running", "closed"}
      /\ by' \in [Workspace -> SUBSET Hands]
  BY DEF AttributionInv, AttributionTypeOK, Interfere
<1>2. \A i \in 1..heard : (Writes(uses[i])' <=> Writes(uses[i]))
                          /\ (WriteViolation(uses[i])' <=> WriteViolation(uses[i]))
  BY <1>1 DEF Writes, WriteViolation, AllowedWrites
<1> QED BY <1>1, <1>2 DEF AttributionInv, AttributionTypeOK, NamedIsHeard, ViolationKills,
     Phases, GuardIsFair, BlameHasARecord, ToolWritesAreSeen

LEMMA AttributionNextKeeps ==
  AttributionInv /\ [AttributionNext]_attributionVars => AttributionInv'
<1> SUFFICES ASSUME AttributionInv, [AttributionNext]_attributionVars PROVE AttributionInv'
  OBVIOUS
<1>1. ASSUME NEW f \in Strays,
             Interfere(f, by[f] \cup {"others"}) \/ Interfere(f, {})
      PROVE  AttributionInv'
  <2>1. by[f] \cup {"others"} \in SUBSET Hands
    BY DEF AttributionInv, AttributionTypeOK, Workspace, Hands
  <2>2. {} \in SUBSET Hands OBVIOUS
  <2>3. CASE Interfere(f, by[f] \cup {"others"}) BY <2>1, <2>3, InterfereKeeps
  <2>4. CASE Interfere(f, {}) BY <2>2, <2>4, InterfereKeeps
  <2> QED BY <1>1, <2>3, <2>4
<1>2. ASSUME UNCHANGED attributionVars PROVE AttributionInv'
  BY <1>2 DEF attributionVars, AttributionInv, AttributionTypeOK, NamedIsHeard, ViolationKills,
     Phases, GuardIsFair, BlameHasARecord, ToolWritesAreSeen, Writes, WriteViolation,
     AllowedWrites
<1> QED
  BY <1>1, <1>2, LaunchKeeps, CallToolKeeps, MakeCallKeeps, HearLineKeeps, HeartbeatKeeps,
     WorkerClosesKeeps, ConcludeRunKeeps DEF AttributionNext

(* However files, tool calls, lines and heartbeats interleave, a run is     *)
(* held for a write only after a heard call that violates, and no whole     *)
(* edit call outside of the write paths goes unseen in a pass (runProcess's *)
(* heartbeat and close, and main's conclusion).                             *)
THEOREM GuardStaysFair == AttributionSpec => []GuardIsFair
<1>1. AttributionInv => GuardIsFair BY DEF AttributionInv
<1> QED BY <1>1, AttributionInitInv, AttributionNextKeeps, PTL DEF AttributionSpec

-----------------------------------------------------------------------------
(* BudgetBrake: what runs may cost *)

RouterState ==
  [phase : {"idle", "planned", "calling"}, prompt : Prompts \cup {"none"}, blocked : BOOLEAN,
   fits : BOOLEAN, models : Seq(STRING), rows : [Days -> Nat], writes : BOOLEAN,
   here : BOOLEAN]

Books == day \in Days /\ spent \in [Days -> Nat] /\ real \in [Days -> Nat]

BudgetTypeOK ==
  /\ Books
  /\ router \in [Router -> RouterState]
  /\ kept \in Prompts \cup {"none", "not stored"}
  /\ sound \in BOOLEAN

(* A secret is blocked when it is found, and a blocked prompt is not kept. *)
SecretsBlocked ==
  kept # "secret" /\ \A r \in Router : router[r].prompt = "secret" => router[r].blocked

(* Nothing is spent on days to come. *)
FutureIsFree ==
  \A d \in Days : d > day =>
    real[d] = 0 /\ (MonthOf(d) # MonthOf(day) => MonthSum(real, d) = 0)

(* Money for these models is left. *)
Room(models, book, d) ==
  /\ book[d] + ReserveFor(models) <= DailyBudget
  /\ MonthSum(book, d) + ReserveFor(models) <= MonthlyBudget

(* The one run there is keeps all it spends in its rows, and what it may    *)
(* still spend was reserved.                                               *)
RunIsCovered(me, ledger, book, d) ==
  me.phase # "idle" =>
    /\ \A e \in Days : book[e] = ledger[e] + me.rows[e]
    /\ me.writes
    /\ me.phase = "planned" => me.rows = Nothing
    /\ me.phase = "calling" \/ me.fits => Room(me.models, book, d)

Alone ==
  /\ \A q, r \in Router : q # r => router[q].phase = "idle" \/ router[r].phase = "idle"
  /\ \A r \in Router : RunIsCovered(router[r], spent, real, day)
  /\ (\A r \in Router : router[r].phase = "idle") => real = spent

BudgetInv ==
  /\ BudgetTypeOK /\ SecretsBlocked /\ FutureIsFree
  /\ sound => Alone /\ NoOverspend

-----------------------------------------------------------------------------
LEMMA Amounts ==
  /\ DailyBudget \in Nat /\ MonthlyBudget \in Nat /\ Reserve \in Nat /\ UnknownReserve \in Nat
  /\ Costs \subseteq Nat
  BY BudgetAssumption

LEMMA BookAdds ==
  ASSUME NEW book \in [Days -> Nat], NEW k \in Days, NEW c \in Nat
  PROVE  /\ [book EXCEPT ![k] = @ + c] \in [Days -> Nat]
         /\ \A d \in Days :
              [book EXCEPT ![k] = @ + c][d] = book[d] + (IF d = k THEN c ELSE 0)
  OBVIOUS

LEMMA DaysAreFinite ==
  /\ IsFiniteSet(Days)
  /\ \A d : IsFiniteSet({e \in Days : MonthOf(e) = MonthOf(d)})
<1>1. IsFiniteSet(Days) BY BudgetAssumption, FS_Interval DEF Days
<1> QED BY <1>1, FS_Subset

LEMMA MonthsGrow ==
  ASSUME NEW d \in Days, NEW e \in Days, d <= e
  PROVE  MonthOf(d) \in Nat /\ MonthOf(e) \in Nat /\ MonthOf(d) <= MonthOf(e)
<1> DEFINE Begun(x) == {m \in MonthStarts : m <= x}
<1>1. MonthStarts \subseteq 1..MaxDay /\ MaxDay \in Nat BY BudgetAssumption
<1>2. IsFiniteSet(1..MaxDay) BY <1>1, FS_Interval
<1>3. Begun(e) \in SUBSET (1..MaxDay) BY <1>1
<1>4. IsFiniteSet(Begun(e)) BY <1>2, <1>3, FS_Subset
<1>5. Begun(d) \in SUBSET Begun(e)
  <2>1. \A m \in MonthStarts : m \in Nat /\ d \in Nat /\ e \in Nat BY <1>1 DEF Days
  <2> QED BY <2>1
<1>6. /\ IsFiniteSet(Begun(d)) /\ Cardinality(Begun(d)) <= Cardinality(Begun(e))
  <2> HIDE DEF Begun
  <2> QED BY <1>4, <1>5, FS_Subset
<1>7. Cardinality(Begun(d)) \in Nat /\ Cardinality(Begun(e)) \in Nat
  <2> HIDE DEF Begun
  <2> QED BY <1>4, <1>6, FS_CardinalityType
<1> QED BY <1>6, <1>7 DEF MonthOf

LEMMA MonthSumIsNat ==
  ASSUME NEW book \in [Days -> Nat], NEW d PROVE MonthSum(book, d) \in Nat
  BY DaysAreFinite, SumIsNat DEF MonthSum

LEMMA MonthSumOfMonth ==
  ASSUME NEW book, NEW d, NEW e, MonthOf(d) = MonthOf(e)
  PROVE  MonthSum(book, d) = MonthSum(book, e)
  BY DEF MonthSum

LEMMA MonthSumOfNothing ==
  ASSUME NEW d PROVE MonthSum(Nothing, d) = 0
  BY DaysAreFinite, SumOfNothing DEF MonthSum, Nothing

LEMMA MonthSumAdds ==
  ASSUME NEW book \in [Days -> Nat], NEW k \in Days, NEW c \in Nat, NEW d
  PROVE  MonthSum([book EXCEPT ![k] = @ + c], d)
           = MonthSum(book, d) + (IF MonthOf(k) = MonthOf(d) THEN c ELSE 0)
<1> DEFINE S == {e \in Days : MonthOf(e) = MonthOf(d)}
           g == [book EXCEPT ![k] = @ + c]
<1>1. \A x \in S : book[x] \in Nat OBVIOUS
<1>2. \A x \in S : g[x] = IF x = k THEN book[x] + c ELSE book[x] OBVIOUS
<1>3. IsFiniteSet(S) BY DaysAreFinite
<1>4. k \in S <=> MonthOf(k) = MonthOf(d) OBVIOUS
<1> HIDE DEF S, g
<1>5. SumFunctionOnSet(g, S) = SumFunctionOnSet(book, S) + (IF k \in S THEN c ELSE 0)
  BY <1>1, <1>2, <1>3, SumAdds
<1> QED BY <1>4, <1>5 DEF MonthSum, S, g

LEMMA ReserveIsNat ==
  ASSUME NEW models \in Seq(STRING) PROVE ReserveFor(models) \in Nat
<1> DEFINE f == [n \in DOMAIN models |-> ReserveOf(models[n])]
<1>1. \A n \in DOMAIN models : f[n] \in Nat BY BudgetAssumption DEF ReserveOf
<1>2. IsFiniteSet(DOMAIN models)
  <2>1. DOMAIN models = 1..Len(models) /\ Len(models) \in Nat OBVIOUS
  <2> QED BY <2>1, FS_Interval
<1>3. DOMAIN f = DOMAIN models OBVIOUS
<1> HIDE DEF f
<1>4. SumFunctionOnSet(f, DOMAIN models) \in Nat BY <1>1, <1>2, SumIsNat
<1> QED BY <1>3, <1>4 DEF ReserveFor, SumFunction, f

LEMMA ReserveOfRest ==
  ASSUME NEW models \in Seq(STRING), models # <<>>
  PROVE  ReserveFor(models) = ReserveOf(Head(models)) + ReserveFor(Tail(models))
<1> DEFINE f == [n \in DOMAIN models |-> ReserveOf(models[n])]
           g == [n \in DOMAIN Tail(models) |-> ReserveOf(Tail(models)[n])]
           m == Len(models) - 1
<1>1. /\ m \in Nat /\ DOMAIN models = 1..m + 1 /\ DOMAIN Tail(models) = 1..m
      /\ \A n \in 1..m : Tail(models)[n] = models[n + 1]
      /\ Head(models) = models[1]
  OBVIOUS
<1> HIDE DEF m
<1>2. \A n \in 1..m + 1 : f[n] \in Nat BY <1>1, BudgetAssumption DEF ReserveOf
<1>3. \A n \in 1..m : g[n] = f[n + 1] BY <1>1
<1>4. DOMAIN f = 1..m + 1 /\ DOMAIN g = 1..m /\ f[1] = ReserveOf(Head(models)) BY <1>1
<1> HIDE DEF f, g
<1>5. IsFiniteSet(1..m + 1) BY <1>1, FS_Interval
<1>6. 1 \in 1..m + 1 /\ (1..m + 1) \ {1} = 2..m + 1 BY <1>1
<1>7. SumFunctionOnSet(f, 1..m + 1) = f[1] + SumFunctionOnSet(f, (1..m + 1) \ {1})
  BY <1>2, <1>5, <1>6, SumTakes
<1>8. SumFunctionOnSet(g, 1..m) = SumFunctionOnSet(f, 2..m + 1)
  <2>1. \A n \in 2..m + 1 : f[n] \in Nat BY <1>1, <1>2
  <2> QED BY <1>1, <1>3, <2>1, SumShifts
<1>9. ReserveFor(models) = SumFunctionOnSet(f, 1..m + 1)
  BY <1>4 DEF ReserveFor, SumFunction, f
<1>10. ReserveFor(Tail(models)) = SumFunctionOnSet(g, 1..m)
  BY <1>4 DEF ReserveFor, SumFunction, g
<1> QED BY <1>4, <1>6, <1>7, <1>8, <1>9, <1>10

-----------------------------------------------------------------------------
LEMMA BudgetInitInv == BudgetInit => BudgetInv
<1> SUFFICES ASSUME BudgetInit PROVE BudgetInv OBVIOUS
<1>1. Nothing \in [Days -> Nat] /\ 1 \in Days BY BudgetAssumption DEF Nothing, Days
<1>2. NoRun \in RouterState BY <1>1 DEF NoRun, RouterState
<1>3. BudgetTypeOK BY <1>1, <1>2 DEF BudgetInit, BudgetTypeOK, Books
<1>4. SecretsBlocked BY DEF BudgetInit, SecretsBlocked, NoRun
<1>5. \A d \in Days : real[d] = 0 /\ MonthSum(real, d) = 0
  BY MonthSumOfNothing DEF BudgetInit, Nothing
<1>6. FutureIsFree BY <1>5 DEF FutureIsFree
<1>7. NoOverspend BY <1>5, BudgetAssumption DEF NoOverspend
<1>8. Alone BY DEF BudgetInit, Alone, RunIsCovered, NoRun
<1> QED BY <1>3, <1>4, <1>6, <1>7, <1>8 DEF BudgetInv

LEMMA NoRunRests ==
  NoRun \in RouterState /\ NoRun.phase = "idle" /\ NoRun.prompt = "none" /\ NoRun.rows = Nothing
<1>1. Nothing \in [Days -> Nat] BY DEF Nothing
<1> QED BY <1>1 DEF NoRun, RouterState

(* A run that comes to rest leaves a ledger that is complete.              *)
LEMMA RestKeeps ==
  ASSUME BudgetInv, NEW r \in Router, router[r].phase # "idle",
         router' = [router EXCEPT ![r] = NoRun],
         spent' \in [Days -> Nat], UNCHANGED <<day, real>>,
         kept' \in Prompts \cup {"none", "not stored"}, kept' # "secret",
         sound' \in BOOLEAN, sound' => sound /\ real = spent'
  PROVE  BudgetInv'
<1>2. \A q \in Router : router'[q] = IF q = r THEN NoRun ELSE router[q]
  BY DEF BudgetInv, BudgetTypeOK
<1>3. BudgetTypeOK' BY NoRunRests DEF BudgetInv, BudgetTypeOK, Books
<1>4. SecretsBlocked' BY NoRunRests, <1>2 DEF BudgetInv, SecretsBlocked
<1>5. FutureIsFree' BY DEF BudgetInv, FutureIsFree, MonthSum
<1>6. ASSUME sound' PROVE Alone' /\ NoOverspend'
  <2>1. \A q \in Router : router'[q].phase = "idle"
    BY <1>2, <1>6, NoRunRests DEF BudgetInv, Alone
  <2>2. \A q \in Router : RunIsCovered(router'[q], spent', real', day') BY <2>1 DEF RunIsCovered
  <2>3. Alone' BY <1>6, <2>1, <2>2 DEF Alone
  <2>4. NoOverspend' BY <1>6 DEF BudgetInv, NoOverspend, MonthSum
  <2> QED BY <2>3, <2>4
<1> QED BY <1>3, <1>4, <1>5, <1>6 DEF BudgetInv

LEMMA PlanRunKeeps ==
  ASSUME BudgetInv, NEW r \in Router, PlanRun(r)
  PROVE  BudgetInv'
<1>1. PICK models \in Lists, prompt \in Prompts, brake \in BOOLEAN, allow \in BOOLEAN,
           keep \in BOOLEAN :
        /\ router' = [router EXCEPT ![r] =
             [RunPlan(models, prompt, allow) EXCEPT
                !.fits = brake => BudgetFits(models, allow), !.writes = keep]]
        /\ sound' = (sound /\ brake /\ keep /\ \A q \in Router : router[q].phase = "idle")
  BY DEF PlanRun
<1> DEFINE fits == (brake => BudgetFits(models, allow))
           plan == [RunPlan(models, prompt, allow) EXCEPT !.fits = fits, !.writes = keep]
<1>2. models \in Seq(STRING) BY BudgetAssumption
<1>3. fits \in BOOLEAN /\ PromptBlocked(prompt, allow) \in BOOLEAN BY DEF BudgetFits, PromptBlocked
<1>3a. brake => (fits => BudgetFits(models, allow)) OBVIOUS
<1> HIDE DEF fits
<1>4. /\ plan \in RouterState /\ plan.phase = "planned" /\ plan.rows = Nothing
      /\ plan.models = models /\ plan.writes = keep /\ plan.fits = fits
      /\ plan.prompt = "secret" => plan.blocked
  <2>1. Nothing \in [Days -> Nat] BY DEF Nothing
  <2>2. PromptBlocked("secret", allow) BY DEF PromptBlocked
  <2> QED BY <1>2, <1>3, <2>1, <2>2 DEF RunPlan, NoRun, RouterState
<1>5. router' = [router EXCEPT ![r] = plan] BY <1>1 DEF fits
<1> HIDE DEF plan
<1>6. /\ UNCHANGED <<day, spent, real, kept>> /\ router \in [Router -> RouterState]
      /\ \A q \in Router : router'[q] = IF q = r THEN plan ELSE router[q]
  BY <1>5 DEF PlanRun, BudgetInv, BudgetTypeOK
<1>7. BudgetTypeOK' BY <1>1, <1>4, <1>5, <1>6 DEF BudgetInv, BudgetTypeOK, Books
<1>8. SecretsBlocked' BY <1>4, <1>6 DEF BudgetInv, SecretsBlocked
<1>9. FutureIsFree' BY <1>6 DEF BudgetInv, FutureIsFree, MonthSum
<1>10. ASSUME sound' PROVE Alone' /\ NoOverspend'
  <2>1. sound /\ brake /\ keep /\ (\A q \in Router : router[q].phase = "idle") BY <1>1, <1>10
  <2>2. real = spent BY <2>1 DEF BudgetInv, Alone
  <2>3. \A d \in Days : real[d] = spent[d] + Nothing[d]
    <3>1. Books BY DEF BudgetInv, BudgetTypeOK
    <3> QED BY <2>2, <3>1 DEF Books, Nothing
  <2>4. fits => Room(models, real', day') BY <1>3a, <1>6, <2>1, <2>2 DEF BudgetFits, Room, MonthSum
  <2>5. RunIsCovered(plan, spent', real', day') BY <1>4, <1>6, <2>1, <2>3, <2>4 DEF RunIsCovered
  <2>6. \A q \in Router : q # r => router'[q].phase = "idle" BY <1>6, <2>1
  <2>7. \A q \in Router : RunIsCovered(router'[q], spent', real', day')
    BY <1>6, <2>5, <2>6 DEF RunIsCovered
  <2>8. Alone' BY <1>6, <2>2, <2>6, <2>7 DEF Alone
  <2>9. NoOverspend' BY <1>6, <2>1 DEF BudgetInv, NoOverspend, MonthSum
  <2> QED BY <2>8, <2>9
<1> QED BY <1>7, <1>8, <1>9, <1>10 DEF BudgetInv

LEMMA WriteRunFilesKeeps ==
  ASSUME BudgetInv, NEW r \in Router, WriteRunFiles(r)
  PROVE  BudgetInv'
<1> DEFINE me == router[r]
           next == [me EXCEPT !.phase = "calling"]
<1>1. /\ me \in RouterState /\ me.phase = "planned" /\ UNCHANGED <<day, spent, real, runs, sound>>
      /\ BudgetTypeOK
  BY DEF WriteRunFiles, BudgetInv, BudgetTypeOK
<1>2. kept' \in Prompts \cup {"none", "not stored"} /\ kept' # "secret"
  <2>1. me.prompt = "secret" => me.blocked BY DEF BudgetInv, SecretsBlocked
  <2> QED BY <1>1, <2>1 DEF WriteRunFiles, BudgetInv, BudgetTypeOK, SecretsBlocked, RouterState
<1>3. sound => real = spent
  <2> SUFFICES ASSUME sound PROVE real = spent OBVIOUS
  <2>1. \A d \in Days : real[d] = spent[d] + Nothing[d]
    BY <1>1 DEF BudgetInv, Alone, RunIsCovered
  <2>2. Books BY <1>1 DEF BudgetTypeOK
  <2> QED BY <2>1, <2>2 DEF Books, Nothing
<1>4. CASE router' = [router EXCEPT ![r] = NoRun]
  BY <1>1, <1>2, <1>3, <1>4, RestKeeps DEF BudgetTypeOK, Books
<1>5. CASE router' = [router EXCEPT ![r] = next] /\ me.fits
  <2>1. /\ next \in RouterState /\ next.phase = "calling" /\ next.rows = me.rows
        /\ next.models = me.models /\ next.writes = me.writes /\ next.prompt = me.prompt
        /\ next.blocked = me.blocked
    BY <1>1 DEF RouterState
  <2> HIDE DEF next
  <2>2. \A q \in Router : router'[q] = IF q = r THEN next ELSE router[q]
    BY <1>1, <1>5 DEF BudgetTypeOK
  <2>3. BudgetTypeOK' BY <1>1, <1>2, <1>5, <2>1 DEF BudgetTypeOK, Books
  <2>4. SecretsBlocked' BY <1>2, <2>1, <2>2 DEF BudgetInv, SecretsBlocked
  <2>5. FutureIsFree' BY <1>1 DEF BudgetInv, FutureIsFree, MonthSum
  <2>6. ASSUME sound' PROVE Alone' /\ NoOverspend'
    <3>1. sound /\ Alone BY <1>1, <2>6 DEF BudgetInv
    <3>2. RunIsCovered(me, spent, real, day) BY <3>1 DEF Alone
    <3>3. Room(me.models, real', day') BY <1>1, <1>5, <3>2 DEF RunIsCovered, Room, MonthSum
    <3>4. RunIsCovered(next, spent', real', day') BY <1>1, <2>1, <3>2, <3>3 DEF RunIsCovered
    <3>5. \A q \in Router : q # r => router'[q].phase = "idle" BY <1>1, <2>2, <3>1 DEF Alone
    <3>6. \A q \in Router : RunIsCovered(router'[q], spent', real', day') BY <2>2, <3>4, <3>5 DEF RunIsCovered
    <3>7. Alone' BY <1>1, <1>3, <3>1, <3>5, <3>6 DEF Alone
    <3>8. NoOverspend' BY <1>1, <3>1 DEF BudgetInv, NoOverspend, MonthSum
    <3> QED BY <3>7, <3>8
  <2> QED BY <2>3, <2>4, <2>5, <2>6 DEF BudgetInv
<1> QED BY <1>4, <1>5 DEF WriteRunFiles

LEMMA CallWorkerKeeps ==
  ASSUME BudgetInv, NEW r \in Router, CallWorker(r)
  PROVE  BudgetInv'
<1> DEFINE me == router[r]
           model == Head(me.models)
           rest == Tail(me.models)
<1>1. /\ me \in RouterState /\ me.phase = "calling" /\ me.models \in Seq(STRING)
      /\ me.models # <<>> /\ UNCHANGED <<day, spent, kept, runs>> /\ BudgetTypeOK
      /\ me.rows \in [Days -> Nat] /\ Books
  BY DEF CallWorker, BudgetInv, BudgetTypeOK, RouterState
<1>1a. day \in Days /\ real \in [Days -> Nat] /\ spent \in [Days -> Nat] BY <1>1 DEF Books
<1>2. PICK cost \in Costs, footer \in BOOLEAN :
        LET known == KnownCost(model, footer, cost)
        IN  /\ real' = [real EXCEPT ![day] = @ + cost]
            /\ router' = [router EXCEPT ![r] = [me EXCEPT !.models = rest,
                                                        !.rows[day] = @ + known]]
            /\ sound' = (sound /\ known = cost /\ cost <= ReserveOf(model))
  BY DEF CallWorker
<1> DEFINE known == KnownCost(model, footer, cost)
           rows == [me.rows EXCEPT ![day] = @ + known]
           next == [me EXCEPT !.models = rest, !.rows = rows]
<1>2a. real' = [real EXCEPT ![day] = @ + cost] BY <1>2
<1>3. cost \in Nat /\ known \in Nat BY BudgetAssumption DEF KnownCost
<1>4. /\ rest \in Seq(STRING) /\ ReserveFor(rest) \in Nat
      /\ ReserveFor(me.models) = ReserveOf(model) + ReserveFor(rest)
      /\ ReserveOf(model) \in Nat
  <2>1. rest \in Seq(STRING)
    <3> DEFINE list == me.models
    <3>1. list \in Seq(STRING) /\ list # <<>> BY <1>1
    <3> HIDE DEF list
    <3>2. Tail(list) \in Seq(STRING) BY <3>1
    <3> QED BY <3>2 DEF list
  <2>2. ReserveOf(model) \in Nat BY BudgetAssumption DEF ReserveOf
  <2> QED BY <1>1, <2>1, <2>2, ReserveIsNat, ReserveOfRest
<1>5. router' = [router EXCEPT ![r] = next] BY <1>2
<1>6. sound' = (sound /\ known = cost /\ cost <= ReserveOf(model)) BY <1>2
<1> HIDE DEF known
<1>7. rows \in [Days -> Nat] /\ \A d \in Days : rows[d] = me.rows[d] + (IF d = day THEN known ELSE 0)
  BY <1>1, <1>1a, <1>3, BookAdds
<1> HIDE DEF rows
<1>8. /\ next \in RouterState /\ next.phase = "calling" /\ next.rows = rows
      /\ next.models = rest /\ next.writes = me.writes /\ next.prompt = me.prompt
      /\ next.blocked = me.blocked
  BY <1>1, <1>4, <1>7 DEF RouterState
<1> HIDE DEF next, rest, model
<1>9. /\ real' \in [Days -> Nat]
      /\ \A d \in Days : real'[d] = real[d] + (IF d = day THEN cost ELSE 0)
  BY <1>1a, <1>2a, <1>3, BookAdds
<1>10. \A d : MonthSum(real', d) = MonthSum(real, d) + (IF MonthOf(day) = MonthOf(d) THEN cost ELSE 0)
  <2>1. \A d : MonthSum([real EXCEPT ![day] = @ + cost], d)
                = MonthSum(real, d) + (IF MonthOf(day) = MonthOf(d) THEN cost ELSE 0)
    BY <1>1a, <1>3, MonthSumAdds
  <2> QED BY <1>2a, <2>1, Zenon
<1>10a. \A d : MonthSum(real, d)' = MonthSum(real', d) BY DEF MonthSum
<1>10b. \A d : MonthSum(real, d) \in Nat BY <1>1a, MonthSumIsNat
<1>11. \A q \in Router : router'[q] = IF q = r THEN next ELSE router[q]
  BY <1>1, <1>5 DEF BudgetTypeOK
<1>12. BudgetTypeOK' BY <1>1, <1>5, <1>6, <1>8, <1>9 DEF BudgetTypeOK, Books
<1>13. SecretsBlocked' BY <1>1, <1>8, <1>11 DEF BudgetInv, SecretsBlocked
<1>14. FutureIsFree'
  <2> SUFFICES ASSUME NEW d \in Days, d > day
               PROVE  real'[d] = 0 /\ (MonthOf(d) # MonthOf(day) => MonthSum(real', d) = 0)
    BY <1>1, <1>10a DEF FutureIsFree
  <2>1. real[d] = 0 /\ (MonthOf(d) # MonthOf(day) => MonthSum(real, d) = 0)
    BY DEF BudgetInv, FutureIsFree
  <2>2. real'[d] = 0 BY <1>1a, <1>9, <2>1 DEF Days
  <2> QED BY <1>10, <2>1, <2>2
<1>15. ASSUME sound' PROVE Alone' /\ NoOverspend'
  <2>1. sound /\ known = cost /\ cost <= ReserveOf(model) /\ Alone /\ NoOverspend
    BY <1>6, <1>15 DEF BudgetInv
  <2>2. RunIsCovered(me, spent, real, day) BY <2>1 DEF Alone
  <2>3. Room(me.models, real, day) BY <1>1, <2>2 DEF RunIsCovered
  <2>4. Room(rest, real', day')
    <3>1. real'[day] = real[day] + cost /\ real[day] \in Nat BY <1>1a, <1>9
    <3>2. MonthSum(real', day) = MonthSum(real, day) + cost /\ MonthSum(real, day) \in Nat
      BY <1>10, <1>10b
    <3>2a. cost <= ReserveOf(model) BY <2>1
    <3>3. /\ real'[day] + ReserveFor(rest) <= DailyBudget
          /\ MonthSum(real', day) + ReserveFor(rest) <= MonthlyBudget
      BY <1>3, <1>4, <2>3, <3>1, <3>2, <3>2a, Amounts DEF Room
    <3> QED BY <1>1, <1>10a, <3>3 DEF Room
  <2>5. \A d \in Days : real'[d] = spent[d] + rows[d]
    <3>1. \A d \in Days : real[d] = spent[d] + me.rows[d] BY <1>1, <2>2 DEF RunIsCovered
    <3>2. known = cost BY <2>1
    <3>3. ASSUME NEW d \in Days PROVE real'[d] = spent[d] + rows[d]
      <4>1. real[d] = spent[d] + me.rows[d] BY <3>1
      <4>2. spent[d] \in Nat /\ me.rows[d] \in Nat BY <1>1, <1>1a
      <4>3. /\ real'[d] = real[d] + (IF d = day THEN cost ELSE 0)
            /\ rows[d] = me.rows[d] + (IF d = day THEN cost ELSE 0)
        BY <1>7, <1>9, <3>2
      <4> QED BY <1>3, <4>1, <4>2, <4>3
    <3> QED BY <3>3
  <2>6. RunIsCovered(next, spent', real', day') BY <1>1, <1>8, <2>2, <2>4, <2>5 DEF RunIsCovered
  <2>7. \A q \in Router : q # r => router'[q].phase = "idle" BY <1>1, <1>11, <2>1 DEF Alone
  <2>8. \A q \in Router : RunIsCovered(router'[q], spent', real', day') BY <1>11, <2>6, <2>7 DEF RunIsCovered
  <2>9. Alone' BY <1>8, <1>11, <2>7, <2>8 DEF Alone
  <2>10. ASSUME NEW d \in Days PROVE real'[d] <= DailyBudget /\ MonthSum(real', d) <= MonthlyBudget
    <3>1. real[d] <= DailyBudget /\ MonthSum(real, d) <= MonthlyBudget BY <2>1 DEF NoOverspend
    <3>2. real'[day] <= DailyBudget /\ MonthSum(real', day) <= MonthlyBudget
      <4>1. /\ real'[day] + ReserveFor(rest) <= DailyBudget
            /\ MonthSum(real', day) + ReserveFor(rest) <= MonthlyBudget
        BY <1>1, <2>4 DEF Room
      <4>2. real'[day] \in Nat BY <1>1a, <1>9
      <4>3. MonthSum(real', day) \in Nat BY <1>9, MonthSumIsNat
      <4> QED BY <1>4, <4>1, <4>2, <4>3, Amounts
    <3>3. real'[d] <= DailyBudget
      <4>1. CASE d = day BY <3>2, <4>1
      <4>2. CASE d # day
        <5>1. real'[d] = real[d] BY <1>1a, <1>9, <4>2
        <5> QED BY <3>1, <5>1
      <4> QED BY <4>1, <4>2
    <3>4. CASE MonthOf(day) = MonthOf(d)
      <4>1. MonthSum(real', d) = MonthSum(real', day) BY <3>4, MonthSumOfMonth
      <4> QED BY <3>2, <3>3, <4>1
    <3>5. CASE MonthOf(day) # MonthOf(d) BY <1>10, <1>10b, <3>1, <3>3, <3>5
    <3> QED BY <3>4, <3>5
  <2>11. NoOverspend' BY <1>10a, <2>10 DEF NoOverspend
  <2> QED BY <2>9, <2>11
<1> QED BY <1>12, <1>13, <1>14, <1>15 DEF BudgetInv

LEMMA AppendRowsKeeps ==
  ASSUME BudgetInv, NEW r \in Router, AppendRows(r)
  PROVE  BudgetInv'
<1> DEFINE me == router[r]
<1>1. /\ me \in RouterState /\ me.phase = "calling" /\ BudgetTypeOK /\ me.rows \in [Days -> Nat]
      /\ UNCHANGED <<day, real, kept, runs, sound>> /\ router' = [router EXCEPT ![r] = NoRun]
      /\ spent' = IF me.writes THEN [d \in Days |-> spent[d] + me.rows[d]] ELSE spent
  BY DEF AppendRows, BudgetInv, BudgetTypeOK, RouterState
<1>1a. day \in Days /\ real \in [Days -> Nat] /\ spent \in [Days -> Nat]
  BY <1>1 DEF BudgetTypeOK, Books
<1>2. spent' \in [Days -> Nat] BY <1>1, <1>1a
<1>3. sound => real = spent'
  <2> SUFFICES ASSUME sound PROVE real = spent' OBVIOUS
  <2>1. me.writes /\ \A d \in Days : real[d] = spent[d] + me.rows[d]
    BY <1>1 DEF BudgetInv, Alone, RunIsCovered
  <2>2. \A d \in Days : spent'[d] = real[d] BY <1>1, <2>1
  <2> QED BY <1>1a, <1>2, <2>2
<1>4. kept # "secret" BY DEF BudgetInv, SecretsBlocked
<1> QED BY <1>1, <1>2, <1>3, <1>4, RestKeeps DEF BudgetTypeOK, Books

LEMMA RouterDiesKeeps ==
  ASSUME BudgetInv, NEW r \in Router, RouterDies(r)
  PROVE  BudgetInv'
<1>1. /\ BudgetTypeOK /\ router[r].phase # "idle" /\ UNCHANGED <<day, spent, real, kept, runs>>
      /\ router' = [router EXCEPT ![r] = NoRun] /\ sound' = (sound /\ router[r].phase = "planned")
  BY DEF RouterDies, BudgetInv
<1>2. sound' => sound /\ real = spent
  <2> SUFFICES ASSUME sound' PROVE sound /\ real = spent OBVIOUS
  <2>0. sound /\ router[r].phase = "planned" BY <1>1
  <2>1. \A d \in Days : real[d] = spent[d] + Nothing[d]
    BY <1>1, <2>0 DEF BudgetInv, Alone, RunIsCovered
  <2>2. Books BY <1>1 DEF BudgetTypeOK
  <2>3. real = spent BY <2>1, <2>2 DEF Books, Nothing
  <2> QED BY <2>0, <2>3
<1>3. kept # "secret" BY DEF BudgetInv, SecretsBlocked
<1> QED BY <1>1, <1>2, <1>3, RestKeeps DEF BudgetTypeOK, Books

(* A new minute, or a new day: the day brings its own budget, and the money *)
(* that was reserved fits into it as it did into the last.                 *)
LEMMA ClockKeeps ==
  ASSUME BudgetInv, day' \in Days, day' = day \/ day' = day + 1, kept' = "none",
         router' = [r \in Router |-> [router[r] EXCEPT !.here = FALSE]],
         UNCHANGED <<spent, real, sound>>
  PROVE  BudgetInv'
<1>1. /\ BudgetTypeOK /\ Books /\ FutureIsFree
      /\ day \in Days /\ real \in [Days -> Nat] /\ spent \in [Days -> Nat]
  BY DEF BudgetInv, BudgetTypeOK, Books
<1>2. ASSUME NEW r \in Router
      PROVE  LET me == router[r]
                 next == [me EXCEPT !.here = FALSE]
             IN  /\ router'[r] = next /\ next \in RouterState
                 /\ next.phase = me.phase /\ next.rows = me.rows /\ next.fits = me.fits
                 /\ next.models = me.models /\ next.writes = me.writes
                 /\ next.prompt = me.prompt /\ next.blocked = me.blocked
                 /\ me.models \in Seq(STRING)
  BY <1>1 DEF BudgetTypeOK, RouterState
<1>3. BudgetTypeOK'
  <2>1. router' \in [Router -> RouterState] BY <1>2
  <2> QED BY <1>1, <2>1 DEF BudgetTypeOK, Books
<1>4. SecretsBlocked' BY <1>2 DEF BudgetInv, SecretsBlocked
<1>5. /\ \A d : MonthSum(real, d)' = MonthSum(real, d)
      /\ \A d : MonthSum(real, d) \in Nat
  BY <1>1, MonthSumIsNat DEF MonthSum
<1>6. FutureIsFree'
  <2> SUFFICES ASSUME NEW d \in Days, d > day'
               PROVE  real[d] = 0 /\ (MonthOf(d) # MonthOf(day') => MonthSum(real, d) = 0)
    BY <1>5 DEF FutureIsFree
  <2>1. d > day /\ d >= day' /\ day' >= day BY <1>1 DEF Days
  <2>2. MonthOf(d) # MonthOf(day') => MonthOf(d) # MonthOf(day)
    <3>1. /\ MonthOf(day) <= MonthOf(day') /\ MonthOf(day') <= MonthOf(d)
          /\ MonthOf(day) \in Nat /\ MonthOf(day') \in Nat /\ MonthOf(d) \in Nat
      BY <1>1, <2>1, MonthsGrow DEF Days
    <3> QED BY <3>1
  <2> QED BY <1>1, <2>1, <2>2 DEF FutureIsFree
<1>7. ASSUME NEW models \in Seq(STRING), Room(models, real, day) PROVE Room(models, real', day')
  <2>1. ReserveFor(models) \in Nat BY ReserveIsNat
  <2>2. CASE day' = day BY <1>5, <1>7, <2>2 DEF Room
  <2>3. CASE day' = day + 1
    <3>1. /\ real[day'] = 0
          /\ MonthOf(day') # MonthOf(day) => MonthSum(real, day') = 0
      BY <1>1, <2>3 DEF FutureIsFree, Days
    <3>2. real[day] \in Nat /\ MonthSum(real, day) \in Nat BY <1>1, <1>5
    <3>3. real[day'] + ReserveFor(models) <= DailyBudget
      BY <1>7, <2>1, <3>1, <3>2, Amounts DEF Room
    <3>4. MonthSum(real, day') + ReserveFor(models) <= MonthlyBudget
      <4>1. CASE MonthOf(day') = MonthOf(day)
        <5>1. MonthSum(real, day') = MonthSum(real, day) BY <4>1, MonthSumOfMonth
        <5> QED BY <1>7, <5>1 DEF Room
      <4>2. CASE MonthOf(day') # MonthOf(day)
        BY <1>7, <2>1, <3>1, <3>2, <4>2, Amounts DEF Room
      <4> QED BY <4>1, <4>2
    <3> QED BY <1>5, <3>3, <3>4 DEF Room
  <2> QED BY <2>2, <2>3
<1>8. ASSUME sound' PROVE Alone' /\ NoOverspend'
  <2>1. Alone /\ NoOverspend BY <1>8 DEF BudgetInv
  <2>2. \A r \in Router : RunIsCovered(router'[r], spent', real', day')
    <3> SUFFICES ASSUME NEW r \in Router, router'[r].phase # "idle"
                 PROVE  /\ \A e \in Days : real[e] = spent[e] + router'[r].rows[e]
                        /\ router'[r].writes
                        /\ router'[r].phase = "planned" => router'[r].rows = Nothing
                        /\ router'[r].phase = "calling" \/ router'[r].fits
                             => Room(router'[r].models, real', day')
      BY DEF RunIsCovered
    <3>1. router[r].phase # "idle" BY <1>2
    <3>2. RunIsCovered(router[r], spent, real, day) BY <2>1 DEF Alone
    <3> QED BY <1>2, <1>7, <3>1, <3>2 DEF RunIsCovered
  <2>3. Alone' BY <1>2, <2>1, <2>2 DEF Alone
  <2>4. NoOverspend' BY <1>5, <2>1 DEF NoOverspend
  <2> QED BY <2>3, <2>4
<1> QED BY <1>3, <1>4, <1>6, <1>8 DEF BudgetInv

LEMMA BudgetNextKeeps == BudgetInv /\ [BudgetNext]_budgetVars => BudgetInv'
<1> SUFFICES ASSUME BudgetInv, [BudgetNext]_budgetVars PROVE BudgetInv' OBVIOUS
<1>1. CASE MinuteEnds BY <1>1, ClockKeeps DEF MinuteEnds, BudgetInv, BudgetTypeOK, Books
<1>2. CASE DayEnds
  <2>1. day + 1 \in Days
    <3>1. day \in Days BY DEF BudgetInv, BudgetTypeOK, Books
    <3> QED BY <1>2, <3>1, BudgetAssumption DEF DayEnds, Days
  <2> QED BY <1>2, <2>1, ClockKeeps DEF DayEnds
<1>3. CASE UNCHANGED budgetVars
  BY <1>3 DEF budgetVars, BudgetInv, BudgetTypeOK, Books, SecretsBlocked, FutureIsFree, MonthSum,
     Alone, RunIsCovered, Room, NoOverspend
<1> QED
  BY <1>1, <1>2, <1>3, PlanRunKeeps, WriteRunFilesKeeps, CallWorkerKeeps, AppendRowsKeeps,
     RouterDiesKeeps DEF BudgetNext

(* Whatever the prices, budgets and days, and whichever router of the       *)
(* minute writes a report, no secret is kept in it; and as long as runs     *)
(* come one at a time with brake and ledger on, no day and no month costs   *)
(* more than its budget, also across midnight (evaluateBudgetBrake,         *)
(* appendCostLedgerRows).                                                   *)
THEOREM RoutersStayBounded == BudgetSpec => []RoutersAreBounded
<1>1. BudgetInv => RoutersAreBounded
  BY DEF BudgetInv, RoutersAreBounded, NoOverspend, PromptIsClean, SecretsBlocked
<1> QED BY <1>1, BudgetInitInv, BudgetNextKeeps, PTL DEF BudgetSpec

-----------------------------------------------------------------------------
LEMMA FirstIsOne ==
  ASSUME NEW S \in SUBSET Descendant PROVE First(S) \subseteq S
<1>1. CASE S = {} BY <1>1 DEF First
<1>2. CASE S # {}
  <2>1. \E x \in S : \A y \in S : x <= y BY <1>2, LeastExists, GoalAssumption
  <2>2. Min(S) \in S BY <2>1 DEF Min
  <2> QED BY <1>2, <2>2 DEF First
<1> QED BY <1>1, <1>2

-----------------------------------------------------------------------------
(* GoalProgress: what a reader concludes *)

(* What a ledger may hold, the mark of an unread one with it; what is said. *)
Noted == Marks \cup {"unread"}
Sayings == {"none", "PLANE_COMMENTS_FAILED", "READY_FOR_PARENT_COMPLETION_REVIEW", "COMPLETE",
            "BLOCKED_DEPENDENCY", "READY", "READY_FOR_CONTROLLER_LOOP",
            "READY_FOR_STAGE_05_REVIEW", "NEEDS_HUMAN", "NEEDS_HG35_REVIEW"}
ItemStates == {"open", "done", "cancelled"}
Sights == [state : [Descendant -> ItemStates],
           marks : [Descendant -> Seq(Noted)]]
ReaderState ==
  [pc : {"idle", "comments", "done"}, command : Commands, seen : Sights, amid : Nat,
   status : Sayings, selected : SUBSET Descendant]

GoalTypeOK ==
  /\ marks \in [Descendant -> Seq(Noted)]
  /\ state \in [Descendant -> ItemStates]
  /\ reader \in [Reader -> ReaderState]

(* Nobody having written meanwhile, what a reader has read is what there is. *)
SightIsTrue(me, s, m) ==
  me.pc = "comments" /\ me.amid = 0 =>
    /\ me.seen.state = s
    /\ \A i \in Descendant : me.seen.marks[i] = <<"unread">> \/ me.seen.marks[i] = m[i]

(* A reader speaks when it is done, and then what it says is earned.        *)
SpeechIsEarned(me, s, m) ==
  /\ me.pc # "done" => me.status = "none" /\ me.selected = {}
  /\ me.status = "READY_FOR_PARENT_COMPLETION_REVIEW" /\ me.amid = 0 =>
       \A i \in Depth1 :
         \/ Newest({"accepted"}, m[i]) = "accepted"
         \/ /\ s[i] = "done" \/ Newest(Modes, m[i]) = "AUTO-GO"
            /\ Newest(Verdicts, m[i]) \notin {"REJECT", "PARK"}
  /\ me.command = "supergoal" =>
       \A i \in me.selected : Leaf(i) /\ Gate(i) \in {"local", "ceo_codex"}

GoalInv ==
  /\ GoalTypeOK
  /\ \A r \in Reader : SightIsTrue(reader[r], state, marks) /\ SpeechIsEarned(reader[r], state, marks)

-----------------------------------------------------------------------------
(* Without a blocker a child is accepted, or its newest verdict holds.      *)
LEMMA UnblockedIsEarned ==
  ASSUME NEW s, NEW m, Complete(s, m), ChildBlockers(s, m) = {}
  PROVE  \/ Newest({"accepted"}, m) = "accepted"
         \/ /\ s = "done" \/ Newest(Modes, m) = "AUTO-GO"
            /\ Newest(Verdicts, m) \notin {"REJECT", "PARK"}
<1> SUFFICES ASSUME Newest({"accepted"}, m) # "accepted"
             PROVE  /\ s = "done" \/ Newest(Modes, m) = "AUTO-GO"
                    /\ Newest(Verdicts, m) \notin {"REJECT", "PARK"}
  OBVIOUS
<1>1. s = "done" \/ Newest(Modes, m) = "AUTO-GO" BY DEF Complete
<1>2. {b \in {"REJECT", "PARK"} : Newest(Verdicts, m) = b} \subseteq ChildBlockers(s, m)
  BY DEF ChildBlockers
<1>3. {b \in {"REJECT", "PARK"} : Newest(Verdicts, m) = b} = {} BY <1>2
<1> QED BY <1>1, <1>3

LEMMA ReadyNeedsAll ==
  ASSUME NEW seen, Synthesis(seen) = "READY_FOR_PARENT_COMPLETION_REVIEW"
  PROVE  \A i \in Depth1 : /\ Complete(seen.state[i], seen.marks[i])
                           /\ ChildBlockers(seen.state[i], seen.marks[i]) = {}
  BY DEF Synthesis

LEMMA SupergoalSelects ==
  ASSUME NEW seen
  PROVE  /\ \A i \in Supergoal(seen).selected : Leaf(i) /\ Gate(i) \in {"local", "ceo_codex"}
         /\ Supergoal(seen).selected \subseteq Descendant
         /\ Supergoal(seen).status \in Sayings
         /\ Supergoal(seen).status # "READY_FOR_PARENT_COMPLETION_REVIEW"
<1> DEFINE open == {i \in Descendant : ~RunComplete(seen, i)}
           able == {i \in open : Leaf(i) /\ ContractOf(i) = "ready"}
           draft == {i \in open : Leaf(i) /\ ContractOf(i) = "draft"}
           local == {i \in able : Gate(i) = "local"}
           ceo == {i \in able : Gate(i) = "ceo_codex"}
<1>1. First(local) \subseteq local /\ First(ceo) \subseteq ceo BY FirstIsOne
<1>2. Supergoal(seen).selected \subseteq First(local) \cup First(ceo) BY DEF Supergoal
<1>3. /\ Supergoal(seen).status \in Sayings
      /\ Supergoal(seen).status # "READY_FOR_PARENT_COMPLETION_REVIEW"
  BY DEF Supergoal, Sayings
<1>4. \A i \in local \cup ceo : /\ Leaf(i) /\ Gate(i) \in {"local", "ceo_codex"}
                                /\ i \in Descendant
  OBVIOUS
<1> HIDE DEF open, able, draft, local, ceo
<1> QED BY <1>1, <1>2, <1>3, <1>4

LEMMA GoalRunSays ==
  ASSUME NEW seen
  PROVE  /\ GoalRun(seen).selected \subseteq Descendant
         /\ GoalRun(seen).status \in Sayings
         /\ GoalRun(seen).status # "READY_FOR_PARENT_COMPLETION_REVIEW"
<1> DEFINE open == {i \in Depth1 : ~RunComplete(seen, i)}
           ready == {i \in open : ContractOf(i) = "ready"}
<1>1. ready \in SUBSET Descendant BY DEF Depth1
<1>2. First(ready) \subseteq ready BY <1>1, FirstIsOne
<1>3. GoalRun(seen).selected = First(ready) BY DEF GoalRun
<1>4. /\ GoalRun(seen).status \in Sayings
      /\ GoalRun(seen).status # "READY_FOR_PARENT_COMPLETION_REVIEW"
  BY DEF GoalRun, Sayings
<1> HIDE DEF ready
<1> QED BY <1>1, <1>2, <1>3, <1>4

-----------------------------------------------------------------------------
LEMMA IdleIsReader ==
  /\ Idle \in ReaderState /\ Idle.pc = "idle" /\ Idle.status = "none" /\ Idle.selected = {}
  /\ Idle.command = "run"
  /\ Outdated \in ReaderState /\ Outdated.pc = "done" /\ Outdated.status = "none"
  /\ Outdated.selected = {} /\ Outdated.command = "run"
  /\ NoSight \in Sights
<1>1. <<"unread">> \in Seq(Noted) BY DEF Noted
<1>2. Unread \in [Descendant -> Seq(Noted)] BY <1>1 DEF Unread
<1>3. NoSight \in Sights BY <1>2 DEF NoSight, Sights, ItemStates
<1>4. Idle \in ReaderState /\ Idle.pc = "idle" /\ Idle.status = "none" /\ Idle.selected = {}
      /\ Idle.command = "run"
  BY <1>3 DEF Idle, ReaderState, Commands, Sayings
<1> QED BY <1>3, <1>4 DEF Outdated, ReaderState

LEMMA GoalInitInv == GoalInit => GoalInv
<1> SUFFICES ASSUME GoalInit PROVE GoalInv OBVIOUS
<1>1. <<>> \in Seq(Noted) OBVIOUS
<1>2. GoalTypeOK BY <1>1, IdleIsReader DEF GoalInit, GoalTypeOK, ItemStates
<1>3. \A r \in Reader : reader[r] = Idle BY DEF GoalInit
<1> QED BY <1>2, <1>3, IdleIsReader DEF GoalInv, SightIsTrue, SpeechIsEarned

(* A step of one reader. *)
LEMMA ReaderKeeps ==
  ASSUME GoalInv, NEW r \in Reader, NEW me \in ReaderState, reader' = [reader EXCEPT ![r] = me],
         UNCHANGED <<marks, state>>, SightIsTrue(me, state, marks), SpeechIsEarned(me, state, marks)
  PROVE  GoalInv'
<1>1. GoalTypeOK' BY DEF GoalInv, GoalTypeOK
<1>2. \A q \in Reader : reader'[q] = IF q = r THEN me ELSE reader[q]
  BY DEF GoalInv, GoalTypeOK
<1> QED BY <1>1, <1>2 DEF GoalInv

LEMMA ListItemsKeeps == ASSUME GoalInv, NEW r \in Reader, ListItems(r) PROVE GoalInv'
<1>1. PICK c \in Commands :
        reader' = [reader EXCEPT ![r].pc = "comments", ![r].command = c,
                         ![r].seen = [state |-> state, marks |-> Unread]]
  BY DEF ListItems
<1> DEFINE old == reader[r]
           seen == [state |-> state, marks |-> Unread]
           me == [old EXCEPT !.pc = "comments", !.command = c, !.seen = seen]
<1>2. old \in ReaderState /\ old.pc = "idle" /\ old.status = "none" /\ old.selected = {}
  BY DEF GoalInv, GoalTypeOK, SpeechIsEarned, ListItems
<1>3. <<"unread">> \in Seq(Noted) BY DEF Noted
<1>4. seen \in Sights BY <1>3 DEF GoalInv, GoalTypeOK, Unread, Sights
<1>5. reader' = [reader EXCEPT ![r] = me] BY <1>1 DEF GoalInv, GoalTypeOK
<1>6. seen.state = state /\ \A i \in Descendant : seen.marks[i] = <<"unread">> BY DEF Unread
<1> HIDE DEF old, seen
<1>7. /\ me \in ReaderState /\ me.pc = "comments" /\ me.seen = seen /\ me.status = "none"
      /\ me.selected = {}
  BY <1>2, <1>4 DEF ReaderState
<1> HIDE DEF me
<1>8. SightIsTrue(me, state, marks) BY <1>6, <1>7 DEF SightIsTrue
<1>9. SpeechIsEarned(me, state, marks) BY <1>7 DEF SpeechIsEarned
<1> QED BY <1>5, <1>7, <1>8, <1>9, ReaderKeeps DEF ListItems

LEMMA FetchCommentsKeeps == ASSUME GoalInv, NEW r \in Reader, FetchComments(r) PROVE GoalInv'
<1> DEFINE old == reader[r]
<1>1. /\ old \in ReaderState /\ old.pc = "comments" /\ old.status = "none" /\ old.selected = {}
      /\ SightIsTrue(old, state, marks) /\ UNCHANGED <<marks, state>> /\ GoalTypeOK
  BY DEF GoalInv, GoalTypeOK, SpeechIsEarned, FetchComments
<1>2. PICK i \in First(ToFetch(r)) :
         \/ reader' = [reader EXCEPT ![r].seen.marks[i] = marks[i]]
         \/ reader' = [reader EXCEPT ![r] = [@ EXCEPT !.pc = "done", !.seen = NoSight,
                                                      !.status = "PLANE_COMMENTS_FAILED"]]
  BY DEF FetchComments
<1>3. i \in Descendant
  <2>1. ToFetch(r) \in SUBSET Descendant BY DEF ToFetch, Fetched, Depth1
  <2> QED BY <1>2, <2>1, FirstIsOne
<1>4. CASE reader' = [reader EXCEPT ![r].seen.marks[i] = marks[i]]
  <2> DEFINE seen == [old.seen EXCEPT !.marks[i] = marks[i]]
             me == [old EXCEPT !.seen = seen]
  <2>1. reader' = [reader EXCEPT ![r] = me] BY <1>1, <1>4 DEF GoalTypeOK
  <2>2. /\ seen \in Sights /\ seen.state = old.seen.state
        /\ \A j \in Descendant : seen.marks[j] = IF j = i THEN marks[i] ELSE old.seen.marks[j]
    <3>1. old.seen \in Sights BY <1>1 DEF ReaderState
    <3>2. marks[i] \in Seq(Noted) BY <1>1, <1>3 DEF GoalTypeOK
    <3> HIDE DEF old
    <3> QED BY <1>3, <3>1, <3>2 DEF Sights
  <2> HIDE DEF seen, old
  <2>3. /\ me \in ReaderState /\ me.pc = "comments" /\ me.seen = seen /\ me.status = "none"
        /\ me.selected = {} /\ me.amid = old.amid
    BY <1>1, <2>2 DEF ReaderState
  <2> HIDE DEF me
  <2>4. SightIsTrue(me, state, marks) BY <1>1, <2>2, <2>3 DEF SightIsTrue
  <2>5. SpeechIsEarned(me, state, marks) BY <2>3 DEF SpeechIsEarned
  <2> QED BY <1>1, <2>1, <2>3, <2>4, <2>5, ReaderKeeps
<1>5. CASE reader' = [reader EXCEPT ![r] = [@ EXCEPT !.pc = "done", !.seen = NoSight,
                                                      !.status = "PLANE_COMMENTS_FAILED"]]
  <2> DEFINE me == [old EXCEPT !.pc = "done", !.seen = NoSight, !.status = "PLANE_COMMENTS_FAILED"]
  <2>1. reader' = [reader EXCEPT ![r] = me] BY <1>5
  <2> HIDE DEF old
  <2>2. /\ me \in ReaderState /\ me.pc = "done" /\ me.status = "PLANE_COMMENTS_FAILED"
        /\ me.selected = {}
    BY <1>1, IdleIsReader DEF ReaderState, Sayings
  <2> HIDE DEF me
  <2>3. SightIsTrue(me, state, marks) /\ SpeechIsEarned(me, state, marks)
    BY <2>2 DEF SightIsTrue, SpeechIsEarned
  <2> QED BY <1>1, <2>1, <2>2, <2>3, ReaderKeeps
<1> QED BY <1>2, <1>4, <1>5

LEMMA ConcludeKeeps == ASSUME GoalInv, NEW r \in Reader, Conclude(r) PROVE GoalInv'
<1> DEFINE old == reader[r]
           seen == old.seen
           said == CASE old.command = "run" -> GoalRun(seen)
                     [] old.command = "synthesize" ->
                            [status |-> Synthesis(seen), selected |-> {}]
                     [] old.command = "supergoal" -> Supergoal(seen)
           me == [old EXCEPT !.pc = "done", !.seen = NoSight, !.status = said.status,
                             !.selected = said.selected]
<1>1. /\ old \in ReaderState /\ old.pc = "comments" /\ ToFetch(r) = {}
      /\ SightIsTrue(old, state, marks) /\ UNCHANGED <<marks, state>> /\ GoalTypeOK
      /\ reader' = [reader EXCEPT ![r] = me]
  BY DEF GoalInv, GoalTypeOK, SpeechIsEarned, Conclude
<1>2. old.command \in Commands BY <1>1 DEF ReaderState
<1>3. \A i \in Depth1 : seen.marks[i] # <<"unread">> BY <1>1, <1>2 DEF ToFetch, Fetched, Depth1, Commands
<1> HIDE DEF old, seen
<1>4. /\ said.status \in Sayings /\ said.selected \subseteq Descendant
      /\ said.status = "READY_FOR_PARENT_COMPLETION_REVIEW" =>
           Synthesis(seen) = "READY_FOR_PARENT_COMPLETION_REVIEW"
      /\ old.command = "supergoal" =>
           \A i \in said.selected : Leaf(i) /\ Gate(i) \in {"local", "ceo_codex"}
  <2>1. CASE old.command = "run" BY <2>1, GoalRunSays
  <2>2. CASE old.command = "synthesize"
    <3>1. said = [status |-> Synthesis(seen), selected |-> {}] BY <2>2
    <3>2. Synthesis(seen) \in Sayings BY DEF Synthesis, Sayings
    <3> HIDE DEF said
    <3> QED BY <2>2, <3>1, <3>2
  <2>3. CASE old.command = "supergoal" BY <2>3, SupergoalSelects
  <2> QED BY <1>2, <2>1, <2>2, <2>3 DEF Commands
<1> HIDE DEF said
<1>5. /\ me \in ReaderState /\ me.pc = "done" /\ me.status = said.status
      /\ me.selected = said.selected /\ me.command = old.command /\ me.amid = old.amid
  BY <1>1, <1>4, IdleIsReader DEF ReaderState
<1> HIDE DEF me
<1>6. SightIsTrue(me, state, marks) BY <1>5 DEF SightIsTrue
<1>7. ASSUME me.status = "READY_FOR_PARENT_COMPLETION_REVIEW", me.amid = 0, NEW i \in Depth1
      PROVE  \/ Newest({"accepted"}, marks[i]) = "accepted"
             \/ /\ state[i] = "done" \/ Newest(Modes, marks[i]) = "AUTO-GO"
                /\ Newest(Verdicts, marks[i]) \notin {"REJECT", "PARK"}
  <2>1. Complete(seen.state[i], seen.marks[i]) /\ ChildBlockers(seen.state[i], seen.marks[i]) = {}
    BY <1>4, <1>5, <1>7, ReadyNeedsAll
  <2>2. seen.state = state /\ seen.marks[i] = marks[i]
    BY <1>1, <1>3, <1>5, <1>7 DEF SightIsTrue, Depth1, seen
  <2> QED BY <2>1, <2>2, UnblockedIsEarned
<1>8. SpeechIsEarned(me, state, marks) BY <1>4, <1>5, <1>7 DEF SpeechIsEarned
<1> QED BY <1>1, <1>5, <1>6, <1>8, ReaderKeeps DEF me

(* Somebody writes: what was read may be old, and what was said is.         *)
LEMMA DisturbKeeps ==
  ASSUME GoalInv, Disturb, marks' \in [Descendant -> Seq(Noted)],
         state' \in [Descendant -> ItemStates]
  PROVE  GoalInv'
<1>1. ASSUME NEW r \in Reader
      PROVE  /\ reader'[r] \in ReaderState
             /\ SightIsTrue(reader'[r], state', marks') /\ SpeechIsEarned(reader'[r], state', marks')
  <2> DEFINE old == reader[r]
             now == reader'[r]
  <2>1. /\ old \in ReaderState
        /\ now = CASE old.pc = "idle" -> old
                   [] old.pc = "comments" -> [old EXCEPT !.amid = @ + 1]
                   [] old.pc = "done" -> Outdated
        /\ old.pc # "done" => old.status = "none" /\ old.selected = {}
    BY DEF GoalInv, GoalTypeOK, Disturb, SpeechIsEarned
  <2> HIDE DEF old, now
  <2>2. CASE old.pc = "idle"
    <3>1. now = old BY <2>1, <2>2
    <3> QED BY <2>1, <2>2, <3>1 DEF SightIsTrue, SpeechIsEarned, now
  <2>3. CASE old.pc = "comments"
    <3>1. now = [old EXCEPT !.amid = @ + 1] BY <2>1, <2>3
    <3>a. old.amid \in Nat BY <2>1 DEF ReaderState
    <3>b. old.amid + 1 \in Nat /\ old.amid + 1 # 0 BY <3>a
    <3> DEFINE later == old.amid + 1
    <3>c. now = [old EXCEPT !.amid = later] /\ later \in Nat /\ later # 0 BY <3>1, <3>b, <2>1 DEF ReaderState
    <3> HIDE DEF later
    <3>2. /\ now \in ReaderState /\ now.amid # 0 /\ now.pc = "comments" /\ now.status = "none"
          /\ now.selected = {}
      BY <2>1, <2>3, <3>c DEF ReaderState
    <3> QED BY <3>2 DEF SightIsTrue, SpeechIsEarned, now
  <2>4. CASE old.pc = "done"
    <3>1. now = Outdated BY <2>1, <2>4
    <3> QED BY <3>1, IdleIsReader DEF SightIsTrue, SpeechIsEarned, now
  <2> QED BY <2>1, <2>2, <2>3, <2>4 DEF ReaderState
<1>2. reader' = [r \in Reader |-> reader'[r]]
  <2> DEFINE next(r) == CASE reader[r].pc = "idle" -> reader[r]
                          [] reader[r].pc = "comments" -> [reader[r] EXCEPT !.amid = @ + 1]
                          [] reader[r].pc = "done" -> Outdated
  <2>1. reader' = [r \in Reader |-> next(r)] BY DEF Disturb
  <2> HIDE DEF next
  <2> QED BY <2>1
<1>3. GoalTypeOK' BY <1>1, <1>2 DEF GoalTypeOK
<1> QED BY <1>1, <1>3 DEF GoalInv

LEMMA MarkKeeps ==
  ASSUME GoalInv, NEW i \in Descendant, NEW mark \in Marks, Mark(i, mark) PROVE GoalInv'
<1>1. Append(marks[i], mark) \in Seq(Noted)
  BY DEF GoalInv, GoalTypeOK, Noted
<1>2. marks' = [marks EXCEPT ![i] = Append(marks[i], mark)] BY DEF Mark
<1>3. marks' \in [Descendant -> Seq(Noted)] BY <1>1, <1>2 DEF GoalInv, GoalTypeOK
<1> QED BY <1>3, DisturbKeeps DEF Mark, GoalInv, GoalTypeOK

LEMMA GoalNextKeeps == GoalInv /\ [GoalNext]_goalVars => GoalInv'
<1> SUFFICES ASSUME GoalInv, [GoalNext]_goalVars PROVE GoalInv' OBVIOUS
<1>1. ASSUME NEW r \in Reader, ReaderStep(r) PROVE GoalInv'
  BY <1>1, ListItemsKeeps, FetchCommentsKeeps, ConcludeKeeps DEF ReaderStep
<1>2. ASSUME NEW i \in Descendant,
             \/ WorkerReports(i) \/ CaoJudges(i) \/ ControllerDecides(i)
             \/ AuditFollowsUp(i) \/ AcceptSelfFix(i)
      PROVE  GoalInv'
  <2>1. PICK mark \in Marks : Mark(i, mark)
    BY <1>2, Zenon DEF WorkerReports, CaoJudges, ControllerDecides, AuditFollowsUp, AcceptSelfFix,
       Verdicts, Modes, Marks
  <2> QED BY <2>1, MarkKeeps
<1>3. ASSUME NEW i \in Descendant, MoveItem(i) PROVE GoalInv'
  <2>1. /\ state' \in [Descendant -> ItemStates]
        /\ marks' \in [Descendant -> Seq(Noted)] /\ Disturb
    BY <1>3 DEF MoveItem, GoalInv, GoalTypeOK, ItemStates
  <2> QED BY <2>1, DisturbKeeps
<1>4. CASE UNCHANGED goalVars BY <1>4 DEF goalVars, GoalInv, GoalTypeOK
<1> QED BY <1>1, <1>2, <1>3, <1>4 DEF GoalNext

(* However many items a goal has and however states and comments move while *)
(* a command reads them one by one, nothing is offered as ready that was    *)
(* not ready when it was read, and nothing that waits for the founder or    *)
(* for its own children is handed out (buildGoalSynthesis,                  *)
(* buildSupergoalPlan).                                                     *)
THEOREM PlansStayEarned == GoalSpec => []PlansAreEarned
<1>1. GoalInv => PlansAreEarned
  BY DEF GoalInv, SpeechIsEarned, PlansAreEarned, ReadyIsEarned, HeldWorkStaysHeld
<1> QED BY <1>1, GoalInitInv, GoalNextKeeps, PTL DEF GoalSpec
=============================================================================
