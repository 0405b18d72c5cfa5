---------------------------- MODULE BudgetBrake ----------------------------
(***************************************************************************)
(* The model router and its budget brake                                   *)
(* (scripts/model-router/codex-cost-router.mjs, codex-cost-router-core.mjs *)
(* and cost-ledger-core.mjs).                                              *)
(*                                                                         *)
(* A run reads the cost ledger once, reserves a worst case for every model *)
(* it is to call, and goes on when run, day and month have room for it.    *)
(* Then it calls the models one after the other and only at the end        *)
(* appends a row for each call, priced by the token count the worker       *)
(* printed, if it printed one and the model has a price.  Nothing is       *)
(* locked.  Runs of one minute, mode and issue share a report directory.   *)
(*                                                                         *)
(* Money is counted in small units; the ledger is kept as its sums by day, *)
(* which is all the brake reads.  Savings estimates, the summary report,   *)
(* truncation and the observability artifacts are left out.                *)
(***************************************************************************)
EXTENDS Integers, Sequences, SequencesExt

CONSTANTS Router,         \* the processes that run the router
          Lists,          \* the lists of models a run may ask for
          RunBudget, DailyBudget, MonthlyBudget,
          Reserve,        \* what a priced worker may cost
          Costs,          \* what a worker can turn out to cost
          UnknownReserve, \* what is set aside for a model without a price
          MaxDay,         \* bound on the days
          MonthStarts,    \* the days a month starts on
          MaxRuns         \* bound on the runs

\* numericPolicyValue: no amount is negative.
ASSUME BudgetAssumption ==
  /\ {RunBudget, DailyBudget, MonthlyBudget, Reserve, UnknownReserve} \cup Costs \subseteq Nat
  /\ MaxDay \in Nat \ {0} /\ MonthStarts \subseteq 1..MaxDay
  /\ Lists \subseteq Seq(STRING)

VARIABLES day,      \* the calendar
          spent,    \* day -> what the ledger says was spent
          real,     \* day -> what the workers really cost
          router,   \* router -> the state of its run
          kept,     \* prompt.md in the report directory of this minute
          runs,     \* how many runs have started
          sound     \* no run has left the ledger wrong or unread

budgetVars == <<day, spent, real, router, kept, runs, sound>>

Days == 1..MaxDay
Priced == {"grok", "deepseek"}
Prompts == {"plain", "private", "secret"}
Nothing == [d \in Days |-> 0]
NoRun == [phase |-> "idle", prompt |-> "none", blocked |-> FALSE, fits |-> FALSE,
          models |-> <<>>, rows |-> Nothing, writes |-> FALSE, here |-> FALSE]

MonthOf(d) == Cardinality({m \in MonthStarts : m <= d})
MonthSum(book, d) == SumFunctionOnSet(book, {e \in Days : MonthOf(e) = MonthOf(d)})

-----------------------------------------------------------------------------
(* The brake *)

\* estimateWorkerReserveUsd
ReserveOf(model) == IF model \in Priced THEN Reserve ELSE UnknownReserve
ReserveFor(models) == SumFunction([n \in DOMAIN models |-> ReserveOf(models[n])])

\* Mutant: the brake asks whether there is money left, not whether the run fits.
BudgetFitsLeft(models, allowUnknown) ==
  /\ ReserveFor(models) <= RunBudget
  /\ spent[day] <= DailyBudget
  /\ MonthSum(spent, day) <= MonthlyBudget
  /\ allowUnknown \/ ToSet(models) \subseteq Priced

\* evaluateBudgetBrake: no check blocks.
BudgetFits(models, allowUnknown) ==
  /\ ReserveFor(models) <= RunBudget
  /\ spent[day] + ReserveFor(models) <= DailyBudget
  /\ MonthSum(spent, day) + ReserveFor(models) <= MonthlyBudget
  /\ allowUnknown \/ ToSet(models) \subseteq Priced

\* Mutant: allowing private context lifts the block altogether.
PromptBlockedPrivate(prompt, allowPrivate) == prompt # "plain" /\ ~allowPrivate

\* detectPromptRisk and buildRunPlan: a secret always blocks.
PromptBlocked(prompt, allowPrivate) ==
  \/ prompt = "secret"
  \/ prompt = "private" /\ ~allowPrivate

-----------------------------------------------------------------------------
(* A run *)

BudgetInit == /\ day = 1
              /\ spent = Nothing
              /\ real = Nothing
              /\ router = [r \in Router |-> NoRun]
              /\ kept = "none"
              /\ runs = 0
              /\ sound = TRUE

\* buildRunPlan: a directory named for this minute.
RunPlan(models, prompt, allowPrivate) ==
  [NoRun EXCEPT !.phase = "planned", !.prompt = prompt, !.models = models, !.here = TRUE,
                !.blocked = PromptBlocked(prompt, allowPrivate)]

\* The plan, the brake and the risk of the prompt are read before anything is
\* written.  A run that is not alone, skips the brake or keeps no ledger is
\* outside of what the brake can promise.
PlanRun(r) ==
  /\ router[r].phase = "idle"
  /\ runs < MaxRuns
  /\ \E models \in Lists, prompt \in Prompts, brake, allow, keep \in BOOLEAN :
       /\ router' = [router EXCEPT ![r] =
            [RunPlan(models, prompt, allow) EXCEPT
               !.fits = brake => BudgetFits(models, allow), !.writes = keep]]
       /\ sound' = (sound /\ brake /\ keep /\ \A q \in Router : router[q].phase = "idle")
  /\ runs' = runs + 1
  /\ UNCHANGED <<day, spent, real, kept>>

\* writeRunFiles, then the three ways a run ends before it calls anybody.
WriteRunFiles(r) ==
  LET me == router[r]
      stored == IF me.blocked THEN "not stored" ELSE me.prompt
  IN  /\ me.phase = "planned"
      /\ kept' = IF me.here THEN stored ELSE kept
      /\ \E dryRun \in BOOLEAN :
           router' = [router EXCEPT ![r] =
             IF me.blocked \/ ~me.fits \/ dryRun THEN NoRun
             ELSE [me EXCEPT !.phase = "calling"]]
      /\ UNCHANGED <<day, spent, real, runs, sound>>

\* What the row of a call knows of its cost: the token footer, at a known price.
KnownCost(model, footer, cost) == IF footer /\ model \in Priced THEN cost ELSE 0

\* runModelWorker and persistModelResult: the worker costs what it costs, also
\* when it fails or times out.
CallWorker(r) ==
  LET me == router[r]
      model == Head(me.models)
  IN  /\ me.phase = "calling"
      /\ me.models # <<>>
      /\ \E cost \in Costs, footer \in BOOLEAN :
           LET known == KnownCost(model, footer, cost)
           IN  /\ real' = [real EXCEPT ![day] = @ + cost]
               /\ router' = [router EXCEPT ![r] = [me EXCEPT !.models = Tail(me.models),
                                                           !.rows[day] = @ + known]]
               /\ sound' = (sound /\ known = cost /\ cost <= ReserveOf(model))
      /\ UNCHANGED <<day, spent, kept, runs>>

\* appendCostLedgerRows, once every model was called.
AppendRows(r) ==
  LET me == router[r]
  IN  /\ me.phase = "calling"
      /\ me.models = <<>>
      /\ spent' = IF me.writes THEN [d \in Days |-> spent[d] + me.rows[d]] ELSE spent
      /\ router' = [router EXCEPT ![r] = NoRun]
      /\ UNCHANGED <<day, real, kept, runs, sound>>

\* The process is killed, or a report cannot be written: no row is kept.
RouterDies(r) == /\ router[r].phase # "idle"
                 /\ router' = [router EXCEPT ![r] = NoRun]
                 /\ sound' = (sound /\ router[r].phase = "planned")
                 /\ UNCHANGED <<day, spent, real, kept, runs>>

\* The next minute has a directory of its own.
MinuteEnds == /\ kept # "none"
              /\ kept' = "none"
              /\ router' = [r \in Router |-> [router[r] EXCEPT !.here = FALSE]]
              /\ UNCHANGED <<day, spent, real, runs, sound>>

DayEnds == /\ day < MaxDay
           /\ day' = day + 1
           /\ kept' = "none"
           /\ router' = [r \in Router |-> [router[r] EXCEPT !.here = FALSE]]
           /\ UNCHANGED <<spent, real, runs, sound>>

BudgetNext == \/ \E r \in Router : \/ PlanRun(r)
                                   \/ WriteRunFiles(r)
                                   \/ CallWorker(r)
                                   \/ AppendRows(r)
                                   \/ RouterDies(r)
              \/ MinuteEnds
              \/ DayEnds

BudgetSpec == BudgetInit /\ [][BudgetNext]_budgetVars

-----------------------------------------------------------------------------
(* Properties *)

\* As long as runs come one at a time with brake and ledger on, die before they
\* call anybody if at all, and workers stay within their reserve and print what
\* they used, no day and no month costs more than its budget: also for a run
\* that calls some of its models before midnight and some after it.
NoOverspend ==
  sound => \A d \in Days : /\ real[d] <= DailyBudget
                           /\ MonthSum(real, d) <= MonthlyBudget

\* The prompt kept in a report directory never holds a secret, whatever the
\* operator allows and whichever run of the minute wrote it.
PromptIsClean == kept # "secret"

\* No run of the router overspends or keeps a secret.
RoutersAreBounded == NoOverspend /\ PromptIsClean
=============================================================================
