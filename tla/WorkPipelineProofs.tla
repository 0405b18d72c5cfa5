------------------------- MODULE WorkPipelineProofs -------------------------
(***************************************************************************)
(* Proofs about WorkPipeline for any descriptions, processes and bounds.   *)
(*                                                                         *)
(* No process after the lock trusts the one that started it: each reads    *)
(* the ledger afresh.  The inductive invariant says what each has read off *)
(* the ledger and holds on to (RuntimeKnows, AuditKnows, DeciderKnows),    *)
(* and what every comment it posted rests on (Just).  Both survive because *)
(* comments are only appended and because a run keeps the description it   *)
(* fetched.                                                                *)
(***************************************************************************)
EXTENDS WorkPipeline, DispatchLockProofs, FiniteSetTheorems

Good == {"PASS", "PASS-bare"}

(* Before position n of l, a lock and the one report after it that is not  *)
(* a failure: verdict c passes that report under that lock.                *)
Backed(l, n, c) ==
  \E a \in At(l, "worker.lock"), p \in At(l, "worker.reported") :
    /\ a < p /\ p < n
    /\ l[p].value = "PASS" /\ c.run = l[a].run /\ c.prev = l[p].run
    /\ \A q \in At(l, "worker.reported") : (a < q /\ q < p) => l[q].value = "FAILED"

(* Verdict c, at position n of l, passes what run r has reported, or was   *)
(* given under a lock that is newer than that report.                      *)
Answers(l, n, r, c) ==
  \E p \in At(l, "worker.reported") :
    /\ l[p].run = r /\ p < n
    /\ \/ c.prev = r
       \/ \E a \in At(l, "worker.lock") : p < a /\ a < n /\ l[a].run = c.run

Answered(l, r) ==
  \E v \in At(l, "controller.verdict") : l[v].value = "PASS" /\ Answers(l, v, r, l[v])

HasReported(l, r) ==
  \E p \in At(l, "worker.reported") : l[p].run = r /\ l[p].value \in Good

SomePass(l, n) ==
  \E v \in At(l, "controller.verdict") : v < n /\ l[v].value = "PASS"

LockedFor(l, n, h) == \E a \in At(l, "worker.lock") : a < n /\ l[a].hash = h

RuntimeKnows(l, r, me) ==
  /\ me.pc # "idle" => me.hash \in Hashes
  /\ me.seen <= Len(l)
  /\ me.pc \in {"running", "summary", "reporting"} => LockedFor(l, Len(l) + 1, me.hash)
  /\ me.pc \in {"summary", "reporting"} => me.outcome \in Outcomes
  /\ me.pc = "deciding" \/ me.exit = "0" => Answered(l, r)

(* A verdict ready for posting as comment n. *)
Verdictable(l, n, c) ==
  /\ c \in Comment /\ c.title = "controller.verdict" /\ c.value \in CaoVerdicts
  /\ c.value = "PASS" => Backed(l, n, c)

AuditKnows(l, a, me) ==
  /\ me.pc = "fetched" => me.hash \in Hashes
  /\ me.pc = "posting" => Verdictable(l, Len(l) + 1, me.verdict)
  /\ a \in Runtimes /\ me.pc # "off" => HasReported(l, a)
  /\ a \in Runtimes /\ me.pc = "posting" /\ me.verdict.value = "PASS" =>
       Answers(l, Len(l) + 1, a, me.verdict)
  /\ a \in Runtimes /\ me.exit = "0" => Answered(l, a)

DeciderKnows(l, me) ==
  /\ me.pc = "fetched" => me.hash \in Hashes
  /\ me.pc = "posting" => /\ me.decision \in DecisionModes
                          /\ me.decision = "AUTO-GO" => SomePass(l, Len(l) + 1)

(* What comment c, at position n of l, rests on. *)
Rests(l, n, c, rs) ==
  /\ c.title = "worker.reported" =>
       /\ c.run \in Runtimes /\ rs[c.run].pc # "idle"
       /\ LockedFor(l, n, rs[c.run].hash)
  /\ c.title = "controller.verdict" =>
       /\ c.value \in CaoVerdicts
       /\ c.value = "PASS" => Backed(l, n, c)
  /\ c.title = "controller.decision" /\ c.value = "AUTO-GO" => SomePass(l, n)
  /\ c.title = "worker.lock" =>
       \A i \in At(l, "worker.lock") : i < n => l[i].run # c.run

Just(l, rs) == \A i \in DOMAIN l : Rests(l, i, l[i], rs)

WorkTypes ==
  /\ runtime \in [Runtimes -> RuntimeState]
  /\ audit \in [Runtimes \cup Auditors -> AuditState]
  /\ decider \in [Runtimes -> DeciderState]

WorkInv ==
  /\ DInv
  /\ WorkTypes
  /\ Just(ledger, runtime)
  /\ \A r \in Runtimes : RuntimeKnows(ledger, r, runtime[r])
  /\ \A a \in Runtimes \cup Auditors : AuditKnows(ledger, a, audit[a])
  /\ \A r \in Runtimes : DeciderKnows(ledger, decider[r])

-----------------------------------------------------------------------------
(* Appending a comment *)

(* Nothing before position n is moved. *)
Extends(l, k) ==
  /\ Len(l) \in Nat /\ Len(k) \in Nat /\ Len(l) <= Len(k)
  /\ DOMAIN l = 1 .. Len(l) /\ DOMAIN k = 1 .. Len(k)
  /\ \A title : \A i \in At(l, title) : i \in At(k, title) /\ k[i] = l[i]
  /\ \A title : \A i \in At(k, title) : i <= Len(l) => i \in At(l, title)

LEMMA AppendExtends ==
  ASSUME NEW l \in Seq(Comment), NEW c \in Comment
  PROVE  Extends(l, Append(l, c))
<1> DEFINE k == Append(l, c)
<1>1. /\ Len(l) \in Nat /\ Len(k) = Len(l) + 1
      /\ DOMAIN l = 1 .. Len(l) /\ DOMAIN k = 1 .. Len(k)
  OBVIOUS
<1>2. ASSUME NEW title, NEW i \in At(l, title)
      PROVE  i \in At(k, title) /\ k[i] = l[i]
  BY <1>2, AppendKeeps DEF At
<1>3. ASSUME NEW title, NEW i \in At(k, title), i <= Len(l) PROVE i \in At(l, title)
  BY <1>1, <1>3, AtAppend
<1> HIDE DEF k
<1>4. Extends(l, k) BY <1>1, <1>2, <1>3 DEF Extends
<1> QED BY <1>4 DEF k

LEMMA BackedKept ==
  ASSUME NEW l, NEW k, NEW n \in Nat, NEW m \in Nat, NEW c, Extends(l, k),
         Backed(l, n, c), n <= m, n <= Len(l) + 1
  PROVE  Backed(k, m, c)
<1>1. PICK a \in At(l, "worker.lock"), p \in At(l, "worker.reported") :
        /\ a < p /\ p < n
        /\ l[p].value = "PASS" /\ c.run = l[a].run /\ c.prev = l[p].run
        /\ \A q \in At(l, "worker.reported") : (a < q /\ q < p) => l[q].value = "FAILED"
  BY DEF Backed
<1>2. /\ a \in At(k, "worker.lock") /\ p \in At(k, "worker.reported")
      /\ k[a] = l[a] /\ k[p] = l[p]
  BY DEF Extends
<1>3. a \in Nat /\ p \in Nat /\ p <= Len(l) /\ p < m
  BY <1>1 DEF At, Extends
<1>4. ASSUME NEW q \in At(k, "worker.reported"), a < q, q < p
      PROVE  k[q].value = "FAILED"
  <2>1. q \in 1 .. Len(k) /\ Len(k) \in Nat /\ Len(l) \in Nat
    BY DEF At, Extends
  <2>2. q \in At(l, "worker.reported") BY <2>1, <1>3, <1>4 DEF Extends
  <2> QED BY <2>2, <1>1, <1>4 DEF Extends
<1> QED BY <1>1, <1>2, <1>3, <1>4 DEF Backed

LEMMA AnswersKept ==
  ASSUME NEW l, NEW k, NEW n \in Nat, NEW m \in Nat, NEW r, NEW c, Extends(l, k),
         Answers(l, n, r, c), n <= m, n <= Len(l) + 1
  PROVE  Answers(k, m, r, c)
<1>1. \A title : \A i \in At(l, title) : i \in Nat BY DEF At, Extends
<1> QED BY <1>1 DEF Answers, Extends

LEMMA AnsweredKept ==
  ASSUME NEW l, NEW k, NEW r, Extends(l, k), Answered(l, r)
  PROVE  Answered(k, r)
<1>1. PICK v \in At(l, "controller.verdict") :
        l[v].value = "PASS" /\ Answers(l, v, r, l[v])
  BY DEF Answered
<1>2. v \in At(k, "controller.verdict") /\ k[v] = l[v] BY DEF Extends
<1>3. v \in Nat /\ Len(l) \in Nat /\ v <= Len(l) + 1 BY DEF At, Extends
<1>4. Answers(k, v, r, l[v]) BY <1>1, <1>3, AnswersKept
<1> QED BY <1>1, <1>2, <1>4 DEF Answered

LEMMA OthersKept ==
  ASSUME NEW l, NEW k, NEW n \in Nat, NEW m \in Nat, Extends(l, k), n <= m
  PROVE  /\ \A r : HasReported(l, r) => HasReported(k, r)
         /\ SomePass(l, n) => SomePass(k, m)
         /\ \A h : LockedFor(l, n, h) => LockedFor(k, m, h)
<1>1. \A title : \A i \in At(l, title) : i \in Nat BY DEF At, Extends
<1>2. \A r : HasReported(l, r) => HasReported(k, r) BY DEF HasReported, Extends
<1>3. SomePass(l, n) => SomePass(k, m) BY <1>1 DEF SomePass, Extends
<1>4. \A h : LockedFor(l, n, h) => LockedFor(k, m, h) BY <1>1 DEF LockedFor, Extends
<1> QED BY <1>2, <1>3, <1>4

(* What a process holds on to stays true while others post. *)
LEMMA KnowledgeKept ==
  ASSUME NEW l, NEW k, Extends(l, k)
  PROVE  /\ \A r, me : me.seen \in Nat /\ RuntimeKnows(l, r, me) => RuntimeKnows(k, r, me)
         /\ \A a, me : AuditKnows(l, a, me) => AuditKnows(k, a, me)
         /\ \A me : DeciderKnows(l, me) => DeciderKnows(k, me)
<1> DEFINE n == Len(l) + 1
           m == Len(k) + 1
<1>1. /\ n \in Nat /\ m \in Nat /\ n <= m /\ n <= Len(l) + 1
      /\ Len(l) \in Nat /\ Len(k) \in Nat /\ Len(l) <= Len(k)
  BY DEF Extends
<1>2. /\ \A r : HasReported(l, r) => HasReported(k, r)
      /\ SomePass(l, n) => SomePass(k, m)
      /\ \A h : LockedFor(l, n, h) => LockedFor(k, m, h)
  BY <1>1, OthersKept
<1>3. /\ \A c : Backed(l, n, c) => Backed(k, m, c)
      /\ \A r, c : Answers(l, n, r, c) => Answers(k, m, r, c)
      /\ \A r : Answered(l, r) => Answered(k, r)
  <2> HIDE DEF n, m
  <2>1. ASSUME NEW c, Backed(l, n, c) PROVE Backed(k, m, c)
    BY <2>1, <1>1, BackedKept
  <2>2. ASSUME NEW r, NEW c, Answers(l, n, r, c) PROVE Answers(k, m, r, c)
    BY <2>2, <1>1, AnswersKept
  <2>3. \A r : Answered(l, r) => Answered(k, r) BY AnsweredKept
  <2> QED BY <2>1, <2>2, <2>3
<1>4. ASSUME NEW r, NEW me, me.seen \in Nat, RuntimeKnows(l, r, me)
      PROVE  RuntimeKnows(k, r, me)
  BY <1>1, <1>2, <1>3, <1>4 DEF RuntimeKnows
<1>5. ASSUME NEW a, NEW me, AuditKnows(l, a, me) PROVE AuditKnows(k, a, me)
  BY <1>2, <1>3, <1>5 DEF AuditKnows, Verdictable
<1>6. ASSUME NEW me, DeciderKnows(l, me) PROVE DeciderKnows(k, me)
  BY <1>2, <1>6 DEF DeciderKnows
<1> QED BY <1>4, <1>5, <1>6

(* A comment stays justified, and a justified one may be added. *)
LEMMA JustKept ==
  ASSUME NEW l \in Seq(Comment), NEW c \in Comment, NEW rs,
         Just(l, rs), Rests(l, Len(l) + 1, c, rs)
  PROVE  Just(Append(l, c), rs)
<1> DEFINE k == Append(l, c)
<1>1. Extends(l, k) BY AppendExtends
<1>2. /\ Len(l) \in Nat /\ Len(k) = Len(l) + 1 /\ k[Len(l) + 1] = c
      /\ DOMAIN k = 1 .. Len(l) + 1 /\ DOMAIN l = 1 .. Len(l)
      /\ \A i \in 1 .. Len(l) : k[i] = l[i]
  OBVIOUS
<1> HIDE DEF k
<1>3. ASSUME NEW i \in 1 .. Len(l) + 1, NEW e, Rests(l, i, e, rs)
      PROVE  Rests(k, i, e, rs)
  <2>1. i \in Nat /\ i <= i /\ i <= Len(l) + 1 BY <1>2
  <2>2. Backed(l, i, e) => Backed(k, i, e) BY <2>1, <1>1, BackedKept
  <2>3. /\ SomePass(l, i) => SomePass(k, i)
        /\ \A h : LockedFor(l, i, h) => LockedFor(k, i, h)
    BY <2>1, <1>1, OthersKept
  <2>4. ASSUME NEW j \in At(k, "worker.lock"), j < i
        PROVE  j \in At(l, "worker.lock") /\ k[j] = l[j]
    <3>1. j \in 1 .. Len(k) BY <1>2 DEF At
    <3>2. j <= Len(l) BY <3>1, <2>4, <1>2
    <3> QED BY <3>2, <1>1 DEF Extends
  <2> QED BY <1>3, <2>2, <2>3, <2>4 DEF Rests
<1>4. ASSUME NEW i \in DOMAIN k PROVE Rests(k, i, k[i], rs)
  <2>1. CASE i \in 1 .. Len(l)
    <3>1. Rests(l, i, l[i], rs) BY <1>2, <2>1 DEF Just
    <3> QED BY <3>1, <1>2, <1>3
  <2>2. CASE i = Len(l) + 1
    BY <2>2, <1>2, <1>3
  <2> QED BY <2>1, <2>2, <1>2
<1>5. Just(k, rs) BY <1>4 DEF Just
<1> QED BY <1>5 DEF k

-----------------------------------------------------------------------------
(* What a reading decides *)

LEMMA NewestIsGreatest ==
  ASSUME NEW l \in Seq(Comment), NEW title, NEW S, S \subseteq At(l, title), S # {}
  PROVE  /\ Max(S) \in S /\ Max(S) \in Nat
         /\ \A i \in S : i <= Max(S)
<1>1. S \subseteq 0 .. Len(l) /\ Len(l) \in Nat BY DEF At
<1>2. \E x \in S : \A y \in S : y <= x BY <1>1, GreatestExists
<1>3. \E x \in S : \A y \in S : x >= y BY <1>1, <1>2
<1>4. Max(S) \in S /\ \A y \in S : Max(S) >= y BY <1>3 DEF Max
<1> DEFINE x == Max(S)
<1>5. x \in S /\ \A y \in S : x >= y BY <1>4
<1> HIDE DEF x
<1>6. x \in Nat /\ \A y \in S : y <= x BY <1>1, <1>5
<1> QED BY <1>5, <1>6 DEF x

(* The report the CAO accepts is the only one after the newest lock that   *)
(* is not a failure.                                                       *)
LEMMA SelectedIsOnlySuccess ==
  ASSUME NEW l \in Seq(Comment), SelectedReport(l) # 0
  PROVE  /\ SelectedReport(l) \in Reports(l)
         /\ \A q \in Reports(l) : q # SelectedReport(l) => l[q].value = "FAILED"
<1> DEFINE R == Reports(l)
           p == Max(R)
<1>1. R \subseteq At(l, "worker.reported") BY DEF Reports
<1>2. IsFiniteSet(R)
  <2>1. R \subseteq 1 .. Len(l) /\ Len(l) \in Nat BY <1>1 DEF At
  <2>2. IsFiniteSet(1 .. Len(l)) BY <2>1, FS_Interval
  <2> QED BY <2>1, <2>2, FS_Subset
<1>3. R # {}
  <2>1. R = {} => Cardinality(R) = 0 BY FS_EmptySet
  <2> QED BY <2>1 DEF SelectedReport
<1>4. p \in R BY <1>1, <1>3, NewestIsGreatest
<1>5. SelectedReport(l) = p BY DEF SelectedReport
<1>6. CASE Cardinality(R) = 1
  <2>1. \E x : R = {x} BY <1>2, <1>6, FS_Singleton
  <2> QED BY <2>1, <1>4, <1>5
<1>7. CASE Cardinality(R) # 1
  <2>1. \A i \in R \ {p} : l[i].value = "FAILED" BY <1>7 DEF SelectedReport
  <2> QED BY <2>1, <1>4, <1>5
<1> QED BY <1>6, <1>7

(* runCaoPass: what a verdict is worth on the ledger it was read from.     *)
LEMMA VerdictIsBacked ==
  ASSUME NEW l \in Seq(Comment), NEW h \in Hashes, NEW t
  PROVE  /\ Verdictable(l, Len(l) + 1, Verdict(l, h, t))
         /\ \A r : HasReported(l, r) /\ Verdict(l, h, t).value = "PASS" =>
              Answers(l, Len(l) + 1, r, Verdict(l, h, t))
<1> DEFINE c == Verdict(l, h, t)
           a == NewestLock(l)
           p == SelectedReport(l)
<1>1. \A title : \A i \in At(l, title) :
        /\ i \in Nat /\ i < Len(l) + 1 /\ i # 0 /\ l[i] \in Comment
        /\ l[i].run \in Runs \cup {None}
  <2>1. \A i \in DOMAIN l : l[i] \in Comment /\ i \in Nat /\ i < Len(l) + 1 /\ i # 0
    OBVIOUS
  <2> QED BY <2>1 DEF At, Comment
<1>2. a # 0 => /\ a \in At(l, "worker.lock")
               /\ \A b \in At(l, "worker.lock") : b <= a
  BY NewestIsGreatest DEF NewestLock
<1>3. p # 0 => /\ p \in At(l, "worker.reported") /\ a < p
               /\ \A q \in At(l, "worker.reported") :
                    a < q /\ q # p => l[q].value = "FAILED"
  BY SelectedIsOnlySuccess DEF Reports
<1>4. /\ c.title = "controller.verdict" /\ c.value \in CaoVerdicts
      /\ c.run = IF a = 0 THEN None ELSE l[a].run
      /\ c.prev = IF p = 0 THEN None ELSE l[p].run
      /\ c.value = "PASS" => a # 0 /\ p # 0 /\ l[p].value = "PASS"
  BY DEF Verdict, VerdictComment, CaoVerdicts, CaoAccepts
<1>5. c \in Comment
  <2>1. c.run \in Runs \cup {None} /\ c.prev \in Runs \cup {None}
    BY <1>1, <1>2, <1>3, <1>4
  <2>2. c = [title |-> "controller.verdict", hash |-> h, value |-> c.value,
             reasons |-> {}, run |-> c.run, expires |-> 0, prev |-> c.prev]
    BY DEF Verdict, VerdictComment
  <2>3. c.value \in Values BY <1>4 DEF Values
  <2> HIDE DEF c
  <2> QED BY <2>1, <2>2, <2>3 DEF Comment, Titles
<1> HIDE DEF a, p, c
<1>6. ASSUME c.value = "PASS" PROVE Backed(l, Len(l) + 1, c)
  <2>1. /\ a \in At(l, "worker.lock") /\ p \in At(l, "worker.reported") /\ a < p
        /\ p < Len(l) + 1 /\ l[p].value = "PASS"
        /\ c.run = l[a].run /\ c.prev = l[p].run
    BY <1>1, <1>2, <1>3, <1>4, <1>6
  <2>2. \A q \in At(l, "worker.reported") : a < q /\ q < p => l[q].value = "FAILED"
    <3>1. \A q \in At(l, "worker.reported") : q < p => q # p BY <1>1, <2>1
    <3> QED BY <3>1, <1>3, <1>4, <1>6
  <2> QED BY <2>1, <2>2 DEF Backed
<1>7. ASSUME NEW r, HasReported(l, r), c.value = "PASS"
      PROVE  Answers(l, Len(l) + 1, r, c)
  <2>1. PICK o \in At(l, "worker.reported") : l[o].run = r /\ l[o].value \in Good
    BY <1>7 DEF HasReported
  <2>2. l[o].value # "FAILED" BY <2>1 DEF Good
  <2>3. a # 0 /\ p # 0 BY <1>4, <1>7
  <2>4. a \in Nat /\ o \in Nat /\ o < Len(l) + 1 /\ a < Len(l) + 1
    BY <1>1, <1>2, <2>3
  <2>5. CASE a < o
    <3>1. o = p BY <1>3, <2>2, <2>3, <2>5
    <3> QED BY <3>1, <1>4, <2>1, <2>3, <2>4 DEF Answers
  <2>6. CASE o < a BY <1>2, <1>4, <2>1, <2>3, <2>4, <2>6 DEF Answers
  <2>7. o # a
    BY <1>2, <2>3 DEF At
  <2> QED BY <2>4, <2>5, <2>6, <2>7
<1> QED BY <1>4, <1>5, <1>6, <1>7 DEF Verdictable, c

(* The Codex controller goes ahead only on a PASS: the newest verdict is   *)
(* neither missing nor a REJECT, and the CAO writes no other.              *)
LEMMA DecisionStandsOnPass ==
  ASSUME NEW l \in Seq(Comment), NEW rs, Just(l, rs), NEW h
  PROVE  /\ Decision(l, h) \in DecisionModes
         /\ Decision(l, h) = "AUTO-GO" => SomePass(l, Len(l) + 1)
<1>1. Decision(l, h) \in DecisionModes
  BY DEF Decision, DecisionOnPass, DecisionModes
<1>2. ASSUME Decision(l, h) = "AUTO-GO" PROVE SomePass(l, Len(l) + 1)
  <2> DEFINE verdicts == At(l, "controller.verdict")
             v == Max(verdicts)
  <2>1. NewestVerdict(l) # "missing" /\ NewestVerdict(l) # "REJECT"
    BY <1>2 DEF Decision
  <2>2. verdicts # {} /\ NewestVerdict(l) = l[v].value
    BY <2>1 DEF NewestVerdict
  <2>3. v \in verdicts BY <2>2, NewestIsGreatest
  <2>4. Rests(l, v, l[v], rs) /\ l[v].title = "controller.verdict"
    BY <2>3 DEF Just, At
  <2>5. l[v].value = "PASS" BY <2>1, <2>2, <2>4 DEF Rests, CaoVerdicts
  <2>6. v < Len(l) + 1 BY <2>3 DEF At
  <2> QED BY <2>3, <2>5, <2>6 DEF SomePass
<1> QED BY <1>1, <1>2

-----------------------------------------------------------------------------
(* Steps *)

LEMMA JustStays ==
  ASSUME NEW l, NEW rs, NEW qs, Just(l, rs),
         \A r \in Runtimes : rs[r].pc # "idle" =>
           qs[r].pc # "idle" /\ qs[r].hash = rs[r].hash
  PROVE  Just(l, qs)
  BY DEF Just, Rests

(* One lemma for every step: a comment that rests on the ledger may be     *)
(* appended, and the processes that move know what their state says.       *)
LEMMA StepKeeps ==
  ASSUME WorkInv, DInv', WorkTypes',
         \/ ledger' = ledger
         \/ \E c \in Comment : /\ ledger' = Append(ledger, c)
                               /\ Rests(ledger, Len(ledger) + 1, c, runtime),
         \A r \in Runtimes : runtime[r].pc # "idle" =>
           runtime'[r].pc # "idle" /\ runtime'[r].hash = runtime[r].hash,
         \A r \in Runtimes : runtime'[r] = runtime[r]
                               \/ RuntimeKnows(ledger', r, runtime'[r]),
         \A a \in Runtimes \cup Auditors : audit'[a] = audit[a]
                                             \/ AuditKnows(ledger', a, audit'[a]),
         \A r \in Runtimes : decider'[r] = decider[r]
                               \/ DeciderKnows(ledger', decider'[r])
  PROVE  WorkInv'
<1>1. ledger \in Seq(Comment) BY DEF WorkInv, DInv, TypeOK, ReviewTypeOK
<1>2. Extends(ledger, ledger')
  <2>1. Extends(ledger, ledger) BY <1>1 DEF Extends, At
  <2> QED BY <1>1, <2>1, AppendExtends
<1>3. Just(ledger', runtime)
  BY <1>1, JustKept DEF WorkInv
<1>4. Just(ledger', runtime') BY <1>3, JustStays
<1>5. \A r \in Runtimes : RuntimeKnows(ledger', r, runtime'[r])
  <2>1. ASSUME NEW r \in Runtimes PROVE RuntimeKnows(ledger', r, runtime[r])
    <3>1. runtime[r].seen \in Nat BY DEF WorkInv, WorkTypes, RuntimeState
    <3> QED BY <3>1, <1>2, KnowledgeKept DEF WorkInv
  <2> QED BY <2>1
<1>6. \A a \in Runtimes \cup Auditors : AuditKnows(ledger', a, audit'[a])
  <2>1. ASSUME NEW a \in Runtimes \cup Auditors PROVE AuditKnows(ledger', a, audit[a])
    BY <1>2, KnowledgeKept DEF WorkInv
  <2> QED BY <2>1
<1>7. \A r \in Runtimes : DeciderKnows(ledger', decider'[r])
  <2>1. ASSUME NEW r \in Runtimes PROVE DeciderKnows(ledger', decider[r])
    BY <1>2, KnowledgeKept DEF WorkInv
  <2> QED BY <2>1
<1> QED BY <1>4, <1>5, <1>6, <1>7 DEF WorkInv

(* What the processes after the lock post is no lock and no review. *)
LEMMA WorkPostKeeps ==
  ASSUME DInv, NEW c \in Comment,
         c.title \in {"worker.reported", "controller.verdict", "controller.decision"},
         ledger' = ledger \/ ledger' = Append(ledger, c),
         UNCHANGED <<description, edits, reviewer, now, dispatcher>>
  PROVE  DInv'
<1>1. EarnedPass(c, At(ledger, "human-gate-released")) BY DEF EarnedPass
<1>2. ReviewTypeOK' /\ PassInv' BY <1>1, LedgerMoves
<1> QED BY <1>2, OthersKeep

LEMMA QuietKeeps == DInv /\ UNCHANGED vars => DInv'
  BY DStep

LEMMA RuntimeMoves ==
  ASSUME WorkInv, UNCHANGED <<vars, audit, decider>>,
         NEW r \in Runtimes, NEW x \in RuntimeState,
         runtime' = [runtime EXCEPT ![r] = x],
         RuntimeKnows(ledger, r, x),
         runtime[r].pc # "idle" => x.pc # "idle" /\ x.hash = runtime[r].hash
  PROVE  WorkInv'
<1>1. ledger' = ledger /\ audit' = audit /\ decider' = decider BY DEF vars
<1>2. DInv' BY QuietKeeps DEF WorkInv
<1>3. \A q \in Runtimes : runtime'[q] = IF q = r THEN x ELSE runtime[q]
  BY DEF WorkInv, WorkTypes
<1>4. WorkTypes' BY <1>1 DEF WorkInv, WorkTypes
<1> QED BY <1>1, <1>2, <1>3, <1>4, StepKeeps

LEMMA AuditMoves ==
  ASSUME WorkInv, NEW a \in Runtimes \cup Auditors, NEW x \in AuditState, DInv',
         \/ ledger' = ledger
         \/ \E c \in Comment : /\ ledger' = Append(ledger, c)
                               /\ Rests(ledger, Len(ledger) + 1, c, runtime),
         UNCHANGED <<runtime, decider>>,
         audit' = [audit EXCEPT ![a] = x],
         AuditKnows(ledger', a, x)
  PROVE  WorkInv'
<1>1. runtime' = runtime /\ decider' = decider OBVIOUS
<1>2. \A b \in Runtimes \cup Auditors : audit'[b] = IF b = a THEN x ELSE audit[b]
  BY DEF WorkInv, WorkTypes
<1>3. WorkTypes' BY <1>1 DEF WorkInv, WorkTypes
<1> QED BY <1>1, <1>2, <1>3, StepKeeps

LEMMA DeciderMoves ==
  ASSUME WorkInv, NEW r \in Runtimes, NEW x \in DeciderState, DInv',
         \/ ledger' = ledger
         \/ \E c \in Comment : /\ ledger' = Append(ledger, c)
                               /\ Rests(ledger, Len(ledger) + 1, c, runtime),
         UNCHANGED <<runtime, audit>>,
         decider' = [decider EXCEPT ![r] = x],
         DeciderKnows(ledger', x)
  PROVE  WorkInv'
<1>1. runtime' = runtime /\ audit' = audit OBVIOUS
<1>2. \A q \in Runtimes : decider'[q] = IF q = r THEN x ELSE decider[q]
  BY DEF WorkInv, WorkTypes
<1>3. WorkTypes' BY <1>1 DEF WorkInv, WorkTypes
<1> QED BY <1>1, <1>2, <1>3, StepKeeps

-----------------------------------------------------------------------------
(* The runtime dispatcher *)

LEMMA RuntimeShapes ==
  ASSUME NEW me \in RuntimeState, NEW h \in Hashes, NEW n \in Nat,
         NEW outcome \in Outcomes, NEW ok \in BOOLEAN, NEW code \in {"0", "1", "2"}
  PROVE  /\ [me EXCEPT !.pc = "fetched", !.hash = h] \in RuntimeState
         /\ [me EXCEPT !.pc = "listed", !.seen = n] \in RuntimeState
         /\ [me EXCEPT !.pc = "running", !.seen = 0, !.lock = n] \in RuntimeState
         /\ [me EXCEPT !.pc = "summary", !.outcome = outcome] \in RuntimeState
         /\ [me EXCEPT !.pc = "reporting", !.posted = ok] \in RuntimeState
         /\ [me EXCEPT !.pc = "auditing"] \in RuntimeState
         /\ [me EXCEPT !.pc = "deciding"] \in RuntimeState
         /\ [me EXCEPT !.pc = "exited", !.exit = code, !.seen = 0, !.lock = 0,
                       !.outcome = None, !.posted = FALSE] \in RuntimeState
  BY DEF RuntimeState

(* The state a run is left in when it exits. *)
Done(me, code) ==
  [me EXCEPT !.pc = "exited", !.exit = code, !.seen = 0, !.lock = 0,
             !.outcome = None, !.posted = FALSE]

LEMMA DoneFields ==
  ASSUME NEW me \in RuntimeState, NEW code \in {"0", "1", "2"}
  PROVE  LET x == Done(me, code)
         IN  /\ x \in RuntimeState /\ x.pc = "exited" /\ x.exit = code
             /\ x.hash = me.hash /\ x.seen = 0
  BY DEF Done, RuntimeState

LEMMA DoneKnows ==
  ASSUME NEW l, Len(l) \in Nat, NEW r, NEW me \in RuntimeState, me.hash \in Hashes,
         NEW code \in {"0", "1", "2"}, code = "0" => Answered(l, r)
  PROVE  RuntimeKnows(l, r, Done(me, code))
  BY DoneFields DEF RuntimeKnows

LEMMA ExitIsDone ==
  ASSUME WorkInv, NEW r \in Runtimes, NEW code, RuntimeExit(r, code)
  PROVE  runtime' = [runtime EXCEPT ![r] = Done(runtime[r], code)]
  BY DEF WorkInv, WorkTypes, RuntimeExit, Done

LEMMA RuntimeFacts ==
  ASSUME WorkInv, NEW r \in Runtimes
  PROVE  /\ runtime[r] \in RuntimeState /\ RuntimeKnows(ledger, r, runtime[r])
         /\ ledger \in Seq(Comment) /\ Len(ledger) \in Nat
         /\ description \in Hashes /\ now \in Nat
  BY LockAssumption DEF WorkInv, WorkTypes, DInv, TypeOK, ReviewTypeOK

LEMMA RuntimeExits ==
  ASSUME WorkInv, NEW r \in Runtimes, NEW code \in {"0", "1", "2"},
         RuntimeExit(r, code), UNCHANGED <<vars, audit, decider>>,
         runtime[r].pc # "idle", code = "0" => Answered(ledger, r)
  PROVE  WorkInv'
<1> DEFINE me == runtime[r]
           x == Done(me, code)
<1>1. /\ me \in RuntimeState /\ me.hash \in Hashes /\ Len(ledger) \in Nat
  BY RuntimeFacts DEF RuntimeKnows
<1>2. x \in RuntimeState /\ x.pc = "exited" /\ x.hash = me.hash
  <2> HIDE DEF me
  <2> QED BY <1>1, DoneFields
<1>3. RuntimeKnows(ledger, r, x)
  <2> HIDE DEF me
  <2> QED BY <1>1, DoneKnows
<1>4. runtime' = [runtime EXCEPT ![r] = x] BY ExitIsDone
<1> HIDE DEF x
<1> QED BY <1>2, <1>3, <1>4, RuntimeMoves

(* preflightLock runs the worker only under a lock for its description.    *)
LEMMA LockInForceIsFound ==
  ASSUME NEW l \in Seq(Comment), NEW n \in Nat, n <= Len(l), NEW h, NEW t,
         LockInForce(SubSeq(l, 1, n), h, t) # 0
  PROVE  /\ LockInForce(SubSeq(l, 1, n), h, t) \in Nat
         /\ LockedFor(l, Len(l) + 1, h)
<1> DEFINE k == SubSeq(l, 1, n)
           active == Unexpired(k, t)
           a == FirstListed(active)
<1>1. /\ Len(l) \in Nat /\ k \in Seq(Comment) /\ Len(k) = n /\ DOMAIN k = 1 .. n
      /\ \A i \in 1 .. n : k[i] = l[i]
  OBVIOUS
<1>2. active # {} /\ k[a].hash = h /\ LockInForce(k, h, t) = a
  BY DEF LockInForce
<1>3. active \subseteq 1 .. n BY <1>1 DEF Unexpired, At
<1>4. a \in active BY <1>2, <1>3, EndsAreListed
<1>5. a \in At(k, "worker.lock") BY <1>4 DEF Unexpired
<1> HIDE DEF k, a
<1>6. a \in At(l, "worker.lock") /\ a < Len(l) + 1 /\ l[a].hash = h /\ a \in Nat
  BY <1>1, <1>2, <1>5 DEF At
<1> QED BY <1>2, <1>6 DEF LockedFor, k, a

LEMMA RuntimeQuietSteps ==
  ASSUME WorkInv, NEW r \in Runtimes,
         \/ RuntimeFetch(r)
         \/ RuntimeList(r)
         \/ \E outcome \in Ends : WorkerEnds(r, outcome)
  PROVE  WorkInv'
<1> DEFINE me == runtime[r]
<1>1. /\ me \in RuntimeState /\ RuntimeKnows(ledger, r, me)
      /\ ledger \in Seq(Comment) /\ Len(ledger) \in Nat /\ description \in Hashes
  BY RuntimeFacts
<1>2. CASE RuntimeFetch(r)
  <2> DEFINE x == [me EXCEPT !.pc = "fetched", !.hash = description]
  <2>1. x \in RuntimeState BY <1>1 DEF RuntimeState
  <2>2. runtime' = [runtime EXCEPT ![r] = x] /\ UNCHANGED <<vars, audit, decider>>
    BY <1>2 DEF RuntimeFetch, WorkInv, WorkTypes
  <2>3. x.pc = "fetched" /\ x.hash = description /\ x.seen = me.seen /\ x.exit = me.exit
    BY <1>1 DEF RuntimeState
  <2>4. me.pc = "idle" BY <1>2 DEF RuntimeFetch
  <2> HIDE DEF x
  <2>5. RuntimeKnows(ledger, r, x) BY <1>1, <2>3 DEF RuntimeKnows
  <2> QED BY <2>1, <2>2, <2>4, <2>5, RuntimeMoves
<1>3. CASE RuntimeList(r)
  <2> DEFINE x == [me EXCEPT !.pc = "listed", !.seen = Len(ledger)]
  <2>1. x \in RuntimeState BY <1>1 DEF RuntimeState
  <2>2. runtime' = [runtime EXCEPT ![r] = x] /\ UNCHANGED <<vars, audit, decider>>
    BY <1>3 DEF RuntimeList, WorkInv, WorkTypes
  <2>3. x.pc = "listed" /\ x.hash = me.hash /\ x.seen = Len(ledger) /\ x.exit = me.exit
    BY <1>1 DEF RuntimeState
  <2>4. me.pc = "fetched" BY <1>3 DEF RuntimeList
  <2> HIDE DEF x
  <2>5. RuntimeKnows(ledger, r, x) BY <1>1, <2>3, <2>4 DEF RuntimeKnows
  <2>6. x.pc # "idle" /\ x.hash = runtime[r].hash BY <2>3
  <2> QED BY <2>1, <2>2, <2>5, <2>6, RuntimeMoves
<1>4. ASSUME NEW outcome \in Ends, WorkerEnds(r, outcome) PROVE WorkInv'
  <2> DEFINE x == [me EXCEPT !.pc = "summary", !.outcome = outcome]
  <2>1. outcome \in Outcomes BY PipelineAssumption
  <2>2. x \in RuntimeState BY <1>1, <2>1 DEF RuntimeState
  <2>3. runtime' = [runtime EXCEPT ![r] = x] /\ UNCHANGED <<vars, audit, decider>>
    BY <1>4 DEF WorkerEnds, WorkInv, WorkTypes
  <2>4. /\ x.pc = "summary" /\ x.hash = me.hash /\ x.seen = me.seen /\ x.exit = me.exit
        /\ x.outcome = outcome
    BY <1>1 DEF RuntimeState
  <2>5. me.pc = "running" BY <1>4 DEF WorkerEnds
  <2> HIDE DEF x
  <2>6. RuntimeKnows(ledger, r, x) BY <1>1, <2>1, <2>4, <2>5 DEF RuntimeKnows
  <2>7. x.pc # "idle" /\ x.hash = runtime[r].hash BY <2>4
  <2> QED BY <2>2, <2>3, <2>6, <2>7, RuntimeMoves
<1> QED BY <1>2, <1>3, <1>4

LEMMA PreflightKeeps ==
  ASSUME WorkInv, NEW r \in Runtimes, NEW othersPass \in BOOLEAN,
         RuntimePreflight(r, othersPass)
  PROVE  WorkInv'
<1> DEFINE me == runtime[r]
           lock == LockInForce(SubSeq(ledger, 1, me.seen), me.hash, now)
           x == [me EXCEPT !.pc = "running", !.seen = 0, !.lock = lock]
<1>1. /\ me \in RuntimeState /\ RuntimeKnows(ledger, r, me) /\ me.pc = "listed"
      /\ ledger \in Seq(Comment) /\ Len(ledger) \in Nat
  BY RuntimeFacts DEF RuntimePreflight
<1>2. UNCHANGED <<vars, audit, decider>> BY DEF RuntimePreflight
<1>3. CASE lock # 0 /\ othersPass
  <2>1. me.seen \in Nat /\ me.seen <= Len(ledger)
    BY <1>1 DEF RuntimeState, RuntimeKnows
  <2>2. lock \in Nat /\ LockedFor(ledger, Len(ledger) + 1, me.hash)
    <3> HIDE DEF me
    <3> QED BY <1>1, <1>3, <2>1, LockInForceIsFound
  <2>3. runtime' = [runtime EXCEPT ![r] = x]
    BY <1>3 DEF RuntimePreflight, WorkInv, WorkTypes
  <2> HIDE DEF lock
  <2>4. x \in RuntimeState BY <1>1, <2>2 DEF RuntimeState
  <2>5. x.pc = "running" /\ x.hash = me.hash /\ x.seen = 0 /\ x.exit = me.exit
    BY <1>1 DEF RuntimeState
  <2> HIDE DEF x
  <2>6. RuntimeKnows(ledger, r, x) BY <1>1, <2>2, <2>5 DEF RuntimeKnows
  <2>7. x.pc # "idle" /\ x.hash = runtime[r].hash BY <2>5
  <2> QED BY <1>2, <2>3, <2>4, <2>6, <2>7, RuntimeMoves
<1>4. CASE ~(lock # 0 /\ othersPass)
  <2>1. RuntimeExit(r, "2") BY <1>4 DEF RuntimePreflight
  <2> QED BY <1>1, <1>2, <2>1, RuntimeExits
<1> QED BY <1>3, <1>4

LEMMA SummaryKeeps ==
  ASSUME WorkInv, NEW r \in Runtimes, NEW answer \in {"ok", "error", "exception"},
         PostSummary(r, answer)
  PROVE  WorkInv'
<1> DEFINE me == runtime[r]
           ok == answer = "ok"
           x == [me EXCEPT !.pc = "reporting", !.posted = ok]
<1>1. /\ me \in RuntimeState /\ RuntimeKnows(ledger, r, me) /\ me.pc = "summary"
  BY RuntimeFacts DEF PostSummary
<1>2. UNCHANGED <<vars, audit, decider>> BY DEF PostSummary
<1>3. CASE answer # "exception"
  <2>1. runtime' = [runtime EXCEPT ![r] = x]
    BY <1>3 DEF PostSummary, WorkInv, WorkTypes
  <2>2. x \in RuntimeState BY <1>1 DEF RuntimeState
  <2>3. /\ x.pc = "reporting" /\ x.hash = me.hash /\ x.seen = me.seen
        /\ x.exit = me.exit /\ x.outcome = me.outcome
    BY <1>1 DEF RuntimeState
  <2> HIDE DEF x
  <2>4. RuntimeKnows(ledger, r, x) BY <1>1, <2>3 DEF RuntimeKnows
  <2>5. x.pc # "idle" /\ x.hash = runtime[r].hash BY <2>3
  <2> QED BY <1>2, <2>1, <2>2, <2>4, <2>5, RuntimeMoves
<1>4. CASE answer = "exception"
  <2>1. RuntimeExit(r, "1") BY <1>4 DEF PostSummary
  <2> QED BY <1>1, <1>2, <2>1, RuntimeExits
<1> QED BY <1>3, <1>4

(* The controller is started, and exit 0 given, only on an answered report. *)
LEMMA ReturnsKeep ==
  ASSUME WorkInv, NEW r \in Runtimes,
         AuditReturns(r) \/ (\E evaluated \in BOOLEAN : DeciderReturns(r, evaluated))
         \/ RuntimeAbort(r)
  PROVE  WorkInv'
<1> DEFINE me == runtime[r]
<1>1. /\ me \in RuntimeState /\ RuntimeKnows(ledger, r, me)
  BY RuntimeFacts
<1>2. CASE AuditReturns(r)
  <2>1. me.pc = "auditing" BY <1>2 DEF AuditReturns
  <2>2. CASE audit[r].exit = "0"
    <3> DEFINE x == [me EXCEPT !.pc = "deciding"]
               y == [decider[r] EXCEPT !.pc = "started"]
    <3>1. /\ runtime' = [runtime EXCEPT ![r] = x]
          /\ decider' = [decider EXCEPT ![r] = y]
          /\ UNCHANGED <<vars, audit>>
      BY <1>2, <2>2 DEF AuditReturns, WorkInv, WorkTypes
    <3>2. x \in RuntimeState BY <1>1 DEF RuntimeState
    <3>3. x.pc = "deciding" /\ x.hash = me.hash /\ x.seen = me.seen
      BY <1>1 DEF RuntimeState
    <3>4. decider[r] \in DeciderState BY DEF WorkInv, WorkTypes
    <3>5. y \in DeciderState /\ y.pc = "started" BY <3>4 DEF DeciderState
    <3>6. Answered(ledger, r) BY <2>2 DEF WorkInv, AuditKnows
    <3> HIDE DEF x, y
    <3>7. RuntimeKnows(ledger, r, x) BY <1>1, <2>1, <3>3, <3>6 DEF RuntimeKnows
    <3>8. DeciderKnows(ledger, y) BY <3>5 DEF DeciderKnows
    <3>9. DInv' /\ ledger' = ledger /\ audit' = audit
      BY <3>1, QuietKeeps DEF WorkInv, vars
    <3>10. /\ \A q \in Runtimes : runtime'[q] = IF q = r THEN x ELSE runtime[q]
           /\ \A q \in Runtimes : decider'[q] = IF q = r THEN y ELSE decider[q]
      BY <3>1 DEF WorkInv, WorkTypes
    <3>11. WorkTypes' BY <3>1, <3>2, <3>5, <3>9 DEF WorkInv, WorkTypes
    <3>12. \A q \in Runtimes : runtime[q].pc # "idle" =>
             runtime'[q].pc # "idle" /\ runtime'[q].hash = runtime[q].hash
      BY <3>3, <3>10
    <3> QED BY <3>7, <3>8, <3>9, <3>10, <3>11, <3>12, StepKeeps
  <2>3. CASE audit[r].exit # "0"
    <3>1. RuntimeExit(r, "2") /\ UNCHANGED <<vars, audit, decider>>
      BY <1>2, <2>3 DEF AuditReturns
    <3> QED BY <2>1, <3>1, RuntimeExits
  <2> QED BY <2>2, <2>3
<1>3. ASSUME NEW evaluated \in BOOLEAN, DeciderReturns(r, evaluated) PROVE WorkInv'
  <2>1. /\ me.pc = "deciding" /\ UNCHANGED <<vars, audit, decider>>
        /\ RuntimeExit(r, "0") \/ RuntimeExit(r, "2")
    BY <1>3 DEF DeciderReturns
  <2>2. Answered(ledger, r) BY <1>1, <2>1 DEF RuntimeKnows
  <2> QED BY <2>1, <2>2, RuntimeExits
<1>4. CASE RuntimeAbort(r)
  BY <1>4, RuntimeExits DEF RuntimeAbort
<1> QED BY <1>2, <1>3, <1>4

LEMMA ReportIsComment ==
  ASSUME NEW r \in Runtimes, NEW outcome \in Outcomes
  PROVE  LET c == ReportComment(r, outcome)
         IN  /\ c \in Comment /\ c.title = "worker.reported"
             /\ c.run = r /\ c.value = outcome
  BY PipelineAssumption DEF ReportComment, Comment, Titles, Values

(* A report is posted by a run that holds a lock of its description; only  *)
(* after a successful one, on the ledger, is the CAO started.              *)
LEMMA ReportKeeps ==
  ASSUME WorkInv, NEW r \in Runtimes, NEW landed \in BOOLEAN, NEW ok \in BOOLEAN,
         PostReport(r, landed, ok)
  PROVE  WorkInv'
<1> DEFINE me == runtime[r]
           c == ReportComment(r, me.outcome)
<1>1. /\ me \in RuntimeState /\ RuntimeKnows(ledger, r, me) /\ me.pc = "reporting"
      /\ ledger \in Seq(Comment) /\ Len(ledger) \in Nat
  BY RuntimeFacts DEF PostReport
<1>2. /\ me.outcome \in Outcomes /\ me.hash \in Hashes
      /\ LockedFor(ledger, Len(ledger) + 1, me.hash)
  BY <1>1 DEF RuntimeKnows
<1>3. /\ c \in Comment /\ c.title = "worker.reported" /\ c.run = r
      /\ c.value = me.outcome
  <2> HIDE DEF me
  <2> QED BY <1>2, ReportIsComment
<1>4. /\ ledger' = IF landed THEN Append(ledger, c) ELSE ledger
      /\ ok => landed
      /\ UNCHANGED <<description, edits, reviewer, now, dispatcher>>
      /\ decider' = decider
  BY DEF PostReport, Post
<1> HIDE DEF c
<1>5. DInv' BY <1>3, <1>4, WorkPostKeeps DEF WorkInv
<1>6. Rests(ledger, Len(ledger) + 1, c, runtime)
  BY <1>1, <1>2, <1>3 DEF Rests
<1>7. \/ ledger' = ledger
      \/ \E d \in Comment : /\ ledger' = Append(ledger, d)
                            /\ Rests(ledger, Len(ledger) + 1, d, runtime)
  BY <1>3, <1>4, <1>6
<1>8. Len(ledger') \in Nat BY <1>1, <1>3, <1>4
<1>9. ASSUME NEW code \in {"1", "2"}, RuntimeExit(r, code), audit' = audit
      PROVE  WorkInv'
  <2> DEFINE x == Done(me, code)
  <2>1. x \in RuntimeState /\ x.pc = "exited" /\ x.hash = me.hash
    <3> HIDE DEF me
    <3> QED BY <1>1, DoneFields
  <2>2. RuntimeKnows(ledger', r, x)
    <3> HIDE DEF me
    <3> QED BY <1>1, <1>2, <1>8, DoneKnows
  <2>3. runtime' = [runtime EXCEPT ![r] = x] BY <1>9, ExitIsDone
  <2> HIDE DEF x
  <2>4. \A q \in Runtimes : runtime'[q] = IF q = r THEN x ELSE runtime[q]
    BY <2>3 DEF WorkInv, WorkTypes
  <2>5. WorkTypes' BY <1>4, <1>9, <2>1, <2>3 DEF WorkInv, WorkTypes
  <2>6. \A q \in Runtimes : runtime[q].pc # "idle" =>
          runtime'[q].pc # "idle" /\ runtime'[q].hash = runtime[q].hash
    BY <2>1, <2>4
  <2> QED BY <1>4, <1>5, <1>7, <1>9, <2>2, <2>4, <2>5, <2>6, StepKeeps
<1>10. CASE ok /\ me.posted /\ me.outcome \in Good
  <2> DEFINE x == [me EXCEPT !.pc = "auditing"]
             y == [audit[r] EXCEPT !.pc = "started"]
  <2>1. /\ runtime' = [runtime EXCEPT ![r] = x]
        /\ audit' = [audit EXCEPT ![r] = y]
    BY <1>10 DEF PostReport, WorkInv, WorkTypes, Good
  <2>2. /\ x \in RuntimeState /\ x.pc = "auditing" /\ x.hash = me.hash
        /\ x.seen = me.seen /\ x.exit = me.exit
    BY <1>1 DEF RuntimeState
  <2>3. audit[r] \in AuditState /\ AuditKnows(ledger, r, audit[r])
    BY DEF WorkInv, WorkTypes
  <2>4. y \in AuditState /\ y.pc = "started" /\ y.exit = audit[r].exit
    BY <2>3 DEF AuditState
  <2>5. ledger' = Append(ledger, c) BY <1>4, <1>10
  <2>6. Extends(ledger, ledger') BY <1>1, <1>3, <2>5, AppendExtends
  <2>7. HasReported(ledger', r)
    <3>1. /\ Len(ledger) + 1 \in At(ledger', "worker.reported")
          /\ ledger'[Len(ledger) + 1] = c
      BY <1>1, <1>3, <2>5, AtAppend, AppendKeeps
    <3> QED BY <3>1, <1>3, <1>10 DEF HasReported
  <2> HIDE DEF x, y
  <2>8. RuntimeKnows(ledger', r, x)
    <3>1. me.seen \in Nat BY <1>1 DEF RuntimeState
    <3>2. RuntimeKnows(ledger', r, me) BY <3>1, <1>1, <2>6, KnowledgeKept
    <3> QED BY <3>2, <1>1, <2>2 DEF RuntimeKnows
  <2>9. AuditKnows(ledger', r, y)
    <3>1. AuditKnows(ledger', r, audit[r]) BY <2>3, <2>6, KnowledgeKept
    <3> QED BY <3>1, <2>4, <2>7 DEF AuditKnows
  <2>10. /\ \A q \in Runtimes : runtime'[q] = IF q = r THEN x ELSE runtime[q]
         /\ \A a \in Runtimes \cup Auditors : audit'[a] = IF a = r THEN y ELSE audit[a]
    BY <2>1 DEF WorkInv, WorkTypes
  <2>11. WorkTypes' BY <1>4, <2>1, <2>2, <2>4 DEF WorkInv, WorkTypes
  <2>12. \A q \in Runtimes : runtime[q].pc # "idle" =>
           runtime'[q].pc # "idle" /\ runtime'[q].hash = runtime[q].hash
    BY <2>2, <2>10
  <2> QED BY <1>4, <1>5, <1>7, <2>8, <2>9, <2>10, <2>11, <2>12, StepKeeps
<1>11. CASE ~(ok /\ me.posted /\ me.outcome \in Good)
  <2>1. (RuntimeExit(r, "1") \/ RuntimeExit(r, "2")) /\ audit' = audit
    BY <1>11 DEF PostReport, Good
  <2> QED BY <1>9, <2>1
<1> QED BY <1>10, <1>11

-----------------------------------------------------------------------------
(* The CAO *)

LEMMA AuditFacts ==
  ASSUME WorkInv, NEW a \in Runtimes \cup Auditors
  PROVE  /\ audit[a] \in AuditState /\ AuditKnows(ledger, a, audit[a])
         /\ ledger \in Seq(Comment) /\ Len(ledger) \in Nat /\ description \in Hashes
  BY DEF WorkInv, WorkTypes, DInv, TypeOK, ReviewTypeOK

AuditDone(code) == [AuditOff EXCEPT !.pc = "exited", !.exit = code]

LEMMA AuditDoneFields ==
  ASSUME NEW code \in {"0", "1", "2"}
  PROVE  /\ AuditDone(code) \in AuditState
         /\ AuditDone(code).pc = "exited" /\ AuditDone(code).exit = code
  BY DEF AuditDone, AuditOff, AuditState

LEMMA AuditQuietSteps ==
  ASSUME WorkInv, NEW a \in Runtimes \cup Auditors,
         AuditStart(a) \/ AuditFetch(a) \/ AuditRead(a) \/ AuditAbort(a)
  PROVE  WorkInv'
<1> DEFINE me == audit[a]
<1>1. /\ me \in AuditState /\ AuditKnows(ledger, a, me)
      /\ ledger \in Seq(Comment) /\ Len(ledger) \in Nat /\ description \in Hashes
  BY AuditFacts
<1>2. /\ UNCHANGED <<vars, runtime, decider>> /\ ledger' = ledger
      /\ UNCHANGED <<runtime, decider>>
  BY DEF AuditStart, AuditFetch, AuditRead, AuditAbort, vars
<1>3. DInv' BY <1>2, QuietKeeps DEF WorkInv
<1>4. CASE AuditStart(a)
  <2> DEFINE x == [me EXCEPT !.pc = "started"]
  <2>1. audit' = [audit EXCEPT ![a] = x]
    BY <1>4 DEF AuditStart, WorkInv, WorkTypes
  <2>2. x \in AuditState /\ x.pc = "started" /\ x.exit = me.exit
    BY <1>1 DEF AuditState
  <2>3. a \notin Runtimes BY <1>4, PipelineAssumption DEF AuditStart
  <2> HIDE DEF x
  <2>4. AuditKnows(ledger', a, x) BY <2>2, <2>3 DEF AuditKnows
  <2> QED BY <1>2, <1>3, <2>1, <2>2, <2>4, AuditMoves
<1>5. CASE AuditFetch(a)
  <2> DEFINE x == [me EXCEPT !.pc = "fetched", !.hash = description]
  <2>1. audit' = [audit EXCEPT ![a] = x] /\ me.pc = "started"
    BY <1>5 DEF AuditFetch, WorkInv, WorkTypes
  <2>2. /\ x \in AuditState /\ x.pc = "fetched" /\ x.exit = me.exit
        /\ x.hash = description
    BY <1>1 DEF AuditState
  <2> HIDE DEF x
  <2>3. AuditKnows(ledger, a, x) BY <1>1, <2>1, <2>2 DEF AuditKnows
  <2>4. AuditKnows(ledger', a, x) BY <1>2, <2>3
  <2> QED BY <1>2, <1>3, <2>1, <2>2, <2>4, AuditMoves
<1>6. CASE AuditRead(a)
  <2> DEFINE c == Verdict(ledger, me.hash, now)
             x == [me EXCEPT !.pc = "posting", !.hash = None, !.verdict = c]
  <2>1. audit' = [audit EXCEPT ![a] = x] /\ me.pc = "fetched"
    BY <1>6 DEF AuditRead, WorkInv, WorkTypes
  <2>2. me.hash \in Hashes BY <1>1, <2>1 DEF AuditKnows
  <2>3. /\ Verdictable(ledger, Len(ledger) + 1, c)
        /\ \A r : HasReported(ledger, r) /\ c.value = "PASS" =>
             Answers(ledger, Len(ledger) + 1, r, c)
    <3> HIDE DEF me
    <3> QED BY <1>1, <2>2, VerdictIsBacked
  <2> HIDE DEF c
  <2>4. /\ x \in AuditState /\ x.pc = "posting" /\ x.exit = me.exit
        /\ x.verdict = c
    BY <1>1, <2>3 DEF AuditState, Verdictable
  <2> HIDE DEF x
  <2>5. AuditKnows(ledger, a, x) BY <1>1, <2>1, <2>3, <2>4 DEF AuditKnows
  <2>6. AuditKnows(ledger', a, x) BY <1>2, <2>5
  <2> QED BY <1>2, <1>3, <2>1, <2>4, <2>6, AuditMoves
<1>7. CASE AuditAbort(a)
  <2> DEFINE x == AuditDone("1")
  <2>1. audit' = [audit EXCEPT ![a] = x] /\ me.pc # "off"
    BY <1>7 DEF AuditAbort, AuditExit, AuditDone
  <2>2. x \in AuditState /\ x.pc = "exited" /\ x.exit = "1"
    BY AuditDoneFields
  <2> HIDE DEF x
  <2>3. AuditKnows(ledger, a, x) BY <1>1, <2>1, <2>2 DEF AuditKnows
  <2>4. AuditKnows(ledger', a, x) BY <1>2, <2>3
  <2> QED BY <1>2, <1>3, <2>1, <2>2, <2>4, AuditMoves
<1> QED BY <1>4, <1>5, <1>6, <1>7

(* Exit 0: a PASS is on the ledger, and answers the run that asked for it. *)
LEMMA AuditPostKeeps ==
  ASSUME WorkInv, NEW a \in Runtimes \cup Auditors,
         NEW landed \in BOOLEAN, NEW ok \in BOOLEAN, AuditPost(a, landed, ok)
  PROVE  WorkInv'
<1> DEFINE me == audit[a]
           c == me.verdict
           code == CASE ~ok -> "1" [] ok /\ c.value = "PASS" -> "0" [] OTHER -> "2"
           x == AuditDone(code)
<1>1. /\ me \in AuditState /\ AuditKnows(ledger, a, me) /\ me.pc = "posting"
      /\ ledger \in Seq(Comment) /\ Len(ledger) \in Nat
  BY AuditFacts DEF AuditPost
<1>2. Verdictable(ledger, Len(ledger) + 1, c) BY <1>1 DEF AuditKnows
<1>3. code \in {"0", "1", "2"} /\ (code = "0" => ok /\ c.value = "PASS")
  OBVIOUS
<1>4. /\ ledger' = IF landed THEN Append(ledger, c) ELSE ledger
      /\ ok => landed
      /\ UNCHANGED <<description, edits, reviewer, now, dispatcher>>
      /\ UNCHANGED <<runtime, decider>>
      /\ audit' = [audit EXCEPT ![a] = x]
  BY DEF AuditPost, Post, AuditExit, AuditDone
<1> HIDE DEF code
<1>5. x \in AuditState /\ x.pc = "exited" /\ x.exit = code
  BY <1>3, AuditDoneFields
<1> HIDE DEF x, c
<1>6. c \in Comment /\ c.title = "controller.verdict" BY <1>2 DEF Verdictable
<1>7. DInv' BY <1>4, <1>6, WorkPostKeeps DEF WorkInv
<1>8. Rests(ledger, Len(ledger) + 1, c, runtime) BY <1>2 DEF Rests, Verdictable
<1>9. Extends(ledger, ledger')
  <2>1. Extends(ledger, ledger) BY <1>1 DEF Extends, At
  <2> QED BY <1>1, <1>4, <1>6, <2>1, AppendExtends
<1>10. AuditKnows(ledger', a, me) BY <1>1, <1>9, KnowledgeKept
<1>11. ASSUME a \in Runtimes, code = "0" PROVE Answered(ledger', a)
  <2> DEFINE n == Len(ledger) + 1
  <2>1. ledger' = Append(ledger, c) /\ c.value = "PASS" BY <1>3, <1>4, <1>11
  <2>2. n \in At(ledger', "controller.verdict") /\ ledger'[n] = c
    BY <1>1, <1>6, <2>1, AtAppend, AppendKeeps
  <2>3. Answers(ledger, n, a, c) BY <1>1, <1>11, <2>1 DEF AuditKnows, c
  <2>4. n \in Nat /\ n <= n /\ n <= Len(ledger) + 1 BY <1>1
  <2> HIDE DEF n
  <2>5. Answers(ledger', n, a, c) BY <1>9, <2>3, <2>4, AnswersKept
  <2> QED BY <2>1, <2>2, <2>5 DEF Answered
<1>12. AuditKnows(ledger', a, x)
  BY <1>1, <1>5, <1>10, <1>11 DEF AuditKnows
<1> QED BY <1>4, <1>5, <1>6, <1>7, <1>8, <1>12, AuditMoves

-----------------------------------------------------------------------------
(* The Codex controller *)

LEMMA DeciderFacts ==
  ASSUME WorkInv, NEW r \in Runtimes
  PROVE  /\ decider[r] \in DeciderState /\ DeciderKnows(ledger, decider[r])
         /\ ledger \in Seq(Comment) /\ Len(ledger) \in Nat /\ description \in Hashes
         /\ Just(ledger, runtime)
  BY DEF WorkInv, WorkTypes, DInv, TypeOK, ReviewTypeOK

DeciderDone(code) == [DeciderOff EXCEPT !.pc = "exited", !.exit = code]

LEMMA DeciderDoneFields ==
  ASSUME NEW code \in {"0", "1"}
  PROVE  DeciderDone(code) \in DeciderState /\ DeciderDone(code).pc = "exited"
  BY DEF DeciderDone, DeciderOff, DeciderState

LEMMA DeciderQuietSteps ==
  ASSUME WorkInv, NEW r \in Runtimes,
         DeciderFetch(r) \/ DeciderRead(r) \/ DeciderAbort(r)
  PROVE  WorkInv'
<1> DEFINE me == decider[r]
<1>1. /\ me \in DeciderState /\ DeciderKnows(ledger, me)
      /\ ledger \in Seq(Comment) /\ Len(ledger) \in Nat /\ description \in Hashes
      /\ Just(ledger, runtime)
  BY DeciderFacts
<1>2. UNCHANGED <<vars, runtime, audit>> /\ ledger' = ledger /\ UNCHANGED <<runtime, audit>>
  BY DEF DeciderFetch, DeciderRead, DeciderAbort, vars
<1>3. DInv' BY <1>2, QuietKeeps DEF WorkInv
<1>4. CASE DeciderFetch(r)
  <2> DEFINE x == [me EXCEPT !.pc = "fetched", !.hash = description]
  <2>1. decider' = [decider EXCEPT ![r] = x]
    BY <1>4 DEF DeciderFetch, WorkInv, WorkTypes
  <2>2. x \in DeciderState /\ x.pc = "fetched" /\ x.hash = description
    BY <1>1 DEF DeciderState
  <2> HIDE DEF x
  <2>3. DeciderKnows(ledger', x) BY <1>1, <1>2, <2>2 DEF DeciderKnows
  <2> QED BY <1>2, <1>3, <2>1, <2>2, <2>3, DeciderMoves
<1>5. CASE DeciderRead(r)
  <2> DEFINE d == Decision(ledger, me.hash)
             x == [me EXCEPT !.pc = "posting", !.hash = None, !.decision = d]
  <2>1. decider' = [decider EXCEPT ![r] = x]
    BY <1>5 DEF DeciderRead, WorkInv, WorkTypes
  <2>2. d \in DecisionModes /\ (d = "AUTO-GO" => SomePass(ledger, Len(ledger) + 1))
    BY <1>1, DecisionStandsOnPass
  <2> HIDE DEF d
  <2>3. x \in DeciderState /\ x.pc = "posting" /\ x.decision = d
    BY <1>1, <2>2 DEF DeciderState
  <2> HIDE DEF x
  <2>4. DeciderKnows(ledger, x) BY <2>2, <2>3 DEF DeciderKnows
  <2>5. DeciderKnows(ledger', x) BY <1>2, <2>4
  <2> QED BY <1>2, <1>3, <2>1, <2>3, <2>5, DeciderMoves
<1>6. CASE DeciderAbort(r)
  <2> DEFINE x == DeciderDone("1")
  <2>1. decider' = [decider EXCEPT ![r] = x]
    BY <1>6 DEF DeciderAbort, DeciderExit, DeciderDone
  <2>2. x \in DeciderState /\ x.pc = "exited" BY DeciderDoneFields
  <2> HIDE DEF x
  <2>3. DeciderKnows(ledger', x) BY <2>2 DEF DeciderKnows
  <2> QED BY <1>2, <1>3, <2>1, <2>2, <2>3, DeciderMoves
<1> QED BY <1>4, <1>5, <1>6

LEMMA DecisionIsComment ==
  ASSUME NEW d \in DecisionModes
  PROVE  LET c == DecisionComment(d)
         IN  c \in Comment /\ c.title = "controller.decision" /\ c.value = d
  BY DEF DecisionComment, Comment, Titles, Values

LEMMA DeciderPostKeeps ==
  ASSUME WorkInv, NEW r \in Runtimes, NEW landed \in BOOLEAN, NEW ok \in BOOLEAN,
         DeciderPost(r, landed, ok)
  PROVE  WorkInv'
<1> DEFINE me == decider[r]
           c == DecisionComment(me.decision)
           code == IF ok THEN "0" ELSE "1"
           x == DeciderDone(code)
<1>1. /\ me \in DeciderState /\ DeciderKnows(ledger, me) /\ me.pc = "posting"
      /\ ledger \in Seq(Comment) /\ Len(ledger) \in Nat
  BY DeciderFacts DEF DeciderPost
<1>2. /\ me.decision \in DecisionModes
      /\ me.decision = "AUTO-GO" => SomePass(ledger, Len(ledger) + 1)
  BY <1>1 DEF DeciderKnows
<1>3. c \in Comment /\ c.title = "controller.decision" /\ c.value = me.decision
  <2> HIDE DEF me
  <2> QED BY <1>2, DecisionIsComment
<1>4. /\ ledger' = IF landed THEN Append(ledger, c) ELSE ledger
      /\ UNCHANGED <<description, edits, reviewer, now, dispatcher>>
      /\ UNCHANGED <<runtime, audit>>
      /\ decider' = [decider EXCEPT ![r] = x]
  BY DEF DeciderPost, Post, DeciderExit, DeciderDone
<1>5. x \in DeciderState /\ x.pc = "exited"
  <2>1. code \in {"0", "1"} OBVIOUS
  <2> HIDE DEF code
  <2> QED BY <2>1, DeciderDoneFields
<1> HIDE DEF c, x
<1>6. DInv' BY <1>3, <1>4, WorkPostKeeps DEF WorkInv
<1>7. Rests(ledger, Len(ledger) + 1, c, runtime) BY <1>2, <1>3 DEF Rests
<1>8. DeciderKnows(ledger', x) BY <1>5 DEF DeciderKnows
<1> QED BY <1>3, <1>4, <1>5, <1>6, <1>7, <1>8, DeciderMoves

-----------------------------------------------------------------------------
(* Everybody *)

(* Before the lock, a step posts no report, verdict or decision, and a lock *)
(* only by a dispatcher that has none on the ledger yet.                   *)
LEMMA EarlierAppends ==
  ASSUME DInv, [Next]_vars, NEW rs
  PROVE  \/ ledger' = ledger
         \/ \E c \in Comment : /\ ledger' = Append(ledger, c)
                               /\ Rests(ledger, Len(ledger) + 1, c, rs)
<1>1. TypeOK /\ PassInv /\ LockInv /\ ReviewTypeOK /\ ledger \in Seq(Comment)
  BY DEF DInv, TypeOK, ReviewTypeOK
<1>2. CASE ReviewStep /\ UNCHANGED <<now, dispatcher>>
  <2>1. \/ ledger' = ledger
        \/ \E c \in Comment : ledger' = Append(ledger, c) /\ c.title \notin WorkTitles
    BY <1>1, <1>2, ReviewAppends
  <2>2. ASSUME NEW c \in Comment, c.title \notin WorkTitles
        PROVE  Rests(ledger, Len(ledger) + 1, c, rs)
    BY <2>2 DEF Rests, WorkTitles
  <2> QED BY <2>1, <2>2
<1>3. ASSUME NEW d \in Dispatchers, NEW landed \in BOOLEAN,
             NEW answer \in {"ok", "error", "exception"}, PostLock(d, landed, answer)
      PROVE  \/ ledger' = ledger
             \/ \E c \in Comment : /\ ledger' = Append(ledger, c)
                                   /\ Rests(ledger, Len(ledger) + 1, c, rs)
  <2> DEFINE me == dispatcher[d]
             c == LockComment(me.hash, d, me.expires, me.prev)
  <2>1. me \in DispatcherState /\ me.pc = "locking" BY <1>1, <1>3 DEF TypeOK, PostLock
  <2>2. c \in Comment
    <3>1. /\ me.hash \in Hashes \cup {None} /\ me.expires \in Nat
          /\ me.prev \in Runs \cup {None}
      BY <2>1 DEF DispatcherState
    <3> HIDE DEF me
    <3> QED BY <3>1, LockIsComment
  <2>3. c.title = "worker.lock" /\ c.run = d BY DEF LockComment
  <2>4. \A i \in At(ledger, "worker.lock") : ledger[i].run # d
    <3>1. ASSUME NEW i \in At(ledger, "worker.lock")
          PROVE  dispatcher[ledger[i].run].pc \in {"context", "exited"}
      BY <1>1 DEF LockInv, Locks, LockOf
    <3> QED BY <3>1, <2>1
  <2>5. ledger' = Append(ledger, c) \/ ledger' = ledger
    BY <1>3 DEF PostLock, Post
  <2> HIDE DEF c, me
  <2>6. Rests(ledger, Len(ledger) + 1, c, rs) BY <2>3, <2>4 DEF Rests
  <2> QED BY <2>2, <2>5, <2>6
<1>4. ASSUME NEW d \in Dispatchers, NEW landed \in BOOLEAN, NEW ok \in BOOLEAN,
             PostContext(d, landed, ok)
      PROVE  \/ ledger' = ledger
             \/ \E c \in Comment : /\ ledger' = Append(ledger, c)
                                   /\ Rests(ledger, Len(ledger) + 1, c, rs)
  <2> DEFINE c == ContextComment(d)
  <2>1. c \in Comment /\ c.title = "worker.context" BY ContextIsComment
  <2>2. ledger' = Append(ledger, c) \/ ledger' = ledger
    BY <1>4 DEF PostContext, Post
  <2> HIDE DEF c
  <2>3. Rests(ledger, Len(ledger) + 1, c, rs) BY <2>1 DEF Rests
  <2> QED BY <2>1, <2>2, <2>3
<1>5. ASSUME NEW d \in Dispatchers,
             DispatcherFetch(d) \/ DispatcherRead(d) \/ DispatcherAbort(d)
      PROVE  ledger' = ledger
  BY <1>5 DEF DispatcherFetch, DispatcherRead, DispatcherAbort
<1>6. Tick \/ UNCHANGED vars => ledger' = ledger BY DEF Tick, vars
<1> QED BY <1>2, <1>3, <1>4, <1>5, <1>6 DEF Next, DispatcherStep

LEMMA EarlierKeep ==
  ASSUME WorkInv, [Next]_vars, UNCHANGED workVars
  PROVE  WorkInv'
<1>1. runtime' = runtime /\ audit' = audit /\ decider' = decider BY DEF workVars
<1>2. DInv' BY DStep DEF WorkInv
<1>3. \/ ledger' = ledger
      \/ \E c \in Comment : /\ ledger' = Append(ledger, c)
                            /\ Rests(ledger, Len(ledger) + 1, c, runtime)
  BY EarlierAppends DEF WorkInv
<1>4. WorkTypes' BY <1>1 DEF WorkInv, WorkTypes
<1> QED BY <1>1, <1>2, <1>3, <1>4, StepKeeps

LEMMA WorkInit == PipelineInit => WorkInv
<1> SUFFICES ASSUME PipelineInit PROVE WorkInv OBVIOUS
<1>1. DInv BY DInit DEF PipelineInit
<1>2. WorkTypes
  BY DEF PipelineInit, WorkTypes, RuntimeState, AuditState, DeciderState, AuditOff, DeciderOff
<1>3. ledger = << >> BY DEF PipelineInit, Init, ReviewInit
<1>4. Just(ledger, runtime) BY <1>3 DEF Just
<1>5. \A r \in Runtimes : RuntimeKnows(ledger, r, runtime[r])
  BY <1>3 DEF PipelineInit, RuntimeKnows
<1>6. \A a \in Runtimes \cup Auditors : AuditKnows(ledger, a, audit[a])
  BY DEF PipelineInit, AuditOff, AuditKnows
<1>7. \A r \in Runtimes : DeciderKnows(ledger, decider[r])
  BY DEF PipelineInit, DeciderOff, DeciderKnows
<1> QED BY <1>1, <1>2, <1>4, <1>5, <1>6, <1>7 DEF WorkInv

LEMMA WorkStep == WorkInv /\ [PipelineNext]_pipelineVars => WorkInv'
<1> SUFFICES ASSUME WorkInv, [PipelineNext]_pipelineVars PROVE WorkInv' OBVIOUS
<1>1. CASE Next /\ UNCHANGED workVars BY <1>1, EarlierKeep
<1>2. CASE UNCHANGED pipelineVars BY <1>2, EarlierKeep DEF pipelineVars
<1>3. ASSUME NEW r \in Runtimes, RuntimeStep(r) PROVE WorkInv'
  BY <1>3, RuntimeQuietSteps, PreflightKeeps, SummaryKeeps, ReportKeeps, ReturnsKeep
  DEF RuntimeStep
<1>4. ASSUME NEW r \in Runtimes, DeciderStep(r) PROVE WorkInv'
  BY <1>4, DeciderQuietSteps, DeciderPostKeeps DEF DeciderStep
<1>5. ASSUME NEW a \in Runtimes \cup Auditors, AuditStep(a) PROVE WorkInv'
  BY <1>5, AuditQuietSteps, AuditPostKeeps DEF AuditStep
<1> QED BY <1>1, <1>2, <1>3, <1>4, <1>5 DEF PipelineNext

LEMMA WorkInvAlways == PipelineSpec => []WorkInv
  BY WorkInit, WorkStep, PTL DEF PipelineSpec

-----------------------------------------------------------------------------
(* The theorems *)

(* All processes of the pipeline and the ledger they share keep their      *)
(* types, and no report is ever on the ledger without an earlier lock for  *)
(* the description its worker was given, which, where review is required,  *)
(* follows a CONTRACT_PASS for that description.                           *)
THEOREM WorkStaysLocked == PipelineSpec => []PipelineInv
<1>1. ASSUME WorkInv PROVE PipelineInv
  <2>1. PipelineTypeOK BY <1>1 DEF WorkInv, WorkTypes, PipelineTypeOK, DInv
  <2>2. WorkIsLockedAndReviewed
    <3> SUFFICES ASSUME NEW p \in WorkReports
                 PROVE  LET hash == runtime[ledger[p].run].hash
                        IN  \E l \in Locks :
                              /\ l < p /\ ledger[l].hash = hash
                              /\ ReviewMode = "require" =>
                                   \E c \in PassReviews(ledger, hash) : c < l
      BY DEF WorkIsLockedAndReviewed
    <3> DEFINE hash == runtime[ledger[p].run].hash
    <3>1. p \in DOMAIN ledger /\ ledger[p].title = "worker.reported"
      BY DEF WorkReports, At
    <3>2. LockedFor(ledger, p, hash) BY <1>1, <3>1 DEF WorkInv, Just, Rests
    <3>3. PICK l \in Locks : l < p /\ ledger[l].hash = hash
      BY <3>2 DEF LockedFor, Locks
    <3>4. ReviewMode = "require" => \E c \in PassReviews(ledger, hash) : c < l
      BY <1>1, <3>3, LockIsReviewed DEF WorkInv, LockedHashWasReviewed
    <3> QED BY <3>3, <3>4
  <2> QED BY <2>1, <2>2 DEF PipelineInv
<1> QED BY <1>1, WorkInvAlways, PTL

(* No AUTO-GO without a lock, a PASS reported after it and a verdict that  *)
(* passes that report under that lock, in this order.                      *)
THEOREM EveryGoIsEarned == PipelineSpec => []AutoGoIsEarned
<1>1. ASSUME WorkInv PROVE AutoGoIsEarned
  <2> SUFFICES ASSUME NEW d \in AutoGos
               PROVE  \E l \in Locks, p \in WorkReports, v \in Passed :
                        /\ l < p /\ p < v /\ v < d
                        /\ ledger[p].value = "PASS"
                        /\ ledger[v].run = ledger[l].run
                        /\ ledger[v].prev = ledger[p].run
    BY DEF AutoGoIsEarned
  <2>1. /\ d \in DOMAIN ledger /\ ledger[d].title = "controller.decision"
        /\ ledger[d].value = "AUTO-GO"
    BY DEF AutoGos, At
  <2>2. SomePass(ledger, d) BY <1>1, <2>1 DEF WorkInv, Just, Rests
  <2>3. PICK v \in Passed : v < d BY <2>2 DEF SomePass, Passed
  <2>4. /\ v \in DOMAIN ledger /\ ledger[v].title = "controller.verdict"
        /\ ledger[v].value = "PASS"
    BY DEF Passed, At
  <2>5. Backed(ledger, v, ledger[v]) BY <1>1, <2>4 DEF WorkInv, Just, Rests
  <2> QED BY <2>3, <2>5 DEF Backed, Locks, WorkReports
<1> QED BY <1>1, WorkInvAlways, PTL

(* However often and by however many processes an item is judged, the PASS *)
(* verdicts under one lock accept one report: it is the only one after the *)
(* lock that is not a failure.                                             *)
THEOREM OneReportIsAccepted == PipelineSpec => []OneReportPerLock
<1>1. ASSUME WorkInv PROVE OneReportPerLock
  <2> SUFFICES ASSUME NEW u \in Passed, NEW v \in Passed,
                      ledger[u].run = ledger[v].run
               PROVE  ledger[u].prev = ledger[v].prev
    BY DEF OneReportPerLock
  <2>1. \A i \in Passed : Backed(ledger, i, ledger[i])
    BY <1>1 DEF Passed, At, WorkInv, Just, Rests
  <2>2. PICK a \in Locks, p \in WorkReports :
          /\ a < p /\ ledger[p].value = "PASS"
          /\ ledger[u].run = ledger[a].run /\ ledger[u].prev = ledger[p].run
          /\ \A q \in WorkReports : a < q /\ q < p => ledger[q].value = "FAILED"
    BY <2>1 DEF Backed, Locks, WorkReports
  <2>3. PICK b \in Locks, o \in WorkReports :
          /\ b < o /\ ledger[o].value = "PASS"
          /\ ledger[v].run = ledger[b].run /\ ledger[v].prev = ledger[o].run
          /\ \A q \in WorkReports : b < q /\ q < o => ledger[q].value = "FAILED"
    BY <2>1 DEF Backed, Locks, WorkReports
  <2>4. a \in Nat /\ b \in Nat /\ p \in Nat /\ o \in Nat
    BY <1>1 DEF Locks, WorkReports, At, WorkInv, DInv, TypeOK, ReviewTypeOK
  <2>5. ASSUME NEW i \in Locks, NEW j \in Locks, j < i
        PROVE  ledger[j].run # ledger[i].run
    BY <1>1, <2>5 DEF Locks, At, WorkInv, Just, Rests
  <2>6. a = b
    <3>1. ledger[a].run = ledger[b].run BY <2>2, <2>3
    <3>2. ~(a < b) /\ ~(b < a) BY <2>5, <3>1
    <3> QED BY <2>4, <3>2
  <2>7. o = p BY <2>2, <2>3, <2>4, <2>6
  <2> QED BY <2>2, <2>3, <2>7
<1> QED BY <1>1, WorkInvAlways, PTL

(* Exit 0 of a runtime dispatcher: a PASS verdict after its own report     *)
(* names that report, or a lock that is newer than the report.             *)
THEOREM ExitZeroIsAnswered == PipelineSpec => []ExitZeroIsAccepted
<1>1. ASSUME WorkInv PROVE ExitZeroIsAccepted
  <2> SUFFICES ASSUME NEW r \in Runtimes, runtime[r].exit = "0"
               PROVE  \E p \in WorkReports, v \in Passed :
                        /\ ledger[p].run = r /\ p < v
                        /\ \/ ledger[v].prev = r
                           \/ \E l \in Locks : p < l /\ l < v /\ ledger[l].run = ledger[v].run
    BY DEF ExitZeroIsAccepted
  <2>1. Answered(ledger, r) BY <1>1 DEF WorkInv, RuntimeKnows
  <2>2. PICK v \in Passed : Answers(ledger, v, r, ledger[v])
    BY <2>1 DEF Answered, Passed
  <2> QED BY <2>2 DEF Answers, WorkReports, Locks
<1> QED BY <1>1, WorkInvAlways, PTL
=============================================================================
