--------------------------- MODULE PlaneToolsProofs ---------------------------
(*****************************************************************************)
(* Proofs about the tools that write to Plane beside the dispatchers:        *)
(* PlaneSeeding, GoalPlane, HumanGates, FounderQueue and QualityLoop, for    *)
(* any catalog, goals, cards, threads of comments and workers.               *)
(*                                                                           *)
(* What a tool has read may be stale when it writes. Each part says what the *)
(* tool still knows then: rows stay where they are, comments only get more,  *)
(* and an item that somebody created under the same name is not created      *)
(* again unless two tools overlapped.                                        *)
(*****************************************************************************)
EXTENDS PlaneSeeding, GoalPlane, HumanGates, FounderQueue, QualityLoop, CommonLemmas

(* PlaneSeeding: what a run knows of the rows *)

SeedRow == [key : Keys, parent : Nat, labels : SUBSET {"role", "hand"}, by : Seeder, had : Nat]
SeedStates == {"new", "listed", "writing", "dead", "failed", "done", "mapped"}
SeedRun == [pc : SeedStates, job : Jobs \cup {NoJob}, view : Seq(SeedRow), at : Nat \ {0},
            ok : BOOLEAN, made : [Keys -> Nat]]

SeedTypeOK == rows \in Seq(SeedRow) /\ seeder \in [Seeder -> SeedRun]

(* A row stays where it is, and what it is; new ones come behind it. *)
Follows(old, new) ==
  /\ Len(old) <= Len(new)
  /\ \A i \in DOMAIN old :
       new[i].key = old[i].key /\ new[i].by = old[i].by /\ new[i].had = old[i].had

Table(me) == Catalog[me.job.kind]
Handled(me) == {Table(me)[n].key : n \in {m \in DOMAIN Table(me) : m < me.at}}
There(list, key) == \E i \in DOMAIN list : list[i].key = key

(* A run that writes: what it listed is still there, what it made has the    *)
(* key it was made for, and what it added came behind the listing, for      *)
(* entries it has dealt with.                                               *)
WriterKnows(list, s, me) ==
  me.pc = "writing" =>
    /\ me.job \in Jobs /\ me.at <= Len(Table(me)) + 1
    /\ Follows(me.view, list)
    /\ \A key \in Keys : me.made[key] # 0 =>
         me.made[key] \in DOMAIN list /\ list[me.made[key]].key = key
    /\ \A i \in DOMAIN list : list[i].by = s =>
         list[i].had = Len(me.view) /\ Len(me.view) < i /\ list[i].key \in Handled(me)
    /\ me.ok => \A key \in Handled(me) : There(list, key)

RunKnows(list, map, s, me) ==
  /\ me.pc = "new" => me = NewSeeder /\ \A i \in DOMAIN list : list[i].by # s
  /\ WriterKnows(list, s, me)
  /\ me.pc = "listed" => ~me.job.applies
  /\ me.pc \in {"listed", "writing", "done", "mapped"} => me.job \in Jobs
  /\ me.pc \in {"done", "mapped"} /\ me.job.applies =>
       \A n \in DOMAIN Table(me) : There(list, Table(me)[n].key)
  /\ me.pc = "mapped" /\ me.job.applies =>
       \A n \in DOMAIN Table(me) : Table(me)[n].key \in map

(* The two halves of the tree, of a given list. *)
Once(list) ==
  \A i, j \in DOMAIN list :
    i < j /\ list[i].key = list[j].key => list[i].by # list[j].by /\ list[j].had < i
RightParent(list, key, parent) ==
  \A k \in DOMAIN Catalog : \A n \in DOMAIN Catalog[k] : Catalog[k][n].key = key =>
    IF Catalog[k][n].parent = NoKey THEN parent = 0
    ELSE parent \in DOMAIN list /\ list[parent].key = Catalog[k][n].parent
Fits(list) == \A i \in DOMAIN list : RightParent(list, list[i].key, list[i].parent)

SeedInv ==
  /\ SeedTypeOK /\ Once(rows) /\ Fits(rows)
  /\ \A s \in Seeder : RunKnows(rows, labelMap, s, seeder[s])

-----------------------------------------------------------------------------
(* Rows *)

LEMMA FollowsOnward ==
  ASSUME NEW a \in Seq(SeedRow), NEW b \in Seq(SeedRow), NEW c \in Seq(SeedRow), Follows(a, b), Follows(b, c)
  PROVE  Follows(a, c)
  BY DEF Follows

LEMMA ThereStays ==
  ASSUME NEW old \in Seq(SeedRow), NEW new \in Seq(SeedRow), Follows(old, new), NEW key, There(old, key)
  PROVE  There(new, key)
  BY DEF Follows, There

LEMMA ParentStaysRight ==
  ASSUME NEW old \in Seq(SeedRow), NEW new \in Seq(SeedRow), Follows(old, new), NEW key, NEW parent,
         RightParent(old, key, parent)
  PROVE  RightParent(new, key, parent)
  BY DEF Follows, RightParent

LEMMA OnceStays ==
  ASSUME NEW old \in Seq(SeedRow), NEW new \in Seq(SeedRow), Follows(old, new), Len(old) = Len(new),
         Once(old)
  PROVE  Once(new)
  BY DEF Follows, Once

(* What a run may add: a row for an entry it had not seen and not dealt with. *)
LEMMA OnceGrows ==
  ASSUME NEW old \in Seq(SeedRow), NEW row \in SeedRow, Once(old),
         \A i \in DOMAIN old : old[i].key = row.key => old[i].by # row.by /\ row.had < i
  PROVE  Once(Append(old, row)) /\ Append(old, row) \in Seq(SeedRow) /\ Follows(old, Append(old, row))
<1> DEFINE new == Append(old, row)
<1>1. /\ Len(new) = Len(old) + 1 /\ Len(old) \in Nat /\ DOMAIN old = 1..Len(old)
      /\ DOMAIN new = DOMAIN old \cup {Len(new)} /\ new[Len(new)] = row
      /\ \A i \in DOMAIN old : new[i] = old[i] /\ i < Len(new)
  OBVIOUS
<1>2. new \in Seq(SeedRow) OBVIOUS
<1> HIDE DEF new
<1>3. Follows(old, new) BY <1>1 DEF Follows
<1>4. ASSUME NEW i \in DOMAIN new, NEW j \in DOMAIN new, i < j, new[i].key = new[j].key
      PROVE  new[i].by # new[j].by /\ new[j].had < i
  <2>1. i \in DOMAIN old /\ new[i] = old[i] BY <1>1, <1>4
  <2>2. CASE j \in DOMAIN old
    <3>1. new[j] = old[j] BY <1>1, <2>2
    <3> QED BY <1>4, <2>1, <2>2, <3>1 DEF Once
  <2>3. CASE j = Len(new)
    <3>1. new[j] = row BY <1>1, <2>3
    <3> QED BY <1>4, <2>1, <3>1
  <2> QED BY <1>1, <2>2, <2>3
<1> QED BY <1>2, <1>3, <1>4 DEF Once, new

LEMMA FitsGrows ==
  ASSUME NEW old \in Seq(SeedRow), NEW row \in SeedRow, Fits(old), NEW new \in Seq(SeedRow),
         new = Append(old, row), Follows(old, new), RightParent(old, row.key, row.parent)
  PROVE  Fits(new)
<1>1. /\ DOMAIN new = DOMAIN old \cup {Len(new)} /\ new[Len(new)] = row
      /\ \A i \in DOMAIN old : new[i] = old[i]
  OBVIOUS
<1>2. ASSUME NEW i \in DOMAIN new PROVE RightParent(new, new[i].key, new[i].parent)
  <2>1. RightParent(old, new[i].key, new[i].parent) BY <1>1 DEF Fits
  <2> QED BY <2>1, ParentStaysRight
<1> QED BY <1>2 DEF Fits

-----------------------------------------------------------------------------
(* Runs *)

LEMMA EntryIsListed ==
  ASSUME NEW me \in SeedRun, me.job \in Jobs, me.at <= Len(Table(me))
  PROVE  /\ Table(me) \in Seq([key : Keys, parent : Keys \cup {NoKey}])
         /\ me.job.kind \in DOMAIN Catalog /\ me.at \in DOMAIN Table(me)
         /\ Table(me)[me.at].key \in Keys /\ Table(me)[me.at].parent \in Keys \cup {NoKey}
<1>1. Table(me) \in Seq([key : Keys, parent : Keys \cup {NoKey}]) /\ me.job.kind \in DOMAIN Catalog
  BY CatalogAssumption DEF Table
<1> DEFINE table == Table(me)
           AnEntry == [key : Keys, parent : Keys \cup {NoKey}]
<1>0. table \in Seq(AnEntry) BY <1>1
<1>00. me.at <= Len(table) OBVIOUS
<1> HIDE DEF table, AnEntry
<1>2. me.at \in Nat \ {0} BY DEF SeedRun
<1>3. me.at \in DOMAIN table BY <1>0, <1>00, <1>2
<1>4. table[me.at] \in AnEntry BY <1>0, <1>3
<1> QED BY <1>1, <1>3, <1>4 DEF table, AnEntry

(* What another process does leaves a run knowing what it knew. *)
LEMMA OthersAreKnown ==
  ASSUME NEW old \in Seq(SeedRow), NEW new \in Seq(SeedRow), Follows(old, new), NEW s, NEW map, NEW next,
         \A i \in DOMAIN new : i \notin DOMAIN old => new[i].by # s,
         next = map \/ next = {new[i].key : i \in DOMAIN new},
         NEW me \in SeedRun, RunKnows(old, map, s, me)
  PROVE  RunKnows(new, next, s, me)
<1>1. me.view \in Seq(SeedRow) /\ me.made \in [Keys -> Nat] BY DEF SeedRun
<1>2. ASSUME me.pc = "new" PROVE me = NewSeeder /\ \A i \in DOMAIN new : new[i].by # s
  BY <1>2 DEF RunKnows, Follows
<1>3. ASSUME me.pc = "writing" PROVE WriterKnows(new, s, me)
  <2>1. /\ me.job \in Jobs /\ me.at <= Len(Table(me)) + 1 /\ Follows(me.view, new)
    BY <1>1, <1>3, FollowsOnward DEF RunKnows, WriterKnows
  <2>2. \A key \in Keys : me.made[key] # 0 =>
           me.made[key] \in DOMAIN new /\ new[me.made[key]].key = key
    BY <1>1, <1>3 DEF RunKnows, WriterKnows, Follows
  <2>3. ASSUME NEW i \in DOMAIN new, new[i].by = s
        PROVE  new[i].had = Len(me.view) /\ Len(me.view) < i /\ new[i].key \in Handled(me)
    <3>1. i \in DOMAIN old BY <2>3
    <3> QED BY <1>3, <2>3, <3>1 DEF RunKnows, WriterKnows, Follows
  <2>4. me.ok => \A key \in Handled(me) : There(new, key)
    BY <1>3, ThereStays DEF RunKnows, WriterKnows
  <2> QED BY <2>1, <2>2, <2>3, <2>4 DEF WriterKnows
<1>4. ASSUME me.pc \in {"done", "mapped"}, me.job.applies, NEW n \in DOMAIN Table(me)
      PROVE  There(new, Table(me)[n].key)
  BY <1>4, ThereStays DEF RunKnows
<1>5. ASSUME me.pc = "mapped", me.job.applies, NEW n \in DOMAIN Table(me)
      PROVE  Table(me)[n].key \in next
  <2>1. There(new, Table(me)[n].key) BY <1>4, <1>5
  <2>2. Table(me)[n].key \in map BY <1>5 DEF RunKnows
  <2> QED BY <2>1, <2>2 DEF There
<1>6. /\ me.pc = "listed" => ~me.job.applies
      /\ me.pc \in {"listed", "writing", "done", "mapped"} => me.job \in Jobs
  BY DEF RunKnows
<1>7. WriterKnows(new, s, me) BY <1>3 DEF WriterKnows
<1> QED BY <1>2, <1>4, <1>5, <1>6, <1>7 DEF RunKnows

(* The next entry is dealt with: what Advance makes of a run. *)
Advanced(me, row, o) ==
  [pc |-> IF o.answer = "gone" THEN "dead" ELSE me.pc, job |-> me.job,
   view |-> IF o.answer = "gone" THEN <<>> ELSE me.view, at |-> me.at + 1,
   ok |-> me.ok /\ o.answer = "ok",
   made |-> IF o.answer = "gone" THEN NewSeeder.made
            ELSE [me.made EXCEPT ![Table(me)[me.at].key] = row]]

LEMMA AdvancedIsTyped ==
  ASSUME NEW me \in SeedRun, me.pc = "writing", NEW row \in Nat, NEW o \in Outcomes
  PROVE  Advanced(me, row, o) \in SeedRun
<1>1. /\ me.pc \in SeedStates /\ me.job \in Jobs \cup {NoJob} /\ me.view \in Seq(SeedRow)
      /\ me.at \in Nat \ {0} /\ me.made \in [Keys -> Nat]
  BY DEF SeedRun
<1>2. NewSeeder.made \in [Keys -> Nat] BY DEF NewSeeder
<1> DEFINE made == IF o.answer = "gone" THEN NewSeeder.made
                   ELSE [me.made EXCEPT ![Table(me)[me.at].key] = row]
           view == IF o.answer = "gone" THEN <<>> ELSE me.view
           pc == IF o.answer = "gone" THEN "dead" ELSE me.pc
           ok == me.ok /\ o.answer = "ok"
<1>3. made \in [Keys -> Nat] BY <1>1, <1>2
<1>4. view \in Seq(SeedRow) BY <1>1
<1>5. pc \in SeedStates BY <1>1 DEF SeedStates
<1>6. ok \in BOOLEAN OBVIOUS
<1>7. me.at + 1 \in Nat \ {0} BY <1>1
<1> HIDE DEF made, view, pc, ok
<1>8. [pc |-> pc, job |-> me.job, view |-> view, at |-> me.at + 1, ok |-> ok, made |-> made]
        \in SeedRun
  BY <1>1, <1>3, <1>4, <1>5, <1>6, <1>7 DEF SeedRun
<1> QED BY <1>8 DEF Advanced, made, view, pc, ok

LEMMA AdvancedKnows ==
  ASSUME NEW old \in Seq(SeedRow), NEW new \in Seq(SeedRow), Follows(old, new), NEW s, NEW map,
         NEW me \in SeedRun, RunKnows(old, map, s, me), me.pc = "writing",
         me.at <= Len(Table(me)), NEW row \in Nat, NEW o \in Outcomes,
         row # 0 => row \in DOMAIN new /\ new[row].key = Table(me)[me.at].key,
         o.answer = "ok" => row # 0,
         \A i \in DOMAIN new : i \notin DOMAIN old =>
           new[i].key = Table(me)[me.at].key /\ new[i].had = Len(me.view)
  PROVE  RunKnows(new, map, s, Advanced(me, row, o))
<1> DEFINE key == Table(me)[me.at].key
           next == Advanced(me, row, o)
<1>0. /\ me.job \in Jobs /\ me.at \in Nat \ {0} /\ me.view \in Seq(SeedRow)
      /\ me.made \in [Keys -> Nat] /\ key \in Keys /\ me.at \in DOMAIN Table(me)
      /\ Table(me) \in Seq([key : Keys, parent : Keys \cup {NoKey}])
  BY EntryIsListed DEF RunKnows, SeedRun
<1>1. CASE o.answer = "gone"
  <2>1. next.pc = "dead" BY <1>1 DEF Advanced
  <2> HIDE DEF next
  <2> QED BY <2>1 DEF RunKnows, WriterKnows, next
<1>2. CASE o.answer # "gone"
  <2>1. /\ next.pc = "writing" /\ next.job = me.job /\ next.view = me.view
        /\ next.at = me.at + 1 /\ next.made = [me.made EXCEPT ![key] = row]
    BY <1>2 DEF Advanced
  <2>2. next.ok => me.ok /\ o.answer = "ok" BY DEF Advanced
  <2>3. Table(next) = Table(me) BY <2>1 DEF Table
  <2> HIDE DEF next
  <2>4. Handled(next) = Handled(me) \cup {key}
    <3>1. {m \in DOMAIN Table(me) : m < me.at + 1}
            = {m \in DOMAIN Table(me) : m < me.at} \cup {me.at}
      <4> DEFINE table == Table(me)
      <4> HIDE DEF table
      <4>1. DOMAIN table \subseteq Nat /\ me.at \in DOMAIN table BY <1>0 DEF table
      <4>2. {m \in DOMAIN table : m < me.at + 1} = {m \in DOMAIN table : m < me.at} \cup {me.at}
        BY <1>0, <4>1
      <4> QED BY <4>2 DEF table
    <3>2. Handled(next) = {Table(me)[n].key : n \in {m \in DOMAIN Table(me) : m < me.at + 1}}
      BY <2>1, <2>3 DEF Handled
    <3> QED BY <3>1, <3>2 DEF Handled
  <2>5. next.at <= Len(Table(next)) + 1
    <3>1. Len(Table(me)) \in Nat BY <1>0
    <3> QED BY <1>0, <2>1, <2>3, <3>1
  <2>6. Follows(next.view, new)
    <3>1. Follows(me.view, old) BY DEF RunKnows, WriterKnows
    <3> QED BY <1>0, <2>1, <3>1, FollowsOnward
  <2>7. ASSUME NEW k \in Keys, next.made[k] # 0
        PROVE  next.made[k] \in DOMAIN new /\ new[next.made[k]].key = k
    <3>1. CASE k = key BY <1>0, <2>1, <2>7, <3>1
    <3>2. CASE k # key
      <4>1. next.made[k] = me.made[k] BY <1>0, <2>1, <3>2
      <4>2. me.made[k] \in DOMAIN old /\ old[me.made[k]].key = k
        BY <2>7, <4>1 DEF RunKnows, WriterKnows
      <4> QED BY <4>1, <4>2 DEF Follows
    <3> QED BY <3>1, <3>2
  <2>8. ASSUME NEW i \in DOMAIN new, new[i].by = s
        PROVE  new[i].had = Len(me.view) /\ Len(me.view) < i /\ new[i].key \in Handled(next)
    <3>1. CASE i \in DOMAIN old
      <4>1. old[i].by = s /\ new[i].had = old[i].had /\ new[i].key = old[i].key
        BY <2>8, <3>1 DEF Follows
      <4>2. old[i].had = Len(me.view) /\ Len(me.view) < i /\ old[i].key \in Handled(me)
        BY <3>1, <4>1 DEF RunKnows, WriterKnows
      <4> QED BY <2>4, <4>1, <4>2
    <3>2. CASE i \notin DOMAIN old
      <4>1. new[i].key = key /\ new[i].had = Len(me.view) BY <3>2
      <4>2. Len(me.view) <= Len(old) BY DEF RunKnows, WriterKnows, Follows
      <4>3. Len(old) < i BY <3>2
      <4>4. Len(me.view) \in Nat /\ Len(old) \in Nat /\ i \in Nat BY <1>0
      <4> QED BY <2>4, <4>1, <4>2, <4>3, <4>4
    <3> QED BY <3>1, <3>2
  <2>9. ASSUME next.ok, NEW k \in Handled(next) PROVE There(new, k)
    <3>1. me.ok /\ row # 0 BY <2>2, <2>9
    <3>2. CASE k = key BY <3>1, <3>2 DEF There
    <3>3. CASE k \in Handled(me)
      <4>1. There(old, k) BY <3>1, <3>3 DEF RunKnows, WriterKnows
      <4> QED BY <4>1, ThereStays
    <3> QED BY <2>4, <2>9, <3>2, <3>3
  <2>10. WriterKnows(new, s, next)
    BY <1>0, <2>1, <2>5, <2>6, <2>7, <2>8, <2>9 DEF WriterKnows
  <2> QED BY <1>0, <2>1, <2>10 DEF RunKnows, next
<1> QED BY <1>1, <1>2

-----------------------------------------------------------------------------
(* Steps *)

(* A run's step: the rows follow, what is new is the run's own, and the run  *)
(* still knows.                                                             *)
LEMMA OneRunSteps ==
  ASSUME SeedInv, NEW s \in Seeder, NEW me \in SeedRun, seeder' = [seeder EXCEPT ![s] = me],
         rows' \in Seq(SeedRow), Once(rows'), Fits(rows'), Follows(rows, rows'),
         \A i \in DOMAIN rows' : i \notin DOMAIN rows => rows'[i].by = s,
         labelMap' = labelMap \/ labelMap' = {rows'[i].key : i \in DOMAIN rows'},
         RunKnows(rows', labelMap', s, me)
  PROVE  SeedInv'
<1>1. seeder \in [Seeder -> SeedRun] /\ rows \in Seq(SeedRow) BY DEF SeedInv, SeedTypeOK
<1>2. seeder' \in [Seeder -> SeedRun] /\ seeder'[s] = me BY <1>1
<1>3. ASSUME NEW q \in Seeder PROVE RunKnows(rows', labelMap', q, seeder'[q])
  <2>1. CASE q = s BY <1>2, <2>1
  <2>2. CASE q # s
    <3>1. seeder'[q] = seeder[q] /\ seeder[q] \in SeedRun BY <1>1, <2>2
    <3>2. RunKnows(rows, labelMap, q, seeder[q]) BY DEF SeedInv
    <3>3. \A i \in DOMAIN rows' : i \notin DOMAIN rows => rows'[i].by # q BY <2>2
    <3> QED BY <1>1, <3>1, <3>2, <3>3, OthersAreKnown
  <2> QED BY <2>1, <2>2
<1> QED BY <1>2, <1>3 DEF SeedInv, SeedTypeOK

LEMMA FollowsItself ==
  ASSUME NEW list \in Seq(SeedRow) PROVE Follows(list, list)
  BY DEF Follows

(* Advance, with the rows as they are or as the step leaves them. *)
LEMMA AdvanceKeepsInv ==
  ASSUME SeedInv, NEW s \in Seeder, Busy(s), NEW row \in Nat, NEW o \in Outcomes,
         Advance(s, row, o), UNCHANGED labelMap,
         rows' \in Seq(SeedRow), Once(rows'), Fits(rows'), Follows(rows, rows'),
         \A i \in DOMAIN rows' : i \notin DOMAIN rows =>
           /\ rows'[i].by = s /\ rows'[i].had = Len(seeder[s].view)
           /\ rows'[i].key = Entry(s).key,
         row # 0 => row \in DOMAIN rows' /\ rows'[row].key = Entry(s).key,
         o.answer = "ok" => row # 0
  PROVE  SeedInv'
<1> DEFINE me == seeder[s]
<1>1. /\ me \in SeedRun /\ seeder \in [Seeder -> SeedRun] /\ rows \in Seq(SeedRow)
      /\ RunKnows(rows, labelMap, s, me)
  BY DEF SeedInv, SeedTypeOK
<1>2. me.pc = "writing" /\ me.at <= Len(Table(me)) /\ Entry(s) = Table(me)[me.at]
  BY DEF Busy, Entries, Entry, Table
<1>3. seeder' = [seeder EXCEPT ![s] = Advanced(me, row, o)]
  <2>1. me = [pc |-> me.pc, job |-> me.job, view |-> me.view, at |-> me.at, ok |-> me.ok,
              made |-> me.made]
    BY <1>1 DEF SeedRun
  <2>2. seeder'[s] = Advanced(me, row, o)
    BY <1>1, <1>2, <2>1 DEF Advance, Advanced
  <2> QED BY <1>1, <2>2 DEF Advance
<1>4. Advanced(me, row, o) \in SeedRun BY <1>1, <1>2, AdvancedIsTyped
<1>5. RunKnows(rows', labelMap, s, Advanced(me, row, o))
  <2> HIDE DEF me
  <2>1. me.pc = "writing" /\ me.at <= Len(Table(me)) BY <1>2
  <2>2. row # 0 => row \in DOMAIN rows' /\ rows'[row].key = Table(me)[me.at].key BY <1>2
  <2>3. \A i \in DOMAIN rows' : i \notin DOMAIN rows =>
          rows'[i].key = Table(me)[me.at].key /\ rows'[i].had = Len(me.view)
    BY <1>2 DEF me
  <2> QED BY <1>1, <2>1, <2>2, <2>3, AdvancedKnows
<1> HIDE DEF me
<1>6. RunKnows(rows', labelMap', s, Advanced(me, row, o)) BY <1>5
<1> QED BY <1>3, <1>4, <1>6, OneRunSteps

(* The entry at hand, and a row of the listing that stands for it. *)
LEMMA OwnIsThere ==
  ASSUME SeedInv, NEW s \in Seeder, Busy(s), NEW own \in Already(s)
  PROVE  /\ own \in Nat
         /\ own # 0 => /\ own \in DOMAIN seeder[s].view /\ own \in DOMAIN rows
                       /\ rows[own].key = Entry(s).key
<1> DEFINE me == seeder[s]
<1>1. me \in SeedRun /\ rows \in Seq(SeedRow) /\ RunKnows(rows, labelMap, s, me)
  BY DEF SeedInv, SeedTypeOK
<1>2. me.view \in Seq(SeedRow) /\ Follows(me.view, rows)
  BY <1>1 DEF SeedRun, RunKnows, WriterKnows, Busy
<1>3. CASE SeedCopies(me.view, Entry(s).key) = {}
  BY <1>3 DEF Already
<1>4. CASE SeedCopies(me.view, Entry(s).key) # {}
  <2>1. own \in DOMAIN me.view /\ me.view[own].key = Entry(s).key
    BY <1>4 DEF Already, SeedCopies
  <2> HIDE DEF me
  <2>2. own \in Nat /\ own \in DOMAIN rows /\ rows[own].key = me.view[own].key
    BY <1>1, <1>2, <2>1 DEF Follows
  <2> QED BY <2>1, <2>2 DEF me
<1> QED BY <1>3, <1>4

LEMMA ParentRowIsRight ==
  ASSUME SeedInv, NEW s \in Seeder, Busy(s), ~Orphan(s)
  PROVE  RightParent(rows, Entry(s).key, ParentRow(s)) /\ ParentRow(s) \in Nat
<1> DEFINE me == seeder[s]
           e == Entry(s)
           up == ParentRow(s)
<1>1. me \in SeedRun /\ RunKnows(rows, labelMap, s, me) BY DEF SeedInv, SeedTypeOK
<1>2. me.pc = "writing" /\ me.at <= Len(Table(me)) /\ e = Table(me)[me.at] /\ me.job \in Jobs
  BY <1>1 DEF Busy, Entries, Entry, Table, RunKnows
<1>3. /\ me.job.kind \in DOMAIN Catalog /\ me.at \in DOMAIN Catalog[me.job.kind]
      /\ e = Catalog[me.job.kind][me.at] /\ e.parent \in Keys \cup {NoKey}
  <2> HIDE DEF me
  <2> QED BY <1>1, <1>2, EntryIsListed DEF Table
<1>4. me.made \in [Keys -> Nat] BY <1>1 DEF SeedRun
<1>5. up \in Nat
  <2>1. CASE e.parent = NoKey BY <2>1 DEF ParentRow
  <2>2. CASE e.parent # NoKey
    <3>1. up = me.made[e.parent] /\ e.parent \in Keys BY <1>3, <2>2 DEF ParentRow
    <3> QED BY <1>4, <3>1
  <2> QED BY <2>1, <2>2
<1>6. IF e.parent = NoKey THEN up = 0 ELSE up \in DOMAIN rows /\ rows[up].key = e.parent
  <2>1. CASE e.parent = NoKey BY <2>1 DEF ParentRow
  <2>2. CASE e.parent # NoKey
    <3>1. up = me.made[e.parent] /\ e.parent \in Keys /\ up # 0
      BY <1>3, <2>2 DEF ParentRow, Orphan
    <3> HIDE DEF me, up, e
    <3> QED BY <1>1, <1>2, <2>2, <3>1 DEF RunKnows, WriterKnows
  <2> QED BY <2>1, <2>2
<1>7. ASSUME NEW k \in DOMAIN Catalog, NEW n \in DOMAIN Catalog[k], Catalog[k][n].key = e.key
      PROVE  Catalog[k][n].parent = e.parent
  <2> HIDE DEF me, e
  <2> QED BY <1>3, <1>7, CatalogAssumption
<1> HIDE DEF up, e, me
<1>8. RightParent(rows, e.key, up) BY <1>6, <1>7 DEF RightParent
<1> QED BY <1>5, <1>8 DEF e, up

LEMMA WithoutAWrite ==
  ASSUME SeedInv, UNCHANGED rows
  PROVE  /\ rows' \in Seq(SeedRow) /\ Once(rows') /\ Fits(rows') /\ Follows(rows, rows')
         /\ \A i \in DOMAIN rows' : i \in DOMAIN rows
  BY FollowsItself DEF SeedInv, SeedTypeOK

LEMMA KeepingKeepsInv ==
  ASSUME SeedInv, NEW s \in Seeder,
         \/ LeaveOrphan(s)
         \/ \E own \in 0..Len(rows) : LeaveOrphanContract(s, own) \/ KeepRow(s, own)
  PROVE  SeedInv'
<1>1. CASE LeaveOrphan(s)
  <2>1. [landed |-> FALSE, answer |-> "error"] \in Outcomes BY DEF Outcomes
  <2> QED BY <1>1, <2>1, WithoutAWrite, AdvanceKeepsInv DEF LeaveOrphan
<1>2. CASE \E own \in 0..Len(rows) : LeaveOrphanContract(s, own) \/ KeepRow(s, own)
  <2>1. PICK own \in 0..Len(rows) : LeaveOrphanContract(s, own) \/ KeepRow(s, own) BY <1>2
  <2>2. Busy(s) /\ own \in Already(s) /\ UNCHANGED <<rows, labelMap>>
    BY <2>1 DEF LeaveOrphanContract, KeepRow
  <2>3. /\ own \in Nat
        /\ own # 0 => own \in DOMAIN rows' /\ rows'[own].key = Entry(s).key
    BY <2>2, OwnIsThere
  <2>4. CASE LeaveOrphanContract(s, own)
    <3>1. [landed |-> FALSE, answer |-> "error"] \in Outcomes BY DEF Outcomes
    <3>2. Advance(s, own, [landed |-> FALSE, answer |-> "error"])
      BY <2>4 DEF LeaveOrphanContract
    <3> QED BY <2>2, <2>3, <3>1, <3>2, WithoutAWrite, AdvanceKeepsInv
  <2>5. CASE KeepRow(s, own)
    <3>1. [landed |-> TRUE, answer |-> "ok"] \in Outcomes BY DEF Outcomes
    <3>2. Advance(s, own, [landed |-> TRUE, answer |-> "ok"]) /\ own # 0 BY <2>5 DEF KeepRow
    <3> QED BY <2>2, <2>3, <3>1, <3>2, WithoutAWrite, AdvanceKeepsInv
  <2> QED BY <2>1, <2>4, <2>5
<1> QED BY <1>1, <1>2

(* A row that is written over keeps what it stands for. *)
LEMMA RelabelledRows ==
  ASSUME NEW list \in Seq(SeedRow), Once(list), Fits(list), NEW own \in DOMAIN list,
         NEW labels \in SUBSET {"role", "hand"}, NEW parent \in Nat,
         RightParent(list, list[own].key, parent)
  PROVE  LET new == [list EXCEPT ![own].labels = labels, ![own].parent = parent]
         IN  /\ new \in Seq(SeedRow) /\ Once(new) /\ Fits(new) /\ Follows(list, new)
             /\ DOMAIN new = DOMAIN list
<1> DEFINE new == [list EXCEPT ![own].labels = labels, ![own].parent = parent]
           row == [key |-> list[own].key, parent |-> parent, labels |-> labels,
                   by |-> list[own].by, had |-> list[own].had]
<1>1. list[own] \in SeedRow OBVIOUS
<1>2. row \in SeedRow BY <1>1 DEF SeedRow
<1>3. list[own] = [key |-> list[own].key, parent |-> list[own].parent,
                   labels |-> list[own].labels, by |-> list[own].by, had |-> list[own].had]
  BY <1>1 DEF SeedRow
<1>4. new = [list EXCEPT ![own] = row]
  <2> DEFINE half == [key |-> list[own].key, parent |-> list[own].parent, labels |-> labels,
                      by |-> list[own].by, had |-> list[own].had]
             first == [list EXCEPT ![own] = half]
  <2>1. [list[own] EXCEPT !.labels = labels] = half BY <1>3
  <2>2. [half EXCEPT !.parent = parent] = row OBVIOUS
  <2>3. first[own] = half OBVIOUS
  <2>4. new = [first EXCEPT ![own] = [first[own] EXCEPT !.parent = parent]] BY <2>1, Zenon
  <2> HIDE DEF new, row, half
  <2>5. new = [first EXCEPT ![own] = row] BY <2>2, <2>3, <2>4
  <2> QED BY <2>5
<1>5. row.key = list[own].key /\ row.by = list[own].by /\ row.had = list[own].had
      /\ row.parent = parent
  OBVIOUS
<1> HIDE DEF row, new
<1>6. new \in Seq(SeedRow) /\ Len(new) = Len(list) /\ DOMAIN new = DOMAIN list
      /\ new[own] = row /\ \A i \in DOMAIN list : i # own => new[i] = list[i]
  BY <1>2, <1>4
<1>7. Follows(list, new) BY <1>5, <1>6 DEF Follows
<1>8. Once(new) BY <1>6, <1>7, OnceStays
<1>9. ASSUME NEW i \in DOMAIN new PROVE RightParent(new, new[i].key, new[i].parent)
  <2>1. RightParent(list, new[i].key, new[i].parent) BY <1>5, <1>6 DEF Fits
  <2> QED BY <1>6, <1>7, <2>1, ParentStaysRight
<1> QED BY <1>6, <1>7, <1>8, <1>9 DEF Fits, new

LEMMA PatchKeepsInv ==
  ASSUME SeedInv, NEW s \in Seeder, NEW own \in 1..Len(rows), NEW o \in Outcomes,
         PatchRow(s, own, o)
  PROVE  SeedInv'
<1>1. rows \in Seq(SeedRow) /\ seeder[s] \in SeedRun /\ Once(rows) /\ Fits(rows)
  BY DEF SeedInv, SeedTypeOK
<1>2. /\ Busy(s) /\ own \in Already(s) /\ own # 0 /\ Advance(s, own, o) /\ UNCHANGED labelMap
      /\ ~Orphan(s)
  BY DEF PatchRow
<1>3. /\ own \in DOMAIN seeder[s].view /\ own \in DOMAIN rows /\ rows[own].key = Entry(s).key
  BY <1>2, OwnIsThere
<1>4. SentLabels(s, own) \in SUBSET {"role", "hand"}
  <2>1. seeder[s].view[own] \in SeedRow BY <1>1, <1>3 DEF SeedRun
  <2>2. seeder[s].view[own].labels \subseteq {"role", "hand"} BY <2>1 DEF SeedRow
  <2> QED BY <2>2 DEF SentLabels
<1>5. RightParent(rows, Entry(s).key, ParentRow(s)) /\ ParentRow(s) \in Nat
  BY <1>2, ParentRowIsRight
<1>6. /\ rows' \in Seq(SeedRow) /\ Once(rows') /\ Fits(rows') /\ Follows(rows, rows')
      /\ DOMAIN rows' = DOMAIN rows
  <2>1. CASE o.landed
    <3>1. rows' = [rows EXCEPT ![own].labels = SentLabels(s, own), ![own].parent = ParentRow(s)]
      BY <2>1 DEF PatchRow
    <3> QED BY <1>1, <1>3, <1>4, <1>5, <3>1, RelabelledRows
  <2>2. CASE ~o.landed BY <1>1, <2>2, FollowsItself DEF PatchRow
  <2> QED BY <2>1, <2>2
<1>7. own \in Nat /\ rows'[own].key = Entry(s).key BY <1>1, <1>3, <1>6 DEF Follows
<1> QED BY <1>2, <1>3, <1>6, <1>7, AdvanceKeepsInv

LEMMA PostKeepsInv ==
  ASSUME SeedInv, NEW s \in Seeder, NEW o \in Outcomes, Post(s, o)
  PROVE  SeedInv'
<1> DEFINE me == seeder[s]
           key == Entry(s).key
           row == [key |-> Entry(s).key, parent |-> ParentRow(s), labels |-> {"role"},
                   by |-> s, had |-> Len(seeder[s].view)]
           made == IF o.answer = "ok" THEN Len(rows) + 1 ELSE 0
<1>1. /\ rows \in Seq(SeedRow) /\ me \in SeedRun /\ Once(rows) /\ Fits(rows)
      /\ RunKnows(rows, labelMap, s, me)
  BY DEF SeedInv, SeedTypeOK
<1>2. /\ Busy(s) /\ Already(s) = {0} /\ Advance(s, made, o) /\ UNCHANGED labelMap /\ ~Orphan(s)
      /\ o.answer = "ok" => o.landed
  BY DEF Post, Possible
<1>3. RightParent(rows, key, ParentRow(s)) /\ ParentRow(s) \in Nat BY <1>2, ParentRowIsRight
<1>4. /\ me.pc = "writing" /\ me.at <= Len(Table(me)) /\ me.job \in Jobs
      /\ key = Table(me)[me.at].key
  BY <1>1, <1>2 DEF Busy, Entries, Entry, Table, RunKnows
<1>5. key \in Keys
  <2> HIDE DEF me, key
  <2> QED BY <1>1, <1>4, EntryIsListed
<1>6. me.view \in Seq(SeedRow) /\ Len(me.view) \in Nat /\ Follows(me.view, rows)
  BY <1>1, <1>4 DEF SeedRun, RunKnows, WriterKnows
<1>7. row \in SeedRow BY <1>3, <1>5, <1>6 DEF SeedRow
<1>8. /\ row.key = key /\ row.by = s /\ row.had = Len(me.view) /\ row.parent = ParentRow(s)
  OBVIOUS
<1>9. ASSUME NEW i \in DOMAIN rows, rows[i].key = key
      PROVE  rows[i].by # s /\ Len(me.view) < i
  <2>1. ~ (i \in DOMAIN me.view)
    <3>1. SUFFICES ASSUME i \in DOMAIN me.view PROVE FALSE OBVIOUS
    <3>2. me.view[i].key = key BY <1>6, <1>9, <3>1 DEF Follows
    <3>3. i \in SeedCopies(me.view, key) BY <3>1, <3>2 DEF SeedCopies
    <3>4. 0 \in SeedCopies(me.view, key) BY <1>2, <3>3 DEF Already
    <3>5. 0 \in DOMAIN me.view BY <3>4 DEF SeedCopies
    <3> HIDE DEF me
    <3> QED BY <1>6, <3>5
  <2>2. Len(me.view) < i
    <3> HIDE DEF me
    <3> QED BY <1>1, <1>6, <2>1
  <2>3. ASSUME rows[i].by = s PROVE FALSE
    <3>1. key \in Handled(me)
      <4> HIDE DEF me, key
      <4> QED BY <1>1, <1>4, <1>9, <2>3 DEF RunKnows, WriterKnows
    <3>2. PICK n \in DOMAIN Table(me) : n < me.at /\ Table(me)[n].key = key
      <4> HIDE DEF me, key
      <4> QED BY <3>1 DEF Handled
    <3>3. me.at \in DOMAIN Table(me) /\ me.job.kind \in DOMAIN Catalog
      <4> HIDE DEF me, key
      <4> QED BY <1>1, <1>4, EntryIsListed
    <3>4. n = me.at
      <4> HIDE DEF me, key
      <4> QED BY <1>4, <3>2, <3>3, CatalogAssumption DEF Table
    <3>5. me.at \in Nat BY <1>1 DEF SeedRun
    <3> HIDE DEF me, key
    <3> QED BY <3>2, <3>4, <3>5
  <2> QED BY <2>2, <2>3
<1> HIDE DEF row
<1>10. /\ Once(Append(rows, row)) /\ Append(rows, row) \in Seq(SeedRow)
       /\ Follows(rows, Append(rows, row)) /\ Fits(Append(rows, row))
  <2>1. \A i \in DOMAIN rows : rows[i].key = row.key => rows[i].by # row.by /\ row.had < i
    BY <1>8, <1>9
  <2>2. /\ Once(Append(rows, row)) /\ Append(rows, row) \in Seq(SeedRow)
        /\ Follows(rows, Append(rows, row))
    BY <1>1, <1>7, <2>1, OnceGrows
  <2>3. RightParent(rows, row.key, row.parent) BY <1>3, <1>8
  <2> QED BY <1>1, <1>7, <2>2, <2>3, FitsGrows
<1>11. /\ DOMAIN Append(rows, row) = DOMAIN rows \cup {Len(rows) + 1}
       /\ Append(rows, row)[Len(rows) + 1] = row /\ Len(rows) + 1 \in Nat \ {0}
  BY <1>1
<1>12. made \in Nat /\ (o.answer = "ok" => made = Len(rows) + 1 /\ made # 0)
       /\ (o.answer # "ok" => made = 0)
  BY <1>11
<1>13. rows' = IF o.landed THEN Append(rows, row) ELSE rows BY DEF Post, row
<1> HIDE DEF made
<1>14. /\ rows' \in Seq(SeedRow) /\ Once(rows') /\ Fits(rows') /\ Follows(rows, rows')
  BY <1>1, <1>10, <1>13, FollowsItself
<1>15. \A i \in DOMAIN rows' : i \notin DOMAIN rows =>
          rows'[i].by = s /\ rows'[i].had = Len(me.view) /\ rows'[i].key = key
  BY <1>8, <1>11, <1>13
<1>16. made # 0 => made \in DOMAIN rows' /\ rows'[made].key = key
  BY <1>2, <1>8, <1>11, <1>12, <1>13
<1> QED BY <1>2, <1>12, <1>14, <1>15, <1>16, AdvanceKeepsInv

LEMMA ListKeepsInv ==
  ASSUME SeedInv, NEW s \in Seeder, NEW job \in Jobs, NEW answered \in BOOLEAN,
         ListRows(s, job, answered)
  PROVE  SeedInv'
<1> DEFINE me == seeder[s]
           view == IF answered THEN rows ELSE <<>>
           pc == IF ~answered THEN "failed" ELSE IF job.applies THEN "writing" ELSE "listed"
           next == [pc |-> pc, job |-> job, view |-> view, at |-> 1, ok |-> TRUE,
                    made |-> [k \in Keys |-> 0]]
<1>1. /\ rows \in Seq(SeedRow) /\ me \in SeedRun /\ seeder \in [Seeder -> SeedRun]
      /\ RunKnows(rows, labelMap, s, me)
  BY DEF SeedInv, SeedTypeOK
<1>2. me = NewSeeder /\ \A i \in DOMAIN rows : rows[i].by # s
  BY <1>1 DEF RunKnows, ListRows
<1>3. seeder' = [seeder EXCEPT ![s] = next]
  <2>0. seeder'[s] = [me EXCEPT !.pc = pc, !.job = job, !.view = view]
    BY <1>1 DEF ListRows
  <2>1. seeder'[s] = next
    <3> HIDE DEF pc, me, view
    <3> QED BY <1>2, <2>0 DEF NewSeeder
  <2> QED BY <1>1, <2>1 DEF ListRows
<1>4. pc \in SeedStates /\ (pc = "listed" => ~job.applies) /\ (pc = "writing" => answered)
      /\ pc \in {"failed", "writing", "listed"}
  BY DEF SeedStates
<1>5. view \in Seq(SeedRow) /\ (answered => view = rows) BY <1>1
<1>6. [k \in Keys |-> 0] \in [Keys -> Nat] OBVIOUS
<1> HIDE DEF pc, view
<1>7. next \in SeedRun BY <1>4, <1>5, <1>6 DEF SeedRun
<1>8. /\ next.pc = pc /\ next.job = job /\ next.view = view /\ next.at = 1
      /\ next.made = [k \in Keys |-> 0]
  OBVIOUS
<1> HIDE DEF next
<1>9. ASSUME pc = "writing" PROVE WriterKnows(rows, s, next)
  <2>1. Table(next) \in Seq([key : Keys, parent : Keys \cup {NoKey}])
    BY <1>8, CatalogAssumption DEF Table
  <2>2. Handled(next) = {}
    <3> DEFINE table == Table(next)
    <3> HIDE DEF table
    <3>1. {m \in DOMAIN table : m < 1} = {} BY <2>1 DEF table
    <3>2. Handled(next) = {table[n].key : n \in {m \in DOMAIN table : m < 1}}
      BY <1>8 DEF Handled, table
    <3> QED BY <3>1, <3>2
  <2>3. 1 <= Len(Table(next)) + 1
    <3>1. Len(Table(next)) \in Nat BY <2>1
    <3> QED BY <3>1
  <2>4. Follows(next.view, rows) BY <1>1, <1>4, <1>5, <1>8, <1>9, FollowsItself
  <2> QED BY <1>2, <1>8, <2>2, <2>3, <2>4 DEF WriterKnows
<1>10. RunKnows(rows, labelMap, s, next) BY <1>4, <1>8, <1>9 DEF RunKnows, WriterKnows
<1>11. RunKnows(rows', labelMap', s, next) BY <1>10 DEF ListRows
<1> QED BY <1>3, <1>7, <1>11, WithoutAWrite, OneRunSteps DEF ListRows

LEMMA FinishKeepsInv ==
  ASSUME SeedInv, NEW s \in Seeder, FinishSeeding(s)
  PROVE  SeedInv'
<1> DEFINE me == seeder[s]
           pc == IF me.ok THEN "done" ELSE "failed"
           next == [pc |-> pc, job |-> me.job, view |-> <<>>,
                    at |-> me.at, ok |-> me.ok, made |-> NewSeeder.made]
<1>1. /\ rows \in Seq(SeedRow) /\ me \in SeedRun /\ seeder \in [Seeder -> SeedRun]
      /\ RunKnows(rows, labelMap, s, me)
  BY DEF SeedInv, SeedTypeOK
<1>2. me = [pc |-> me.pc, job |-> me.job, view |-> me.view, at |-> me.at, ok |-> me.ok,
            made |-> me.made]
  BY <1>1 DEF SeedRun
<1>3. seeder' = [seeder EXCEPT ![s] = next]
  <2>0. seeder'[s] = [me EXCEPT !.pc = pc, !.made = NewSeeder.made, !.view = <<>>]
    BY <1>1 DEF FinishSeeding
  <2>1. seeder'[s] = next
    <3> HIDE DEF pc, me
    <3> QED BY <1>2, <2>0
  <2> QED BY <1>1, <2>1 DEF FinishSeeding
<1>4. /\ me.job \in Jobs /\ me.at \in Nat \ {0} /\ me.ok \in BOOLEAN
  BY <1>1 DEF SeedRun, RunKnows, FinishSeeding
<1>5. next \in SeedRun
  <2>1. NewSeeder.made \in [Keys -> Nat] BY DEF NewSeeder
  <2> QED BY <1>4, <2>1 DEF SeedRun, SeedStates
<1>6. /\ next.pc \in {"done", "failed"} /\ next.job = me.job
      /\ next.pc = "done" => me.ok
  OBVIOUS
<1>7. Table(next) = Table(me) BY <1>6 DEF Table
<1>8. ASSUME me.ok, me.job.applies, NEW n \in DOMAIN Table(me)
      PROVE  There(rows, Table(me)[n].key)
  <2>1. me.pc = "writing" /\ me.at > Len(Table(me))
    BY <1>1, <1>8 DEF FinishSeeding, RunKnows, Entries, Table
  <2>2. Table(me) \in Seq([key : Keys, parent : Keys \cup {NoKey}])
    BY <1>4, CatalogAssumption DEF Table
  <2> HIDE DEF me
  <2>3. n < me.at
    <3> DEFINE table == Table(me)
    <3>1. table \in Seq([key : Keys, parent : Keys \cup {NoKey}]) /\ n \in DOMAIN table
          /\ me.at > Len(table)
      BY <1>8, <2>1, <2>2
    <3> HIDE DEF table
    <3> QED BY <1>4, <3>1
  <2>4. Table(me)[n].key \in Handled(me) BY <1>8, <2>3 DEF Handled
  <2> QED BY <1>1, <1>8, <2>1, <2>4 DEF RunKnows, WriterKnows
<1> HIDE DEF next, me
<1>9. RunKnows(rows, labelMap, s, next) BY <1>4, <1>6, <1>7, <1>8 DEF RunKnows, WriterKnows
<1>10. RunKnows(rows', labelMap', s, next) BY <1>9 DEF FinishSeeding
<1> QED BY <1>3, <1>5, <1>10, WithoutAWrite, OneRunSteps DEF FinishSeeding

LEMMA MapKeepsInv ==
  ASSUME SeedInv, NEW s \in Seeder, NEW answered \in BOOLEAN, WriteLabelMap(s, answered)
  PROVE  SeedInv'
<1> DEFINE me == seeder[s]
           next == [pc |-> IF answered THEN "mapped" ELSE "failed", job |-> me.job,
                    view |-> me.view, at |-> me.at, ok |-> me.ok, made |-> me.made]
<1>1. /\ rows \in Seq(SeedRow) /\ me \in SeedRun /\ seeder \in [Seeder -> SeedRun]
      /\ RunKnows(rows, labelMap, s, me)
  BY DEF SeedInv, SeedTypeOK
<1>2. me = [pc |-> me.pc, job |-> me.job, view |-> me.view, at |-> me.at, ok |-> me.ok,
            made |-> me.made]
  BY <1>1 DEF SeedRun
<1>3. seeder' = [seeder EXCEPT ![s] = next]
  <2>1. seeder'[s] = next BY <1>1, <1>2 DEF WriteLabelMap
  <2> QED BY <1>1, <2>1 DEF WriteLabelMap
<1>4. next \in SeedRun BY <1>1 DEF SeedRun, SeedStates
<1>5. /\ next.pc \in {"mapped", "failed"} /\ next.job = me.job
      /\ next.pc = "mapped" => answered
  OBVIOUS
<1>6. Table(next) = Table(me) /\ me.pc = "done" BY <1>5 DEF Table, WriteLabelMap
<1>7. UNCHANGED rows /\ labelMap' = IF answered THEN {rows[i].key : i \in DOMAIN rows} ELSE labelMap
  BY DEF WriteLabelMap
<1> HIDE DEF next, me
<1>8. RunKnows(rows, labelMap', s, next)
  BY <1>1, <1>5, <1>6, <1>7 DEF RunKnows, WriterKnows, There
<1>9. RunKnows(rows', labelMap', s, next) BY <1>7, <1>8
<1>10. labelMap' = labelMap \/ labelMap' = {rows'[i].key : i \in DOMAIN rows'} BY <1>7
<1> QED BY <1>3, <1>4, <1>7, <1>9, <1>10, WithoutAWrite, OneRunSteps

LEMMA HandKeepsInv ==
  ASSUME SeedInv, NEW i \in DOMAIN rows, LabelByHand(i)
  PROVE  SeedInv'
<1>1. rows \in Seq(SeedRow) /\ seeder \in [Seeder -> SeedRun] /\ Once(rows) /\ Fits(rows)
  BY DEF SeedInv, SeedTypeOK
<1> DEFINE labels == rows[i].labels \cup {"hand"}
           row == [key |-> rows[i].key, parent |-> rows[i].parent, labels |-> labels,
                   by |-> rows[i].by, had |-> rows[i].had]
<1>2. rows[i] \in SeedRow BY <1>1
<1>3. /\ rows[i] = [key |-> rows[i].key, parent |-> rows[i].parent, labels |-> rows[i].labels,
                    by |-> rows[i].by, had |-> rows[i].had]
      /\ labels \in SUBSET {"role", "hand"} /\ rows[i].parent \in Nat
  BY <1>2 DEF SeedRow
<1>4. rows' = [rows EXCEPT ![i].labels = labels, ![i].parent = rows[i].parent]
  <2>1. [rows[i] EXCEPT !.labels = labels] = row BY <1>3
  <2>2. rows' = [rows EXCEPT ![i] = row] BY <2>1 DEF LabelByHand
  <2>3. [row EXCEPT !.parent = rows[i].parent] = row OBVIOUS
  <2> DEFINE first == [rows EXCEPT ![i] = row]
  <2>4. first[i] = row OBVIOUS
  <2>5. [rows EXCEPT ![i].labels = labels, ![i].parent = rows[i].parent]
          = [first EXCEPT ![i] = [first[i] EXCEPT !.parent = rows[i].parent]]
    BY <2>1, Zenon
  <2>6. [first EXCEPT ![i] = row] = first BY <2>4
  <2> HIDE DEF first, row, labels
  <2> QED BY <2>2, <2>3, <2>4, <2>5, <2>6 DEF first
<1>5. RightParent(rows, rows[i].key, rows[i].parent) BY <1>1 DEF Fits
<1> HIDE DEF labels
<1>6. /\ rows' \in Seq(SeedRow) /\ Once(rows') /\ Fits(rows') /\ Follows(rows, rows')
      /\ DOMAIN rows' = DOMAIN rows
  BY <1>1, <1>3, <1>4, <1>5, RelabelledRows
<1>7. ASSUME NEW q \in Seeder PROVE RunKnows(rows', labelMap', q, seeder'[q])
  <2>1. seeder[q] \in SeedRun /\ RunKnows(rows, labelMap, q, seeder[q]) BY <1>1 DEF SeedInv
  <2>2. RunKnows(rows', labelMap, q, seeder[q]) BY <1>1, <1>6, <2>1, OthersAreKnown
  <2> QED BY <2>2 DEF LabelByHand
<1>8. seeder' = seeder BY DEF LabelByHand
<1> QED BY <1>1, <1>6, <1>7, <1>8 DEF SeedInv, SeedTypeOK

LEMMA SeedStepKeepsInv ==
  ASSUME SeedInv, SeedNext PROVE SeedInv'
  BY KeepingKeepsInv, PatchKeepsInv, PostKeepsInv, ListKeepsInv, FinishKeepsInv, MapKeepsInv,
     HandKeepsInv
     DEF SeedNext, PostRow, PostSurface, PostLabel

LEMMA SeedingHasInv == SeedingSpec => []SeedInv
<1>1. SeedInit => SeedInv
  <2> SUFFICES ASSUME SeedInit PROVE SeedInv OBVIOUS
  <2>1. rows = <<>> /\ seeder = [s \in Seeder |-> NewSeeder] BY DEF SeedInit
  <2>2. rows \in Seq(SeedRow) /\ DOMAIN rows = {} BY <2>1
  <2>3. NewSeeder \in SeedRun BY DEF NewSeeder, SeedRun, SeedStates
  <2>4. Once(rows) /\ Fits(rows) BY <2>2 DEF Once, Fits
  <2>5. NewSeeder.pc = "new" BY DEF NewSeeder
  <2>6. \A s \in Seeder : seeder[s] = NewSeeder BY <2>1
  <2>7. ASSUME NEW s \in Seeder PROVE RunKnows(rows, labelMap, s, NewSeeder)
    BY <2>2, <2>5 DEF RunKnows, WriterKnows
  <2>8. \A s \in Seeder : RunKnows(rows, labelMap, s, seeder[s]) BY <2>6, <2>7
  <2> QED BY <2>1, <2>2, <2>3, <2>4, <2>8 DEF SeedInv, SeedTypeOK
<1>2. SeedInv /\ [\/ SeedNext /\ UNCHANGED moveVars
                  \/ MoveNext /\ UNCHANGED seedVars]_<<seedVars, moveVars>> => SeedInv'
  <2> SUFFICES ASSUME SeedInv, [\/ SeedNext /\ UNCHANGED moveVars
                                \/ MoveNext /\ UNCHANGED seedVars]_<<seedVars, moveVars>>
               PROVE  SeedInv'
    OBVIOUS
  <2>1. CASE SeedNext BY <2>1, SeedStepKeepsInv
  <2>2. CASE UNCHANGED seedVars
    BY <2>2 DEF seedVars, SeedInv, SeedTypeOK, Once, Fits, RightParent, RunKnows, WriterKnows,
                Follows, Handled, Table, There
  <2> QED BY <2>1, <2>2
<1> QED BY <1>1, <1>2, PTL DEF SeedingSpec

(* However the scripts, lost answers and other runs interleave, an entry has *)
(* two rows only when two runs overlapped, and a row hangs under the row of  *)
(* its entry's parent (the existing-entry maps and parent guards of main).   *)
THEOREM SeededStaysTree == SeedingSpec => []SeededTree
<1>1. SeedInv => SeededTree
  BY DEF SeedInv, SeededTree, SeededOnce, ChildrenHaveParents, Once, Fits, RightParent
<1> QED BY <1>1, SeedingHasInv, PTL

(* A run that reports no failure has left every entry of its catalog in      *)
(* Plane, and every label it saw to in the label map (result.ok, exit code). *)
THEOREM SeedingStaysDone == SeedingSpec => []ExitZeroIsDone
<1>1. SeedInv => ExitZeroIsDone
  <2> SUFFICES ASSUME SeedInv PROVE ExitZeroIsDone OBVIOUS
  <2>1. ASSUME NEW s \in Seeder, seeder[s].pc \in {"done", "mapped"}, seeder[s].job.applies,
               NEW n \in DOMAIN Entries(s)
        PROVE  SeedCopies(rows, Entries(s)[n].key) # {}
    BY <2>1 DEF SeedInv, RunKnows, Table, Entries, SeedCopies, There
  <2>2. ASSUME NEW s \in Seeder, seeder[s].pc = "mapped", seeder[s].job.applies,
               NEW n \in DOMAIN Entries(s)
        PROVE  Entries(s)[n].key \in labelMap
    BY <2>2 DEF SeedInv, RunKnows, Table, Entries
  <2> QED BY <2>1, <2>2 DEF ExitZeroIsDone, ExitZeroSeeded, MapIsWhole
<1> QED BY <1>1, SeedingHasInv, PTL

(* The mover holds what main has let through. *)
Move == [pc : {"new", "refused", "aimed", "failed", "looked", "patched", "set"},
         to : States, byId : BOOLEAN, confirmed : BOOLEAN]
MoveInv ==
  /\ mover \in [Mover -> Move]
  /\ \A m \in Mover : mover[m].pc \in {"aimed", "looked", "patched"} =>
       MayAim(mover[m].to, mover[m].byId, mover[m].confirmed)

LEMMA MovingHasInv == SeedingSpec => []MoveInv
<1>1. MoveInit => MoveInv BY DEF MoveInit, MoveInv, Move, States
<1>2. MoveInv /\ [\/ SeedNext /\ UNCHANGED moveVars
                  \/ MoveNext /\ UNCHANGED seedVars]_<<seedVars, moveVars>> => MoveInv'
  <2> SUFFICES ASSUME MoveInv, [\/ SeedNext /\ UNCHANGED moveVars
                                \/ MoveNext /\ UNCHANGED seedVars]_<<seedVars, moveVars>>
               PROVE  MoveInv'
    OBVIOUS
  <2>1. CASE UNCHANGED moveVars BY <2>1 DEF moveVars, MoveInv
  <2>2. ASSUME NEW m \in Mover, NEW to \in States, NEW byId \in BOOLEAN,
               NEW confirmed \in BOOLEAN, Aim(m, to, byId, confirmed)
        PROVE  MoveInv'
    <3> DEFINE pc == IF MayAim(to, byId, confirmed) THEN "aimed" ELSE "refused"
    <3>1. mover' = [mover EXCEPT ![m] = [pc |-> pc, to |-> to, byId |-> byId,
                                         confirmed |-> confirmed]]
      BY <2>2 DEF Aim
    <3>2. pc \in {"aimed", "refused"} /\ (pc = "aimed" => MayAim(to, byId, confirmed)) OBVIOUS
    <3> DEFINE me == [pc |-> pc, to |-> to, byId |-> byId, confirmed |-> confirmed]
    <3> HIDE DEF pc
    <3>3. /\ me \in Move
          /\ me.pc \in {"aimed", "looked", "patched"} => MayAim(me.to, me.byId, me.confirmed)
      BY <3>2 DEF Move
    <3> HIDE DEF me
    <3>4. mover' = [mover EXCEPT ![m] = me] BY <3>1 DEF me
    <3> QED BY <3>3, <3>4 DEF MoveInv
  <2>3. ASSUME NEW m \in Mover,
               \/ \E answered \in BOOLEAN : LookAtItem(m, answered) \/ ReadBack(m, answered)
               \/ \E o \in Outcomes : PatchState(m, o)
        PROVE  MoveInv'
    <3>1. PICK pc \in {"failed", "looked", "patched", "set"} :
             mover' = [mover EXCEPT ![m].pc = pc]
      BY <2>3 DEF LookAtItem, ReadBack, PatchState
    <3>2. mover[m].pc \in {"aimed", "looked", "patched"}
      BY <2>3 DEF LookAtItem, ReadBack, PatchState
    <3> QED BY <3>1, <3>2 DEF MoveInv, Move
  <2>4. MoveNext \/ UNCHANGED moveVars BY DEF moveVars, seedVars
  <2>5. ASSUME NEW to \in States, MoveByHand(to) PROVE MoveInv'
    BY <2>5 DEF MoveByHand, MoveInv
  <2> QED BY <2>1, <2>2, <2>3, <2>4, <2>5, Zenon DEF MoveNext
<1> QED BY <1>1, <1>2, PTL DEF SeedingSpec

(* The run that deals with an entry is the one whose place moves. *)
LEMMA OnlyOwnPlaceMoves ==
  ASSUME SeedTypeOK, NEW s \in Seeder, NEW q \in Seeder, NEW row, NEW o, Advance(q, row, o),
         seeder'[s].at # seeder[s].at
  PROVE  q = s
  BY DEF Advance, SeedTypeOK

LEMMA StepKeepsListedLabels ==
  ASSUME SeedInv, SeedNext, NEW s \in Seeder, seeder[s].job.kind = "closure",
         seeder'[s].at # seeder[s].at, NEW i \in DOMAIN seeder[s].view
  PROVE  rows[i].labels \cap seeder[s].view[i].labels \subseteq rows'[i].labels
<1>0. SeedTypeOK /\ rows \in Seq(SeedRow) /\ seeder \in [Seeder -> SeedRun]
      /\ RunKnows(rows, labelMap, s, seeder[s])
  BY DEF SeedInv, SeedTypeOK
<1>1. ASSUME NEW q \in Seeder, NEW own \in 1..Len(rows), NEW o \in Outcomes, PatchRow(q, own, o)
      PROVE  rows[i].labels \cap seeder[s].view[i].labels \subseteq rows'[i].labels
  <2>1. q = s BY <1>0, <1>1, OnlyOwnPlaceMoves DEF PatchRow
  <2>2. CASE ~o.landed BY <1>1, <2>2 DEF PatchRow
  <2>3. CASE o.landed
    <3>1. rows' = [rows EXCEPT ![own].labels = SentLabels(s, own), ![own].parent = ParentRow(s)]
      BY <1>1, <2>1, <2>3 DEF PatchRow
    <3>2. Follows(seeder[s].view, rows) /\ seeder[s].view \in Seq(SeedRow)
      BY <1>0, <1>1, <2>1 DEF PatchRow, Busy, RunKnows, WriterKnows, SeedRun
    <3>3. i \in DOMAIN rows BY <1>0, <3>2 DEF Follows
    <3>4. SentLabels(s, own) = {"role"} \cup seeder[s].view[own].labels BY DEF SentLabels
    <3>5. own \in DOMAIN rows /\ rows[own] \in SeedRow BY <1>0
    <3>6. rows'[own].labels = SentLabels(s, own)
      <4> DEFINE labels == SentLabels(s, own)
      <4> HIDE DEF labels
      <4>1. rows' = [rows EXCEPT ![own].labels = labels, ![own].parent = ParentRow(s)]
        BY <3>1 DEF labels
      <4>2. rows'[own].labels = labels BY <3>5, <4>1 DEF SeedRow
      <4> QED BY <4>2 DEF labels
    <3>7. i # own => rows'[i] = rows[i] BY <3>1, <3>3
    <3> QED BY <3>4, <3>6, <3>7
  <2> QED BY <2>2, <2>3
<1>2. ASSUME NEW q \in Seeder, NEW o \in Outcomes, Post(q, o)
      PROVE  rows[i].labels \cap seeder[s].view[i].labels \subseteq rows'[i].labels
  <2>1. q = s BY <1>0, <1>2, OnlyOwnPlaceMoves DEF Post
  <2>2. Follows(seeder[s].view, rows) /\ seeder[s].view \in Seq(SeedRow)
    BY <1>0, <1>2, <2>1 DEF Post, Busy, RunKnows, WriterKnows, SeedRun
  <2>3. i \in DOMAIN rows BY <1>0, <2>2 DEF Follows
  <2>4. rows'[i] = rows[i]
    <3>1. CASE ~o.landed BY <1>2, <3>1 DEF Post
    <3>2. CASE o.landed
      <4>1. PICK row : rows' = Append(rows, row) BY <1>2, <3>2 DEF Post
      <4> QED BY <1>0, <2>3, <4>1
    <3> QED BY <3>1, <3>2
  <2> QED BY <2>4
<1>3. ASSUME NEW j \in DOMAIN rows, LabelByHand(j) PROVE FALSE
  BY <1>3 DEF LabelByHand
<1>4. CASE UNCHANGED rows BY <1>4
<1>5. \/ UNCHANGED rows
      \/ \E q \in Seeder, own \in 1..Len(rows), o \in Outcomes : PatchRow(q, own, o)
      \/ \E q \in Seeder, o \in Outcomes : Post(q, o)
      \/ \E j \in DOMAIN rows : LabelByHand(j)
  BY DEF SeedNext, WriteLabelMap, ListRows, LeaveOrphan, LeaveOrphanContract, KeepRow,
         FinishSeeding, PostRow, PostSurface, PostLabel
<1> QED BY <1>1, <1>2, <1>3, <1>4, <1>5

(* No step of the closure script takes a label from a row that was on it     *)
(* both at the listing and now (existingLabelIds), and none of the state     *)
(* script completes an item that --confirm-done was not given for.           *)
THEOREM WritesStayGuarded == SeedingSpec => WritesAreGuarded
<1>1. SeedInv /\ [\/ SeedNext /\ UNCHANGED moveVars
                  \/ MoveNext /\ UNCHANGED seedVars]_<<seedVars, moveVars>>
      => [\A s \in Seeder : seeder[s].job.kind = "closure" /\ seeder'[s].at # seeder[s].at =>
            \A i \in DOMAIN seeder[s].view :
              rows[i].labels \cap seeder[s].view[i].labels \subseteq rows'[i].labels]_seedVars
  BY StepKeepsListedLabels DEF seedVars
<1>2. MoveInv /\ [\/ SeedNext /\ UNCHANGED moveVars
                  \/ MoveNext /\ UNCHANGED seedVars]_<<seedVars, moveVars>>
      => [\A m \in Mover : mover'[m] # mover[m] /\ itemState' # itemState /\ Completed(itemState') =>
            mover[m].confirmed]_moveVars
  <2> SUFFICES ASSUME MoveInv, MoveNext, NEW m \in Mover, mover'[m] # mover[m],
                      itemState' # itemState, Completed(itemState')
               PROVE  mover[m].confirmed
    BY DEF moveVars
  <2>1. PICK q \in Mover : \E o \in Outcomes : PatchState(q, o)
    BY DEF MoveNext, MoveByHand, Aim, LookAtItem, ReadBack
  <2>2. mover[q].pc = "looked" /\ itemState' = mover[q].to BY <2>1 DEF PatchState
  <2>3. q = m BY <2>1 DEF PatchState, MoveInv
  <2> QED BY <2>2, <2>3 DEF MoveInv, MayAim
<1>3. QED BY <1>1, <1>2, SeedingHasInv, MovingHasInv, PTL
          DEF SeedingSpec, WritesAreGuarded, ListedLabelsStay, DoneIsConfirmed

-----------------------------------------------------------------------------
(* GoalPlane: what an invocation that no other has overlapped knows *)

GoalNames == UNION {{NamesIn(g)[n] : n \in DOMAIN NamesIn(g)} : g \in Goals}
Item == [name : GoalNames, parent : Nat]
PlanEntry == [name : GoalNames, action : {"create", "keep", "patch-parent"}, id : Nat]
ApplierState == [pc : {"idle", "writing", "done"}, goal : Goals \cup {"none"},
                 plan : Seq(PlanEntry), parent : Nat, exit : {0, 1, 2, 9}]
GoalPlaneTypeOK ==
  /\ items \in Seq(Item) /\ applier \in [Applier -> ApplierState] /\ overlapped \in BOOLEAN

(* How many entries of the whole plan are done, and the id the children get *)
(* for their parent once it is known.                                      *)
DoneSoFar(me) == Len(me.goal.children) + 1 - Len(me.plan)
TopId(me) == IF DoneSoFar(me) = 0 THEN me.plan[1].id ELSE me.parent

Linked(list, name, parent) == \E c \in DOMAIN list : list[c].name = name /\ list[c].parent = parent

(* The entries to come are of the goal's names in order; what is to be       *)
(* created is not there, what is kept or linked is, and what is kept hangs   *)
(* where it should.  What is done hangs under the parent.                   *)
EntryHolds(list, me, n) ==
  LET e == me.plan[n]
  IN  /\ e.name = NamesIn(me.goal)[DoneSoFar(me) + n]
      /\ e.action = "create" /\ ~Repeated(e.name) => \A i \in DOMAIN list : list[i].name # e.name
      /\ e.action # "create" => e.id \in DOMAIN list /\ list[e.id].name = e.name
      /\ e.action = "keep" /\ DoneSoFar(me) + n > 1 =>
           TopId(me) # NoItem /\ list[e.id].parent = TopId(me)

WriterHolds(list, me) ==
  me.pc = "writing" =>
    /\ me.goal \in Goals /\ Len(me.plan) <= Len(me.goal.children) + 1
    /\ \A n \in DOMAIN me.plan : EntryHolds(list, me, n)
    /\ DoneSoFar(me) = 0 =>
         /\ me.parent = NoItem /\ me.plan[1].action # "patch-parent"
         /\ me.plan[1].action = "create" => me.plan[1].id = NoItem
    /\ DoneSoFar(me) # 0 =>
         me.parent \in DOMAIN list /\ list[me.parent].name = me.goal.parent
    /\ \A k \in 1..(DoneSoFar(me) - 1) : Linked(list, me.goal.children[k], me.parent)

ApplierKnows(list, me) ==
  /\ WriterHolds(list, me)
  /\ me.pc # "writing" => me.parent = NoItem

NamedOnce(list) ==
  \A n, k \in DOMAIN list : list[n].name = list[k].name => n = k \/ Repeated(list[n].name)

GoalPlaneInv ==
  /\ GoalPlaneTypeOK
  /\ ~overlapped =>
       /\ \A a, b \in Applier : Writing(a) /\ Writing(b) => a = b
       /\ NamedOnce(items)
       /\ \A a \in Applier : ApplierKnows(items, applier[a])

-----------------------------------------------------------------------------
(* Goals and plans *)

LEMMA NamesOfGoal ==
  ASSUME NEW g \in Goals
  PROVE  /\ Len(g.children) \in Nat /\ DOMAIN g.children = 1..Len(g.children)
         /\ DOMAIN NamesIn(g) = 1..(Len(g.children) + 1)
         /\ NamesIn(g)[1] = g.parent
         /\ \A k \in 1..Len(g.children) : NamesIn(g)[1 + k] = g.children[k]
         /\ \A n \in 1..(Len(g.children) + 1) : NamesIn(g)[n] \in GoalNames
<1> DEFINE S == {g.parent} \cup {g.children[n] : n \in DOMAIN g.children}
           front == <<g.parent>>
           back == g.children
           both == front \o back
<1>1. back \in Seq({g.children[n] : n \in DOMAIN g.children}) BY GoalInputs
<1>2. Len(back) \in Nat /\ DOMAIN back = 1..Len(back)
  <2> DEFINE R == {g.children[n] : n \in DOMAIN g.children}
  <2>1. back \in Seq(R) BY <1>1
  <2> HIDE DEF R, back
  <2> QED BY <2>1
<1>3. back \in Seq(S)
  <2>1. \A n \in 1..Len(back) : back[n] \in S BY <1>2
  <2>2. back \in [1..Len(back) -> S]
    <3> DEFINE R == {g.children[n] : n \in DOMAIN g.children}
    <3>1. back \in Seq(R) /\ R \subseteq S BY <1>1
    <3> HIDE DEF R, back, S
    <3> QED BY <3>1
  <2> HIDE DEF back, S
  <2> QED BY <1>2, <2>2
<1>4. front \in Seq(S) /\ Len(front) = 1 /\ front[1] = g.parent OBVIOUS
<1>5. both = NamesIn(g) BY DEF NamesIn
<1>6. /\ both \in Seq(S) /\ Len(both) = 1 + Len(back) /\ both[1] = g.parent
      /\ \A k \in 1..Len(back) : both[1 + k] = back[k]
  <2> HIDE DEF front, back, S, both
  <2>1. /\ (front \o back) \in Seq(S) /\ Len(front \o back) = Len(front) + Len(back)
        /\ \A k \in 1..Len(front) : (front \o back)[k] = front[k]
        /\ \A k \in 1..Len(back) : (front \o back)[Len(front) + k] = back[k]
    <3>1. front \in Seq(S) /\ back \in Seq(S) BY <1>3, <1>4
    <3> QED BY <3>1, ConcatEnds
  <2> QED BY <1>4, <2>1 DEF both
<1>7. DOMAIN both = 1..(Len(back) + 1)
  <2> HIDE DEF back, S, both
  <2> QED BY <1>2, <1>6
<1>8. \A n \in DOMAIN both : both[n] \in GoalNames BY <1>5 DEF GoalNames
<1> HIDE DEF both
<1> QED BY <1>2, <1>5, <1>6, <1>7, <1>8

LEMMA FoundIsThere ==
  ASSUME NEW list \in Seq(Item), NEW found \in ByName(list), NEW name, name \in DOMAIN found
  PROVE  found[name] \in DOMAIN list /\ list[found[name]].name = name
  BY DEF ByName

LEMMA NotFoundIsAbsent ==
  ASSUME NEW list \in Seq(Item), NEW found \in ByName(list), NEW name, name \notin DOMAIN found
  PROVE  \A i \in DOMAIN list : list[i].name # name
  BY DEF ByName

LEMMA PlanIsListed ==
  ASSUME NEW list \in Seq(Item), NEW found \in ByName(list), NEW g \in Goals
  PROVE  LET plan == ApplyPlan(g, list, found)
             top == ParentAction(g, found)
         IN  /\ plan \in Seq(PlanEntry) /\ Len(plan) = 1 + Len(g.children) /\ plan[1] = top
             /\ \A k \in 1..Len(g.children) :
                  plan[1 + k] = ChildAction(g.children[k], top.id, list, found)
<1> DEFINE top == ParentAction(g, found)
           rest == [n \in DOMAIN g.children |-> ChildAction(g.children[n], top.id, list, found)]
           front == <<top>>
<1>1. /\ Len(g.children) \in Nat /\ DOMAIN g.children = 1..Len(g.children)
      /\ g.parent \in GoalNames
      /\ \A k \in 1..Len(g.children) : g.children[k] \in GoalNames
  <2>1. Len(g.children) \in Nat BY NamesOfGoal
  <2>2. 1 \in 1..(Len(g.children) + 1) BY <2>1
  <2>3. \A k \in 1..Len(g.children) : 1 + k \in 1..(Len(g.children) + 1) BY <2>1
  <2> QED BY <2>1, <2>2, <2>3, NamesOfGoal
<1>2. \A name \in DOMAIN found : found[name] \in Nat BY FoundIsThere
<1>3. top \in PlanEntry
  <2>1. CASE g.parent \in DOMAIN found BY <1>1, <1>2, <2>1 DEF ParentAction, PlanEntry
  <2>2. CASE g.parent \notin DOMAIN found BY <1>1, <2>2 DEF ParentAction, PlanEntry, NoItem
  <2> QED BY <2>1, <2>2
<1> HIDE DEF top
<1>4. ASSUME NEW n \in 1..Len(g.children)
      PROVE  ChildAction(g.children[n], top.id, list, found) \in PlanEntry
  <2> DEFINE name == g.children[n]
  <2>1. name \in GoalNames BY <1>1
  <2> HIDE DEF name
  <2>2. CASE name \in DOMAIN found
    <3> DEFINE action == IF top.id = NoItem \/ list[found[name]].parent # top.id
                         THEN "patch-parent" ELSE "keep"
    <3>1. ChildAction(name, top.id, list, found)
            = [name |-> name, id |-> found[name], action |-> action]
      BY <2>2 DEF ChildAction
    <3>2. action \in {"patch-parent", "keep"} OBVIOUS
    <3> HIDE DEF action
    <3>3. ChildAction(name, top.id, list, found) \in PlanEntry
      BY <1>2, <2>1, <2>2, <3>1, <3>2 DEF PlanEntry
    <3> QED BY <3>3 DEF name
  <2>3. CASE name \notin DOMAIN found
    <3>1. ChildAction(name, top.id, list, found) \in PlanEntry
      BY <2>1, <2>3 DEF ChildAction, PlanEntry, NoItem
    <3> QED BY <3>1 DEF name
  <2> QED BY <2>2, <2>3
<1>5. rest \in Seq(PlanEntry) /\ Len(rest) = Len(g.children)
      /\ \A k \in 1..Len(g.children) :
           rest[k] = ChildAction(g.children[k], top.id, list, found)
  <2>1. rest \in [1..Len(g.children) -> PlanEntry] BY <1>1, <1>4
  <2>2. \A k \in 1..Len(g.children) :
           rest[k] = ChildAction(g.children[k], top.id, list, found)
    BY <1>1
  <2> HIDE DEF rest
  <2>3. rest \in Seq(PlanEntry) BY <1>1, <2>1
  <2>4. Len(rest) = Len(g.children) BY <1>1, <2>1, <2>3
  <2> QED BY <2>2, <2>3, <2>4
<1>6. front \in Seq(PlanEntry) /\ Len(front) = 1 /\ front[1] = top BY <1>3
<1>7. ApplyPlan(g, list, found) = (front \o rest) BY DEF ApplyPlan, top
<1> HIDE DEF front, rest
<1>8. /\ (front \o rest) \in Seq(PlanEntry) /\ Len(front \o rest) = Len(front) + Len(rest)
      /\ \A k \in 1..Len(front) : (front \o rest)[k] = front[k]
      /\ \A k \in 1..Len(rest) : (front \o rest)[Len(front) + k] = rest[k]
  <2>1. front \in Seq(PlanEntry) /\ rest \in Seq(PlanEntry) BY <1>5, <1>6
  <2> QED BY <2>1, ConcatEnds
<1> DEFINE plan == front \o rest
<1> HIDE DEF plan
<1>9. /\ plan \in Seq(PlanEntry) /\ Len(plan) = 1 + Len(g.children) /\ plan[1] = top
      /\ \A k \in 1..Len(g.children) :
           plan[1 + k] = ChildAction(g.children[k], top.id, list, found)
  BY <1>5, <1>6, <1>8 DEF plan
<1>10. ApplyPlan(g, list, found) = plan BY <1>7 DEF plan
<1> QED BY <1>9, <1>10 DEF top

(* The whole plan is made of the project as it is. *)
LEMMA PlanHolds ==
  ASSUME NEW list \in Seq(Item), NEW found \in ByName(list), NEW g \in Goals,
         NEW me, me.plan = ApplyPlan(g, list, found), me.goal = g, me.parent = NoItem
  PROVE  WriterHolds(list, me)
<1> DEFINE plan == ApplyPlan(g, list, found)
           top == ParentAction(g, found)
<1>1. /\ plan \in Seq(PlanEntry) /\ Len(plan) = 1 + Len(g.children) /\ plan[1] = top
      /\ \A k \in 1..Len(g.children) :
           plan[1 + k] = ChildAction(g.children[k], top.id, list, found)
  BY PlanIsListed
<1>2. /\ Len(g.children) \in Nat /\ DOMAIN NamesIn(g) = 1..(Len(g.children) + 1)
      /\ NamesIn(g)[1] = g.parent
      /\ \A k \in 1..Len(g.children) : NamesIn(g)[1 + k] = g.children[k]
  BY NamesOfGoal
<1>3. /\ top.name = g.parent
      /\ top.action = "create" => g.parent \notin DOMAIN found /\ top.id = NoItem
      /\ top.action # "create" => g.parent \in DOMAIN found /\ top.id = found[g.parent]
      /\ top.action # "patch-parent"
  BY DEF ParentAction
<1>4. me.plan = plan OBVIOUS
<1> HIDE DEF plan, top
<1>5. DoneSoFar(me) = 0 /\ TopId(me) = top.id BY <1>1, <1>2, <1>4 DEF DoneSoFar, TopId
<1>6. EntryHolds(list, me, 1)
  <2>1. me.plan[1] = top BY <1>1, <1>4
  <2>2. top.action = "create" => \A i \in DOMAIN list : list[i].name # top.name
    BY <1>3, NotFoundIsAbsent
  <2>3. top.action # "create" => top.id \in DOMAIN list /\ list[top.id].name = top.name
    BY <1>3, FoundIsThere
  <2> QED BY <1>2, <1>3, <1>5, <2>1, <2>2, <2>3 DEF EntryHolds
<1>7. ASSUME NEW k \in 1..Len(g.children) PROVE EntryHolds(list, me, 1 + k)
  <2> DEFINE name == g.children[k]
             e == ChildAction(name, top.id, list, found)
  <2>1. me.plan[1 + k] = e BY <1>1, <1>4
  <2>2. /\ e.name = name
        /\ e.action = "create" => name \notin DOMAIN found
        /\ e.action # "create" => name \in DOMAIN found /\ e.id = found[name]
        /\ e.action = "keep" => top.id # NoItem /\ list[e.id].parent = top.id
    BY DEF ChildAction
  <2>3. NamesIn(g)[1 + k] = name BY <1>2
  <2> HIDE DEF name, e
  <2>4. e.action = "create" => \A i \in DOMAIN list : list[i].name # name
    BY <2>2, NotFoundIsAbsent
  <2>5. e.action # "create" => e.id \in DOMAIN list /\ list[e.id].name = name
    BY <2>2, FoundIsThere
  <2>6. 0 + (1 + k) = 1 + k OBVIOUS
  <2> QED BY <1>5, <2>1, <2>2, <2>3, <2>4, <2>5, <2>6 DEF EntryHolds
<1>8. ASSUME NEW n \in DOMAIN me.plan PROVE EntryHolds(list, me, n)
  <2>1. n \in 1..(1 + Len(g.children)) BY <1>1, <1>4
  <2>2. CASE n = 1 BY <1>6, <2>2
  <2>3. CASE n # 1
    <3>1. n - 1 \in 1..Len(g.children) /\ 1 + (n - 1) = n BY <1>2, <2>1, <2>3
    <3> QED BY <1>7, <3>1
  <2> QED BY <2>2, <2>3
<1>9. Len(me.plan) <= Len(me.goal.children) + 1 BY <1>1, <1>2, <1>4
<1>10. me.plan[1].action # "patch-parent"
       /\ (me.plan[1].action = "create" => me.plan[1].id = NoItem)
  BY <1>1, <1>3, <1>4
<1> QED BY <1>5, <1>8, <1>9, <1>10 DEF WriterHolds

-----------------------------------------------------------------------------
(* Steps *)

AfterDone(me, id) ==
  [me EXCEPT !.plan = Tail(@), !.parent = IF @ = NoItem THEN id ELSE @]

LEMMA AfterDoneFields ==
  ASSUME NEW me \in ApplierState, NEW id \in Nat, me.plan # <<>>
  PROVE  /\ AfterDone(me, id) \in ApplierState
         /\ AfterDone(me, id).pc = me.pc /\ AfterDone(me, id).goal = me.goal
         /\ AfterDone(me, id).exit = me.exit
         /\ AfterDone(me, id).parent = IF me.parent = NoItem THEN id ELSE me.parent
         /\ AfterDone(me, id).plan = Tail(me.plan)
         /\ Len(Tail(me.plan)) = Len(me.plan) - 1 /\ Len(me.plan) \in Nat \ {0}
         /\ \A n \in 1..(Len(me.plan) - 1) : Tail(me.plan)[n] = me.plan[n + 1]
<1> DEFINE up == IF me.parent = NoItem THEN id ELSE me.parent
           back == Tail(me.plan)
<1>1. /\ me.pc \in {"idle", "writing", "done"} /\ me.goal \in Goals \cup {"none"}
      /\ me.plan \in Seq(PlanEntry) /\ me.parent \in Nat /\ me.exit \in {0, 1, 2, 9}
  BY DEF ApplierState
<1>2. me = [pc |-> me.pc, goal |-> me.goal, plan |-> me.plan, parent |-> me.parent,
            exit |-> me.exit]
  BY DEF ApplierState
<1>3. up \in Nat BY <1>1
<1>4. /\ back \in Seq(PlanEntry) /\ Len(back) = Len(me.plan) - 1 /\ Len(me.plan) \in Nat \ {0}
      /\ \A n \in 1..(Len(me.plan) - 1) : back[n] = me.plan[n + 1]
  BY <1>1
<1>5. AfterDone(me, id) = [me EXCEPT !.plan = back, !.parent = up] BY DEF AfterDone
<1> HIDE DEF up, back
<1>6. AfterDone(me, id) = [pc |-> me.pc, goal |-> me.goal, plan |-> back, parent |-> up,
                           exit |-> me.exit]
  BY <1>2, <1>5
<1>7. AfterDone(me, id) \in ApplierState BY <1>1, <1>3, <1>4, <1>6 DEF ApplierState
<1> QED BY <1>4, <1>6, <1>7 DEF up, back

(* An entry is done: only its own item is new or hangs elsewhere, and what  *)
(* was hung hangs under the goal's item.                                   *)
LEMMA DoneKnows ==
  ASSUME NEW list \in Seq(Item), NEW new \in Seq(Item), NEW me \in ApplierState, NEW id \in Nat,
         me.pc = "writing", me.plan # <<>>, WriterHolds(list, me),
         Len(list) <= Len(new),
         \A i \in DOMAIN list :
           /\ new[i].name = list[i].name
           /\ new[i].parent = list[i].parent \/ (me.parent # NoItem /\ new[i].parent = me.parent),
         \A i \in DOMAIN new : i \notin DOMAIN list => new[i].name = me.plan[1].name,
         id \in DOMAIN new, new[id].name = me.plan[1].name,
         DoneSoFar(me) # 0 => new[id].parent = me.parent,
         DoneSoFar(me) = 0 /\ me.plan[1].id # NoItem => id = me.plan[1].id
  PROVE  WriterHolds(new, AfterDone(me, id))
<1> DEFINE next == AfterDone(me, id)
           g == me.goal
           d == DoneSoFar(me)
           L == Len(g.children)
<1>1. /\ next \in ApplierState /\ next.pc = "writing" /\ next.goal = g
      /\ next.parent = IF me.parent = NoItem THEN id ELSE me.parent
      /\ next.plan = Tail(me.plan)
      /\ Len(next.plan) = Len(me.plan) - 1 /\ Len(me.plan) \in Nat \ {0}
      /\ \A n \in 1..(Len(me.plan) - 1) : next.plan[n] = me.plan[n + 1]
  <2>1. /\ next \in ApplierState
        /\ next.pc = me.pc /\ next.goal = g
        /\ next.parent = IF me.parent = NoItem THEN id ELSE me.parent
        /\ next.plan = Tail(me.plan)
        /\ Len(Tail(me.plan)) = Len(me.plan) - 1 /\ Len(me.plan) \in Nat \ {0}
        /\ \A n \in 1..(Len(me.plan) - 1) : Tail(me.plan)[n] = me.plan[n + 1]
    BY AfterDoneFields, Zenon
  <2> HIDE DEF next, g
  <2> QED BY <2>1
<1>0. DOMAIN next.plan = 1..(Len(me.plan) - 1) /\ DOMAIN me.plan = 1..Len(me.plan)
  <2>1. next.plan \in Seq(PlanEntry) /\ me.plan \in Seq(PlanEntry) BY <1>1 DEF ApplierState
  <2>2. Len(next.plan) = Len(me.plan) - 1 BY <1>1
  <2> HIDE DEF next
  <2>3. DOMAIN next.plan = 1..Len(next.plan) /\ DOMAIN me.plan = 1..Len(me.plan) BY <2>1
  <2> QED BY <2>2, <2>3
<1>2. /\ g \in Goals /\ L \in Nat /\ Len(me.plan) <= L + 1
      /\ DOMAIN NamesIn(g) = 1..(L + 1) /\ NamesIn(g)[1] = g.parent
      /\ \A k \in 1..L : NamesIn(g)[1 + k] = g.children[k]
  BY NamesOfGoal DEF WriterHolds
<1>3. d = L + 1 - Len(me.plan) /\ d \in Nat BY <1>1, <1>2 DEF DoneSoFar
<1>4. DoneSoFar(next) = d + 1
  <2>1. DoneSoFar(next) = L + 1 - Len(next.plan) BY <1>1 DEF DoneSoFar
  <2> HIDE DEF next, g, d, L
  <2>2. Len(next.plan) = Len(me.plan) - 1 /\ Len(me.plan) \in Nat /\ L \in Nat BY <1>1, <1>2
  <2>3. d = L + 1 - Len(me.plan) BY <1>3
  <2> QED BY <2>1, <2>2, <2>3
<1>5. \A n \in DOMAIN me.plan : EntryHolds(list, me, n) BY DEF WriterHolds
<1>6. EntryHolds(list, me, 1) /\ me.plan[1].name = NamesIn(g)[d + 1]
  <2>1. 1 \in DOMAIN me.plan BY <1>0, <1>1
  <2> QED BY <1>5, <2>1 DEF EntryHolds
<1>7. /\ d = 0 => me.parent = NoItem /\ next.parent = id
                  /\ (me.plan[1].action = "create" => me.plan[1].id = NoItem)
      /\ d # 0 => /\ me.parent \in DOMAIN list /\ list[me.parent].name = g.parent
                  /\ me.parent # NoItem /\ next.parent = me.parent
  <2>1. d = 0 => me.parent = NoItem /\ (me.plan[1].action = "create" => me.plan[1].id = NoItem)
    BY DEF WriterHolds
  <2>2. d # 0 => me.parent \in DOMAIN list /\ list[me.parent].name = g.parent
    BY DEF WriterHolds
  <2>3. 0 \notin DOMAIN list OBVIOUS
  <2> HIDE DEF next, g, d
  <2> QED BY <1>1, <2>1, <2>2, <2>3 DEF NoItem
<1> HIDE DEF next, g, L
<1>8. \A i \in DOMAIN list : i \in DOMAIN new OBVIOUS
<1>9. d # 0 => TopId(me) = me.parent /\ TopId(me) = next.parent BY <1>7 DEF TopId
<1>10. d = 0 => TopId(me) = me.plan[1].id BY DEF TopId
<1>11. TopId(me) # NoItem => TopId(me) = next.parent
  BY <1>7, <1>9, <1>10
<1>12. TopId(next) = next.parent BY <1>3, <1>4 DEF TopId
<1>13. ASSUME NEW n \in DOMAIN next.plan PROVE EntryHolds(new, next, n)
  <2> DEFINE e == me.plan[n + 1]
  <2>1. n + 1 \in DOMAIN me.plan /\ next.plan[n] = e /\ n \in Nat \ {0} BY <1>0, <1>1
  <2>2. EntryHolds(list, me, n + 1) BY <1>5, <2>1
  <2>3. e.name = NamesIn(g)[d + (n + 1)]
        /\ (e.action = "create" /\ ~Repeated(e.name) => \A i \in DOMAIN list : list[i].name # e.name)
        /\ (e.action # "create" => e.id \in DOMAIN list /\ list[e.id].name = e.name)
        /\ (e.action = "keep" /\ d + (n + 1) > 1 =>
               TopId(me) # NoItem /\ list[e.id].parent = TopId(me))
    BY <2>2 DEF EntryHolds, g
  <2> HIDE DEF e, d
  <2>0. n \in Nat /\ n >= 1 /\ d \in Nat BY <1>3, <2>1
  <2>4. d + (n + 1) = (d + 1) + n /\ d + (n + 1) > 1 BY <2>0
  <2>5. ASSUME e.action = "create", ~Repeated(e.name), NEW i \in DOMAIN new
        PROVE  new[i].name # e.name
    <3>1. CASE i \in DOMAIN list BY <2>3, <2>5, <3>1
    <3>2. CASE i \notin DOMAIN list
      <4>1. new[i].name = NamesIn(g)[d + 1] BY <1>6, <3>2
      <4>2. d + 1 \in DOMAIN NamesIn(g) /\ d + (n + 1) \in DOMAIN NamesIn(g)
            /\ d + 1 # d + (n + 1)
        <5> DEFINE P == Len(me.plan)
        <5>1. n <= P - 1 /\ P \in Nat /\ L \in Nat BY <1>0, <1>1, <1>2
        <5>2. d = L + 1 - P BY <1>3
        <5> HIDE DEF P
        <5>3. d + 1 \in 1..(L + 1) /\ d + (n + 1) \in 1..(L + 1) /\ d + 1 # d + (n + 1)
          BY <2>0, <5>1, <5>2
        <5> QED BY <1>2, <5>3
      <4>3. NamesIn(g)[d + 1] = e.name => Repeated(e.name)
        BY <1>2, <2>3, <4>2 DEF Repeated
      <4> QED BY <2>5, <4>1, <4>3
    <3> QED BY <3>1, <3>2
  <2>6. e.action # "create" => e.id \in DOMAIN new /\ new[e.id].name = e.name
    BY <1>8, <2>3
  <2>7. e.action = "keep" => TopId(next) # NoItem /\ new[e.id].parent = TopId(next)
    <3>1. SUFFICES ASSUME e.action = "keep"
                   PROVE  TopId(next) # NoItem /\ new[e.id].parent = TopId(next)
      OBVIOUS
    <3>2. /\ TopId(me) # NoItem /\ list[e.id].parent = TopId(me) /\ e.id \in DOMAIN list
          /\ TopId(me) = next.parent
      BY <1>11, <2>3, <2>4, <3>1
    <3>3. new[e.id].parent = list[e.id].parent
          \/ (me.parent # NoItem /\ new[e.id].parent = me.parent)
      BY <3>2
    <3>4. me.parent # NoItem => me.parent = next.parent BY <1>7
    <3> QED BY <1>12, <3>2, <3>3, <3>4
  <2> QED BY <1>1, <1>4, <2>1, <2>3, <2>4, <2>5, <2>6, <2>7 DEF EntryHolds
<1>14. next.parent \in DOMAIN new /\ new[next.parent].name = g.parent
  <2>1. CASE d = 0 BY <1>2, <1>6, <1>7, <2>1
  <2>2. CASE d # 0 BY <1>7, <1>8, <2>2
  <2> QED BY <2>1, <2>2
<1>15. ASSUME NEW k \in 1..(DoneSoFar(next) - 1) PROVE Linked(new, g.children[k], next.parent)
  <2>1. k \in 1..d BY <1>3, <1>4
  <2>2. CASE k = d
    <3>1. d # 0 /\ d + 1 = 1 + d /\ d \in 1..L BY <1>1, <1>2, <1>3, <2>1, <2>2
    <3>2. new[id].name = g.children[d] BY <1>2, <1>6, <3>1
    <3> QED BY <1>7, <2>2, <3>1, <3>2 DEF Linked
  <2>3. CASE k # d
    <3>1. k \in 1..(d - 1) /\ d # 0 BY <1>3, <2>1, <2>3
    <3>2. Linked(list, g.children[k], me.parent) BY <3>1 DEF WriterHolds, g
    <3>3. PICK c \in DOMAIN list : list[c].name = g.children[k] /\ list[c].parent = me.parent
      BY <3>2 DEF Linked
    <3> QED BY <1>7, <1>8, <3>1, <3>3 DEF Linked
  <2> QED BY <2>2, <2>3
<1>16. /\ next.goal \in Goals /\ Len(next.plan) <= Len(next.goal.children) + 1
       /\ DoneSoFar(next) # 0
  BY <1>1, <1>2, <1>3, <1>4 DEF L
<1>17. /\ \A n \in DOMAIN next.plan : EntryHolds(new, next, n)
       /\ next.parent \in DOMAIN new /\ new[next.parent].name = next.goal.parent
       /\ \A k \in 1..(DoneSoFar(next) - 1) : Linked(new, next.goal.children[k], next.parent)
  BY <1>1, <1>13, <1>14, <1>15
<1> QED BY <1>16, <1>17 DEF WriterHolds, next

LEMMA GoalStepKeepsInv ==
  ASSUME GoalPlaneInv, NEW a \in Applier, NEW next \in ApplierState,
         applier' = [applier EXCEPT ![a] = next], items' \in Seq(Item), overlapped' \in BOOLEAN,
         ~overlapped' =>
           /\ ~overlapped /\ NamedOnce(items') /\ ApplierKnows(items', next)
           /\ items' = items \/ ~OthersWrite(a)
           /\ next.pc = "writing" => Writing(a) \/ ~OthersWrite(a)
  PROVE  GoalPlaneInv'
<1>1. items \in Seq(Item) /\ applier \in [Applier -> ApplierState]
  BY DEF GoalPlaneInv, GoalPlaneTypeOK
<1>2. /\ applier' \in [Applier -> ApplierState] /\ applier'[a] = next
      /\ \A b \in Applier : b # a => applier'[b] = applier[b]
  BY <1>1
<1>3. ASSUME ~overlapped', NEW b \in Applier, NEW c \in Applier,
             applier'[b].pc = "writing", applier'[c].pc = "writing"
      PROVE  b = c
  <2>1. \A x, y \in Applier : applier[x].pc = "writing" /\ applier[y].pc = "writing" => x = y
    BY <1>3 DEF GoalPlaneInv, Writing
  <2>2. next.pc = "writing" =>
          applier[a].pc = "writing" \/ \A x \in Applier \ {a} : applier[x].pc # "writing"
    BY <1>3 DEF Writing, OthersWrite
  <2> QED BY <1>2, <1>3, <2>1, <2>2
<1>4. ASSUME ~overlapped', NEW b \in Applier PROVE ApplierKnows(items', applier'[b])
  <2>1. CASE b = a BY <1>2, <1>4, <2>1
  <2>2. CASE b # a
    <3>1. applier'[b] = applier[b] /\ ApplierKnows(items, applier[b])
      BY <1>2, <1>4, <2>2 DEF GoalPlaneInv
    <3>2. CASE items' = items BY <3>1, <3>2
    <3>3. CASE ~OthersWrite(a)
      <4>1. applier[b].pc # "writing" BY <2>2, <3>3 DEF OthersWrite, Writing
      <4> QED BY <3>1, <4>1 DEF ApplierKnows, WriterHolds
    <3> QED BY <1>4, <3>2, <3>3
  <2> QED BY <2>1, <2>2
<1>5. GoalPlaneTypeOK' BY <1>2 DEF GoalPlaneTypeOK
<1>6. ~overlapped' => NamedOnce(items') OBVIOUS
<1>7. ~overlapped' => \A b, c \in Applier : Writing(b)' /\ Writing(c)' => b = c
  BY <1>3 DEF Writing
<1>8. NamedOnce(items)' <=> NamedOnce(items') BY DEF NamedOnce
<1> QED BY <1>4, <1>5, <1>6, <1>7 DEF GoalPlaneInv

LEMMA ResultIsState ==
  ASSUME NEW code \in {0, 1, 2}, NEW g \in Goals \cup {"none"}
  PROVE  /\ Ended(code, g) \in ApplierState /\ NotStarted \in ApplierState
         /\ Ended(code, g).pc = "done" /\ NotStarted.pc = "idle"
         /\ Ended(code, g).exit = code /\ NotStarted.exit = 9
         /\ Ended(code, g).parent = NoItem /\ NotStarted.parent = NoItem
<1>1. <<>> \in Seq(PlanEntry) OBVIOUS
<1>2. NotStarted \in ApplierState BY <1>1 DEF NotStarted, ApplierState, NoItem
<1>3. Ended(code, g) = [pc |-> "done", goal |-> g, plan |-> <<>>, parent |-> NoItem,
                        exit |-> code]
  <2> DEFINE me == NotStarted
  <2>1. me = [pc |-> "idle", goal |-> "none", plan |-> <<>>, parent |-> NoItem, exit |-> 9]
    BY DEF NotStarted
  <2>2. Ended(code, g) = [me EXCEPT !.pc = "done", !.exit = code, !.goal = g] BY DEF Ended
  <2> HIDE DEF me
  <2> QED BY <2>1, <2>2
<1>4. Ended(code, g) \in ApplierState BY <1>1, <1>3 DEF ApplierState, NoItem
<1> QED BY <1>2, <1>3, <1>4 DEF NotStarted

(* An invocation ends, whatever its last request did. *)
LEMMA EndKeepsInv ==
  ASSUME GoalPlaneInv, NEW a \in Applier, NEW next \in ApplierState, next.pc # "writing",
         next.parent = NoItem, applier' = [applier EXCEPT ![a] = next], items' \in Seq(Item), overlapped' \in BOOLEAN,
         ~overlapped' => ~overlapped /\ NamedOnce(items') /\ (items' = items \/ ~OthersWrite(a))
  PROVE  GoalPlaneInv'
  BY GoalStepKeepsInv DEF ApplierKnows, WriterHolds

LEMMA BeginKeepsInv ==
  ASSUME GoalPlaneInv, NEW a \in Applier, BeginApply(a) PROVE GoalPlaneInv'
<1>1. items \in Seq(Item) /\ applier \in [Applier -> ApplierState] /\ overlapped \in BOOLEAN
  BY DEF GoalPlaneInv, GoalPlaneTypeOK
<1>2. /\ overlapped' \in BOOLEAN /\ items' = items
      /\ ~overlapped' => ~overlapped /\ ~OthersWrite(a) /\ NamedOnce(items')
  BY <1>1 DEF BeginApply, GoalPlaneInv, OthersWrite
<1>3. PICK g \in Goals :
        \/ \E code \in {1, 2} : applier' = [applier EXCEPT ![a] = Ended(code, g)]
        \/ \E found \in ByName(items) : applier' = [applier EXCEPT ![a] =
              [@ EXCEPT !.pc = "writing", !.goal = g, !.plan = ApplyPlan(g, items, found)]]
  BY DEF BeginApply
<1>4. ASSUME NEW code \in {1, 2}, applier' = [applier EXCEPT ![a] = Ended(code, g)]
      PROVE  GoalPlaneInv'
  <2>1. /\ Ended(code, g) \in ApplierState /\ Ended(code, g).pc # "writing"
        /\ Ended(code, g).parent = NoItem
    BY ResultIsState
  <2> QED BY <1>1, <1>2, <1>4, <2>1, EndKeepsInv
<1>5. ASSUME NEW found \in ByName(items), applier' = [applier EXCEPT ![a] =
               [@ EXCEPT !.pc = "writing", !.goal = g, !.plan = ApplyPlan(g, items, found)]]
      PROVE  GoalPlaneInv'
  <2> DEFINE plan == ApplyPlan(g, items, found)
             next == [applier[a] EXCEPT !.pc = "writing", !.goal = g, !.plan = plan]
  <2>1. plan \in Seq(PlanEntry) BY <1>1, PlanIsListed
  <2>2. applier[a] \in ApplierState BY <1>1
  <2>3. next \in ApplierState /\ next.plan = plan /\ next.goal = g /\ next.pc = "writing"
        /\ next.parent = applier[a].parent
    <3> HIDE DEF plan
    <3> QED BY <2>1, <2>2 DEF ApplierState
  <2>4. applier' = [applier EXCEPT ![a] = next] BY <1>5
  <2>5. ASSUME ~overlapped' PROVE ApplierKnows(items', next)
    <3>1. applier[a].parent = NoItem
      BY <1>2, <2>5 DEF BeginApply, GoalPlaneInv, ApplierKnows
    <3> HIDE DEF next
    <3>2. WriterHolds(items, next) BY <1>1, <2>3, <3>1, PlanHolds
    <3> QED BY <1>2, <2>3, <3>2 DEF ApplierKnows
  <2> HIDE DEF next
  <2> QED BY <1>1, <1>2, <2>3, <2>4, <2>5, GoalStepKeepsInv
<1> QED BY <1>3, <1>4, <1>5

(* What the next entry of an invocation that is alone stands for. *)
LEMMA DueHolds ==
  ASSUME GoalPlaneInv, ~overlapped, NEW a \in Applier, NEW action, Due(a, action)
  PROVE  LET me == applier[a]
         IN  /\ me \in ApplierState /\ me.pc = "writing" /\ me.plan # <<>>
             /\ WriterHolds(items, me) /\ EntryHolds(items, me, 1)
             /\ Head(me.plan) = me.plan[1] /\ me.plan[1] \in PlanEntry /\ me.plan[1].action = action
             /\ DoneSoFar(me) \in Nat /\ me.goal \in Goals
<1> DEFINE me == applier[a]
<1>1. me \in ApplierState /\ me.pc = "writing" /\ me.plan # <<>> /\ WriterHolds(items, me)
  BY DEF GoalPlaneInv, GoalPlaneTypeOK, Due, Writing, ApplierKnows
<1>2. me.plan \in Seq(PlanEntry) /\ Head(me.plan).action = action BY <1>1 DEF ApplierState, Due
<1> HIDE DEF me
<1>3. /\ Head(me.plan) = me.plan[1] /\ 1 \in DOMAIN me.plan /\ me.plan[1] \in PlanEntry
      /\ Len(me.plan) \in Nat
  BY <1>1, <1>2
<1>4. EntryHolds(items, me, 1) BY <1>1, <1>3 DEF WriterHolds
<1>5. DoneSoFar(me) \in Nat /\ me.goal \in Goals
  <2>1. me.goal \in Goals /\ Len(me.plan) <= Len(me.goal.children) + 1
    BY <1>1 DEF WriterHolds
  <2>2. Len(me.goal.children) \in Nat BY <2>1, NamesOfGoal
  <2> QED BY <1>3, <2>1, <2>2 DEF DoneSoFar
<1> QED BY <1>1, <1>2, <1>3, <1>4, <1>5 DEF me

LEMMA LeavingKeepsInv ==
  ASSUME GoalPlaneInv, NEW a \in Applier, NEW code \in {0, 1, 2}, Leaves(a, code),
         items' \in Seq(Item), overlapped' \in BOOLEAN,
         ~overlapped' => ~overlapped /\ NamedOnce(items') /\ (items' = items \/ ~OthersWrite(a))
  PROVE  GoalPlaneInv'
<1> DEFINE next == Ended(code, applier[a].goal)
<1>1. applier[a].goal \in Goals \cup {"none"} BY DEF GoalPlaneInv, GoalPlaneTypeOK, ApplierState
<1>2. next \in ApplierState /\ next.pc # "writing" /\ next.parent = NoItem
  BY <1>1, ResultIsState
<1>3. applier' = [applier EXCEPT ![a] = next] BY DEF Leaves
<1> HIDE DEF next
<1> QED BY <1>2, <1>3, EndKeepsInv

LEMMA DoneKeepsInv ==
  ASSUME GoalPlaneInv, NEW a \in Applier, NEW id \in Nat, Done(a, id), Writing(a),
         applier[a].plan # <<>>, items' \in Seq(Item), overlapped' \in BOOLEAN,
         ~overlapped' =>
           /\ ~overlapped /\ NamedOnce(items') /\ (items' = items \/ ~OthersWrite(a))
           /\ WriterHolds(items', AfterDone(applier[a], id))
  PROVE  GoalPlaneInv'
<1> DEFINE next == AfterDone(applier[a], id)
<1>1. applier[a] \in ApplierState /\ applier[a].pc = "writing"
  BY DEF GoalPlaneInv, GoalPlaneTypeOK, Writing
<1>2. next \in ApplierState /\ next.pc = "writing" BY <1>1, AfterDoneFields
<1>3. applier' = [applier EXCEPT ![a] = next]
  <2> DEFINE me == applier[a]
             back == Tail(me.plan)
             up == IF me.parent = NoItem THEN id ELSE me.parent
             half == [me EXCEPT !.plan = back]
  <2>1. me \in ApplierState BY <1>1
  <2>2. half.parent = me.parent BY <2>1 DEF ApplierState
  <2>3. next = [half EXCEPT !.parent = up] BY <2>2 DEF AfterDone
  <2>4. applier \in [Applier -> ApplierState] BY DEF GoalPlaneInv, GoalPlaneTypeOK
  <2>5. applier'[a] = next /\ \A b \in Applier : b # a => applier'[b] = applier[b]
    BY <2>2, <2>3, <2>4 DEF Done
  <2>6. DOMAIN applier' = Applier /\ applier' = [b \in Applier |-> applier'[b]]
    BY <2>4 DEF Done
  <2> HIDE DEF next
  <2> QED BY <2>4, <2>5, <2>6
<1>4. ~overlapped' => ApplierKnows(items', next) BY <1>2 DEF ApplierKnows
<1> HIDE DEF next
<1> QED BY <1>2, <1>3, <1>4, GoalStepKeepsInv

LEMMA CreateKeepsInv ==
  ASSUME GoalPlaneInv, NEW a \in Applier, CreateItem(a) PROVE GoalPlaneInv'
<1> DEFINE me == applier[a]
           name == Head(me.plan).name
           row == [name |-> name, parent |-> me.parent]
           created == Append(items, row)
<1>1. /\ items \in Seq(Item) /\ me \in ApplierState /\ overlapped \in BOOLEAN
      /\ Writing(a) /\ me.plan # <<>> /\ me.plan \in Seq(PlanEntry)
  BY DEF GoalPlaneInv, GoalPlaneTypeOK, CreateItem, Due, ApplierState
<1>2. /\ overlapped' \in BOOLEAN /\ (~overlapped' => ~overlapped /\ ~OthersWrite(a))
  BY <1>1 DEF CreateItem, OthersWrite
<1>3. row \in Item
  <2>1. Head(me.plan) \in PlanEntry BY <1>1
  <2>2. name \in GoalNames BY <2>1 DEF PlanEntry
  <2>3. me.parent \in Nat BY <1>1 DEF ApplierState
  <2> QED BY <2>2, <2>3 DEF Item
<1>4. row.name = name /\ row.parent = me.parent OBVIOUS
<1> HIDE DEF row
<1>5. /\ created \in Seq(Item) /\ Len(created) = Len(items) + 1 /\ Len(items) \in Nat
      /\ DOMAIN created = DOMAIN items \cup {Len(created)} /\ created[Len(created)] = row
      /\ Len(created) \notin DOMAIN items /\ Len(created) \in Nat
      /\ \A i \in DOMAIN items : created[i] = items[i]
  BY <1>1, <1>3
<1>6. created = Append(items, [name |-> Head(applier[a].plan).name, parent |-> applier[a].parent])
  BY DEF row
<1> HIDE DEF created
<1>7. ASSUME ~overlapped
      PROVE  NamedOnce(created) /\ WriterHolds(created, AfterDone(me, Len(created)))
  <2>1. /\ me.pc = "writing" /\ WriterHolds(items, me) /\ EntryHolds(items, me, 1)
        /\ name = me.plan[1].name /\ me.plan[1].action = "create" /\ DoneSoFar(me) \in Nat
    BY <1>7, DueHolds DEF CreateItem
  <2>2. ~Repeated(name) => \A i \in DOMAIN items : items[i].name # name
    BY <2>1 DEF EntryHolds
  <2>3. NamedOnce(items) BY <1>7 DEF GoalPlaneInv
  <2> HIDE DEF name, me
  <2>4. NamedOnce(created) BY <1>4, <1>5, <2>2, <2>3 DEF NamedOnce
  <2>5. DoneSoFar(me) = 0 => me.plan[1].id = NoItem BY <2>1 DEF WriterHolds
  <2>6. \A i \in DOMAIN created : i \notin DOMAIN items => created[i].name = me.plan[1].name
    BY <1>4, <1>5, <2>1
  <2>7. WriterHolds(created, AfterDone(me, Len(created)))
    <3>1. Len(items) <= Len(created) /\ Len(created) \in DOMAIN created BY <1>5
    <3>2. /\ created[Len(created)].name = me.plan[1].name
          /\ created[Len(created)].parent = me.parent
      BY <1>4, <1>5, <2>1
    <3>3. \A i \in DOMAIN items :
            created[i].name = items[i].name /\ created[i].parent = items[i].parent
      BY <1>5
    <3> QED BY <1>1, <1>5, <2>1, <2>5, <2>6, <3>1, <3>2, <3>3, DoneKnows
  <2> QED BY <2>4, <2>7
<1>8. NamedOnce(items) \/ overlapped BY DEF GoalPlaneInv
<1>9. \/ items' = created /\ (Done(a, Len(created)) \/ Leaves(a, 1))
      \/ items' = items /\ Leaves(a, 1)
  BY <1>6 DEF CreateItem
<1> HIDE DEF me, name
<1>10. CASE items' = created /\ Done(a, Len(created))
  <2>1. WriterHolds(items', AfterDone(applier[a], Len(created))) \/ overlapped
    BY <1>7, <1>10 DEF me
  <2> QED BY <1>1, <1>2, <1>5, <1>7, <1>10, <2>1, DoneKeepsInv DEF me
<1>11. CASE items' = created /\ Leaves(a, 1)
  BY <1>2, <1>5, <1>7, <1>11, LeavingKeepsInv
<1>12. CASE items' = items /\ Leaves(a, 1)
  BY <1>1, <1>2, <1>8, <1>12, LeavingKeepsInv
<1> QED BY <1>9, <1>10, <1>11, <1>12

LEMMA PatchParentKeepsInv ==
  ASSUME GoalPlaneInv, NEW a \in Applier, PatchParent(a) PROVE GoalPlaneInv'
<1> DEFINE me == applier[a]
           id == Head(me.plan).id
           patched == [items EXCEPT ![id].parent = me.parent]
<1>1. /\ items \in Seq(Item) /\ me \in ApplierState /\ overlapped \in BOOLEAN
      /\ Writing(a) /\ me.plan # <<>> /\ me.plan \in Seq(PlanEntry) /\ me.parent \in Nat
  BY DEF GoalPlaneInv, GoalPlaneTypeOK, PatchParent, Due, ApplierState
<1>2. /\ overlapped' \in BOOLEAN /\ (~overlapped' => ~overlapped /\ ~OthersWrite(a))
  BY <1>1 DEF PatchParent, OthersWrite
<1>3. id \in Nat
  <2>1. Head(me.plan) \in PlanEntry BY <1>1
  <2> QED BY <2>1 DEF PlanEntry
<1>4. \/ items' = patched /\ (Done(a, id) \/ Leaves(a, 1))
      \/ items' = items /\ Leaves(a, 1)
  BY DEF PatchParent
<1>5. /\ patched \in Seq(Item) /\ DOMAIN patched = DOMAIN items /\ Len(patched) = Len(items)
      /\ \A i \in DOMAIN items :
           /\ patched[i].name = items[i].name
           /\ i # id => patched[i].parent = items[i].parent
           /\ i = id => patched[i].parent = me.parent
  <2> HIDE DEF id, me
  <2>1. CASE id \in DOMAIN items
    <3> DEFINE row == [name |-> items[id].name, parent |-> me.parent]
    <3>1. items[id] \in Item BY <1>1, <2>1
    <3>2. items[id] = [name |-> items[id].name, parent |-> items[id].parent]
          /\ items[id].name \in GoalNames
      BY <3>1 DEF Item
    <3>3. patched = [items EXCEPT ![id] = row]
      <4>1. [items[id] EXCEPT !.parent = me.parent] = row BY <3>2
      <4>2. patched = [items EXCEPT ![id] = [items[id] EXCEPT !.parent = me.parent]] BY Zenon
      <4> HIDE DEF patched, row
      <4> QED BY <4>1, <4>2
    <3>4. row \in Item /\ row.name = items[id].name /\ row.parent = me.parent
      BY <1>1, <3>2 DEF Item
    <3> HIDE DEF row, patched
    <3> QED BY <1>1, <2>1, <3>3, <3>4
  <2>2. CASE id \notin DOMAIN items
    <3>1. patched = items
      <4>1. \A i \in DOMAIN items : patched[i] = items[i] BY <2>2
      <4>2. DOMAIN patched = DOMAIN items OBVIOUS
      <4>3. patched = [i \in DOMAIN items |-> patched[i]] BY <4>2
      <4>4. items = [i \in DOMAIN items |-> items[i]]
        <5>1. items \in [1..Len(items) -> Item] BY <1>1
        <5> QED BY <5>1
      <4> HIDE DEF patched
      <4> QED BY <4>1, <4>3, <4>4
    <3> HIDE DEF patched
    <3> QED BY <1>1, <2>2, <3>1
  <2> QED BY <2>1, <2>2
<1> HIDE DEF patched
<1>6. NamedOnce(items) => NamedOnce(patched) BY <1>5 DEF NamedOnce
<1>7. NamedOnce(items) \/ overlapped BY DEF GoalPlaneInv
<1>8. ASSUME ~overlapped PROVE WriterHolds(patched, AfterDone(me, id))
  <2>1. /\ me.pc = "writing" /\ WriterHolds(items, me) /\ EntryHolds(items, me, 1)
        /\ id = me.plan[1].id /\ me.plan[1].action = "patch-parent" /\ DoneSoFar(me) \in Nat
    BY <1>8, DueHolds DEF PatchParent
  <2> HIDE DEF id, me
  <2>2. id \in DOMAIN items /\ items[id].name = me.plan[1].name BY <2>1 DEF EntryHolds
  <2>3. DoneSoFar(me) # 0 /\ me.parent \in DOMAIN items BY <2>1 DEF WriterHolds
  <2>4. me.parent # NoItem BY <1>1, <2>3 DEF NoItem
  <2>5. \A i \in DOMAIN items :
          /\ patched[i].name = items[i].name
          /\ patched[i].parent = items[i].parent
             \/ (me.parent # NoItem /\ patched[i].parent = me.parent)
    BY <1>5, <2>4
  <2>6. \A i \in DOMAIN patched : i \notin DOMAIN items => patched[i].name = me.plan[1].name
    BY <1>5
  <2>7. id \in DOMAIN patched /\ patched[id].name = me.plan[1].name
        /\ patched[id].parent = me.parent
    BY <1>5, <2>2
  <2>8. Len(items) <= Len(patched) BY <1>1, <1>5
  <2> QED BY <1>1, <1>3, <1>5, <2>1, <2>3, <2>5, <2>6, <2>7, <2>8, DoneKnows
<1> HIDE DEF id, me
<1>9. CASE items' = patched /\ Done(a, id)
  <2>1. WriterHolds(items', AfterDone(applier[a], id)) \/ overlapped BY <1>8, <1>9 DEF me
  <2> QED BY <1>1, <1>2, <1>3, <1>5, <1>6, <1>7, <1>9, <2>1, DoneKeepsInv DEF me
<1>10. CASE items' = patched /\ Leaves(a, 1)
  BY <1>2, <1>5, <1>6, <1>7, <1>10, LeavingKeepsInv
<1>11. CASE items' = items /\ Leaves(a, 1)
  BY <1>1, <1>2, <1>7, <1>11, LeavingKeepsInv
<1> QED BY <1>4, <1>9, <1>10, <1>11

LEMMA KeepItemKeepsInv ==
  ASSUME GoalPlaneInv, NEW a \in Applier, KeepItem(a) PROVE GoalPlaneInv'
<1> DEFINE me == applier[a]
           id == Head(me.plan).id
<1>1. /\ items \in Seq(Item) /\ me \in ApplierState /\ overlapped \in BOOLEAN
      /\ Writing(a) /\ me.plan # <<>> /\ me.plan \in Seq(PlanEntry)
  BY DEF GoalPlaneInv, GoalPlaneTypeOK, KeepItem, Due, ApplierState
<1>2. items' = items /\ overlapped' = overlapped /\ Done(a, id) BY DEF KeepItem
<1>3. id \in Nat
  <2>1. Head(me.plan) \in PlanEntry BY <1>1
  <2> QED BY <2>1 DEF PlanEntry
<1>4. ASSUME ~overlapped PROVE NamedOnce(items) /\ WriterHolds(items, AfterDone(me, id))
  <2>1. /\ me.pc = "writing" /\ WriterHolds(items, me) /\ EntryHolds(items, me, 1)
        /\ id = me.plan[1].id /\ me.plan[1].action = "keep" /\ DoneSoFar(me) \in Nat
    BY <1>4, DueHolds DEF KeepItem
  <2> HIDE DEF id, me
  <2>2. id \in DOMAIN items /\ items[id].name = me.plan[1].name BY <2>1 DEF EntryHolds
  <2>3. DoneSoFar(me) # 0 => items[id].parent = me.parent
    <3>1. DoneSoFar(me) # 0 => DoneSoFar(me) + 1 > 1 BY <2>1
    <3> QED BY <2>1, <3>1 DEF EntryHolds, TopId
  <2>4. \A i \in DOMAIN items :
          items[i].name = items[i].name /\ items[i].parent = items[i].parent
    OBVIOUS
  <2>5. Len(items) <= Len(items) BY <1>1
  <2>6. WriterHolds(items, AfterDone(me, id))
    BY <1>1, <1>3, <2>1, <2>2, <2>3, <2>4, <2>5, DoneKnows
  <2> QED BY <1>4, <2>6 DEF GoalPlaneInv
<1> HIDE DEF id, me
<1>5. WriterHolds(items', AfterDone(applier[a], id)) \/ overlapped BY <1>2, <1>4 DEF me
<1> QED BY <1>1, <1>2, <1>3, <1>4, <1>5, DoneKeepsInv DEF me

LEMMA OthersKeepGoalInv ==
  ASSUME GoalPlaneInv, NEW a \in Applier, FinishApply(a) \/ ApplyDies(a) \/ NewApply(a)
  PROVE  GoalPlaneInv'
<1>1. /\ items \in Seq(Item) /\ overlapped \in BOOLEAN /\ items' = items
      /\ overlapped' = overlapped /\ (~overlapped => NamedOnce(items))
  BY DEF GoalPlaneInv, GoalPlaneTypeOK, FinishApply, ApplyDies, NewApply
<1>2. CASE FinishApply(a) \/ ApplyDies(a)
  <2>1. PICK code \in {0, 1, 2} : Leaves(a, code) BY <1>2 DEF FinishApply, ApplyDies
  <2> QED BY <1>1, <2>1, LeavingKeepsInv
<1>3. CASE NewApply(a)
  <2>1. NotStarted \in ApplierState /\ NotStarted.pc # "writing" /\ NotStarted.parent = NoItem
    BY ResultIsState
  <2>2. applier' = [applier EXCEPT ![a] = NotStarted] BY <1>3 DEF NewApply
  <2> QED BY <1>1, <2>1, <2>2, EndKeepsInv
<1> QED BY <1>2, <1>3

LEMMA GoalPlaneHasInv == GoalPlaneSpec => []GoalPlaneInv
<1>1. GoalPlaneInit => GoalPlaneInv
  <2> SUFFICES ASSUME GoalPlaneInit PROVE GoalPlaneInv OBVIOUS
  <2>1. items = <<>> /\ applier = [a \in Applier |-> NotStarted] /\ overlapped = FALSE
    BY DEF GoalPlaneInit
  <2>2. items \in Seq(Item) /\ DOMAIN items = {} BY <2>1
  <2>3. NotStarted \in ApplierState /\ NotStarted.pc = "idle" /\ NotStarted.parent = NoItem
    BY ResultIsState
  <2>4. NamedOnce(items) BY <2>2 DEF NamedOnce
  <2>5. \A a \in Applier : applier[a] = NotStarted BY <2>1
  <2>6. ApplierKnows(items, NotStarted) BY <2>3 DEF ApplierKnows, WriterHolds
  <2>7. GoalPlaneTypeOK BY <2>1, <2>2, <2>3 DEF GoalPlaneTypeOK
  <2> QED BY <2>3, <2>4, <2>5, <2>6, <2>7 DEF GoalPlaneInv, Writing
<1>2. GoalPlaneInv /\ [GoalPlaneNext]_goalPlaneVars => GoalPlaneInv'
  <2> SUFFICES ASSUME GoalPlaneInv, [GoalPlaneNext]_goalPlaneVars PROVE GoalPlaneInv'
    OBVIOUS
  <2>1. CASE GoalPlaneNext
    BY <2>1, BeginKeepsInv, CreateKeepsInv, PatchParentKeepsInv, KeepItemKeepsInv,
       OthersKeepGoalInv
       DEF GoalPlaneNext
  <2>2. CASE UNCHANGED goalPlaneVars
    BY <2>2 DEF goalPlaneVars, GoalPlaneInv, GoalPlaneTypeOK, Writing, NamedOnce, ApplierKnows,
                WriterHolds, EntryHolds, Linked
  <2> QED BY <2>1, <2>2
<1> QED BY <1>1, <1>2, PTL DEF GoalPlaneSpec

(* Exit code 0 is only ever set by the end of a plan. *)
LEMMA OnlyTheEndPasses ==
  ASSUME GoalPlaneInv, GoalPlaneNext, NEW a \in Applier,
         applier[a].exit # 0, applier'[a].exit = 0
  PROVE  FinishApply(a)
<1>1. applier \in [Applier -> ApplierState] BY DEF GoalPlaneInv, GoalPlaneTypeOK
<1>2. ASSUME NEW b \in Applier, NEW next, next.exit # 0 \/ next.exit = applier[b].exit,
             applier' = [applier EXCEPT ![b] = next]
      PROVE  FALSE
  BY <1>1, <1>2
<1>3. ASSUME NEW b \in Applier, Leaves(b, 1) PROVE FALSE
  <2> DEFINE next == Ended(1, applier[b].goal)
  <2>1. applier[b].goal \in Goals \cup {"none"} BY <1>1 DEF ApplierState
  <2>2. next.exit = 1 BY <2>1, ResultIsState
  <2>3. applier' = [applier EXCEPT ![b] = next] BY <1>3 DEF Leaves
  <2> HIDE DEF next
  <2> QED BY <1>2, <2>2, <2>3
<1>4. ASSUME NEW b \in Applier, NEW id, Done(b, id) PROVE FALSE
  BY <1>1, <1>4 DEF Done, ApplierState
<1>5. ASSUME NEW b \in Applier, BeginApply(b) PROVE FALSE
  <2>1. PICK g \in Goals :
          \/ \E code \in {1, 2} : applier' = [applier EXCEPT ![b] = Ended(code, g)]
          \/ \E found \in ByName(items) : applier' = [applier EXCEPT ![b] =
                [@ EXCEPT !.pc = "writing", !.goal = g, !.plan = ApplyPlan(g, items, found)]]
    BY <1>5 DEF BeginApply
  <2>2. ASSUME NEW code \in {1, 2}, applier' = [applier EXCEPT ![b] = Ended(code, g)]
        PROVE  FALSE
    <3> DEFINE next == Ended(code, g)
    <3>1. next.exit = code BY ResultIsState
    <3>2. next.exit # 0 BY <3>1
    <3> HIDE DEF next
    <3>3. applier' = [applier EXCEPT ![b] = next] BY <2>2 DEF next
    <3> QED BY <1>2, <3>2, <3>3
  <2>3. ASSUME NEW found \in ByName(items), applier' = [applier EXCEPT ![b] =
                 [@ EXCEPT !.pc = "writing", !.goal = g, !.plan = ApplyPlan(g, items, found)]]
        PROVE  FALSE
    BY <1>1, <2>3 DEF ApplierState
  <2> QED BY <2>1, <2>2, <2>3
<1>6. ASSUME NEW b \in Applier, NewApply(b) PROVE FALSE
  <2>1. applier' = [applier EXCEPT ![b] = NotStarted] BY <1>6 DEF NewApply
  <2>2. NotStarted.exit # 0 BY DEF NotStarted
  <2> QED BY <1>2, <2>1, <2>2
<1>7. ASSUME NEW b \in Applier, FinishApply(b) PROVE b = a
  BY <1>1, <1>7 DEF FinishApply, Leaves
<1>8. PICK b \in Applier :
        BeginApply(b) \/ CreateItem(b) \/ PatchParent(b) \/ KeepItem(b)
        \/ FinishApply(b) \/ ApplyDies(b) \/ NewApply(b)
  BY DEF GoalPlaneNext
<1>9. \/ BeginApply(b) \/ NewApply(b) \/ FinishApply(b) \/ Leaves(b, 1)
      \/ \E id : Done(b, id)
  BY <1>8 DEF CreateItem, PatchParent, KeepItem, ApplyDies
<1> QED BY <1>3, <1>4, <1>5, <1>6, <1>7, <1>9

(* Whatever requests fail, land unseen or are cut off, and however often it  *)
(* is begun again, an apply that no other overlaps leaves one item for each  *)
(* name that is given once, and exits 0 only when every child of the goal    *)
(* hangs under the goal's item (planGoalMaterializationApply,                *)
(* applyGoalMaterialization).                                               *)
THEOREM ApplyStaysIdempotent == GoalPlaneSpec => ApplyIsIdempotent
<1>1. GoalPlaneInv => OneItemPerName BY DEF GoalPlaneInv, NamedOnce, OneItemPerName
<1>2. GoalPlaneInv /\ [GoalPlaneNext]_goalPlaneVars =>
        [\A a \in Applier :
            applier[a].exit # 0 /\ applier'[a].exit = 0 /\ ~overlapped =>
               LET g == applier[a].goal
               IN  \E p \in Named(items, g.parent) :
                      \A n \in DOMAIN g.children :
                         \E c \in Named(items, g.children[n]) : items[c].parent = p
        ]_goalPlaneVars
  <2> SUFFICES ASSUME GoalPlaneInv, GoalPlaneNext, NEW a \in Applier, applier[a].exit # 0,
                      applier'[a].exit = 0, ~overlapped
               PROVE  LET g == applier[a].goal
                      IN  \E p \in Named(items, g.parent) :
                             \A n \in DOMAIN g.children :
                                \E c \in Named(items, g.children[n]) : items[c].parent = p
    OBVIOUS
  <2> DEFINE me == applier[a]
             g == me.goal
  <2>1. FinishApply(a) BY OnlyTheEndPasses
  <2>2. me.pc = "writing" /\ me.plan = <<>> /\ WriterHolds(items, me)
    BY <2>1 DEF FinishApply, Writing, GoalPlaneInv, ApplierKnows
  <2> HIDE DEF me
  <2>3. g \in Goals BY <2>2 DEF WriterHolds
  <2>4. Len(g.children) \in Nat /\ DOMAIN g.children = 1..Len(g.children)
    BY <2>3, NamesOfGoal
  <2>5. DoneSoFar(me) = Len(g.children) + 1
    <3>1. Len(me.plan) = 0 BY <2>2
    <3> QED BY <2>4, <3>1 DEF DoneSoFar
  <2>6. me.parent \in Named(items, g.parent)
    <3>1. DoneSoFar(me) # 0 BY <2>4, <2>5
    <3> QED BY <2>2, <3>1 DEF WriterHolds, Named
  <2>7. ASSUME NEW n \in DOMAIN g.children
        PROVE  \E c \in Named(items, g.children[n]) : items[c].parent = me.parent
    <3>1. n \in 1..(DoneSoFar(me) - 1) BY <2>4, <2>5
    <3> QED BY <2>2, <3>1 DEF WriterHolds, Linked, Named
  <2> QED BY <2>6, <2>7 DEF me
<1> QED BY <1>1, <1>2, GoalPlaneHasInv, PTL
        DEF GoalPlaneSpec, ApplyIsIdempotent, AppliedIsLinked

-----------------------------------------------------------------------------
(* HumanGates: a released card is accepted on every later read               *)

Rows ==
  [id : Int, at : Nat, kind : Kinds \cup KeyedKinds \cup {"human_gate.released"},
   needs : BOOLEAN, card : Cards \cup {NoCard}, seen : Nat]
ValidRows == {row \in Rows : RowValid(row)}

FileInv ==
  /\ clock \in Nat /\ built \in Nat
  /\ ledger \in Seq(ValidRows)
  /\ pending \in [Writer -> ValidRows \cup {NoRow}]

(* The two tables of thresholds and the two readings of who may release      *)
(* agree wherever the gate passes.                                          *)
LEMMA PassedIsValid ==
  ASSUME NEW card, NEW made, NEW now, GatePasses(card, made, now)
  PROVE  ReleaseValid(card)
<1>1. MayRelease(card) /\ card.confidence >= Threshold[card.level] BY DEF GatePasses
<1>2. Threshold = LedgerThreshold BY DEF Threshold, LedgerThreshold
<1>3. card.level \in Levels BY <1>1 DEF MayRelease, CeoLevels, Levels
<1>4. /\ card.level \in CeoLevels => card.by \in CeoOwners
      /\ card.level = "HG-3.5" => card.by \in Hg35Owners
      /\ card.level = "HG-4" => card.by \in Hg4Owners
  BY <1>1 DEF MayRelease, CeoLevels
<1> QED BY <1>1, <1>2, <1>3, <1>4 DEF ReleaseValid

LEMMA BuiltIsValid ==
  ASSUME FileInv, NEW kind \in Kinds, NEW needs \in BOOLEAN
  PROVE  Row(built + 1, kind, needs, NoCard) \in ValidRows
<1>1. kind # "human_gate.released" BY DEF Kinds
<1> QED BY <1>1 DEF FileInv, Row, Rows, ValidRows, RowValid

LEMMA ReleaseIsValid ==
  ASSUME FileInv, NEW card \in Cards, ReleaseValid(card)
  PROVE  ReleaseRow(built + 1, card) \in ValidRows
<1>1. /\ ReleaseRow(built + 1, card) \in Rows
      /\ ReleaseRow(built + 1, card).card = card
  BY DEF FileInv, ReleaseRow, Row, Rows
<1> QED BY <1>1 DEF ValidRows, RowValid

LEMMA KeyedIsValid ==
  ASSUME FileInv, NEW keyed \in KeyedRows
  PROVE  [Row(keyed.id, keyed.kind, keyed.needs, NoCard) EXCEPT !.seen = Len(ledger)] \in ValidRows
<1> DEFINE dream == [id |-> -1, kind |-> "memory.proposal_created", needs |-> TRUE]
           call == [id |-> -2, kind |-> "marketing.pipeline.raindrop_call", needs |-> FALSE]
<1>0. keyed = dream \/ keyed = call BY DEF KeyedRows
<1>1. keyed.id \in Int /\ keyed.needs \in BOOLEAN /\ keyed.kind # "human_gate.released"
  <2>1. CASE keyed = dream BY <2>1
  <2>2. CASE keyed = call BY <2>2
  <2> QED BY <1>0, <2>1, <2>2
<1>2. keyed.kind \in KeyedKinds BY DEF KeyedKinds
<1>3. Len(ledger) \in Nat BY DEF FileInv
<1> QED BY <1>1, <1>2, <1>3 DEF FileInv, Row, Rows, ValidRows, RowValid

LEMMA StampKeeps ==
  ASSUME FileInv, NEW w \in Writer, NEW row \in ValidRows, Stamp(w, row)
  PROVE  FileInv'
  BY DEF FileInv, Stamp

LEMMA GateInitInv == GateInit => FileInv
<1> SUFFICES ASSUME GateInit PROVE FileInv OBVIOUS
<1>1. ledger \in Seq(ValidRows) BY DEF GateInit
<1> QED BY <1>1 DEF GateInit, FileInv

LEMMA GateNextKeeps == FileInv /\ [GateNext]_gateVars => FileInv'
<1> SUFFICES ASSUME FileInv, [GateNext]_gateVars PROVE FileInv' OBVIOUS
<1>1. ASSUME NEW w \in Writer, BuildRow(w) PROVE FileInv'
  BY <1>1, BuiltIsValid, StampKeeps DEF BuildRow
<1>2. ASSUME NEW w \in Writer, ReleaseGate(w) PROVE FileInv'
  <2>1. PICK card \in Cards, made \in 0..MaxTime :
          GatePasses(card, made, clock) /\ Stamp(w, ReleaseRow(built + 1, card))
    BY <1>2 DEF ReleaseGate
  <2> QED BY <2>1, PassedIsValid, ReleaseIsValid, StampKeeps
<1>3. ASSUME NEW w \in Writer, AppendRow(w) PROVE FileInv'
  <2>1. pending[w] \in ValidRows BY <1>3 DEF AppendRow, FileInv
  <2>2. ledger' \in Seq(ValidRows) BY <1>3, <2>1 DEF AppendRow, FileInv
  <2> QED BY <1>3, <2>2 DEF AppendRow, FileInv
<1>4. ASSUME NEW w \in Writer, WriterDies(w) PROVE FileInv'
  BY <1>4 DEF WriterDies, FileInv
<1>5. ASSUME NEW w \in Writer, BuildKeyedRow(w) PROVE FileInv'
  BY <1>5, KeyedIsValid, StampKeeps DEF BuildKeyedRow
<1>6. ASSUME TimePasses PROVE FileInv'
  BY <1>6 DEF TimePasses, FileInv
<1>7. ASSUME UNCHANGED gateVars PROVE FileInv'
  BY <1>7 DEF gateVars, FileInv
<1> QED BY <1>1, <1>2, <1>3, <1>4, <1>5, <1>6, <1>7 DEF GateNext

(* Whatever the gate lets through, the ledger's validator accepts when the   *)
(* reducer reads the file, however rows were delayed, lost or repeated in    *)
(* between (evaluateHumanGateRelease, validateHumanGateReleasePayload): no  *)
(* release is the row for which a reader refuses the file.                  *)
THEOREM ReleasesAreAccepted == GateSpec => []ReleasedIsAccepted
<1>1. FileInv => ReleasedIsAccepted
  <2> SUFFICES ASSUME FileInv, NEW k \in DOMAIN ledger PROVE RowValid(ledger[k])
    BY DEF ReleasedIsAccepted
  <2>1. ledger[k] \in ValidRows BY DEF FileInv
  <2> QED BY <2>1 DEF ValidRows
<1> QED BY <1>1, GateInitInv, GateNextKeeps, PTL DEF GateSpec

-----------------------------------------------------------------------------
(* HumanGates: what the reducer makes of a file.  Deduped folds the rows by  *)
(* a table over sets of places; KeptOf is one step of it.  A file is taken   *)
(* in the order of time, each id once, so two files of the same rows reduce  *)
(* to the same state.                                                        *)

KeptOf(kept, row) ==
  IF \E k \in DOMAIN kept : kept[k].id = row.id THEN kept ELSE Append(kept, row)
DedupStep(file, g, s) == IF s = {} THEN <<>> ELSE KeptOf(g[s \ {Max(s)}], file[Max(s)])
IsDedupTable(file, S, g) == g = [s \in SUBSET S |-> DedupStep(file, g, s)]
DedupTable(file, S) == CHOOSE g : IsDedupTable(file, S, g)
DedupOn(file, S) == DedupTable(file, S)[S]

LEMMA DedupIsTable == ASSUME NEW file PROVE Deduped(file) = DedupOn(file, DOMAIN file)
  BY DEF Deduped, FoldLeft, MapThenFoldSet, DedupOn, DedupTable, IsDedupTable, DedupStep, KeptOf

LEMMA MaxIsIn ==
  ASSUME NEW n \in Nat, NEW S, S \subseteq 0 .. n, S # {}
  PROVE  Max(S) \in S /\ \A x \in S : x <= Max(S)
<1>1. \E x \in S : \A y \in S : y <= x BY GreatestExists
<1>2. \A x, y \in S : y <= x <=> x >= y OBVIOUS
<1>3. \E x \in S : \A y \in S : x >= y BY <1>1, <1>2
<1> QED BY <1>2, <1>3 DEF Max

LEMMA DedupTableIsUnique ==
  ASSUME NEW file, NEW n \in Nat, NEW S, S \subseteq 0 .. n, NEW g, NEW h,
         IsDedupTable(file, S, g), IsDedupTable(file, S, h)
  PROVE  g = h
<1>0. /\ DOMAIN g = SUBSET S /\ \A s \in SUBSET S : g[s] = DedupStep(file, g, s)
      /\ DOMAIN h = SUBSET S /\ \A s \in SUBSET S : h[s] = DedupStep(file, h, s)
      /\ g = [s \in SUBSET S |-> g[s]] /\ h = [s \in SUBSET S |-> h[s]]
  BY DEF IsDedupTable
<1> DEFINE Good == {s \in SUBSET S : g[s] = h[s]}
<1>1. ASSUME NEW s \in SUBSET S, \A t \in SUBSET s : t # s => t \in Good PROVE s \in Good
  <2>1. CASE s = {} BY <1>0, <2>1 DEF DedupStep
  <2>2. CASE s # {}
    <3>1. Max(s) \in s BY <2>2, MaxIsIn
    <3>2. s \ {Max(s)} \in Good BY <1>1, <3>1
    <3>3. DedupStep(file, g, s) = DedupStep(file, h, s) BY <3>2 DEF DedupStep
    <3> QED BY <1>0, <3>3
  <2> QED BY <2>1, <2>2
<1> HIDE DEF Good
<1>2. IsFiniteSet(S)
  <2>1. IsFiniteSet(0 .. n) BY FS_Interval
  <2> QED BY <2>1, FS_Subset
<1>3. \A s \in SUBSET S : s \in Good BY <1>1, <1>2, SubsetsInduct
<1>4. \A s \in SUBSET S : g[s] = h[s] BY <1>3 DEF Good
<1> QED BY <1>0, <1>4

(* The fold takes the rows from the last to the first. *)
LEMMA DedupUnfolds ==
  ASSUME NEW file, NEW n \in Nat, NEW S, S \subseteq 0 .. n
  PROVE  DedupOn(file, S) =
           IF S = {} THEN <<>> ELSE KeptOf(DedupOn(file, S \ {Max(S)}), file[Max(S)])
<1> DEFINE On(s) == DedupOn(file, s)
           Rhs(s) == IF s = {} THEN <<>> ELSE KeptOf(On(s \ {Max(s)}), file[Max(s)])
           Good == {s \in SUBSET S : On(s) = Rhs(s)}
<1>1. ASSUME NEW s \in SUBSET S, \A t \in SUBSET s : t # s => t \in Good PROVE s \in Good
  <2> DEFINE g == [t \in SUBSET s |-> Rhs(t)]
  <2>1. \A t \in SUBSET s : t # s => g[t] = On(t) BY <1>1
  <2>2. ASSUME NEW t \in SUBSET s PROVE g[t] = DedupStep(file, g, t)
    <3>1. CASE t = {} BY <3>1 DEF DedupStep
    <3>2. CASE t # {}
      <4>1. Max(t) \in t BY <3>2, MaxIsIn
      <4>2. g[t \ {Max(t)}] = On(t \ {Max(t)}) BY <2>1, <4>1
      <4> QED BY <3>2, <4>2 DEF DedupStep
    <3> QED BY <3>1, <3>2
  <2>3. g = [t \in SUBSET s |-> g[t]] OBVIOUS
  <2>4. s \in SUBSET s /\ g[s] = Rhs(s) OBVIOUS
  <2> HIDE DEF g
  <2>5. IsDedupTable(file, s, g) BY <2>2, <2>3 DEF IsDedupTable
  <2> DEFINE h == DedupTable(file, s)
  <2>6. IsDedupTable(file, s, h) BY <2>5 DEF DedupTable
  <2>7. On(s) = h[s] BY DEF DedupOn
  <2> HIDE DEF h
  <2>8. s \subseteq 0 .. n OBVIOUS
  <2>9. h = g BY <2>5, <2>6, <2>8, DedupTableIsUnique
  <2> QED BY <2>4, <2>7, <2>9
<1> HIDE DEF Good
<1>2. IsFiniteSet(S)
  <2>1. IsFiniteSet(0 .. n) BY FS_Interval
  <2> QED BY <2>1, FS_Subset
<1>3. S \in Good BY <1>1, <1>2, SubsetsInduct
<1> QED BY <1>3 DEF Good

LEMMA DedupNext ==
  ASSUME NEW file, NEW k \in Nat
  PROVE  DedupOn(file, 1 .. (k + 1)) = KeptOf(DedupOn(file, 1 .. k), file[k + 1])
<1> DEFINE S == 1 .. (k + 1)
<1>1. S \subseteq 0 .. (k + 1) /\ S # {} /\ k + 1 \in S /\ S \ {k + 1} = 1 .. k OBVIOUS
<1>2. \A x \in S : x <= k + 1 OBVIOUS
<1> HIDE DEF S
<1>3. Max(S) \in S /\ \A x \in S : x <= Max(S) BY <1>1, MaxIsIn
<1>4. Max(S) = k + 1
  <2>1. Max(S) <= k + 1 /\ k + 1 <= Max(S) BY <1>1, <1>2, <1>3
  <2>2. Max(S) \in Nat BY <1>1, <1>3
  <2> QED BY <2>1, <2>2
<1>5. DedupOn(file, S) = KeptOf(DedupOn(file, S \ {Max(S)}), file[Max(S)])
  BY <1>1, DedupUnfolds
<1> QED BY <1>1, <1>4, <1>5 DEF S

LEMMA DedupFirst == ASSUME NEW file PROVE DedupOn(file, 1 .. 0) = <<>>
<1>1. 1 .. 0 = {} /\ 1 .. 0 \subseteq 0 .. 0 OBVIOUS
<1> QED BY <1>1, DedupUnfolds

(* Every row is kept once, under its id. *)
KeptOnce(kept, file, n) ==
  /\ \A a \in DOMAIN kept : \E i \in 1 .. n : kept[a] = file[i]
  /\ \A i \in 1 .. n : \E a \in DOMAIN kept : kept[a].id = file[i].id
  /\ \A a, b \in DOMAIN kept : kept[a].id = kept[b].id => a = b

LEMMA DedupedKeepsOnce ==
  ASSUME NEW R, NEW file \in Seq(R)
  PROVE  Deduped(file) \in Seq(R) /\ KeptOnce(Deduped(file), file, Len(file))
<1> DEFINE n == Len(file)
           Kept(k) == DedupOn(file, 1 .. k)
           Good == {k \in Nat : k <= n => Kept(k) \in Seq(R) /\ KeptOnce(Kept(k), file, k)}
<1>0. n \in Nat /\ DOMAIN file = 1 .. n /\ \A i \in 1 .. n : file[i] \in R OBVIOUS
<1> HIDE DEF n
<1>1. 0 \in Good
  <2>1. Kept(0) = <<>> BY DedupFirst
  <2>2. <<>> \in Seq(R) /\ DOMAIN <<>> = {} OBVIOUS
  <2>3. 1 .. 0 = {} OBVIOUS
  <2>4. KeptOnce(<<>>, file, 0) BY <2>2, <2>3 DEF KeptOnce
  <2> QED BY <2>1, <2>2, <2>4
<1>2. ASSUME NEW k \in Nat, k \in Good PROVE k + 1 \in Good
  <2> SUFFICES ASSUME k + 1 <= n
               PROVE  Kept(k + 1) \in Seq(R) /\ KeptOnce(Kept(k + 1), file, k + 1)
    OBVIOUS
  <2>1. k + 1 \in 1 .. n /\ file[k + 1] \in R BY <1>0
  <2> DEFINE old == Kept(k)
             new == Kept(k + 1)
             row == file[k + 1]
  <2>2. old \in Seq(R) /\ KeptOnce(old, file, k) BY <1>2, <1>0, <2>1
  <2>3. new = KeptOf(old, row) BY DedupNext
  <2>4. 1 .. (k + 1) = (1 .. k) \cup {k + 1} OBVIOUS
  <2> HIDE DEF old, new, Kept, Good
  <2>5. CASE \E a \in DOMAIN old : old[a].id = row.id
    <3>1. new = old BY <2>3, <2>5 DEF KeptOf
    <3>2. KeptOnce(old, file, k + 1) BY <2>2, <2>4, <2>5 DEF KeptOnce
    <3> QED BY <2>2, <3>1, <3>2 DEF new
  <2>6. CASE ~ \E a \in DOMAIN old : old[a].id = row.id
    <3>1. new = Append(old, row) BY <2>3, <2>6 DEF KeptOf
    <3> DEFINE m == Len(old)
    <3>2. /\ new \in Seq(R) /\ m \in Nat
          /\ DOMAIN old = 1 .. m /\ DOMAIN new = (1 .. m) \cup {m + 1} /\ m + 1 \notin 1 .. m
          /\ \A a \in 1 .. m : new[a] = old[a]
          /\ new[m + 1] = row
      <4>0. row \in R BY <2>1
      <4>1. new \in Seq(R) /\ Len(new) = m + 1 /\ m \in Nat BY <2>2, <3>1, <4>0
      <4>2. DOMAIN new = 1 .. (m + 1) /\ DOMAIN old = 1 .. m BY <2>2, <4>1
      <4>3. \A a \in 1 .. m : new[a] = old[a] BY <2>2, <3>1, <4>0
      <4>4. new[m + 1] = row BY <2>2, <3>1, <4>0
      <4> QED BY <4>1, <4>2, <4>3, <4>4
    <3> HIDE DEF m
    <3>3. ASSUME NEW a \in DOMAIN new PROVE \E i \in 1 .. (k + 1) : new[a] = file[i]
      <4>1. CASE a = m + 1 BY <2>4, <3>2, <4>1
      <4>2. CASE a \in 1 .. m
        <5>1. PICK i \in 1 .. k : old[a] = file[i] BY <2>2, <3>2, <4>2 DEF KeptOnce
        <5> QED BY <2>4, <3>2, <4>2, <5>1
      <4> QED BY <3>2, <4>1, <4>2
    <3>4. ASSUME NEW i \in 1 .. (k + 1) PROVE \E a \in DOMAIN new : new[a].id = file[i].id
      <4>1. CASE i = k + 1 BY <3>2, <4>1
      <4>2. CASE i \in 1 .. k
        <5>1. PICK a \in DOMAIN old : old[a].id = file[i].id BY <2>2, <4>2 DEF KeptOnce
        <5> QED BY <3>2, <5>1
      <4> QED BY <2>4, <4>1, <4>2
    <3>5. \A a, b \in DOMAIN new : new[a].id = new[b].id => a = b
      BY <2>2, <2>6, <3>2 DEF KeptOnce
    <3>6. KeptOnce(new, file, k + 1) BY <3>3, <3>4, <3>5 DEF KeptOnce
    <3> QED BY <3>2, <3>6 DEF new
  <2> QED BY <2>5, <2>6
<1> HIDE DEF Good
<1>3. n \in Good BY <1>0, <1>1, <1>2, NatInduct
<1>4. Deduped(file) = Kept(n) BY <1>0, DedupIsTable
<1> QED BY <1>0, <1>3, <1>4 DEF Good, n

(* The place of a row among all rows of a file, by its time.                *)
Earlier(U, x) == {y \in U : y.at < x.at}
PlaceIn(U, x) == 1 + Cardinality(Earlier(U, x))
Timed(U) == /\ IsFiniteSet(U)
            /\ \A x \in U : x.at \in Nat
            /\ \A x, y \in U : x.at = y.at => x = y

LEMMA PlacesAreTaken ==
  ASSUME NEW U, Timed(U)
  PROVE  /\ Cardinality(U) \in Nat
         /\ \A x \in U : PlaceIn(U, x) \in 1 .. Cardinality(U)
         /\ \A x, y \in U : PlaceIn(U, x) = PlaceIn(U, y) => x = y
         /\ \A r \in 1 .. Cardinality(U) : \E x \in U : PlaceIn(U, x) = r
<1> DEFINE n == Cardinality(U)
<1>0. n \in Nat /\ IsFiniteSet(U) BY FS_CardinalityType DEF Timed
<1> HIDE DEF n
<1>1. ASSUME NEW x \in U
      PROVE  /\ IsFiniteSet(Earlier(U, x)) /\ Cardinality(Earlier(U, x)) \in Nat
             /\ PlaceIn(U, x) \in 1 .. n
  <2>1. Earlier(U, x) \in SUBSET U /\ x \notin Earlier(U, x) /\ x \in U
    BY DEF Earlier, Timed
  <2>2. /\ IsFiniteSet(Earlier(U, x)) /\ Cardinality(Earlier(U, x)) <= n
        /\ Cardinality(Earlier(U, x)) # n
    BY <1>0, <2>1, FS_Subset DEF n
  <2>3. Cardinality(Earlier(U, x)) \in Nat BY <2>2, FS_CardinalityType
  <2> QED BY <1>0, <2>2, <2>3 DEF PlaceIn
<1>2. ASSUME NEW x \in U, NEW y \in U, x.at < y.at PROVE PlaceIn(U, x) # PlaceIn(U, y)
  <2>1. /\ Earlier(U, x) \in SUBSET Earlier(U, y)
        /\ x \in Earlier(U, y) /\ x \notin Earlier(U, x)
    BY <1>2 DEF Earlier, Timed
  <2>2. Cardinality(Earlier(U, x)) # Cardinality(Earlier(U, y))
    BY <1>1, <2>1, FS_Subset
  <2> QED BY <1>1, <2>2 DEF PlaceIn
<1>3. ASSUME NEW x \in U, NEW y \in U, PlaceIn(U, x) = PlaceIn(U, y) PROVE x = y
  <2>1. ~ (x.at < y.at) /\ ~ (y.at < x.at) BY <1>2, <1>3
  <2>2. x.at = y.at BY <2>1 DEF Timed
  <2> QED BY <2>2 DEF Timed
<1> DEFINE f == [x \in U |-> PlaceIn(U, x)]
<1>4. f \in Injection(U, 1 .. n)
  BY <1>1, <1>3 DEF Injection, IsInjective
<1>5. IsFiniteSet(1 .. n) /\ Cardinality(1 .. n) = n
  <2>1. 1 \in Int /\ n \in Int /\ (1 > n <=> n = 0) /\ n - 1 + 1 = n BY <1>0
  <2> QED BY <2>1, FS_Interval
<1> HIDE DEF f
<1>6. f \in Surjection(U, 1 .. n) BY <1>0, <1>4, <1>5, FS_Injection DEF n
<1>7. ASSUME NEW r \in 1 .. n PROVE \E x \in U : PlaceIn(U, x) = r
  BY <1>6 DEF Surjection, f
<1> QED BY <1>0, <1>1, <1>3, <1>7 DEF n

RowsOf(file) == {file[i] : i \in DOMAIN file}
InTime(U) == [r \in 1 .. Cardinality(U) |-> CHOOSE x \in U : PlaceIn(U, x) = r]

LEMMA SortedIsInTime ==
  ASSUME NEW R, \A row \in R : row.at \in Nat, NEW file \in Seq(R),
         \A i, j \in DOMAIN file : file[i].at = file[j].at => i = j
  PROVE  Sorted(file) = InTime(RowsOf(file))
<1> DEFINE n == Len(file)
           U == RowsOf(file)
           Before(i, j) == \/ file[i].at < file[j].at
                           \/ file[i].at = file[j].at /\ i < j
           Sooner(i) == {j \in DOMAIN file : Before(j, i)}
           Rank(i) == 1 + Cardinality(Sooner(i))
<1>0. /\ n \in Nat /\ DOMAIN file = 1 .. n
      /\ \A i \in 1 .. n : file[i] \in U /\ file[i].at \in Nat
      /\ \A x \in U : \E i \in 1 .. n : x = file[i]
  BY DEF RowsOf
<1>1. Sorted(file) = [r \in 1 .. n |-> file[CHOOSE i \in 1 .. n : Rank(i) = r]]
  BY <1>0 DEF Sorted
<1> HIDE DEF n, U
<1>2. Timed(U) /\ Cardinality(U) = n
  <2> DEFINE f == [i \in 1 .. n |-> file[i]]
  <2>1. f \in Bijection(1 .. n, U)
    BY <1>0 DEF Bijection, Injection, Surjection, IsInjective
  <2>2. IsFiniteSet(1 .. n) /\ Cardinality(1 .. n) = n
    <3>1. 1 \in Int /\ n \in Int /\ (1 > n <=> n = 0) /\ n - 1 + 1 = n BY <1>0
    <3> QED BY <3>1, FS_Interval
  <2>3. ExistsBijection(1 .. n, U) BY <2>1 DEF ExistsBijection
  <2>4. IsFiniteSet(U) /\ Cardinality(U) = n BY <2>2, <2>3, FS_Bijection
  <2>5. ASSUME NEW x \in U, NEW y \in U, x.at = y.at PROVE x = y
    <3>1. PICK i \in 1 .. n : x = file[i] BY <1>0
    <3>2. PICK j \in 1 .. n : y = file[j] BY <1>0
    <3>3. i = j BY <1>0, <2>5, <3>1, <3>2
    <3> QED BY <3>1, <3>2, <3>3
  <2>6. ASSUME NEW x \in U PROVE x.at \in Nat
    <3>1. PICK i \in 1 .. n : x = file[i] BY <1>0
    <3> QED BY <1>0, <3>1
  <2> QED BY <2>4, <2>5, <2>6 DEF Timed
<1>3. ASSUME NEW i \in 1 .. n PROVE Rank(i) = PlaceIn(U, file[i])
  <2> DEFINE J == Sooner(i)
             E == Earlier(U, file[i])
             f == [j \in J |-> file[j]]
  <2>1. J = {j \in 1 .. n : file[j].at < file[i].at} BY <1>0
  <2>2. E = {y \in U : y.at < file[i].at} BY DEF Earlier
  <2> HIDE DEF J, E
  <2>3. f \in Bijection(J, E)
    <3>1. f \in [J -> E] BY <1>0, <2>1, <2>2
    <3>2. ASSUME NEW x \in E PROVE \E j \in J : f[j] = x BY <1>0, <2>1, <2>2
    <3>3. \A j, k \in J : f[j] = f[k] => j = k BY <1>0, <2>1
    <3> HIDE DEF f
    <3> QED BY <3>1, <3>2, <3>3 DEF Bijection, Injection, Surjection, IsInjective
  <2>4. ExistsBijection(J, E) BY <2>3 DEF ExistsBijection
  <2>5. IsFiniteSet(J)
    <3>1. IsFiniteSet(1 .. n) BY <1>0, FS_Interval
    <3> QED BY <2>1, <3>1, FS_Subset
  <2>6. Cardinality(J) = Cardinality(E) BY <2>4, <2>5, FS_Bijection
  <2> QED BY <2>6 DEF J, E, PlaceIn
<1> HIDE DEF Rank
<1>4. ASSUME NEW r \in 1 .. n
      PROVE  file[CHOOSE i \in 1 .. n : Rank(i) = r] = CHOOSE x \in U : PlaceIn(U, x) = r
  <2>1. PICK x \in U : PlaceIn(U, x) = r BY <1>2, PlacesAreTaken
  <2>2. PICK i \in 1 .. n : x = file[i] BY <1>0
  <2>3. Rank(i) = r BY <1>3, <2>1, <2>2
  <2> DEFINE k == CHOOSE j \in 1 .. n : Rank(j) = r
             y == CHOOSE z \in U : PlaceIn(U, z) = r
  <2>4. k \in 1 .. n /\ Rank(k) = r BY <2>3
  <2>5. y \in U /\ PlaceIn(U, y) = r BY <2>1
  <2> HIDE DEF k, y
  <2>6. file[k] \in U /\ PlaceIn(U, file[k]) = r BY <1>0, <1>3, <2>4
  <2>7. file[k] = y BY <1>2, <2>5, <2>6, PlacesAreTaken
  <2> QED BY <2>7 DEF k, y
<1> QED BY <1>1, <1>2, <1>4 DEF InTime, U

(* Two files of the same rows, no two of one time, are sorted alike. *)
LEMMA SameRowsSameOrder ==
  ASSUME NEW R, \A row \in R : row.at \in Nat, NEW a \in Seq(R), NEW b \in Seq(R),
         RowsOf(a) = RowsOf(b),
         \A i, j \in DOMAIN a : a[i].at = a[j].at => i = j,
         \A i, j \in DOMAIN b : b[i].at = b[j].at => i = j
  PROVE  Sorted(a) = Sorted(b)
BY SortedIsInTime

IdsNameRows(file) == \A i, j \in DOMAIN file : file[i].id = file[j].id => file[i] = file[j]
TimesNameIds(file) ==
  \A i, j \in DOMAIN file : file[i].at = file[j].at => file[i].id = file[j].id

LEMMA DedupedIsWhole ==
  ASSUME NEW R, NEW file \in Seq(R), IdsNameRows(file), TimesNameIds(file)
  PROVE  /\ Deduped(file) \in Seq(R) /\ RowsOf(Deduped(file)) = RowsOf(file)
         /\ \A a, b \in DOMAIN Deduped(file) :
              Deduped(file)[a].at = Deduped(file)[b].at => a = b
<1> DEFINE kept == Deduped(file)
           n == Len(file)
<1>1. kept \in Seq(R) /\ KeptOnce(kept, file, n) BY DedupedKeepsOnce
<1>2. DOMAIN file = 1 .. n OBVIOUS
<1> HIDE DEF kept, n
<1>3. ASSUME NEW a \in DOMAIN kept PROVE \E i \in DOMAIN file : kept[a] = file[i]
  BY <1>1, <1>2 DEF KeptOnce
<1>4. ASSUME NEW i \in DOMAIN file PROVE \E a \in DOMAIN kept : kept[a] = file[i]
  <2>1. PICK a \in DOMAIN kept : kept[a].id = file[i].id BY <1>1, <1>2 DEF KeptOnce
  <2>2. PICK j \in DOMAIN file : kept[a] = file[j] BY <1>3
  <2>3. file[j] = file[i] BY <2>1, <2>2 DEF IdsNameRows
  <2> QED BY <2>2, <2>3
<1>5. RowsOf(kept) = RowsOf(file) BY <1>3, <1>4 DEF RowsOf
<1>6. ASSUME NEW a \in DOMAIN kept, NEW b \in DOMAIN kept, kept[a].at = kept[b].at PROVE a = b
  <2>1. PICK i \in DOMAIN file : kept[a] = file[i] BY <1>3
  <2>2. PICK j \in DOMAIN file : kept[b] = file[j] BY <1>3
  <2>3. kept[a].id = kept[b].id BY <1>6, <2>1, <2>2 DEF TimesNameIds
  <2> QED BY <1>1, <2>3 DEF KeptOnce
<1> QED BY <1>1, <1>5, <1>6 DEF kept

LEMMA ReverseHasTheSame ==
  ASSUME NEW R, NEW file \in Seq(R)
  PROVE  /\ Reverse(file) \in Seq(R) /\ RowsOf(Reverse(file)) = RowsOf(file)
         /\ FileValid(Reverse(file)) <=> FileValid(file)
         /\ TimesNameIds(file) => TimesNameIds(Reverse(file))
<1> DEFINE n == Len(file)
           back == Reverse(file)
<1>1. n \in Nat /\ DOMAIN file = 1 .. n /\ \A i \in 1 .. n : file[i] \in R OBVIOUS
<1>2. DOMAIN back = 1 .. n /\ \A i \in 1 .. n : back[i] = file[n - i + 1] BY DEF Reverse
<1>3. back = [i \in 1 .. n |-> file[n - i + 1]] BY DEF Reverse
<1> HIDE DEF n, back
<1>4. \A i \in 1 .. n : n - i + 1 \in 1 .. n /\ n - (n - i + 1) + 1 = i BY <1>1
<1>5. back \in Seq(R) BY <1>1, <1>3, <1>4
<1>6. \A i \in 1 .. n : file[i] = back[n - i + 1] BY <1>2, <1>4
<1>7. RowsOf(back) = RowsOf(file) BY <1>1, <1>2, <1>4, <1>6 DEF RowsOf
<1>8. ASSUME FileValid(file) PROVE FileValid(back)
  <2>1. ASSUME NEW j \in 1 .. n, NEW k \in 1 .. n, back[j].id = back[k].id PROVE j = k
    <3>1. n - j + 1 = n - k + 1 BY <1>1, <1>2, <1>4, <1>8, <2>1 DEF FileValid
    <3> QED BY <1>4, <3>1
  <2> QED BY <1>1, <1>2, <1>4, <1>8, <2>1 DEF FileValid
<1>9. ASSUME FileValid(back) PROVE FileValid(file)
  <2>1. ASSUME NEW j \in 1 .. n, NEW k \in 1 .. n, file[j].id = file[k].id PROVE j = k
    <3>1. n - j + 1 = n - k + 1 BY <1>2, <1>4, <1>6, <1>9, <2>1 DEF FileValid
    <3> QED BY <1>4, <3>1
  <2> QED BY <1>1, <1>2, <1>4, <1>6, <1>9, <2>1 DEF FileValid
<1>10. ASSUME TimesNameIds(file) PROVE TimesNameIds(back)
  BY <1>1, <1>2, <1>4, <1>10 DEF TimesNameIds
<1> QED BY <1>5, <1>7, <1>8, <1>9, <1>10 DEF back

(* A valid file in the opposite order reduces to the same state. *)
LEMMA ReverseReadsAlike ==
  ASSUME NEW file \in Seq(ValidRows), \A i, j \in DOMAIN file : file[i].at = file[j].at => i = j
  PROVE  Read(Reverse(file)) = Read(file)
<1> DEFINE back == Reverse(file)
           one == Deduped(file)
           other == Deduped(back)
<1>1. TimesNameIds(file) BY DEF TimesNameIds
<1>2. /\ back \in Seq(ValidRows) /\ RowsOf(back) = RowsOf(file)
      /\ FileValid(back) <=> FileValid(file)
      /\ TimesNameIds(back)
  BY <1>1, ReverseHasTheSame
<1> HIDE DEF back
<1>3. CASE ~ FileValid(file) BY <1>2, <1>3 DEF Read, back
<1>4. CASE FileValid(file)
  <2>1. IdsNameRows(file) /\ IdsNameRows(back) BY <1>2, <1>4 DEF FileValid, IdsNameRows
  <2>2. /\ one \in Seq(ValidRows) /\ RowsOf(one) = RowsOf(file)
        /\ \A a, b \in DOMAIN one : one[a].at = one[b].at => a = b
    BY <1>1, <2>1, DedupedIsWhole
  <2>3. /\ other \in Seq(ValidRows) /\ RowsOf(other) = RowsOf(back)
        /\ \A a, b \in DOMAIN other : other[a].at = other[b].at => a = b
    BY <1>2, <2>1, DedupedIsWhole
  <2>4. \A row \in ValidRows : row.at \in Nat BY DEF ValidRows, Rows
  <2>5. Sorted(one) = Sorted(other) BY <1>2, <2>2, <2>3, <2>4, SameRowsSameOrder
  <2>6. Reduce(back) = Reduce(file) BY <2>5 DEF Reduce
  <2> QED BY <1>2, <1>4, <2>6 DEF Read, back
<1> QED BY <1>3, <1>4

(* A repeated id on file, or in hand, comes from a writer that had read the  *)
(* file before the other row was in it; random ids are never repeated.      *)
Held(w) == pending[w] # NoRow
RepeatRaced(row, i) == row.seen < i
RaceInv ==
  /\ FileInv
  /\ \A i, j \in DOMAIN ledger : i < j /\ ledger[i].id = ledger[j].id => RepeatRaced(ledger[j], i)
  /\ \A k \in DOMAIN ledger : ledger[k].id <= built
  /\ \A w \in Writer : Held(w) =>
       /\ pending[w].id <= built /\ pending[w].seen <= Len(ledger)
       /\ \A k \in DOMAIN ledger : ledger[k].id = pending[w].id => RepeatRaced(pending[w], k)
       /\ \A v \in Writer : Held(v) /\ v # w /\ pending[v].id = pending[w].id => pending[w].id < 0

LEMMA RacesAreKept == RaceInv /\ [GateNext]_gateVars => RaceInv'
<1> SUFFICES ASSUME RaceInv, [GateNext]_gateVars PROVE RaceInv' OBVIOUS
<1>0. FileInv /\ FileInv' BY GateNextKeeps DEF RaceInv
<1> DEFINE n == Len(ledger)
<1>a. n \in Nat /\ DOMAIN ledger = 1 .. n /\ built \in Nat BY <1>0 DEF FileInv
<1>b. \A w \in Writer : Held(w) => pending[w] \in ValidRows BY <1>0 DEF FileInv, Held
<1>c. \A k \in 1 .. n : ledger[k] \in ValidRows BY <1>0, <1>a DEF FileInv
<1>d. \A row \in ValidRows : row.id \in Int /\ row.seen \in Nat BY DEF ValidRows, Rows
<1> HIDE DEF n
<1>1. ASSUME NEW w \in Writer, AppendRow(w) PROVE RaceInv'
  <2> DEFINE row == pending[w]
  <2>1. Held(w) /\ row \in ValidRows /\ built' = built
    BY <1>1, <1>b DEF AppendRow, Held
  <2>2. \A v \in Writer : Held(v)' => v # w /\ Held(v) /\ pending'[v] = pending[v]
    BY <1>0, <1>1 DEF AppendRow, Held, FileInv
  <2>3. /\ DOMAIN ledger' = 1 .. (n + 1) /\ Len(ledger') = n + 1
        /\ \A k \in 1 .. n : ledger'[k] = ledger[k]
        /\ ledger'[n + 1] = row
    <3>1. ledger' = Append(ledger, row) /\ ledger \in Seq(ValidRows)
      BY <1>0, <1>1 DEF AppendRow, FileInv
    <3>2. ledger' \in Seq(ValidRows) /\ Len(ledger') = n + 1 BY <2>1, <3>1 DEF n
    <3> HIDE DEF row
    <3> QED BY <1>a, <2>1, <3>1, <3>2 DEF n
  <2>4. /\ row.id <= built /\ row.seen <= n
        /\ \A k \in 1 .. n : ledger[k].id = row.id => RepeatRaced(row, k)
        /\ \A v \in Writer : Held(v) /\ v # w /\ pending[v].id = row.id => row.id < 0
    BY <1>a, <2>1 DEF RaceInv, n
  <2> HIDE DEF row
  <2>5. ASSUME NEW i \in 1 .. (n + 1), NEW j \in 1 .. (n + 1), i < j, ledger'[i].id = ledger'[j].id
        PROVE  RepeatRaced(ledger'[j], i)
    <3>1. i \in 1 .. n BY <1>a, <2>5
    <3>2. CASE j = n + 1 BY <2>3, <2>4, <2>5, <3>1, <3>2
    <3>3. CASE j \in 1 .. n BY <1>a, <2>3, <2>5, <3>1, <3>3 DEF RaceInv
    <3> QED BY <1>a, <3>2, <3>3
  <2>6. \A k \in 1 .. (n + 1) : ledger'[k].id <= built
    <3>1. \A k \in 1 .. (n + 1) : k = n + 1 \/ k \in 1 .. n BY <1>a
    <3> QED BY <1>a, <2>3, <2>4, <3>1 DEF RaceInv
  <2>7. ASSUME NEW v \in Writer, Held(v)'
        PROVE  /\ pending'[v].id <= built /\ pending'[v].seen <= n + 1
               /\ \A k \in 1 .. (n + 1) : ledger'[k].id = pending'[v].id => RepeatRaced(pending'[v], k)
               /\ \A u \in Writer : Held(u)' /\ u # v /\ pending'[u].id = pending'[v].id
                                    => pending'[v].id < 0
    <3>1. v # w /\ Held(v) /\ pending'[v] = pending[v] /\ pending[v] \in ValidRows
      BY <1>b, <2>2, <2>7
    <3>2. /\ pending[v].id <= built /\ pending[v].seen \in Nat /\ pending[v].seen <= n
          /\ \A k \in 1 .. n : ledger[k].id = pending[v].id => RepeatRaced(pending[v], k)
          /\ \A u \in Writer : Held(u) /\ u # v /\ pending[u].id = pending[v].id => pending[v].id < 0
      BY <1>a, <1>d, <3>1 DEF RaceInv, n
    <3>3. pending[v].seen < n + 1 BY <1>a, <3>2
    <3>4. \A k \in 1 .. (n + 1) : ledger'[k].id = pending[v].id => RepeatRaced(pending[v], k)
      <4>1. \A k \in 1 .. (n + 1) : k = n + 1 \/ k \in 1 .. n BY <1>a
      <4> QED BY <2>3, <3>2, <3>3, <4>1 DEF RepeatRaced
    <3> QED BY <1>a, <2>2, <3>1, <3>2, <3>3, <3>4
  <2> QED BY <1>0, <2>1, <2>3, <2>5, <2>6, <2>7 DEF RaceInv
<1>2. ASSUME NEW w \in Writer, NEW row \in ValidRows, Stamp(w, row),
             \/ row.id = built + 1
             \/ row.id < 0 /\ row.seen = n /\ \A k \in DOMAIN ledger : ledger[k].id # row.id,
             row.seen <= n
      PROVE  RaceInv'
  <2>1. /\ ledger' = ledger /\ built' = built + 1
        /\ pending'[w] = row
        /\ \A v \in Writer : v # w => pending'[v] = pending[v]
        /\ \A v \in Writer : v # w => (Held(v)' <=> Held(v))
    BY <1>0, <1>2 DEF Stamp, FileInv, Held
  <2>2. \A k \in 1 .. n : ledger[k].id \in Int /\ ledger[k].id <= built /\ ledger[k].id # row.id
    BY <1>2, <1>a, <1>c, <1>d DEF RaceInv
  <2>3. \A v \in Writer : Held(v) => /\ pending[v].id \in Int /\ pending[v].id <= built
                                     /\ pending[v].id = row.id => row.id < 0
    BY <1>2, <1>a, <1>b, <1>d DEF RaceInv
  <2>4. row.id \in Int /\ row.id <= built + 1 BY <1>2, <1>a, <1>d
  <2>5. \A k \in 1 .. n : ledger[k].id <= built + 1 BY <1>a, <2>2
  <2>6. \A v \in Writer : Held(v) => pending[v].id <= built + 1 BY <1>a, <2>3
  <2>7. ASSUME NEW v \in Writer, Held(v)'
        PROVE  /\ pending'[v].id <= built + 1 /\ pending'[v].seen <= n
               /\ \A k \in 1 .. n : ledger[k].id = pending'[v].id => RepeatRaced(pending'[v], k)
               /\ \A u \in Writer : Held(u)' /\ u # v /\ pending'[u].id = pending'[v].id
                                    => pending'[v].id < 0
    <3>1. CASE v = w
      <4>1. pending'[v] = row BY <2>1, <3>1
      <4>2. \A u \in Writer : Held(u)' /\ u # v /\ pending'[u].id = row.id => row.id < 0
        BY <2>1, <2>3, <3>1
      <4>3. \A k \in 1 .. n : ledger[k].id # row.id BY <2>2
      <4> QED BY <1>2, <2>4, <4>1, <4>2, <4>3
    <3>2. CASE v # w
      <4>1. Held(v) /\ pending'[v] = pending[v] BY <2>1, <2>7, <3>2
      <4>2. \A u \in Writer : Held(u)' /\ u # v /\ pending'[u].id = pending[v].id => pending[v].id < 0
        <5>1. ASSUME pending'[w].id = pending[v].id PROVE pending[v].id < 0
          <6>1. row.id = pending[v].id BY <2>1, <5>1
          <6>2. row.id < 0 BY <2>3, <4>1, <6>1
          <6> QED BY <6>1, <6>2
        <5>2. ASSUME NEW u \in Writer, u # w, Held(u)', u # v, pending'[u].id = pending[v].id
              PROVE  pending[v].id < 0
          <6>1. Held(u) /\ pending[u].id = pending[v].id BY <2>1, <5>2
          <6> QED BY <4>1, <5>2, <6>1 DEF RaceInv
        <5> QED BY <5>1, <5>2
      <4> QED BY <1>a, <2>6, <4>1, <4>2 DEF RaceInv, n
    <3> QED BY <3>1, <3>2
  <2> QED BY <1>0, <1>a, <2>1, <2>5, <2>7 DEF RaceInv, n
<1>3. ASSUME NEW w \in Writer, BuildRow(w) PROVE RaceInv'
  <2>1. PICK kind \in Kinds, needs \in BOOLEAN : Stamp(w, Row(built + 1, kind, needs, NoCard))
    BY <1>3 DEF BuildRow
  <2> DEFINE row == Row(built + 1, kind, needs, NoCard)
  <2>2. row \in ValidRows BY <1>0, BuiltIsValid
  <2>3. row.id = built + 1 /\ row.seen = 0 BY DEF Row
  <2> HIDE DEF row
  <2>4. row.seen <= n BY <1>a, <2>3
  <2> QED BY <1>2, <2>1, <2>2, <2>3, <2>4 DEF row
<1>4. ASSUME NEW w \in Writer, ReleaseGate(w) PROVE RaceInv'
  <2>1. PICK card \in Cards, made \in 0 .. MaxTime :
          GatePasses(card, made, clock) /\ Stamp(w, ReleaseRow(built + 1, card))
    BY <1>4 DEF ReleaseGate
  <2> DEFINE row == ReleaseRow(built + 1, card)
  <2>2. row \in ValidRows BY <1>0, <2>1, PassedIsValid, ReleaseIsValid
  <2>3. row.id = built + 1 /\ row.seen = 0 BY DEF ReleaseRow, Row
  <2> HIDE DEF row
  <2>4. row.seen <= n BY <1>a, <2>3
  <2> QED BY <1>2, <2>1, <2>2, <2>3, <2>4 DEF row
<1>5. ASSUME NEW w \in Writer, BuildKeyedRow(w) PROVE RaceInv'
  <2>1. PICK keyed \in KeyedRows :
          /\ Missing(keyed.id)
          /\ Stamp(w, [Row(keyed.id, keyed.kind, keyed.needs, NoCard) EXCEPT !.seen = Len(ledger)])
    BY <1>5 DEF BuildKeyedRow
  <2> DEFINE row == [Row(keyed.id, keyed.kind, keyed.needs, NoCard) EXCEPT !.seen = Len(ledger)]
  <2>2. row \in ValidRows BY <1>0, KeyedIsValid
  <2>3. row.id = keyed.id /\ row.seen = n BY DEF Row, n
  <2>4. keyed.id < 0 BY DEF KeyedRows
  <2>5. \A k \in DOMAIN ledger : ledger[k].id # row.id BY <2>1, <2>3 DEF Missing
  <2> HIDE DEF row
  <2>6. row.seen <= n BY <1>a, <2>3
  <2> QED BY <1>2, <2>1, <2>2, <2>3, <2>4, <2>5, <2>6 DEF row
<1>6. ASSUME NEW w \in Writer, WriterDies(w) PROVE RaceInv'
  <2>1. ledger' = ledger /\ built' = built BY <1>6 DEF WriterDies
  <2>2. \A v \in Writer : Held(v)' => Held(v) /\ pending'[v] = pending[v]
    BY <1>0, <1>6 DEF WriterDies, Held, FileInv
  <2> QED BY <1>0, <2>1, <2>2 DEF RaceInv
<1>7. ASSUME UNCHANGED <<ledger, pending, built>> PROVE RaceInv'
  BY <1>0, <1>7 DEF RaceInv, Held
<1> QED BY <1>1, <1>3, <1>4, <1>5, <1>6, <1>7 DEF GateNext, gateVars, TimePasses

(* What readers of the event file get (validateAgentEventRows, then          *)
(* reduceAgentEvents) does not depend on the order in which processes append *)
(* what they stamped, and they are refused only after two overlapping runs   *)
(* of a tool that repeats its ids, for any writers, cards and clock.         *)
THEOREM ReductionStaysStable == GateSpec => []ReductionIsStable
<1>1. GateInit => RaceInv
  <2> SUFFICES ASSUME GateInit PROVE RaceInv OBVIOUS
  <2>1. FileInv BY GateInitInv
  <2>2. DOMAIN ledger = {} /\ \A w \in Writer : ~ Held(w) BY DEF GateInit, Held
  <2> QED BY <2>1, <2>2 DEF RaceInv
<1>2. RaceInv /\ [GateNext]_gateVars => RaceInv' BY RacesAreKept
<1>3. RaceInv => OrderDoesNotMatter
  BY ReverseReadsAlike DEF RaceInv, FileInv, OrderDoesNotMatter
<1>4. RaceInv => RefusedOnlyByRace
  <2> SUFFICES ASSUME RaceInv, ~ FileValid(ledger)
               PROVE  \E i, j \in DOMAIN ledger :
                        i < j /\ ledger[i].id = ledger[j].id /\ ledger[j].seen < i
    BY DEF RefusedOnlyByRace
  <2>2. \A k \in DOMAIN ledger : RowValid(ledger[k])
    BY DEF RaceInv, FileInv, ValidRows
  <2>3. PICK i \in DOMAIN ledger, j \in DOMAIN ledger : ledger[i].id = ledger[j].id /\ i # j
    BY <2>2 DEF FileValid
  <2>4. i \in Nat /\ j \in Nat BY DEF RaceInv, FileInv
  <2>5. CASE i < j BY <2>3, <2>5 DEF RaceInv, RepeatRaced
  <2>6. CASE j < i BY <2>3, <2>6 DEF RaceInv, RepeatRaced
  <2> QED BY <2>3, <2>4, <2>5, <2>6
<1>5. RaceInv => ReductionIsStable BY <1>3, <1>4 DEF ReductionIsStable
<1> QED BY <1>1, <1>2, <1>5, PTL DEF GateSpec

-----------------------------------------------------------------------------
(* FounderQueue: who is asked *)

Said == Posts("HG-4") \cup Posts("HG-3.5")
Asks == {"none", "sign", "review", "resume"}
MakerState ==
  [pc : {"rest", "fetch", "written"}, listed : Seq(Asked), todo : Seq(Asked),
   from : [Asked -> Nat], got : [Asked -> Seq(Said)], failed : SUBSET Asked,
   asks : [Asked -> Asks], primary : Seq(Asked), next : Seq(Asked)]

QueueTypeOK ==
  /\ talk \in [Asked -> Seq(Said)]
  /\ order \in Seq(Asked) /\ Range(order) = Asked
  /\ maker \in MakerState

(* The states of an item's thread since it had `from' comments. *)
Since(from, cs) == {SubSeq(cs, 1, n) : n \in from .. Len(cs)}

(* Every item is to be fetched, or was fetched in a state of this run.     *)
Fetched(me, talks) ==
  \A i \in Asked :
    i \in Range(me.todo) \/ i \in me.failed \/ me.got[i] \in Since(me.from[i], talks[i])

(* The artifact shows the first of all asks in some order, each the answer *)
(* to a state of this run.                                                 *)
Shows(me, talks) ==
  /\ \E ranked \in Seq(Asked) :
       /\ IsInjective(ranked) /\ Range(ranked) = {i \in Asked : me.asks[i] # "none"}
       /\ me.primary = Split(ranked)[1] /\ me.next = Split(ranked)[2]
  /\ \A i \in Asked \ me.failed : \E cs \in Since(me.from[i], talks[i]) : me.asks[i] = AskOf(i, cs)

MakerKnows(me, talks) ==
  /\ me.pc # "rest" =>
       Range(me.listed) = Asked /\ \A i \in Asked : me.from[i] <= Len(talks[i])
  /\ me.pc = "fetch" => Fetched(me, talks)
  /\ me.pc = "written" => Shows(me, talks)

QueueInv == QueueTypeOK /\ MakerKnows(maker, talk)

(* A list is its first element and the rest. *)
LEMMA FirstAndRest ==
  ASSUME NEW S, NEW s \in Seq(S), s # <<>>
  PROVE  Range(s) \subseteq Range(Tail(s)) \cup {Head(s)}
<1> SUFFICES ASSUME NEW n \in DOMAIN s PROVE s[n] \in Range(Tail(s)) \cup {Head(s)}
  BY DEF Range
<1>1. CASE n = 1 BY <1>1
<1>2. CASE n # 1
  <2>1. n \in 1..Len(s) /\ Len(s) \in Nat OBVIOUS
  <2>2. Len(Tail(s)) = Len(s) - 1 /\ \A k \in 1..(Len(s) - 1) : Tail(s)[k] = s[k + 1]
    OBVIOUS
  <2>3. n - 1 \in 1..(Len(s) - 1) /\ (n - 1) + 1 = n BY <1>2, <2>1
  <2>4. n - 1 \in DOMAIN Tail(s) /\ Tail(s)[n - 1] = s[n] BY <2>2, <2>3
  <2> QED BY <2>4 DEF Range
<1> QED BY <1>1, <1>2

-----------------------------------------------------------------------------
LEMMA SinceGrows ==
  ASSUME NEW cs \in Seq(Said), NEW c, NEW from \in Nat
  PROVE  Since(from, cs) \subseteq Since(from, Append(cs, c))
<1> SUFFICES ASSUME NEW n \in from .. Len(cs)
             PROVE  SubSeq(cs, 1, n) \in Since(from, Append(cs, c))
  BY DEF Since
<1>1. n \in Nat /\ n <= Len(cs) /\ Len(cs) \in Nat OBVIOUS
<1>2. n \in from .. Len(Append(cs, c)) BY <1>1
<1>3. SubSeq(cs, 1, n) = SubSeq(Append(cs, c), 1, n) BY <1>1
<1> QED BY <1>2, <1>3 DEF Since

LEMMA NowIsSince ==
  ASSUME NEW cs \in Seq(Said), NEW from \in Nat, from <= Len(cs)
  PROVE  cs \in Since(from, cs)
<1>1. Len(cs) \in from .. Len(cs) /\ cs = SubSeq(cs, 1, Len(cs)) OBVIOUS
<1> QED BY <1>1 DEF Since

LEMMA AskIsAsk == ASSUME NEW i, NEW cs PROVE AskOf(i, cs) \in Asks
  BY DEF AskOf, Asks

(* What is on the two lists of the artifact, the second behind the first.  *)
LEMMA SplitShows ==
  ASSUME NEW ranked \in Seq(Asked)
  PROVE  /\ Split(ranked)[1] \in Seq(Asked) /\ Split(ranked)[2] \in Seq(Asked)
         /\ Range(Split(ranked)[1]) \cup Range(Split(ranked)[2]) =
              {ranked[n] : n \in 1 .. (IF TrackedCap < Len(ranked) THEN TrackedCap ELSE Len(ranked))}
<1> DEFINE len == Len(ranked)
           k == IF PrimaryCap < len THEN PrimaryCap ELSE len
           m == IF TrackedCap < len THEN TrackedCap ELSE len
           first == SubSeq(ranked, 1, k)
           second == SubSeq(ranked, PrimaryCap + 1, m)
<1>0. /\ PrimaryCap \in Nat /\ TrackedCap \in Nat /\ PrimaryCap <= TrackedCap /\ len \in Nat
  BY QueueCaps
<1>1. Split(ranked)[1] = first /\ Split(ranked)[2] = second BY DEF Split, Slice
<1>2. k \in 0..len /\ m \in 0..len /\ k <= m /\ k <= PrimaryCap /\ (k < len => k = PrimaryCap)
  BY <1>0
<1>3. \A n \in 1..len : ranked[n] \in Asked OBVIOUS
<1>4. first \in Seq(Asked) /\ DOMAIN first = 1..k /\ \A n \in 1..k : first[n] = ranked[n]
  BY <1>0, <1>2
<1>5. second \in Seq(Asked) BY <1>0, <1>2
<1>6. CASE PrimaryCap < m
  <2>1. /\ DOMAIN second = 1..(m - PrimaryCap) /\ k = PrimaryCap
        /\ \A n \in 1..(m - PrimaryCap) : second[n] = ranked[PrimaryCap + n]
    BY <1>0, <1>2, <1>6
  <2> HIDE DEF first, second, m, k, len
  <2>2. Range(first) = {ranked[n] : n \in 1..PrimaryCap} BY <1>4, <2>1 DEF Range
  <2>3. Range(second) = {ranked[n] : n \in PrimaryCap + 1 .. m}
    <3>1. \A n \in PrimaryCap + 1 .. m :
            n - PrimaryCap \in 1..(m - PrimaryCap) /\ PrimaryCap + (n - PrimaryCap) = n
      BY <1>0, <1>2, <1>6
    <3>2. \A n \in 1..(m - PrimaryCap) : PrimaryCap + n \in PrimaryCap + 1 .. m
      BY <1>0, <1>2, <1>6
    <3>3. \A n \in PrimaryCap + 1 .. m : ranked[n] = second[n - PrimaryCap] BY <2>1, <3>1
    <3> QED BY <2>1, <3>1, <3>2, <3>3 DEF Range
  <2>4. 1..m = (1..PrimaryCap) \cup (PrimaryCap + 1 .. m) BY <1>0, <1>2, <1>6
  <2> QED BY <1>1, <1>4, <1>5, <2>2, <2>3, <2>4 DEF m, len
<1>7. CASE ~ (PrimaryCap < m)
  <2>1. second = <<>> /\ k = m BY <1>0, <1>2, <1>7
  <2> HIDE DEF first, second, m, k, len
  <2>2. Range(first) = {ranked[n] : n \in 1..m} BY <1>4, <2>1 DEF Range
  <2>3. Range(second) = {} BY <2>1 DEF Range
  <2> QED BY <1>1, <1>4, <1>5, <2>2, <2>3 DEF m, len
<1> QED BY <1>6, <1>7

(* Somebody posts: what was fetched was there, and is still an early state. *)
LEMMA KnowsGrows ==
  ASSUME NEW talks, NEW later, NEW me \in MakerState, MakerKnows(me, talks),
         \A i \in Asked : /\ Since(me.from[i], talks[i]) \subseteq Since(me.from[i], later[i])
                          /\ me.from[i] <= Len(talks[i]) => me.from[i] <= Len(later[i])
  PROVE  MakerKnows(me, later)
<1>1. me.pc = "fetch" => Fetched(me, later) BY DEF MakerKnows, Fetched
<1>2. me.pc = "written" => Shows(me, later) BY Zenon DEF MakerKnows, Shows
<1> QED BY <1>1, <1>2 DEF MakerKnows

-----------------------------------------------------------------------------
LEMMA RestIsMaker == AtRest \in MakerState /\ AtRest.pc = "rest"
<1>1. <<>> \in Seq(Asked) /\ <<>> \in Seq(Said) OBVIOUS
<1> QED BY <1>1 DEF AtRest, MakerState, Asks

LEMMA QueueInitInv == QueueInit => QueueInv
<1> SUFFICES ASSUME QueueInit PROVE QueueInv OBVIOUS
<1> DEFINE n == Cardinality(Asked)
           f == SetToSeq(Asked)
<1>1. n \in Nat /\ ExistsBijection(1..n, Asked) /\ IsFiniteSet(Asked)
  BY QueueCaps, FS_CardinalityType
<1>2. PICK g : g \in Bijection(1..n, Asked) BY <1>1 DEF ExistsBijection
<1>3. g \in [1..n -> Asked] /\ IsInjective(g) BY <1>2 DEF Bijection, Injection
<1>4. f \in [1..n -> Asked] /\ IsInjective(f) BY <1>3 DEF SetToSeq
<1> HIDE DEF f
<1>5. f \in Injection(1..n, Asked) BY <1>4 DEF Injection
<1>6. Cardinality(1..n) = n BY <1>1, FS_Interval
<1> HIDE DEF n
<1>7. f \in Surjection(1..n, Asked) BY <1>1, <1>5, <1>6, FS_Injection DEF n
<1>8. Range(f) = Asked BY <1>4, <1>7 DEF Surjection, Range
<1>9. f \in Seq(Asked) BY <1>1, <1>4
<1>10. <<>> \in Seq(Said) OBVIOUS
<1>11. QueueTypeOK BY <1>8, <1>9, <1>10, RestIsMaker DEF QueueInit, QueueTypeOK, f
<1>12. MakerKnows(maker, talk) BY RestIsMaker DEF QueueInit, MakerKnows
<1> QED BY <1>11, <1>12 DEF QueueInv

LEMMA MakerKeeps ==
  ASSUME QueueInv, NEW me \in MakerState, maker' = me, MakerKnows(me, talk), UNCHANGED <<talk, order>>
  PROVE  QueueInv'
<1>1. QueueTypeOK' BY DEF QueueInv, QueueTypeOK
<1>2. MakerKnows(maker', talk') OBVIOUS
<1> QED BY <1>1, <1>2 DEF QueueInv

LEMMA ListAskedKeeps == ASSUME QueueInv, ListAsked PROVE QueueInv'
<1> DEFINE from == [i \in Asked |-> Len(talk[i])]
           me == [maker EXCEPT !.pc = "fetch", !.listed = order, !.todo = order, !.from = from]
<1>1. maker' = me /\ UNCHANGED <<talk, order>> BY DEF ListAsked
<1>2. /\ maker \in MakerState /\ order \in Seq(Asked) /\ Range(order) = Asked
      /\ talk \in [Asked -> Seq(Said)]
  BY DEF QueueInv, QueueTypeOK
<1>3. from \in [Asked -> Nat] /\ \A i \in Asked : from[i] <= Len(talk[i]) BY <1>2
<1> HIDE DEF from
<1>4. /\ me \in MakerState /\ me.pc = "fetch" /\ me.listed = order /\ me.todo = order
      /\ me.from = from
  BY <1>2, <1>3 DEF MakerState
<1> HIDE DEF me
<1>5. MakerKnows(me, talk) BY <1>2, <1>3, <1>4 DEF MakerKnows, Fetched
<1> QED BY <1>1, <1>4, <1>5, MakerKeeps

LEMMA FetchTalkKeeps == ASSUME QueueInv, NEW ok \in BOOLEAN, FetchTalk(ok) PROVE QueueInv'
<1> DEFINE i == Head(maker.todo)
           new == IF ok THEN talk[i] ELSE <<>>
           failed == IF ok THEN maker.failed ELSE maker.failed \cup {i}
           got == [maker.got EXCEPT ![i] = new]
           me == [maker EXCEPT !.todo = Tail(@), !.got = got, !.failed = failed]
<1>1. /\ maker \in MakerState /\ talk \in [Asked -> Seq(Said)] /\ maker.pc = "fetch"
      /\ MakerKnows(maker, talk)
  BY DEF QueueInv, QueueTypeOK, FetchTalk
<1>2. maker' = me /\ UNCHANGED <<talk, order>> BY <1>1 DEF FetchTalk, MakerState
<1>3. /\ maker.todo \in Seq(Asked) /\ maker.todo # <<>> /\ maker.got \in [Asked -> Seq(Said)]
      /\ maker.failed \in SUBSET Asked /\ maker.from \in [Asked -> Nat]
  BY <1>1 DEF MakerState, FetchTalk
<1>4. i \in Asked /\ Tail(maker.todo) \in Seq(Asked) BY <1>3
<1>5. Range(maker.todo) \subseteq Range(Tail(maker.todo)) \cup {i} BY <1>3, FirstAndRest
<1>6. <<>> \in Seq(Said) /\ talk[i] \in Seq(Said) BY <1>1, <1>4
<1>7. new \in Seq(Said) BY <1>6
<1>8. /\ ~ok => i \in failed
      /\ ok => new = talk[i]
      /\ failed \in SUBSET Asked /\ maker.failed \subseteq failed
  BY <1>3, <1>4
<1> HIDE DEF i, new, failed
<1>9. got \in [Asked -> Seq(Said)] /\ \A j \in Asked : got[j] = IF j = i THEN new ELSE maker.got[j]
  BY <1>3, <1>4, <1>7
<1> HIDE DEF got
<1>10. /\ me \in MakerState /\ me.pc = "fetch" /\ me.listed = maker.listed
       /\ me.todo = Tail(maker.todo) /\ me.from = maker.from /\ me.got = got /\ me.failed = failed
  BY <1>1, <1>4, <1>8, <1>9 DEF MakerState
<1> HIDE DEF me
<1>11. ASSUME NEW j \in Asked
       PROVE  j \in Range(me.todo) \/ j \in me.failed \/ me.got[j] \in Since(me.from[j], talk[j])
  <2>1. CASE j = i
    <3>1. CASE ok
      <4>1. maker.from[i] <= Len(talk[i]) /\ maker.from[i] \in Nat
        BY <1>1, <1>3, <1>4 DEF MakerKnows
      <4>2. talk[i] \in Since(maker.from[i], talk[i]) BY <1>6, <4>1, NowIsSince
      <4> QED BY <1>4, <1>8, <1>9, <1>10, <2>1, <3>1, <4>2
    <3>2. CASE ~ok BY <1>8, <1>10, <2>1, <3>2
    <3> QED BY <3>1, <3>2
  <2>2. CASE j # i
    <3>1. j \in Range(maker.todo) \/ j \in maker.failed \/ maker.got[j] \in Since(maker.from[j], talk[j])
      BY <1>1 DEF MakerKnows, Fetched
    <3> QED BY <1>5, <1>8, <1>9, <1>10, <2>2, <3>1
  <2> QED BY <2>1, <2>2
<1>12. Range(me.listed) = Asked /\ \A j \in Asked : me.from[j] <= Len(talk[j])
  BY <1>1, <1>10 DEF MakerKnows
<1>13. MakerKnows(me, talk) BY <1>10, <1>11, <1>12 DEF MakerKnows, Fetched
<1> QED BY <1>2, <1>10, <1>13, MakerKeeps

LEMMA WriteQueueKeeps == ASSUME QueueInv, WriteQueue PROVE QueueInv'
<1> DEFINE asks == [i \in Asked |-> AskOf(i, maker.got[i])]
           asked == {i \in Range(maker.listed) : asks[i] # "none"}
<1>1. PICK ranked \in Ranked(asks, maker.listed) :
        maker' = [maker EXCEPT !.pc = "written", !.asks = asks, !.got = AtRest.got,
                               !.primary = Split(ranked)[1], !.next = Split(ranked)[2]]
  BY DEF WriteQueue
<1> DEFINE me == [maker EXCEPT !.pc = "written", !.asks = asks, !.got = AtRest.got,
                               !.primary = Split(ranked)[1], !.next = Split(ranked)[2]]
<1>2. /\ maker \in MakerState /\ maker.pc = "fetch" /\ maker.todo = <<>>
      /\ MakerKnows(maker, talk) /\ UNCHANGED <<talk, order>> /\ maker' = me
  BY <1>1 DEF QueueInv, QueueTypeOK, WriteQueue
<1>3. Range(maker.listed) = Asked BY <1>2 DEF MakerKnows
<1>4. asks \in [Asked -> Asks] /\ \A i \in Asked : asks[i] = AskOf(i, maker.got[i])
  BY AskIsAsk
<1>5. ranked \in Bijection(1..Cardinality(asked), asked) BY DEF Ranked
<1>6. asked = {i \in Asked : asks[i] # "none"} BY <1>3
<1> HIDE DEF asked, asks
<1>7. /\ ranked \in [1..Cardinality(asked) -> asked] /\ IsInjective(ranked)
      /\ \A i \in asked : \E n \in 1..Cardinality(asked) : ranked[n] = i
  BY <1>5 DEF Bijection, Injection, Surjection
<1>8. Range(ranked) = asked BY <1>7 DEF Range
<1>9. Cardinality(asked) \in Nat
  BY <1>6, QueueCaps, FS_Subset, FS_CardinalityType
<1>10. ranked \in Seq(Asked)
  <2>1. asked \subseteq Asked BY <1>6
  <2>2. ranked \in [1..Cardinality(asked) -> Asked] BY <1>7, <2>1
  <2> QED BY <1>9, <2>2
<1>11. Split(ranked)[1] \in Seq(Asked) /\ Split(ranked)[2] \in Seq(Asked) BY <1>10, SplitShows
<1>12. AtRest.got \in [Asked -> Seq(Said)] BY RestIsMaker DEF MakerState
<1>13. /\ me \in MakerState /\ me.pc = "written" /\ me.listed = maker.listed /\ me.asks = asks
       /\ me.primary = Split(ranked)[1] /\ me.next = Split(ranked)[2] /\ me.from = maker.from
       /\ me.failed = maker.failed
  BY <1>2, <1>4, <1>11, <1>12 DEF MakerState
<1> HIDE DEF me
<1>14. \A i \in Asked \ me.failed : \E cs \in Since(me.from[i], talk[i]) : me.asks[i] = AskOf(i, cs)
  <2> TAKE i \in Asked \ me.failed
  <2>1. Range(maker.todo) = {} BY <1>2 DEF Range
  <2>2. maker.got[i] \in Since(maker.from[i], talk[i]) BY <1>2, <1>13, <2>1 DEF MakerKnows, Fetched
  <2> QED BY <1>4, <1>13, <2>2
<1>15. Shows(me, talk)
  <2>1. /\ IsInjective(ranked) /\ Range(ranked) = {i \in Asked : me.asks[i] # "none"}
        /\ me.primary = Split(ranked)[1] /\ me.next = Split(ranked)[2]
    BY <1>6, <1>7, <1>8, <1>13
  <2> QED BY <1>10, <1>14, <2>1 DEF Shows
<1>16. Range(me.listed) = Asked /\ \A j \in Asked : me.from[j] <= Len(talk[j])
  BY <1>2, <1>13 DEF MakerKnows
<1>17. MakerKnows(me, talk) BY <1>13, <1>15, <1>16 DEF MakerKnows
<1> QED BY <1>2, <1>13, <1>17, MakerKeeps

LEMMA PostOnKeeps ==
  ASSUME QueueInv, NEW i \in Asked, NEW c \in Posts(GateLevel[i]), PostOn(i, c) PROVE QueueInv'
<1>1. /\ maker \in MakerState /\ talk \in [Asked -> Seq(Said)] /\ MakerKnows(maker, talk)
  BY DEF QueueInv, QueueTypeOK
<1>2. c \in Said BY QueueCaps DEF Said
<1> DEFINE longer == Append(talk[i], c)
<1>3. longer \in Seq(Said) /\ Len(longer) = Len(talk[i]) + 1 /\ Len(talk[i]) \in Nat BY <1>1, <1>2
<1>4. maker.from \in [Asked -> Nat] BY <1>1 DEF MakerState
<1>5. Since(maker.from[i], talk[i]) \subseteq Since(maker.from[i], longer) BY <1>1, <1>4, SinceGrows
<1>6. talk' = [talk EXCEPT ![i] = longer] /\ UNCHANGED <<order, maker>> BY DEF PostOn
<1> HIDE DEF longer
<1>7. /\ talk' \in [Asked -> Seq(Said)]
      /\ \A j \in Asked : talk'[j] = IF j = i THEN longer ELSE talk[j]
  BY <1>1, <1>3, <1>6
<1>8. \A j \in Asked : /\ Since(maker.from[j], talk[j]) \subseteq Since(maker.from[j], talk'[j])
                       /\ maker.from[j] <= Len(talk[j]) => maker.from[j] <= Len(talk'[j])
  <2> TAKE j \in Asked
  <2>1. CASE j = i
    <3>1. maker.from[i] \in Nat BY <1>4
    <3> QED BY <1>3, <1>5, <1>7, <2>1, <3>1
  <2>2. CASE j # i BY <1>7, <2>2
  <2> QED BY <2>1, <2>2
<1>9. MakerKnows(maker, talk') BY <1>1, <1>8, KnowsGrows
<1>10. QueueTypeOK' BY <1>6, <1>7 DEF QueueInv, QueueTypeOK
<1> QED BY <1>6, <1>9, <1>10 DEF QueueInv

LEMMA TouchItemKeeps == ASSUME QueueInv, NEW i \in Asked, TouchItem(i) PROVE QueueInv'
<1>1. PICK n \in DOMAIN order : order[n] = i /\ order' = Append(RemoveAt(order, n), i)
  BY DEF TouchItem
<1>2. order \in Seq(Asked) /\ Range(order) = Asked /\ UNCHANGED <<talk, maker>>
  BY DEF QueueInv, QueueTypeOK, TouchItem
<1> DEFINE front == SubSeq(order, 1, n - 1)
           back == SubSeq(order, n + 1, Len(order))
           last == Len(front) + Len(back) + 1
<1>3. n \in 1..Len(order) /\ Len(order) \in Nat BY <1>2
<1>4. /\ front \in Seq(Asked) /\ Len(front) = n - 1 /\ \A k \in 1..(n - 1) : front[k] = order[k]
  BY <1>2, <1>3
<1>5. /\ back \in Seq(Asked) /\ Len(back) = Len(order) - n
      /\ \A k \in 1..(Len(order) - n) : back[k] = order[n + k]
  BY <1>2, <1>3
<1>6. order' = Append(front \o back, i) BY <1>1 DEF RemoveAt
<1> HIDE DEF front, back
<1> DEFINE both == front \o back
<1>a. /\ both \in Seq(Asked) /\ Len(both) = Len(order) - 1
      /\ \A k \in 1..(n - 1) : both[k] = front[k]
      /\ \A k \in 1..(Len(order) - n) : both[n - 1 + k] = back[k]
  <2>1. /\ both \in Seq(Asked) /\ Len(both) = Len(front) + Len(back)
        /\ \A k \in 1..Len(front) : both[k] = front[k]
        /\ \A k \in 1..Len(back) : both[Len(front) + k] = back[k]
    <3>1. front \in Seq(Asked) /\ back \in Seq(Asked) BY <1>4, <1>5
    <3>2. /\ front \o back \in Seq(Asked) /\ Len(front \o back) = Len(front) + Len(back)
          /\ \A k \in 1..Len(front) : (front \o back)[k] = front[k]
          /\ \A k \in 1..Len(back) : (front \o back)[Len(front) + k] = back[k]
      BY <3>1, ConcatEnds
    <3> QED BY <3>2, Zenon
  <2> HIDE DEF both
  <2>2. (n - 1) + (Len(order) - n) = Len(order) - 1 BY <1>3
  <2> QED BY <1>4, <1>5, <2>1, <2>2
<1>b. order' = Append(both, i) BY <1>6
<1> HIDE DEF both
<1>c. /\ order' \in Seq(Asked) /\ Len(order') = Len(order) /\ order'[Len(order)] = i
      /\ \A k \in 1..Len(both) : order'[k] = both[k]
  BY <1>3, <1>a, <1>b
<1>7. /\ order' \in Seq(Asked) /\ DOMAIN order' = 1..Len(order) /\ order'[Len(order)] = i
      /\ \A k \in 1..(n - 1) : order'[k] = front[k]
      /\ \A k \in 1..(Len(order) - n) : order'[n - 1 + k] = back[k]
  <2>1. \A k \in 1..(n - 1) : k \in 1..Len(both) BY <1>3, <1>a
  <2>2. \A k \in 1..(Len(order) - n) : n - 1 + k \in 1..Len(both) BY <1>3, <1>a
  <2>3. DOMAIN order' = 1..Len(order) BY <1>c
  <2> QED BY <1>a, <1>c, <2>1, <2>2, <2>3
<1>8. ASSUME NEW k \in 1..Len(order) PROVE order[k] \in Range(order')
  <2>1. CASE k < n
    <3>1. k \in 1..(n - 1) BY <1>3, <2>1
    <3>2. k \in DOMAIN order' /\ order'[k] = order[k] BY <1>4, <1>7, <3>1
    <3> QED BY <3>2 DEF Range
  <2>2. CASE k = n
    <3>1. Len(order) \in DOMAIN order' /\ order'[Len(order)] = order[k] BY <1>1, <1>3, <1>7, <2>2
    <3> QED BY <3>1 DEF Range
  <2>3. CASE n < k
    <3>1. k - n \in 1..(Len(order) - n) /\ n - 1 + (k - n) = k - 1 /\ n + (k - n) = k
          /\ k - 1 \in 1..Len(order)
      BY <1>3, <2>3
    <3>2. order'[k - 1] = back[k - n] /\ back[k - n] = order[k] BY <1>5, <1>7, <3>1
    <3> QED BY <1>7, <3>1, <3>2 DEF Range
  <2> QED BY <1>3, <2>1, <2>2, <2>3
<1>9. Range(order') = Asked
  <2>1. DOMAIN order = 1..Len(order) BY <1>2
  <2>2. Asked \subseteq Range(order') BY <1>2, <1>8, <2>1 DEF Range
  <2>3. Range(order') \subseteq Asked BY <1>7 DEF Range
  <2> QED BY <2>2, <2>3
<1>10. QueueTypeOK' BY <1>2, <1>7, <1>9 DEF QueueInv, QueueTypeOK
<1> QED BY <1>2, <1>10 DEF QueueInv

LEMMA QueueNextKeeps == QueueInv /\ [QueueNext]_queueVars => QueueInv'
<1> SUFFICES ASSUME QueueInv, [QueueNext]_queueVars PROVE QueueInv' OBVIOUS
<1>1. ASSUME RunQueueAgain PROVE QueueInv'
  <2>1. maker' = AtRest /\ UNCHANGED <<talk, order>> BY <1>1 DEF RunQueueAgain
  <2>2. MakerKnows(AtRest, talk) BY RestIsMaker DEF MakerKnows
  <2> QED BY <2>1, <2>2, RestIsMaker, MakerKeeps
<1>2. CASE UNCHANGED queueVars BY <1>2 DEF queueVars, QueueInv, QueueTypeOK
<1> QED BY <1>1, <1>2, ListAskedKeeps, FetchTalkKeeps, WriteQueueKeeps, PostOnKeeps, TouchItemKeeps
     DEF QueueNext

(* No order of posts, fetches and edits hides an item that waits for a      *)
(* person from the artifact, or asks what was settled before the run        *)
(* (classifyItemForQueue, compareQueueItems, buildQueueModel).             *)
THEOREM QueueStaysTrue == QueueSpec => []QueueIsTrue
<1>1. ASSUME QueueInv, maker.pc = "written" PROVE WaitingIsShown /\ AskWasTrue
  <2>1. Shows(maker, talk) /\ maker \in MakerState BY <1>1 DEF QueueInv, QueueTypeOK, MakerKnows
  <2>2. PICK ranked \in Seq(Asked) :
          /\ IsInjective(ranked) /\ Range(ranked) = {i \in Asked : maker.asks[i] # "none"}
          /\ maker.primary = Split(ranked)[1] /\ maker.next = Split(ranked)[2]
    BY <2>1 DEF Shows
  <2> DEFINE len == Len(ranked)
             m == IF TrackedCap < len THEN TrackedCap ELSE len
  <2>3. Shown = {ranked[n] : n \in 1..m}
    <3>1. Shown = Range(maker.primary) \cup Range(maker.next) BY DEF Shown, Range
    <3> QED BY <2>2, <3>1, SplitShows
  <2>4. len \in Nat /\ TrackedCap \in Nat /\ m \in 0..len /\ DOMAIN ranked = 1..len
    BY QueueCaps
  <2>5. \A i \in Asked : Moments(i) = Since(maker.from[i], talk[i]) BY DEF Moments, Since
  <2>6. ASSUME NEW i \in Asked \ maker.failed, WaitsThroughout(i)
        PROVE  i \in Shown \/ Cardinality(Shown) = TrackedCap
    <3>1. PICK cs \in Moments(i) : maker.asks[i] = AskOf(i, cs) BY <2>1, <2>5 DEF Shows
    <3>2. Waits(i, cs) BY <2>6 DEF WaitsThroughout
    <3>3. maker.asks[i] # "none" BY <3>1, <3>2 DEF Waits, AskOf
    <3>4. PICK n \in DOMAIN ranked : ranked[n] = i BY <2>2, <3>3 DEF Range
    <3>5. CASE n <= m
      <4>1. n \in 1..m BY <2>4, <3>5
      <4> QED BY <2>3, <3>4, <4>1
    <3>6. CASE ~ (n <= m)
      <4>0. n \in 1..len BY <2>4
      <4>a. m < n /\ n <= len /\ m \in Nat /\ m <= len /\ n \in Nat /\ len \in Nat BY <2>4, <3>6, <4>0
      <4>b. m = TrackedCap
        <5>1. m = len \/ m = TrackedCap OBVIOUS
        <5>2. m # len
          <6> HIDE DEF m, len
          <6> QED BY <4>a
        <5> QED BY <5>1, <5>2
      <4> HIDE DEF m, len
      <4>1. m = TrackedCap /\ m \in Nat /\ 1..m \subseteq 1..len BY <4>a, <4>b, <2>4
      <4> DEFINE g == [k \in 1..m |-> ranked[k]]
      <4>2. g \in Bijection(1..m, Shown)
        <5>1. g \in [1..m -> Shown] BY <2>3
        <5>2. IsInjective(g) BY <2>2, <2>4, <4>1 DEF IsInjective
        <5>3. \A t \in Shown : \E s \in 1..m : g[s] = t BY <2>3
        <5> QED BY <5>1, <5>2, <5>3 DEF Bijection, Injection, Surjection
      <4>3. IsFiniteSet(1..m) /\ Cardinality(1..m) = m BY <4>1, FS_Interval
      <4>4. Cardinality(Shown) = m BY <4>2, <4>3, FS_Bijection DEF ExistsBijection
      <4> QED BY <4>1, <4>4
    <3> QED BY <3>5, <3>6
  <2>7. ASSUME NEW i \in Shown \ maker.failed
        PROVE  \E cs \in Moments(i) :
                 \/ Waits(i, cs)
                 \/ GateLevel[i] = "HG-3.5" /\ (NewestPost(cs, Rulings) = "PARK"
                                                 \/ NewestPost(cs, Reports) = "awaits-sign")
    <3>1. i \in Range(ranked) BY <2>3, <2>4 DEF Range
    <3>2. i \in Asked \ maker.failed /\ maker.asks[i] # "none" BY <2>2, <3>1
    <3>3. PICK cs \in Moments(i) : maker.asks[i] = AskOf(i, cs) BY <2>1, <2>5, <3>2 DEF Shows
    <3>4. GateLevel[i] \in {"HG-4", "HG-3.5"} BY <3>2, QueueCaps
    <3>5. \/ Waits(i, cs)
          \/ GateLevel[i] = "HG-3.5" /\ (NewestPost(cs, Rulings) = "PARK"
                                          \/ NewestPost(cs, Reports) = "awaits-sign")
      BY <3>2, <3>3, <3>4 DEF Waits, AskOf
    <3> QED BY <3>5
  <2> QED BY <2>6, <2>7 DEF WaitingIsShown, AskWasTrue
<1>2. QueueInv => QueueIsTrue BY <1>1 DEF QueueIsTrue, WaitingIsShown, AskWasTrue
<1> QED BY <1>2, QueueInitInv, QueueNextKeeps, PTL DEF QueueSpec

-----------------------------------------------------------------------------
(* QualityLoop: who is asked for, and who is handed over *)

(* What an item keeps whoever wrote it: a generated contract has no class   *)
(* of its own and looks like shared code.                                  *)
Born(c) == c.origin # "human" => c.explicit = "none" /\ c.shared

(* A comment that asks for workers is a plan, and a plan that may spawn was *)
(* made for a contract without a high risk.                                *)
NoteOK(c, n) ==
  /\ n.kind # "decision" => n.markers = {}
  /\ n.kind = "decision" =>
       /\ n.maySpawn => ~c.risky /\ ClassOf(c) # "P4" /\ n.status # "NEEDS_HUMAN"
       /\ "hotfix-worker" \in n.markers => AutoHotfix(ClassOf(c))

(* A reader of the first `seen' comments may hand this worker over for the *)
(* comment at `marker'.                                                    *)
Handed(c, cs, marker, worker, seen) ==
  /\ seen \in 0..Len(cs) /\ marker \in 1..seen
  /\ cs[marker].kind = "decision" /\ worker \in cs[marker].markers
  /\ cs[marker].maySpawn
  /\ worker = "hotfix-worker" => c.paths
  /\ \A m \in (marker + 1)..seen : cs[m].kind # "terminal" /\ cs[m].markers = {}

Twice(cs, j, k) ==
  /\ cs[j].kind = "candidate" /\ cs[k].kind = "candidate"
  /\ cs[j].marker = cs[k].marker /\ cs[j].worker = cs[k].worker

ThreadOK(c, cs) ==
  /\ \A k \in DOMAIN cs : NoteOK(c, cs[k])
  /\ \A k \in DOMAIN cs : cs[k].kind = "candidate" =>
       /\ cs[k].seen < k
       /\ Handed(c, cs, cs[k].marker, cs[k].worker, cs[k].seen)
  /\ \A j, k \in DOMAIN cs : j < k /\ Twice(cs, j, k) => cs[k].seen < j

QualityInv ==
  /\ QualityTypeOK
  /\ \A i \in DOMAIN item : Born(item[i]) /\ ThreadOK(item[i], thread[i])
  /\ \A h \in Handoffs : \A t \in handoff[h].tasks :
       t.item \in DOMAIN item /\ Handed(item[t.item], thread[t.item], t.marker, t.worker, t.seen)

-----------------------------------------------------------------------------
(* Contracts, plans and comments *)

LEMMA PlanIsSafe ==
  ASSUME NEW c \in Contract, NEW e \in Evidence, NEW n \in Nat
  PROVE  /\ [Plan(c, e) EXCEPT !.seen = n] \in Note
         /\ NoteOK(c, [Plan(c, e) EXCEPT !.seen = n])
         /\ [Plan(c, e) EXCEPT !.seen = n].kind = "decision"
<1> DEFINE class == ClassOf(c)
           asked == Followups(c, e)
           marks == asked \cup (Mandatory(class) \cap {"controller-only"})
           status == CASE HighRisk(c, e)                   -> "NEEDS_HUMAN"
                       [] ~HighRisk(c, e) /\ asked # {}    -> "FOLLOWUP_READY"
                       [] OTHER                            -> "NO_FOLLOWUP"
           spawn == ~HighRisk(c, e) /\ asked # {}
           note == [Plan(c, e) EXCEPT !.seen = n]
<1>1. class \in Classes BY DEF ClassOf, Contract, Classes
<1> HIDE DEF class
<1>2. Mandatory(class) \subseteq AuditWorkers \cup {"controller-only"}
  BY <1>1 DEF Mandatory, AuditWorkers, Classes
<1>3. AuditOnFail(class) \subseteq AuditWorkers BY <1>1 DEF AuditOnFail, AuditWorkers, Classes
<1>4. asked \subseteq Workers /\ ("hotfix-worker" \in asked => AutoHotfix(class))
  BY <1>2, <1>3 DEF Followups, Workers, AuditWorkers, class
<1>5. marks \subseteq Workers /\ ("hotfix-worker" \in marks => AutoHotfix(class))
  BY <1>4 DEF Workers
<1>6. /\ status \in {"NEEDS_HUMAN", "FOLLOWUP_READY", "NO_FOLLOWUP", "none"}
      /\ spawn => status # "NEEDS_HUMAN"
  OBVIOUS
<1>7. spawn \in BOOLEAN /\ (spawn => ~c.risky /\ ClassOf(c) # "P4") BY DEF HighRisk
<1>8. Plan(c, e) = [kind |-> "decision", markers |-> marks, status |-> status,
                    maySpawn |-> spawn, marker |-> 0, worker |-> "none", seen |-> 0]
  BY Zenon DEF Plan, class
<1> HIDE DEF asked, marks, status, spawn
<1>9. note = [kind |-> "decision", markers |-> marks, status |-> status, maySpawn |-> spawn,
              marker |-> 0, worker |-> "none", seen |-> n]
  BY <1>8
<1> HIDE DEF note
<1>10. note \in Note BY <1>5, <1>6, <1>7, <1>9 DEF Note
<1>11. NoteOK(c, note) BY <1>5, <1>6, <1>7, <1>9 DEF NoteOK, class
<1>12. note.kind = "decision" BY <1>9
<1> QED BY <1>10, <1>11, <1>12 DEF note

LEMMA PlainIsSafe ==
  ASSUME NEW c, NEW kind \in {"terminal", "worker.reported"}
  PROVE  /\ Plain(kind) \in Note /\ NoteOK(c, Plain(kind)) /\ Plain(kind).kind = kind
  BY DEF Plain, Note, NoteOK

LEMMA CandidateIsNote ==
  ASSUME NEW c, NEW marker \in Nat, NEW worker \in Workers, NEW seen \in Nat
  PROVE  LET n == Candidate(marker, worker, seen)
         IN  /\ n \in Note /\ NoteOK(c, n) /\ n.kind = "candidate"
             /\ n.marker = marker /\ n.worker = worker /\ n.seen = seen
  BY DEF Candidate, Plain, Note, NoteOK

LEMMA GeneratedIsBorn ==
  ASSUME NEW c \in Contract, NEW worker \in Workers \cup {"none"}, NEW far \in BOOLEAN,
         NEW risky \in BOOLEAN, worker # "none"
  PROVE  /\ GeneratedContract(c, worker, far, risky) \in Contract
         /\ Born(GeneratedContract(c, worker, far, risky))
<1>1. c.paths \in BOOLEAN BY DEF Contract
<1> QED BY <1>1 DEF GeneratedContract, Contract, Born

(* No class a generated contract can get has an automatic hotfix. *)
LEMMA BornIsNotFixed ==
  ASSUME NEW c \in Contract, Born(c), c.origin # "human" PROVE ~AutoHotfix(ClassOf(c))
  BY DEF Born, AutoHotfix, ClassOf, Classes, Contract

-----------------------------------------------------------------------------
(* Threads *)

LEMMA AppendKeepsHanded ==
  ASSUME NEW c, NEW cs \in Seq(Note), NEW n, NEW marker, NEW worker, NEW seen,
         Handed(c, cs, marker, worker, seen)
  PROVE  Handed(c, Append(cs, n), marker, worker, seen)
<1> DEFINE ds == Append(cs, n)
<1>1. /\ Len(ds) = Len(cs) + 1 /\ Len(cs) \in Nat
      /\ \A k \in 1..Len(cs) : ds[k] = cs[k]
  OBVIOUS
<1>2. /\ seen \in 0..Len(ds) /\ marker \in 1..seen
      /\ \A k \in 1..seen : ds[k] = cs[k]
  BY <1>1 DEF Handed
<1>3. ds[marker] = cs[marker] BY <1>2
<1>4. \A m \in (marker + 1)..seen : ds[m] = cs[m] BY <1>2
<1> HIDE DEF ds
<1> QED BY <1>2, <1>3, <1>4 DEF Handed

LEMMA AppendKeepsThread ==
  ASSUME NEW c, NEW cs \in Seq(Note), NEW n \in Note, ThreadOK(c, cs), NoteOK(c, n),
         n.kind = "candidate" =>
           /\ Handed(c, cs, n.marker, n.worker, n.seen)
           /\ \A j \in DOMAIN cs :
                /\ cs[j].kind = "candidate"
                /\ cs[j].marker = n.marker /\ cs[j].worker = n.worker
                => n.seen < j
  PROVE  ThreadOK(c, Append(cs, n))
<1> DEFINE ds == Append(cs, n)
           last == Len(cs) + 1
<1>1. /\ DOMAIN ds = DOMAIN cs \cup {last} /\ DOMAIN cs = 1..Len(cs) /\ Len(cs) \in Nat
      /\ \A k \in DOMAIN cs : ds[k] = cs[k] /\ k < last
      /\ ds[last] = n /\ last \notin DOMAIN cs
  OBVIOUS
<1>0. \A k \in DOMAIN cs : ~ (last < k) BY <1>1
<1>00. ~ (last < last) BY <1>1
<1> HIDE DEF ds, last
<1>2. \A k \in DOMAIN ds : NoteOK(c, ds[k]) BY <1>1 DEF ThreadOK
<1>3. ASSUME NEW k \in DOMAIN ds, ds[k].kind = "candidate"
      PROVE  ds[k].seen < k /\ Handed(c, ds, ds[k].marker, ds[k].worker, ds[k].seen)
  <2>1. CASE k \in DOMAIN cs
    <3>1. cs[k].seen < k /\ Handed(c, cs, cs[k].marker, cs[k].worker, cs[k].seen)
      BY <1>1, <1>3, <2>1 DEF ThreadOK
    <3>2. Handed(c, ds, cs[k].marker, cs[k].worker, cs[k].seen)
      BY <3>1, AppendKeepsHanded DEF ds
    <3> QED BY <1>1, <2>1, <3>1, <3>2
  <2>2. CASE k = last
    <3>1. Handed(c, cs, n.marker, n.worker, n.seen) BY <1>1, <1>3, <2>2
    <3>2. Handed(c, ds, n.marker, n.worker, n.seen) BY <3>1, AppendKeepsHanded DEF ds
    <3>3. n.seen < last BY <3>1, <1>1 DEF Handed, last
    <3> QED BY <1>1, <2>2, <3>2, <3>3
  <2> QED BY <1>1, <2>1, <2>2
<1>4. ASSUME NEW j \in DOMAIN ds, NEW k \in DOMAIN ds, j < k, Twice(ds, j, k)
      PROVE  ds[k].seen < j
  <2>1. j \in DOMAIN cs BY <1>0, <1>00, <1>1, <1>4
  <2>2. CASE k \in DOMAIN cs
    <3>1. Twice(cs, j, k) BY <1>1, <1>4, <2>1, <2>2 DEF Twice
    <3> QED BY <1>1, <1>4, <2>1, <2>2, <3>1 DEF ThreadOK
  <2>3. CASE k = last BY <1>1, <1>4, <2>1, <2>3 DEF Twice
  <2> QED BY <1>1, <2>2, <2>3
<1> QED BY <1>2, <1>3, <1>4 DEF ThreadOK, ds

LEMMA NewestIsLast ==
  ASSUME NEW cs \in Seq(Note), NewestMarker(cs) # 0
  PROVE  /\ NewestMarker(cs) \in 1..Len(cs)
         /\ \A m \in (NewestMarker(cs) + 1)..Len(cs) : cs[m].kind # "terminal" /\ cs[m].markers = {}
<1> DEFINE marked == {k \in DOMAIN cs : cs[k].markers # {} \/ cs[k].kind = "terminal"}
<1>1. marked \subseteq 0..Len(cs) /\ marked \subseteq 1..Len(cs) /\ Len(cs) \in Nat OBVIOUS
<1>2. marked # {} /\ NewestMarker(cs) = Max(marked) BY DEF NewestMarker
<1>3. \A k \in DOMAIN cs : k \notin marked => cs[k].kind # "terminal" /\ cs[k].markers = {}
  OBVIOUS
<1>4. DOMAIN cs = 1..Len(cs) OBVIOUS
<1> HIDE DEF marked
<1>5. \E x \in marked : \A y \in marked : y <= x BY <1>1, <1>2, GreatestExists
<1>6. \E x \in marked : \A y \in marked : x >= y BY <1>1, <1>5
<1>7. Max(marked) \in marked /\ \A y \in marked : Max(marked) >= y BY <1>6 DEF Max
<1> DEFINE at == NewestMarker(cs)
<1>8. at \in marked /\ at \in 1..Len(cs) /\ \A y \in marked : at >= y BY <1>1, <1>2, <1>7
<1> HIDE DEF at
<1>9. \A m \in (at + 1)..Len(cs) : m \in DOMAIN cs /\ m \notin marked BY <1>1, <1>4, <1>8
<1> QED BY <1>3, <1>8, <1>9 DEF at

(* What the handoff makes of a thread it has read. *)
LEMMA PostableIsHanded ==
  ASSUME NEW c, NEW cs \in Seq(Note), ThreadOK(c, cs), NEW w \in Postable(c, cs)
  PROVE  /\ Handed(c, cs, NewestMarker(cs), w, Len(cs))
         /\ w \in Workers /\ NewestMarker(cs) \in Nat
<1> DEFINE at == NewestMarker(cs)
<1>1. /\ at # 0 /\ w \in cs[at].markers /\ MarkerStatus(c, cs[at], w) = "LOWER_WORKER_READY"
  BY DEF Postable
<1>2. /\ at \in 1..Len(cs) /\ Len(cs) \in Nat
      /\ \A m \in (at + 1)..Len(cs) : cs[m].kind # "terminal" /\ cs[m].markers = {}
  BY <1>1, NewestIsLast
<1> HIDE DEF at
<1>3. at \in DOMAIN cs /\ cs[at] \in Note /\ NoteOK(c, cs[at]) BY <1>2 DEF ThreadOK
<1>4. cs[at].kind = "decision" BY <1>1, <1>3 DEF NoteOK
<1>5. cs[at].maySpawn /\ (w = "hotfix-worker" => c.paths) BY <1>1, <1>4 DEF MarkerStatus
<1>6. w \in Workers BY <1>1, <1>3 DEF Note
<1>7. Len(cs) \in 0..Len(cs) BY <1>2
<1> QED BY <1>1, <1>2, <1>4, <1>5, <1>6, <1>7 DEF Handed, at

-----------------------------------------------------------------------------
(* Steps *)

LEMMA QualityInitInv == QualityInit => QualityInv
<1> SUFFICES ASSUME QualityInit PROVE QualityInv OBVIOUS
<1>1. item = <<>> /\ thread = <<>> /\ handoff = [h \in Handoffs |-> HandoffIdle]
  BY DEF QualityInit
<1>2. HandoffIdle \in HandoffState /\ HandoffIdle.tasks = {} BY DEF HandoffIdle, HandoffState
<1>3. item \in Seq(Contract) /\ thread \in Seq(Seq(Note)) /\ Len(item) = Len(thread) BY <1>1
<1>4. DOMAIN item = {} BY <1>1
<1> QED BY <1>1, <1>2, <1>3, <1>4 DEF QualityInv, QualityTypeOK

(* A comment more on one item; no process takes up a task. *)
LEMMA CommentKeeps ==
  ASSUME QualityInv, NEW i \in DOMAIN item, NEW n \in Note, Append1(i, n), UNCHANGED item,
         NoteOK(item[i], n),
         handoff' \in [Handoffs -> HandoffState],
         \A h \in Handoffs : handoff'[h].tasks \subseteq handoff[h].tasks,
         n.kind = "candidate" =>
           /\ Handed(item[i], thread[i], n.marker, n.worker, n.seen)
           /\ \A j \in DOMAIN thread[i] :
                /\ thread[i][j].kind = "candidate"
                /\ thread[i][j].marker = n.marker /\ thread[i][j].worker = n.worker
                => n.seen < j
  PROVE  QualityInv'
<1>1. /\ item \in Seq(Contract) /\ thread \in Seq(Seq(Note)) /\ Len(thread) = Len(item)
      /\ DOMAIN thread = DOMAIN item
  BY DEF QualityInv, QualityTypeOK
<1>2. thread[i] \in Seq(Note) BY <1>1
<1> DEFINE longer == Append(thread[i], n)
<1>3. longer \in Seq(Note) BY <1>2
<1>4. thread' = [thread EXCEPT ![i] = longer] BY DEF Append1
<1>5. ThreadOK(item[i], longer)
  <2>1. ThreadOK(item[i], thread[i]) BY DEF QualityInv
  <2> QED BY <1>2, <2>1, AppendKeepsThread
<1>6. \A marker, worker, seen :
        Handed(item[i], thread[i], marker, worker, seen) => Handed(item[i], longer, marker, worker, seen)
  BY <1>2, AppendKeepsHanded
<1> HIDE DEF longer
<1>7. /\ thread' \in Seq(Seq(Note)) /\ Len(thread') = Len(thread)
      /\ \A j \in DOMAIN item : thread'[j] = IF j = i THEN longer ELSE thread[j]
  BY <1>1, <1>3, <1>4
<1>8. QualityTypeOK' BY <1>1, <1>7 DEF QualityTypeOK
<1>9. \A j \in DOMAIN item : Born(item[j]) /\ ThreadOK(item[j], thread'[j])
  BY <1>5, <1>7 DEF QualityInv
<1>10. ASSUME NEW h \in Handoffs, NEW t \in handoff'[h].tasks
       PROVE  /\ t.item \in DOMAIN item
              /\ Handed(item[t.item], thread'[t.item], t.marker, t.worker, t.seen)
  <2>1. t \in handoff[h].tasks OBVIOUS
  <2>2. /\ t.item \in DOMAIN item
        /\ Handed(item[t.item], thread[t.item], t.marker, t.worker, t.seen)
    BY <2>1 DEF QualityInv
  <2> QED BY <1>6, <1>7, <2>2
<1>11. UNCHANGED item OBVIOUS
<1> QED BY <1>8, <1>9, <1>10, <1>11, Zenon DEF QualityInv

(* A new item with nothing on it. *)
LEMMA ItemKeeps ==
  ASSUME QualityInv, NEW c \in Contract, Born(c), item' = Append(item, c),
         thread' = Append(thread, <<>>), UNCHANGED handoff
  PROVE  QualityInv'
<1>1. /\ item \in Seq(Contract) /\ thread \in Seq(Seq(Note)) /\ Len(thread) = Len(item)
  BY DEF QualityInv, QualityTypeOK
<1>2. <<>> \in Seq(Note) OBVIOUS
<1> DEFINE last == Len(item) + 1
<1>3. /\ item' \in Seq(Contract) /\ DOMAIN item' = DOMAIN item \cup {last} /\ item'[last] = c
      /\ \A j \in DOMAIN item : item'[j] = item[j]
  BY <1>1
<1>4. /\ thread' \in Seq(Seq(Note)) /\ Len(thread') = Len(item') /\ thread'[last] = <<>>
      /\ \A j \in DOMAIN item : thread'[j] = thread[j]
  BY <1>1, <1>2
<1> HIDE DEF last
<1>5. QualityTypeOK' BY <1>3, <1>4 DEF QualityInv, QualityTypeOK
<1>6. ThreadOK(c, <<>>) BY DEF ThreadOK
<1>7. \A j \in DOMAIN item' : Born(item'[j]) /\ ThreadOK(item'[j], thread'[j])
  BY <1>3, <1>4, <1>6 DEF QualityInv
<1>8. \A h \in Handoffs : \A t \in handoff[h].tasks :
         t.item \in DOMAIN item'
         /\ Handed(item'[t.item], thread'[t.item], t.marker, t.worker, t.seen)
  BY <1>3, <1>4 DEF QualityInv
<1> QED BY <1>5, <1>7, <1>8 DEF QualityInv

(* A step of one handoff process that writes nothing. *)
LEMMA HandoffKeeps ==
  ASSUME QualityInv, NEW h \in Handoffs, NEW me \in HandoffState,
         handoff' = [handoff EXCEPT ![h] = me], UNCHANGED <<item, thread>>,
         \A t \in me.tasks :
           \/ t \in handoff[h].tasks
           \/ t.item \in DOMAIN item
              /\ Handed(item[t.item], thread[t.item], t.marker, t.worker, t.seen)
  PROVE  QualityInv'
<1>1. handoff \in [Handoffs -> HandoffState] BY DEF QualityInv, QualityTypeOK
<1>2. /\ handoff' \in [Handoffs -> HandoffState]
      /\ \A g \in Handoffs : handoff'[g] = IF g = h THEN me ELSE handoff[g]
  BY <1>1
<1>3. QualityTypeOK' BY <1>2 DEF QualityInv, QualityTypeOK
<1> QED BY <1>2, <1>3 DEF QualityInv

LEMMA HandoffReadKeeps ==
  ASSUME QualityInv, NEW h \in Handoffs, NEW i \in DOMAIN item, NEW listed \in BOOLEAN,
         HandoffRead(h, i, listed)
  PROVE  QualityInv'
<1> DEFINE seen == IF listed THEN Len(thread[i]) ELSE 0
           cs == SubSeq(thread[i], 1, seen)
           new == {[item |-> i, marker |-> NewestMarker(cs), worker |-> w, seen |-> seen] :
                     w \in Postable(item[i], cs)}
           old == handoff[h]
           me == [old EXCEPT !.todo = @ \ {i}, !.tasks = @ \cup new]
<1>1. /\ handoff \in [Handoffs -> HandoffState] /\ old \in HandoffState
      /\ thread[i] \in Seq(Note) /\ i \in Nat /\ ThreadOK(item[i], thread[i])
  BY DEF QualityInv, QualityTypeOK
<1>2. handoff' = [handoff EXCEPT ![h].todo = @ \ {i}, ![h].tasks = @ \cup new]
      /\ UNCHANGED <<item, thread>>
  BY DEF HandoffRead
<1>3. handoff' = [handoff EXCEPT ![h] = me] BY <1>1, <1>2
<1>4. ASSUME NEW t \in new
      PROVE  /\ t \in Task /\ t.item \in DOMAIN item
             /\ Handed(item[t.item], thread[t.item], t.marker, t.worker, t.seen)
  <2>1. PICK w \in Postable(item[i], cs) :
          t = [item |-> i, marker |-> NewestMarker(cs), worker |-> w, seen |-> seen]
    OBVIOUS
  <2>2. CASE listed
    <3>1. seen = Len(thread[i]) /\ cs = thread[i] BY <1>1, <2>2
    <3>2. Handed(item[i], thread[i], NewestMarker(cs), w, seen)
          /\ w \in Workers /\ NewestMarker(cs) \in Nat
      BY <1>1, <2>1, <3>1, PostableIsHanded
    <3>3. seen \in Nat BY <1>1, <3>1
    <3> HIDE DEF cs, seen
    <3> QED BY <1>1, <2>1, <3>2, <3>3 DEF Task
  <2>3. CASE ~listed
    <3>1. cs = <<>> BY <1>1, <2>3
    <3>2. NewestMarker(cs) = 0 BY <3>1 DEF NewestMarker
    <3> QED BY <2>1, <3>2 DEF Postable
  <2> QED BY <2>2, <2>3
<1> HIDE DEF new, old, seen, cs
<1>5. me \in HandoffState /\ me.tasks = old.tasks \cup new
  <2>1. new \subseteq Task BY <1>4
  <2> QED BY <1>1, <2>1 DEF HandoffState
<1> HIDE DEF me
<1> QED BY <1>2, <1>3, <1>4, <1>5, HandoffKeeps DEF old

LEMMA HandoffPostKeeps ==
  ASSUME QualityInv, NEW h \in Handoffs, NEW t \in handoff[h].tasks, NEW landed \in BOOLEAN,
         HandoffPost(h, t, landed)
  PROVE  QualityInv'
<1> DEFINE old == handoff[h]
           me == [old EXCEPT !.tasks = @ \ {t}]
           i == t.item
           n == Candidate(t.marker, t.worker, t.seen)
           snapshot == SubSeq(thread[i], 1, t.seen)
<1>1. /\ handoff \in [Handoffs -> HandoffState] /\ old \in HandoffState
      /\ i \in DOMAIN item /\ Handed(item[i], thread[i], t.marker, t.worker, t.seen)
  BY DEF QualityInv, QualityTypeOK
<1>2. t \in Task BY <1>1 DEF HandoffState
<1>3. handoff' = [handoff EXCEPT ![h] = me] /\ UNCHANGED item
  BY <1>1 DEF HandoffPost
<1> HIDE DEF old
<1>4. me \in HandoffState /\ me.tasks = old.tasks \ {t} BY <1>1 DEF HandoffState
<1> HIDE DEF me
<1>5. CASE landed
  <2>1. Append1(i, n) /\ ~AlreadyPosted(snapshot, t.marker, t.worker)
    BY <1>5 DEF HandoffPost
  <2>2. /\ n \in Note /\ NoteOK(item[i], n) /\ n.kind = "candidate"
        /\ n.marker = t.marker /\ n.worker = t.worker /\ n.seen = t.seen
    BY <1>2, CandidateIsNote DEF Task
  <2>3. thread[i] \in Seq(Note) BY <1>1 DEF QualityInv, QualityTypeOK
  <2>4. ASSUME NEW j \in DOMAIN thread[i], thread[i][j].kind = "candidate",
               thread[i][j].marker = t.marker, thread[i][j].worker = t.worker
        PROVE  t.seen < j
    <3>0. t.seen \in 0..Len(thread[i]) /\ Len(thread[i]) \in Nat /\ j \in 1..Len(thread[i])
      BY <1>1, <2>3 DEF Handed
    <3>1. SUFFICES ASSUME j <= t.seen PROVE FALSE BY <3>0
    <3>2. j \in DOMAIN snapshot /\ snapshot[j] = thread[i][j] BY <2>3, <3>0, <3>1
    <3> HIDE DEF snapshot
    <3> QED BY <2>1, <2>4, <3>2 DEF AlreadyPosted
  <2>5. /\ handoff' \in [Handoffs -> HandoffState]
        /\ \A g \in Handoffs : handoff'[g].tasks \subseteq handoff[g].tasks
    BY <1>1, <1>3, <1>4 DEF old
  <2> HIDE DEF n, i
  <2> QED BY <1>1, <1>3, <2>1, <2>2, <2>4, <2>5, CommentKeeps DEF i
<1>6. CASE ~landed
  <2>1. UNCHANGED <<item, thread>> BY <1>6 DEF HandoffPost
  <2> QED BY <1>3, <1>4, <2>1, HandoffKeeps DEF old
<1> QED BY <1>5, <1>6

LEMMA HandoffMovesKeep ==
  ASSUME QualityInv, NEW h \in Handoffs,
         \/ \E chosen \in {{i} : i \in DOMAIN item} \cup {DOMAIN item} : HandoffStart(h, chosen)
         \/ \E kept \in SUBSET handoff[h].tasks : HandoffListed(h, kept)
         \/ HandoffExit(h)
         \/ HandoffAbort(h)
  PROVE  QualityInv'
<1> DEFINE old == handoff[h]
<1>1. /\ handoff \in [Handoffs -> HandoffState] /\ old \in HandoffState
  BY DEF QualityInv, QualityTypeOK
<1>2. DOMAIN item \subseteq Nat BY DEF QualityInv, QualityTypeOK
<1>3. ASSUME NEW me \in HandoffState, me.tasks \subseteq old.tasks,
             handoff' = [handoff EXCEPT ![h] = me], UNCHANGED <<item, thread>>
      PROVE  QualityInv'
  BY <1>3, HandoffKeeps
<1>4. ASSUME NEW chosen \in {{i} : i \in DOMAIN item} \cup {DOMAIN item}, HandoffStart(h, chosen)
      PROVE  QualityInv'
  <2> DEFINE me == [old EXCEPT !.pc = "reading", !.todo = chosen]
  <2>1. chosen \in SUBSET Nat BY <1>2
  <2>2. handoff' = [handoff EXCEPT ![h] = me] /\ UNCHANGED <<item, thread>>
    BY <1>1, <1>4 DEF HandoffStart
  <2> HIDE DEF old
  <2>3. me \in HandoffState /\ me.tasks = old.tasks BY <1>1, <2>1 DEF HandoffState
  <2> QED BY <1>3, <2>2, <2>3
<1>5. ASSUME NEW kept \in SUBSET handoff[h].tasks, HandoffListed(h, kept) PROVE QualityInv'
  <2> DEFINE me == [old EXCEPT !.pc = "posting", !.tasks = kept]
  <2>1. handoff' = [handoff EXCEPT ![h] = me] /\ UNCHANGED <<item, thread>>
    BY <1>1, <1>5 DEF HandoffListed
  <2>2. kept \subseteq old.tasks OBVIOUS
  <2> HIDE DEF old
  <2>3. me \in HandoffState /\ me.tasks = kept BY <1>1, <2>2 DEF HandoffState
  <2> QED BY <1>3, <2>1, <2>2, <2>3
<1>6. ASSUME HandoffExit(h) PROVE QualityInv'
  <2> DEFINE me == [old EXCEPT !.pc = "exited"]
  <2>1. handoff' = [handoff EXCEPT ![h] = me] /\ UNCHANGED <<item, thread>>
    BY <1>1, <1>6 DEF HandoffExit
  <2> HIDE DEF old
  <2>2. me \in HandoffState /\ me.tasks = old.tasks BY <1>1 DEF HandoffState
  <2> QED BY <1>3, <2>1, <2>2
<1>7. ASSUME HandoffAbort(h) PROVE QualityInv'
  <2> DEFINE me == [HandoffIdle EXCEPT !.pc = "exited"]
  <2>1. handoff' = [handoff EXCEPT ![h] = me] /\ UNCHANGED <<item, thread>>
    BY <1>7 DEF HandoffAbort
  <2>2. me \in HandoffState /\ me.tasks = {} BY DEF HandoffIdle, HandoffState
  <2> HIDE DEF me
  <2> QED BY <1>3, <2>1, <2>2
<1> QED BY <1>4, <1>5, <1>6, <1>7

LEMMA ItemStepKeeps ==
  ASSUME QualityInv, NEW i \in DOMAIN item,
         \/ WorkerReports(i)
         \/ \E e \in Evidences, asks \in BOOLEAN : ControllerDecides(i, e, asks)
         \/ FollowupReports(i)
         \/ \E k \in DOMAIN thread[i], far, risky \in BOOLEAN : Materialise(i, k, far, risky)
  PROVE  QualityInv'
<1>0. /\ thread[i] \in Seq(Note) /\ item[i] \in Contract /\ ThreadOK(item[i], thread[i])
      /\ handoff \in [Handoffs -> HandoffState]
  BY DEF QualityInv, QualityTypeOK
<1>1. ASSUME NEW kind \in {"terminal", "worker.reported"}, Append1(i, Plain(kind)),
             UNCHANGED <<item, handoff>>
      PROVE  QualityInv'
  <2> DEFINE n == Plain(kind)
  <2>1. n \in Note /\ NoteOK(item[i], n) /\ n.kind # "candidate" BY PlainIsSafe
  <2> HIDE DEF n
  <2> QED BY <1>0, <1>1, <2>1, CommentKeeps DEF n
<1>2. ASSUME WorkerReports(i) \/ FollowupReports(i) PROVE QualityInv'
  BY <1>1, <1>2 DEF WorkerReports, FollowupReports
<1>3. ASSUME NEW e \in Evidences, NEW asks \in BOOLEAN, ControllerDecides(i, e, asks)
      PROVE  QualityInv'
  <2> DEFINE n == [Plan(item[i], e) EXCEPT !.seen = Len(thread[i])]
  <2>1. Len(thread[i]) \in Nat /\ e \in Evidence BY <1>0, QualityAssumption
  <2>2. n \in Note /\ NoteOK(item[i], n) /\ n.kind = "decision" BY <1>0, <2>1, PlanIsSafe
  <2>3. Append1(i, n) /\ UNCHANGED <<item, handoff>> BY <1>3 DEF ControllerDecides
  <2> HIDE DEF n
  <2> QED BY <1>0, <2>2, <2>3, CommentKeeps
<1>4. ASSUME NEW k \in DOMAIN thread[i], NEW far \in BOOLEAN, NEW risky \in BOOLEAN,
             Materialise(i, k, far, risky)
      PROVE  QualityInv'
  <2> DEFINE worker == thread[i][k].worker
             c == GeneratedContract(item[i], worker, far, risky)
  <2>1. /\ Handed(item[i], thread[i], thread[i][k].marker, worker, thread[i][k].seen)
    BY <1>0, <1>4 DEF Materialise, ThreadOK
  <2>2. thread[i][k].marker \in DOMAIN thread[i] BY <1>0, <2>1 DEF Handed
  <2>3. thread[i][thread[i][k].marker] \in Note BY <1>0, <2>2
  <2>4. worker \in Workers BY <2>1, <2>3 DEF Handed, Note
  <2>5. worker # "none" BY <2>4 DEF Workers, AuditWorkers
  <2>6. c \in Contract /\ Born(c) BY <1>0, <2>4, <2>5, GeneratedIsBorn
  <2>7. item' = Append(item, c) /\ thread' = Append(thread, <<>>) /\ UNCHANGED handoff
    BY <1>4 DEF Materialise
  <2> HIDE DEF c
  <2> QED BY <2>6, <2>7, ItemKeeps
<1> QED BY <1>2, <1>3, <1>4

LEMMA QualityNextKeeps == QualityInv /\ [QualityNext]_qualityVars => QualityInv'
<1> SUFFICES ASSUME QualityInv, [QualityNext]_qualityVars PROVE QualityInv' OBVIOUS
<1>1. ASSUME NEW c \in Contracts, NewItem(c) PROVE QualityInv'
  <2>1. c \in Contract /\ Born(c) BY QualityAssumption DEF Born
  <2>2. item = <<>> /\ item' = <<c>> /\ thread' = << <<>> >> /\ UNCHANGED handoff
    BY <1>1 DEF NewItem
  <2>3. thread = <<>>
    <3>1. thread \in Seq(Seq(Note)) /\ Len(thread) = 0 BY <2>2 DEF QualityInv, QualityTypeOK
    <3> QED BY <3>1
  <2>4. item' = Append(item, c) /\ thread' = Append(thread, <<>>) BY <2>2, <2>3
  <2> QED BY <2>1, <2>2, <2>4, ItemKeeps
<1>2. CASE UNCHANGED qualityVars
  BY <1>2 DEF qualityVars, QualityInv, QualityTypeOK
<1>3. ASSUME NEW i \in DOMAIN item,
             \/ WorkerReports(i)
             \/ \E e \in Evidences, asks \in BOOLEAN : ControllerDecides(i, e, asks)
             \/ FollowupReports(i)
             \/ \E k \in DOMAIN thread[i], far, risky \in BOOLEAN : Materialise(i, k, far, risky)
      PROVE  QualityInv'
  BY <1>3, ItemStepKeeps
<1>4. ASSUME NEW h \in Handoffs,
             \/ \E chosen \in {{i} : i \in DOMAIN item} \cup {DOMAIN item} : HandoffStart(h, chosen)
             \/ \E i \in DOMAIN item, listed \in BOOLEAN : HandoffRead(h, i, listed)
             \/ \E kept \in SUBSET handoff[h].tasks : HandoffListed(h, kept)
             \/ \E t \in handoff[h].tasks, landed \in BOOLEAN : HandoffPost(h, t, landed)
             \/ HandoffExit(h)
             \/ HandoffAbort(h)
      PROVE  QualityInv'
  BY <1>4, HandoffReadKeeps, HandoffPostKeeps, HandoffMovesKeep
<1> QED BY <1>1, <1>2, <1>3, <1>4 DEF QualityNext

(* However many items, comments and handoffs race, every candidate on the   *)
(* ledger goes back to a controller's plan of its own item that named its   *)
(* worker and was not left to a human (planPostWorkerQualityLoop, the       *)
(* marker parser and the handoff's checks together).                        *)
THEOREM CandidatesStayAuthorised == QualitySpec => []CandidatesAreAuthorised
<1>1. QualityInv => CandidatesAreAuthorised
  <2> SUFFICES ASSUME QualityInv, NEW i \in DOMAIN item, NEW k \in Candidates(i)
               PROVE  LET c == thread[i][k]
                          d == thread[i][c.marker]
                      IN  /\ c.marker \in 1..(k - 1) /\ d.kind = "decision" /\ c.worker \in d.markers
                          /\ ~item[i].risky /\ ClassOf(item[i]) # "P4" /\ d.status # "NEEDS_HUMAN"
                          /\ c.worker = "hotfix-worker" => AutoHotfix(ClassOf(item[i])) /\ item[i].paths
    BY DEF CandidatesAreAuthorised
  <2> DEFINE cs == thread[i]
             c == cs[k]
             d == cs[c.marker]
  <2>1. cs \in Seq(Note) /\ ThreadOK(item[i], cs) /\ k \in DOMAIN cs /\ c.kind = "candidate"
    BY DEF QualityInv, QualityTypeOK, Candidates
  <2> HIDE DEF cs
  <2>2. c.seen < k /\ Handed(item[i], cs, c.marker, c.worker, c.seen) BY <2>1 DEF ThreadOK
  <2>3. k \in Nat /\ c.seen \in Nat /\ c.marker \in 1..c.seen /\ c.seen \in 0..Len(cs)
        /\ Len(cs) \in Nat
    BY <2>1, <2>2 DEF Handed
  <2>4. c.marker \in 1..(k - 1) /\ c.marker \in DOMAIN cs BY <2>1, <2>2, <2>3
  <2>5. NoteOK(item[i], d) BY <2>1, <2>4 DEF ThreadOK
  <2> QED BY <2>2, <2>4, <2>5 DEF Handed, NoteOK, cs
<1> QED BY <1>1, QualityInitInv, QualityNextKeeps, PTL DEF QualitySpec

(* A request is answered twice only by handoffs that could not see each     *)
(* other's answer, and never after a newer request or a final report its    *)
(* author had read (latestQualityMarkers, findExistingCandidateComment).    *)
THEOREM CandidatesStayTimely == QualitySpec => []CandidatesAreTimely
<1>1. ASSUME QualityInv PROVE CandidateOncePerMarker
  <2>1. \A i \in DOMAIN item : ThreadOK(item[i], thread[i]) BY <1>1 DEF QualityInv
  <2> QED BY <2>1 DEF ThreadOK, CandidateOncePerMarker, Candidates, Twice
<1>2. ASSUME QualityInv PROVE CandidateForNewestRequest
  <2>1. \A i \in DOMAIN item : ThreadOK(item[i], thread[i]) BY <1>2 DEF QualityInv
  <2> QED BY <2>1 DEF ThreadOK, CandidateForNewestRequest, Candidates, Handed
<1>3. QualityInv => CandidatesAreTimely BY <1>1, <1>2 DEF QualityInv, CandidatesAreTimely
<1> QED BY <1>3, QualityInitInv, QualityNextKeeps, PTL DEF QualitySpec

(* No generated item ever asks for a hotfix worker, however long the chain  *)
(* of items grows: what it is classed as forbids it                         *)
(* (inferPostWorkerQualityClass).                                           *)
THEOREM HotfixChainsStop == QualitySpec => []HotfixChainStops
<1>1. QualityInv => HotfixChainStops
  <2> SUFFICES ASSUME QualityInv, NEW i \in DOMAIN item, item[i].origin # "human",
                      NEW k \in DOMAIN thread[i]
               PROVE  "hotfix-worker" \notin thread[i][k].markers
    BY DEF HotfixChainStops
  <2>1. item[i] \in Contract /\ Born(item[i]) /\ NoteOK(item[i], thread[i][k])
    BY DEF QualityInv, QualityTypeOK, ThreadOK
  <2>2. ~AutoHotfix(ClassOf(item[i])) BY <2>1, BornIsNotFixed
  <2> QED BY <2>1, <2>2 DEF NoteOK
<1> QED BY <1>1, QualityInitInv, QualityNextKeeps, PTL DEF QualitySpec
=============================================================================
