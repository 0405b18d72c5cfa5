---------------------------- MODULE PlaneSeeding ----------------------------
(***************************************************************************)
(* The scripts that fill a Plane project: the contract materializers, the  *)
(* cockpit bootstrap and the role label bootstrap.  All of them list what  *)
(* is there, and then create or overwrite entry by entry from that one     *)
(* listing, over a service without transactions, next to other runs and to *)
(* people who edit the project.  The last part is the script that moves a  *)
(* work item to another state.                                             *)
(***************************************************************************)
EXTENDS Integers, Sequences, FiniteSets

CONSTANTS
  Seeder,          \* runs of the scripts, each a process of its own
  Jobs,            \* what a run may be asked: [kind, applies, overwrites]
  Catalog,         \* the entries of each kind, in order: [key, parent]
  Mover,           \* runs of plane-work-item-state
  MaxRows          \* bound on the rows of the project

VARIABLES
  rows,            \* work items, labels and pages, in the order of creation
  seeder,
  labelMap,        \* the names in the local label map, or NoMap
  itemState,       \* the state of one work item
  mover

seedVars == <<rows, seeder, labelMap>>
moveVars == <<itemState, mover>>

NoKey == "none"
NoMap == {"no map"}
Keys == UNION {{Catalog[k][n].key : n \in DOMAIN Catalog[k]} : k \in DOMAIN Catalog}

(* contracts: plane-contract-materializer; supergoal: the scripts for one   *)
(* supergoal; closure: that of alpha 2, which merges labels.                *)
Materializers == {"contracts", "supergoal", "closure"}

(* applies: --apply; overwrites: --update-existing, of the materializers.    *)
ASSUME SeedingAssumption ==
  /\ Jobs \subseteq [kind : Materializers \cup {"cockpit", "labels"},
                     applies : BOOLEAN, overwrites : BOOLEAN]
  /\ \A job \in Jobs : job.overwrites => job.kind \in Materializers
  /\ MaxRows \in Nat

(* The catalogs are tables of the scripts: an entry is in one of them once,  *)
(* and hangs under the same entry in all of them.                           *)
ASSUME CatalogAssumption ==
  /\ \A job \in Jobs : job.kind \in DOMAIN Catalog
  /\ \A k \in DOMAIN Catalog : Catalog[k] \in Seq([key : Keys, parent : Keys \cup {NoKey}])
  /\ \A k \in DOMAIN Catalog : \A m, n \in DOMAIN Catalog[k] :
       Catalog[k][m].key = Catalog[k][n].key => m = n
  /\ \A k, l \in DOMAIN Catalog : \A m \in DOMAIN Catalog[k], n \in DOMAIN Catalog[l] :
       Catalog[k][m].key = Catalog[l][n].key => Catalog[k][m].parent = Catalog[l][n].parent

NoJob == [kind |-> NoKey, applies |-> FALSE, overwrites |-> FALSE]

-----------------------------------------------------------------------------
(* A run: view is its listing, made the row of each entry it has dealt with. *)
NewSeeder ==
  [pc |-> "new", job |-> NoJob, view |-> <<>>, at |-> 1, ok |-> TRUE, made |-> [k \in Keys |-> 0]]

SeedInit ==
  /\ rows = <<>> /\ labelMap = NoMap
  /\ seeder = [s \in Seeder |-> NewSeeder]

Entries(s) == Catalog[seeder[s].job.kind]
Entry(s) == Entries(s)[seeder[s].at]
Busy(s) == seeder[s].pc = "writing" /\ seeder[s].at <= Len(Entries(s))

(* The rows with the entry's external id or name; of several the index by   *)
(* external id keeps the last of the listing, whatever its order is.        *)
SeedCopies(list, key) == {i \in DOMAIN list : list[i].key = key}
Already(s) ==
  LET c == SeedCopies(seeder[s].view, Entry(s).key) IN IF c = {} THEN {0} ELSE c

Orphan(s) == Entry(s).parent # NoKey /\ seeder[s].made[Entry(s).parent] = 0

(* Mutant: the parent is the first row of the project. *)
ParentRowFirst(s) == IF Entry(s).parent = NoKey THEN 0 ELSE 1

ParentRow(s) == IF Entry(s).parent = NoKey THEN 0 ELSE seeder[s].made[Entry(s).parent]

(* listExisting, listLabels, or the reads of the cockpit; a dry run ends.   *)
(* The code reads one page of up to 500 rows; here it holds them all.       *)
ListRows(s, job, answered) ==
  /\ seeder[s].pc = "new"
  /\ seeder' = [seeder EXCEPT ![s].pc = IF ~answered THEN "failed"
                                        ELSE IF job.applies THEN "writing" ELSE "listed",
                              ![s].job = job, ![s].view = IF answered THEN rows ELSE <<>>]
  /\ UNCHANGED <<rows, labelMap>>

(* How a write ends: answered, refused, carried out but answered with an    *)
(* error, or with the connection gone, which ends the script.               *)
Outcomes == [landed : BOOLEAN, answer : {"ok", "error", "gone"}]
Possible(o) == o.answer = "ok" => o.landed

(* Mutant: a failed write is listed in the result, which stays ok. *)
AdvanceOk(s, row, o) ==
  seeder' = [seeder EXCEPT ![s].at = @ + 1,
               ![s].pc = IF o.answer = "gone" THEN "dead" ELSE @,
               ![s].view = IF o.answer = "gone" THEN <<>> ELSE @,
               ![s].made = IF o.answer = "gone" THEN NewSeeder.made
                           ELSE [@ EXCEPT ![Entry(s).key] = row]]

Advance(s, row, o) ==
  seeder' = [seeder EXCEPT ![s].at = @ + 1,
               ![s].ok = @ /\ o.answer = "ok",
               ![s].pc = IF o.answer = "gone" THEN "dead" ELSE @,
               ![s].view = IF o.answer = "gone" THEN <<>> ELSE @,
               ![s].made = IF o.answer = "gone" THEN NewSeeder.made
                           ELSE [@ EXCEPT ![Entry(s).key] = row]]

(* An entry whose parent this run could not make is left out.  The scripts   *)
(* for a supergoal look at the parent before anything else ...              *)
LeaveOrphan(s) ==
  /\ Busy(s) /\ Orphan(s) /\ seeder[s].job.kind \in {"supergoal", "closure"}
  /\ Advance(s, 0, [landed |-> FALSE, answer |-> "error"])
  /\ UNCHANGED <<rows, labelMap>>

(* ... the contract materializer keeps the row of an entry it knows, unless  *)
(* it is to overwrite it.                                                   *)
LeaveOrphanContract(s, own) ==
  /\ Busy(s) /\ Orphan(s) /\ seeder[s].job.kind = "contracts" /\ own \in Already(s)
  /\ own = 0 \/ seeder[s].job.overwrites
  /\ Advance(s, own, [landed |-> FALSE, answer |-> "error"])
  /\ UNCHANGED <<rows, labelMap>>

KeepRow(s, own) ==
  /\ Busy(s) /\ own \in Already(s) \ {0} /\ ~seeder[s].job.overwrites
  /\ seeder[s].job.kind # "contracts" => ~Orphan(s)
  /\ Advance(s, own, [landed |-> TRUE, answer |-> "ok"])
  /\ UNCHANGED <<rows, labelMap>>

(* Mutant: the closure script sends its own labels only. *)
SentLabelsAlone(s, own) == {"role"}

(* The labels of a PATCH replace those of the row; the closure script sends  *)
(* those of its listing along.                                              *)
SentLabels(s, own) ==
  {"role"} \cup (IF seeder[s].job.kind = "closure" THEN seeder[s].view[own].labels ELSE {})

(* updateWorkItem, writeItem: the description is overwritten as well. *)
PatchRow(s, own, o) ==
  /\ Busy(s) /\ own \in Already(s) \ {0} /\ seeder[s].job.overwrites /\ ~Orphan(s) /\ Possible(o)
  /\ rows' = IF o.landed
             THEN [rows EXCEPT ![own].labels = SentLabels(s, own), ![own].parent = ParentRow(s)]
             ELSE rows
  /\ Advance(s, own, o)
  /\ UNCHANGED labelMap

(* Mutant: a write that was answered with an error is tried once more. *)
PostAgain(s, o) ==
  /\ Busy(s) /\ Already(s) = {0} /\ ~Orphan(s) /\ Possible(o) /\ Len(rows) < MaxRows
  /\ rows' = IF o.landed
             THEN Append(rows, [key |-> Entry(s).key, parent |-> ParentRow(s), labels |-> {"role"},
                                by |-> s, had |-> Len(seeder[s].view)])
             ELSE rows
  /\ IF o.answer = "error" THEN UNCHANGED seeder ELSE Advance(s, Len(rows) + 1, o)
  /\ UNCHANGED labelMap

(* had: what the run had seen of the project. *)
Post(s, o) ==
  /\ Busy(s) /\ Already(s) = {0} /\ ~Orphan(s) /\ Possible(o) /\ Len(rows) < MaxRows
  /\ rows' = IF o.landed
             THEN Append(rows, [key |-> Entry(s).key, parent |-> ParentRow(s), labels |-> {"role"},
                                by |-> s, had |-> Len(seeder[s].view)])
             ELSE rows
  /\ Advance(s, IF o.answer = "ok" THEN Len(rows) + 1 ELSE 0, o)
  /\ UNCHANGED labelMap

PostRow(s, o) == seeder[s].job.kind \in Materializers /\ Post(s, o)

(* The cockpit's modules, cycles and pages; the first failure stops nothing. *)
PostSurface(s, o) == seeder[s].job.kind = "cockpit" /\ Post(s, o)

PostLabel(s, o) == seeder[s].job.kind = "labels" /\ Post(s, o)

FinishSeeding(s) ==
  /\ \/ seeder[s].pc = "writing" /\ seeder[s].at > Len(Entries(s))
     \/ seeder[s].pc = "listed"
  /\ seeder' = [seeder EXCEPT ![s].pc = IF seeder[s].ok THEN "done" ELSE "failed",
                              ![s].made = NewSeeder.made, ![s].view = <<>>]
  /\ UNCHANGED <<rows, labelMap>>

(* Mutant: the map is of what was there before the run, as the first listing has it. *)
WriteLabelMapFirst(s, answered) ==
  /\ seeder[s].job.kind = "labels" /\ seeder[s].pc = "done"
  /\ seeder' = [seeder EXCEPT ![s].pc = IF answered THEN "mapped" ELSE "failed"]
  /\ labelMap' = IF answered THEN {rows[i].key : i \in {j \in DOMAIN rows : rows[j].by # s}} ELSE labelMap
  /\ UNCHANGED rows

(* --write-label-map: after a run without failures the labels are listed    *)
(* once more; a dry run may write an incomplete map.                        *)
WriteLabelMap(s, answered) ==
  /\ seeder[s].job.kind = "labels" /\ seeder[s].pc = "done"
  /\ seeder' = [seeder EXCEPT ![s].pc = IF answered THEN "mapped" ELSE "failed"]
  /\ labelMap' = IF answered THEN {rows[i].key : i \in DOMAIN rows} ELSE labelMap
  /\ UNCHANGED rows

(* Bounded to one row at a time. *)
LabelByHand(i) ==
  /\ \A j \in DOMAIN rows : "hand" \notin rows[j].labels
  /\ rows' = [rows EXCEPT ![i].labels = @ \cup {"hand"}]
  /\ UNCHANGED <<seeder, labelMap>>

SeedNext ==
  \/ \E s \in Seeder :
       \/ \E answered \in BOOLEAN :
            WriteLabelMap(s, answered) \/ \E job \in Jobs : ListRows(s, job, answered)
       \/ LeaveOrphan(s)
       \/ \E own \in 0..Len(rows) : LeaveOrphanContract(s, own) \/ KeepRow(s, own)
       \/ \E own \in 1..Len(rows), o \in Outcomes : PatchRow(s, own, o)
       \/ \E o \in Outcomes : PostRow(s, o) \/ PostSurface(s, o) \/ PostLabel(s, o)
       \/ FinishSeeding(s)
  \/ \E i \in DOMAIN rows : LabelByHand(i)

-----------------------------------------------------------------------------
(* plane-work-item-state.  "shipped" stands for a state of the completed     *)
(* group that is not called Done.                                           *)
States == {"todo", "review", "done", "shipped"}
Completed(state) == state \in {"done", "shipped"}

MoveInit ==
  /\ itemState = "todo"
  /\ mover = [m \in Mover |-> [pc |-> "new", to |-> "todo", byId |-> FALSE, confirmed |-> FALSE]]

(* Mutant: only the argument is looked at. *)
MayAimArgument(to, byId, confirmed) == ~byId /\ to = "done" => confirmed

(* validateStateChangeArgs knows a state by the name it was given; main      *)
(* looks at the state that was found.                                       *)
MayAim(to, byId, confirmed) == Completed(to) => confirmed

Aim(m, to, byId, confirmed) ==
  /\ mover[m].pc = "new"
  /\ mover' = [mover EXCEPT ![m] = [pc |-> IF MayAim(to, byId, confirmed) THEN "aimed" ELSE "refused",
                                    to |-> to, byId |-> byId, confirmed |-> confirmed]]
  /\ UNCHANGED itemState

LookAtItem(m, answered) ==
  /\ mover[m].pc = "aimed"
  /\ mover' = [mover EXCEPT ![m].pc = IF ~answered THEN "failed"
                                      ELSE IF itemState = mover[m].to THEN "set" ELSE "looked"]
  /\ UNCHANGED itemState

PatchState(m, o) ==
  /\ mover[m].pc = "looked" /\ Possible(o)
  /\ itemState' = IF o.landed THEN mover[m].to ELSE itemState
  /\ mover' = [mover EXCEPT ![m].pc = IF o.answer = "ok" THEN "patched" ELSE "failed"]

(* A read-back that finds another state fails the run; nothing is undone.   *)
ReadBack(m, answered) ==
  /\ mover[m].pc = "patched"
  /\ mover' = [mover EXCEPT ![m].pc = IF answered /\ itemState = mover[m].to THEN "set" ELSE "failed"]
  /\ UNCHANGED itemState

MoveByHand(to) == itemState # to /\ itemState' = to /\ UNCHANGED mover

MoveNext ==
  \/ \E m \in Mover :
       \/ \E to \in States, byId, confirmed \in BOOLEAN : Aim(m, to, byId, confirmed)
       \/ \E answered \in BOOLEAN : LookAtItem(m, answered) \/ ReadBack(m, answered)
       \/ \E o \in Outcomes : PatchState(m, o)
  \/ \E to \in States : MoveByHand(to)

SeedingSpec ==
  /\ SeedInit /\ MoveInit
  /\ [][\/ SeedNext /\ UNCHANGED moveVars
        \/ MoveNext /\ UNCHANGED seedVars]_<<seedVars, moveVars>>

-----------------------------------------------------------------------------
(* Two rows stand for one entry only if two runs were at work at once: the  *)
(* later one had listed the project before the first row was there.  A lost *)
(* answer, a failure or a second run alone never doubles an entry.          *)
SeededOnce ==
  \A i, j \in DOMAIN rows :
    i < j /\ rows[i].key = rows[j].key => rows[i].by # rows[j].by /\ rows[j].had < i

(* A row never hangs under a row that is not its entry's parent, nor under  *)
(* one that is younger than itself, unless it was overwritten since.        *)
ChildrenHaveParents ==
  \A i \in DOMAIN rows, k \in DOMAIN Catalog :
    \A n \in DOMAIN Catalog[k] : Catalog[k][n].key = rows[i].key =>
      IF Catalog[k][n].parent = NoKey THEN rows[i].parent = 0
      ELSE rows[i].parent \in DOMAIN rows /\ rows[rows[i].parent].key = Catalog[k][n].parent

(* What the scripts leave in Plane is a tree of single rows, but for races. *)
SeededTree == SeededOnce /\ ChildrenHaveParents

(* A run that applies and ends well leaves every entry of its catalog there. *)
ExitZeroSeeded ==
  \A s \in Seeder : seeder[s].pc \in {"done", "mapped"} /\ seeder[s].job.applies =>
    \A n \in DOMAIN Entries(s) : SeedCopies(rows, Entries(s)[n].key) # {}

(* The local label map a run leaves, which the dispatchers go by when they  *)
(* may not list labels, has every role its run has seen to.                 *)
MapIsWhole ==
  \A s \in Seeder : seeder[s].pc = "mapped" /\ seeder[s].job.applies =>
    \A n \in DOMAIN Entries(s) : Entries(s)[n].key \in labelMap

(* Exit code 0 tells the truth, of Plane and of the local label map. *)
ExitZeroIsDone == ExitZeroSeeded /\ MapIsWhole

(* The closure script takes no label from a row that was on it both when    *)
(* the run listed the project and when it writes.                           *)
ListedLabelsStay ==
  [][\A s \in Seeder : seeder[s].job.kind = "closure" /\ seeder'[s].at # seeder[s].at =>
       \A i \in DOMAIN seeder[s].view :
         rows[i].labels \cap seeder[s].view[i].labels \subseteq rows'[i].labels]_seedVars

(* "--confirm-done is required for completed state targets": the script     *)
(* never completes an item unconfirmed, however the state was named.        *)
DoneIsConfirmed ==
  [][\A m \in Mover : mover'[m] # mover[m] /\ itemState' # itemState /\ Completed(itemState') =>
       mover[m].confirmed]_moveVars

\* What a script changes on an existing row it has looked at or been told to.
WritesAreGuarded == ListedLabelsStay /\ DoneIsConfirmed
=============================================================================
