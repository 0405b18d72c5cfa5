----------------------------- MODULE HumanGates -----------------------------
(***************************************************************************)
(* Human gates over the agent event ledger                                 *)
(* (scripts/release-gates/human-gate-release-core.mjs, human-gate-release  *)
(* .mjs, scripts/agent-events/*.mjs; scripts/dreams and the Raindrop       *)
(* ingest as writers).                                                     *)
(*                                                                         *)
(* Runtimes, controllers, humans and the release gate append rows to one   *)
(* JSONL file.  Each first stamps a row with its own clock and then        *)
(* appends it, so rows land in another order than they happened in.  The   *)
(* daily dream and the ingest give a row the same event_id whenever they   *)
(* run again, and append it only if the file they read lacks that id.  The *)
(* gate turns a decision card into a human_gate.released row when none of  *)
(* its checks blocks; the ledger's validator judges that row again, from   *)
(* tables of its own.  Readers validate the whole file first, and reduce   *)
(* the rows of an issue to its state.                                      *)
(*                                                                         *)
(* A confidence is a percentage, a requested scope a set of actions.  The  *)
(* wording of next_action, blocking reasons and memory_state are left out; *)
(* the rows reduced are those of one issue, and sandbox.max_turns_reached  *)
(* is the branch of runtime.timeout.  Random ids and the milliseconds in   *)
(* the id of a release are taken to be unique.                             *)
(***************************************************************************)
EXTENDS Integers, Sequences, SequencesExt

CONSTANTS Cards,    \* the decision cards the gate is given
          Writer,   \* the processes that append rows
          MaxAge,   \* how long a card stays fresh
          MaxTime,  \* bound on the clock
          MaxPlain, \* bound on the rows built before one with an id of its own
          MaxBuilt  \* bound on the rows built

VARIABLES clock,    \* the time of day
          ledger,   \* the rows of the event file, in append order
          pending,  \* writer -> the row it stamped and has not appended
          built     \* how many rows have been built

gateVars == <<clock, ledger, pending, built>>

Levels == {"HG-0", "HG-1", "HG-2", "HG-2.5", "HG-3", "HG-3.5", "HG-4"}
CeoLevels == {"HG-1", "HG-2", "HG-2.5", "HG-3"}

\* The confidence the gate asks for, and the one the ledger asks for.
Threshold == [l \in Levels |-> CASE l = "HG-0" -> 0 [] l = "HG-1" -> 80
                                 [] l = "HG-2" -> 85 [] l = "HG-2.5" -> 92
                                 [] l = "HG-3" -> 96 [] OTHER -> 100]
LedgerThreshold == [l \in Levels |-> CASE l = "HG-0" -> 0 [] l = "HG-1" -> 80
                                       [] l = "HG-2" -> 85 [] l = "HG-2.5" -> 92
                                       [] l = "HG-3" -> 96 [] OTHER -> 100]

AutonomousOwners == {"CEO", "delegated-controller"}
Hg4Owners == {"Founder", "human"}
Hg35Owners == Hg4Owners \cup {"Chief-of-Staff", "Founder-Proxy"}
CeoOwners == AutonomousOwners \cup Hg4Owners

\* Mutant: the Chief-of-Staff may release what the CEO owns.
MayReleaseProxy(card) ==
  \/ card.level \in CeoLevels /\ card.by \in AutonomousOwners \cup Hg35Owners
  \/ card.level = "HG-3.5" /\ card.by \in Hg35Owners
  \/ card.level = "HG-4" /\ card.by \in Hg4Owners

\* Who may release at the card's level; nobody releases HG-0.
MayRelease(card) ==
  \/ card.level \in CeoLevels /\ card.by \in CeoOwners
  \/ card.level = "HG-3.5" /\ card.by \in Hg35Owners
  \/ card.level = "HG-4" /\ card.by \in Hg4Owners

\* What the requested actions match: a merge or a publication, a schema or
\* credential change, a strategic or non-restorable act, or the release of one.
BlockedActions == {"merge", "schema", "release of a pivot"}
Hg3Actions == {"schema"}
Hg4Actions == {"pivot", "release of a pivot"}

\* The scope checks: only a scope that holds a blocked action is looked into.
ScopeAllows(card) ==
  LET blocked == card.scope \cap BlockedActions # {}
  IN  \/ ~blocked
      \/ card.level = "HG-2.5" /\ card.scope \cap Hg3Actions = {}
      \/ card.level = "HG-3" /\ card.scope \cap Hg4Actions = {}
      \/ card.level \in {"HG-3.5", "HG-4"}

\* What HG-2.5 and HG-3 ask for beyond the rest.
AuthorityShown(card) ==
  /\ card.level = "HG-2.5" => /\ card.authority \in {"CEO_AUTONOMOUS", "CEO"}
                              /\ card.cao
                              /\ card.rollback \in {"verified", "trivial"}
                              /\ card.blast = "bounded"
  /\ card.level = "HG-3" => /\ card.authority \in {"CEO_CRITICAL", "CEO"}
                            /\ card.cao
                            /\ card.rollback = "verified"

\* The rest of the evidence: sources, gate results, Artifact Truth, budget, a
\* rollback path and a text without secrets.  A card lacks at most one of them.
EvidenceWhole(card) == card.lacks = "nothing"

\* A card without generated_at, from the future or too old is stale.
Fresh(made, now) == made <= now /\ now - made <= MaxAge

\* evaluateHumanGateRelease: no check blocks.
GatePasses(card, made, now) ==
  /\ MayRelease(card)
  /\ card.confidence >= Threshold[card.level]
  /\ ScopeAllows(card)
  /\ AuthorityShown(card)
  /\ EvidenceWhole(card)
  /\ Fresh(made, now)

-----------------------------------------------------------------------------
(* The rows, and the validator of the ledger *)

NoCard == [level |-> "none"]
NoRow == [id |-> 0]

\* The rows the runtimes, the controllers and the humans write.
Kinds == {"worker.locked", "worker.heartbeat", "worker.blocked", "worker.reported",
          "worker.reported for audit", "sandbox.created", "sandbox.patch_produced", "runtime.timeout",
          "runtime.killed", "runtime.auth_failed", "controller.audit_started",
          "PASS", "PASS in a sandbox", "NEEDS_REWORK", "BLOCKED", "NEEDS_HUMAN",
          "REJECT", "human_gate.required", "human_gate.required to merge",
          "human_gate.rejected"}

\* The rows a writer derives the id of: the dream of the day, of whose two rows
\* in one append the second matters here, and the row of an ingested envelope.
KeyedRows == {[id |-> -1, kind |-> "memory.proposal_created", needs |-> TRUE],
              [id |-> -2, kind |-> "marketing.pipeline.raindrop_call", needs |-> FALSE]}
KeyedKinds == {row.kind : row \in KeyedRows}

\* `seen` is no field of the row: how much of the file its writer had read.
Row(id, kind, needs, card) ==
  [id |-> id, at |-> clock, kind |-> kind, needs |-> needs, card |-> card, seen |-> 0]

\* buildHumanGateReleaseEvent: the row names what the card said.
ReleaseRow(id, card) == Row(id, "human_gate.released", FALSE, card)

\* validateHumanGateReleasePayload
ReleaseValid(card) ==
  /\ card.level \in Levels
  /\ card.confidence >= LedgerThreshold[card.level]
  /\ card.level \in CeoLevels => card.by \in CeoOwners
  /\ card.level = "HG-3.5" => card.by \in Hg35Owners
  /\ card.level = "HG-4" => card.by \in Hg4Owners

RowValid(row) == row.kind = "human_gate.released" => ReleaseValid(row.card)

\* validateAgentEventRows: one bad row, or one repeated event_id, and no row of
\* the file counts.
FileValid(rows) == /\ \A k \in DOMAIN rows : RowValid(rows[k])
                   /\ \A j, k \in DOMAIN rows : rows[j].id = rows[k].id => j = k

-----------------------------------------------------------------------------
(* The reducer *)

Empty == [worker |-> "idle", controller |-> "none", issue |-> "intake",
          merge |-> "not_applicable", gate |-> "none"]

\* A row whose event_id was seen before is skipped.
Deduped(rows) ==
  FoldLeft(LAMBDA kept, row : IF \E k \in DOMAIN kept : kept[k].id = row.id
                              THEN kept ELSE Append(kept, row), <<>>, rows)

\* Mutant: rows are taken as they were appended.
SortedNot(rows) == rows

\* By occurred_at, then by append order.
Sorted(rows) ==
  LET Before(i, j) == \/ rows[i].at < rows[j].at
                      \/ rows[i].at = rows[j].at /\ i < j
      Rank(i) == 1 + Cardinality({j \in DOMAIN rows : Before(j, i)})
  IN  [r \in DOMAIN rows |-> rows[CHOOSE i \in DOMAIN rows : Rank(i) = r]]

Merge(s, kind) == IF s.merge = "not_applicable" THEN s.merge ELSE kind

Verdict(s, row) ==
  LET sandbox == row.kind = "PASS in a sandbox"
  IN  CASE row.kind \in {"PASS", "PASS in a sandbox"} ->
             [s EXCEPT !.controller = IF row.needs \/ sandbox THEN "ready_for_gate_review"
                                      ELSE "pass",
                       !.issue = IF row.needs THEN "needs_human"
                                 ELSE IF sandbox THEN "verified" ELSE "done_candidate",
                       !.merge = IF sandbox THEN "ready_for_gate_review" ELSE @]
        [] row.kind = "NEEDS_REWORK" ->
             [s EXCEPT !.controller = "needs_rework", !.issue = "in_progress"]
        [] row.kind = "BLOCKED" -> [s EXCEPT !.controller = "blocked", !.issue = "blocked"]
        [] row.kind = "NEEDS_HUMAN" ->
             [s EXCEPT !.controller = "ready_for_gate_review", !.issue = "needs_human",
                       !.gate = "required", !.merge = Merge(s, "merge_gated")]
        [] OTHER -> [s EXCEPT !.controller = "reject", !.issue = "rejected",
                              !.merge = Merge(s, "rejected")]

\* One round of the loop of reduceAgentEvents.
Applied(before, row) ==
  LET s == IF row.needs THEN [before EXCEPT !.gate = "required"] ELSE before
      Work(worker, issue) == [s EXCEPT !.worker = worker, !.issue = issue]
      Merging(t, merge) == [t EXCEPT !.merge = merge]
  IN  CASE row.kind = "worker.locked" -> Work("locked", "in_progress")
        [] row.kind = "worker.heartbeat" -> Work("running", "in_progress")
        [] row.kind = "worker.blocked" -> Work("blocked", "blocked")
        [] row.kind = "worker.reported" ->
             [Work("reported", "in_progress") EXCEPT !.controller = "audit_required"]
        [] row.kind = "worker.reported for audit" ->
             [Work("needs_audit", "in_progress") EXCEPT !.controller = "audit_required"]
        [] row.kind = "sandbox.created" ->
             Merging(Work("running", "in_progress"), "not_ready_to_merge")
        [] row.kind = "sandbox.patch_produced" ->
             [Merging(Work("needs_audit", "in_progress"), "not_ready_to_merge")
                EXCEPT !.controller = "audit_required"]
        [] row.kind = "runtime.timeout" -> Work("timed_out", "blocked")
        [] row.kind = "runtime.killed" -> Work("cancelled", "blocked")
        [] row.kind = "runtime.auth_failed" ->
             [s EXCEPT !.controller = "blocked", !.issue = "blocked"]
        [] row.kind = "controller.audit_started" -> [s EXCEPT !.controller = "audit_running"]
        [] row.kind \in {"human_gate.required", "human_gate.required to merge"} ->
             [s EXCEPT !.gate = "required", !.issue = "needs_human",
                       !.merge = IF row.kind = "human_gate.required" THEN @ ELSE "merge_gated"]
        [] row.kind = "human_gate.released" ->
             [s EXCEPT !.gate = "released",
                       !.merge = IF @ = "merge_gated" THEN "ready_for_gate_review" ELSE @]
        [] row.kind = "human_gate.rejected" ->
             [s EXCEPT !.gate = "rejected", !.issue = "rejected",
                       !.merge = Merge(s, "rejected")]
        [] row.kind \in KeyedKinds -> s
        [] OTHER -> Verdict(s, row)

\* reduceAgentEvents
Reduce(rows) == FoldLeft(Applied, Empty, Sorted(Deduped(rows)))

\* What a reader of the file gets: exit 1 and no state if the file is not valid.
Refused == [refused |-> TRUE]
Read(rows) == IF FileValid(rows) THEN Reduce(rows) ELSE Refused

-----------------------------------------------------------------------------
(* The processes *)

GateInit == /\ clock = 0
            /\ ledger = <<>>
            /\ pending = [w \in Writer |-> NoRow]
            /\ built = 0

Idle(w) == pending[w] = NoRow /\ built < MaxBuilt

Stamp(w, row) == /\ Idle(w)
                 /\ pending' = [pending EXCEPT ![w] = row]
                 /\ built' = built + 1
                 /\ UNCHANGED <<clock, ledger>>

\* A runtime, a controller or a human builds a row.  A runtime's row needs the
\* gate whenever its contract says anything but HG-0.
BuildRow(w) == /\ built < MaxPlain
               /\ \E kind \in Kinds, needs \in BOOLEAN :
                    Stamp(w, Row(built + 1, kind, needs, NoCard))

\* human-gate-release validate --append-event: a card that is blocked leaves
\* no row.  A hand-written generated_at may lie ahead.
ReleaseGate(w) == \E card \in Cards, made \in 0..MaxTime :
                    /\ built < MaxPlain /\ GatePasses(card, made, clock)
                    /\ Stamp(w, ReleaseRow(built + 1, card))

\* Mutant: the rows a run would write are never missing.
MissingAlways(id) == TRUE

\* appendEventsIfMissing: no row of the file has the id.
Missing(id) == \A k \in DOMAIN ledger : ledger[k].id # id

\* A run of the dream or of the ingest reads the file and takes what is missing.
BuildKeyedRow(w) ==
  \E keyed \in KeyedRows :
    /\ Missing(keyed.id)
    /\ Stamp(w, [Row(keyed.id, keyed.kind, keyed.needs, NoCard) EXCEPT !.seen = Len(ledger)])

AppendRow(w) == /\ pending[w] # NoRow
                /\ ledger' = Append(ledger, pending[w])
                /\ pending' = [pending EXCEPT ![w] = NoRow]
                /\ UNCHANGED <<clock, built>>

\* The process dies before its row is written.
WriterDies(w) == /\ pending[w] # NoRow
                 /\ pending' = [pending EXCEPT ![w] = NoRow]
                 /\ UNCHANGED <<clock, ledger, built>>

TimePasses == /\ clock < MaxTime
              /\ clock' = clock + 1
              /\ UNCHANGED <<ledger, pending, built>>

GateNext == \/ \E w \in Writer : \/ BuildRow(w)
                                 \/ ReleaseGate(w)
                                 \/ BuildKeyedRow(w)
                                 \/ AppendRow(w)
                                 \/ WriterDies(w)
            \/ TimePasses

GateSpec == GateInit /\ [][GateNext]_gateVars

-----------------------------------------------------------------------------
(* Properties *)

\* The gate and the ledger judge a release from tables of their own: whatever
\* the gate passes, the ledger's validator of rows accepts, so no release makes
\* readers refuse the whole file by what it says (that two rows share an id is
\* RefusedOnlyByRace's).
ReleasedIsAccepted == \A k \in DOMAIN ledger : RowValid(ledger[k])

\* The state of an issue is read from what happened and when, not from which
\* process won the race to append: the rows in the opposite append order read the
\* same, as long as no two rows bear the same time.
OrderDoesNotMatter ==
  (\A i, j \in DOMAIN ledger : ledger[i].at = ledger[j].at => i = j)
    => Read(Reverse(ledger)) = Read(ledger)

\* A file is refused for one reason only: two runs of a tool that repeats its ids
\* overlapped, and the later row's writer had read the file before the earlier
\* row was in it.  Running the dream or the ingest again afterwards, crashes
\* included, never makes the file unreadable.
RefusedOnlyByRace ==
  ~ FileValid(ledger) =>
    \E i, j \in DOMAIN ledger : i < j /\ ledger[i].id = ledger[j].id /\ ledger[j].seen < i

\* What readers of the event file get depends on what happened alone, and only
\* overlapping runs of a repeating tool take it from them.
ReductionIsStable == OrderDoesNotMatter /\ RefusedOnlyByRace

\* docs/operations/agent-event-ledger.md:393: "Ignore duplicate event_id rows after
\* the first occurrence."  The reducer does, but validateAgentEventRows (:214)
\* stands before it in every reader.
DuplicatesAreIgnored == Read(ledger) = Reduce(ledger)

\* docs/governance/human-gate-levels.md: HG-3 must escalate to HG-4 when it
\* touches strategic direction or what cannot be restored.
StrategicGoesToFounder ==
  \A k \in DOMAIN ledger :
    LET card == ledger[k].card
    IN  card.level = "HG-3" => card.scope \cap Hg4Actions = {}
=============================================================================
