----------------------------- MODULE KitUpdate -----------------------------
(* company-os-update.mjs with company-os-update-core.mjs: `check` and        *)
(* `apply` bring the files of kits/company-os-kit of a source clone into an  *)
(* installed workspace. The plan hashes every kit file and the target's file *)
(* of the same path, one after the other; apply then copies, file by file,   *)
(* what the plan calls add or update, from the clone as it is by then, and   *)
(* writes its report last. Meanwhile the operator edits files of the         *)
(* workspace and pulls the clone, another updater may be at work, and a run  *)
(* may die before or in the middle of a copy. File contents are the release  *)
(* they come from, the operator's own, or the torso of a broken copy.        *)
EXTENDS Integers, Sequences, FiniteSets

CONSTANTS Updater,      \* invocations of company-os-update.mjs
          KitFiles,     \* the kit's files in the order of listFilesRecursive
          KindOf(_),    \* "plain", "local", "blocked", "manual" or "secret"
          Record,       \* .company-os/install-record.md, which the kit does not hold
          MaxRelease,   \* the last release the source clone is pulled to
          MaxEdits      \* files the operator writes in the workspace

VARIABLES release,      \* the release checked out in the source clone
          disk,         \* the workspace: path -> content
          edits,        \* files the operator has written so far
          updater,      \* the runs
          reports       \* reports/company-os-updates of the day: release -> last report
updateVars == <<release, disk, edits, updater, reports>>

Files == {KitFiles[n] : n \in DOMAIN KitFiles}
ASSUME KitAssumption == KitFiles \in Seq(Files) /\ MaxRelease \in Nat \ {0}
Paths == Files \cup {Record}
Old == 0        \* as an earlier release left it; the releases are 1, 2, ...
Absent == -1
Mine == -2
Torso == -3

\* classifyChange: the status of one kit file. A local or manual-review file
\* that is not there yet is an addition like any other.
\* Mutant: absence is looked at before the list of blocked paths.
ClassifyChangeAbsentFirst(kind, there, same) ==
    CASE ~there -> "add" [] same -> "unchanged" [] kind = "blocked" -> "blocked"
      [] kind = "local" -> "collision" [] kind = "manual" -> "manual-review"
      [] OTHER -> "update"
\* Mutant: manual-review paths are updated.
ClassifyChangeNoReview(kind, there, same) ==
    CASE ~there -> IF kind = "blocked" THEN "blocked" ELSE "add"
      [] there /\ same -> "unchanged"
      [] OTHER -> CASE kind = "blocked" -> "blocked"
                    [] kind = "local" -> "collision"
                    [] OTHER -> "update"
ClassifyChange(kind, there, same) ==
    CASE ~there -> IF kind = "blocked" THEN "blocked" ELSE "add"
      [] there /\ same -> "unchanged"
      [] OTHER -> CASE kind = "blocked" -> "blocked"
                    [] kind = "local" -> "collision"
                    [] kind = "manual" -> "manual-review"
                    [] OTHER -> "update"

\* The paths auditKitForSecrets reports. The plan carries them; nothing in
\* applyCompanyOsUpdate looks at them.
KitSecrets == {f \in Files : KindOf(f) = "secret"}

\* Statuses planCompanyOsUpdate counts as safe, which apply copies.
Safe == {"add", "update"}

\* The status of a finished plan (applyCompanyOsUpdate replaces it by "dry-run" or "pass").
PlanStatus(installed, plan) ==
    LET of(S) == \E f \in Files : plan[f] \in S
    IN  CASE ~installed -> "not-installed"
          [] installed /\ of(Safe \cup {"manual-review"}) -> "changes-available"
          [] installed /\ ~of(Safe \cup {"manual-review"}) ->
                 IF of({"collision", "blocked"}) THEN "blocked-only" ELSE "up-to-date"

NoPlan == [f \in Files |-> "unread"]
NoReport == [applied |-> FALSE, status |-> "none"]

\* "alone" is a history variable: nobody else has written to clone or workspace.
UpdateInit ==
    /\ release = 1
    /\ disk = [f \in Paths |-> IF f # Record /\ KindOf(f) \in {"plain", "manual"} THEN Old ELSE Absent]
    /\ edits = 0
    /\ updater = [u \in Updater |-> [pc |-> "idle", mode |-> "check", installed |-> FALSE,
                                     n |-> 1, plan |-> NoPlan, alone |-> TRUE, exit |-> -1]]
    /\ reports = [r \in 1..MaxRelease |-> NoReport]

File(u) == KitFiles[updater[u].n]
\* Everybody but u is no longer alone.
Seen(u) == [v \in Updater |-> IF v = u THEN updater[u]
                                      ELSE [updater[v] EXCEPT !.alone = FALSE]]
Moves(u, r) == updater' = [updater EXCEPT ![u] = r]
Gone(code) == [pc |-> "done", mode |-> "check", installed |-> FALSE, n |-> 1,
               plan |-> NoPlan, alone |-> FALSE, exit |-> code]
Leave(u, code) == Moves(u, Gone(code))

\* writeUpdateReport: check and apply of one day and release share a file. The
\* code names it by the plan's to_version; only a pull during the run makes that
\* another one than the release checked out now, and nobody reads it back.
WriteReport(u, applied) ==
    reports' = [reports EXCEPT ![release] =
        [applied |-> applied, status |-> PlanStatus(updater[u].installed, updater[u].plan)]]

\* Source and target resolve to one path: `check` says so, `apply` refuses.
SourceIsTarget(u) ==
    /\ updater[u].pc = "idle"
    /\ \E code \in {0, 2} : Leave(u, code)
    /\ UNCHANGED <<release, disk, edits, reports>>

\* --to of apply: a pinned release (0: none) must be the one checked out. That
\* is asked before the plan and never again.
PinHolds(mode, pin) == mode = "check" \/ pin \in {0, release}

\* A run starts and looks for the install record.
UpdateStart(u) ==
    /\ updater[u].pc = "idle"
    /\ \E mode \in {"check", "dry-run", "apply"}, pin \in {0} \cup (1..MaxRelease) :
          IF PinHolds(mode, pin)
          THEN Moves(u, [updater[u] EXCEPT !.pc = "plan", !.mode = mode, !.alone = TRUE,
                                           !.installed = disk[Record] # Absent])
          ELSE Leave(u, 2)
    /\ UNCHANGED <<release, disk, edits, reports>>

\* planCompanyOsUpdate hashes the next pair of files and classifies it.
JudgeFile(u) ==
    /\ updater[u].pc = "plan"
    /\ updater[u].n <= Len(KitFiles)
    /\ Moves(u, [updater[u] EXCEPT
             !.plan[File(u)] = ClassifyChange(KindOf(File(u)), disk[File(u)] # Absent,
                                              disk[File(u)] = release),
             !.n = @ + 1])
    /\ UNCHANGED <<release, disk, edits, reports>>

\* The plan is complete: check ends, with a report if one was asked for; apply
\* needs an installed workspace, and a dry run ends here.
PlanMade(u) ==
    /\ updater[u].pc = "plan"
    /\ updater[u].n > Len(KitFiles)
    /\ CASE updater[u].mode = "check" ->
              /\ Leave(u, 0)
              /\ \/ UNCHANGED reports
                 \/ WriteReport(u, FALSE)
         [] updater[u].mode # "check" /\ (~updater[u].installed \/ updater[u].mode = "dry-run") ->
              /\ Leave(u, IF updater[u].installed THEN 0 ELSE 2)
              /\ UNCHANGED reports
         [] OTHER ->
              /\ Moves(u, [updater[u] EXCEPT !.pc = "copy", !.n = 1])
              /\ UNCHANGED reports
    /\ UNCHANGED <<release, disk, edits>>

\* applyCompanyOsUpdate copies the next file if the plan calls it safe,
\* whatever has become of it and of the clone since.
\* Mutant: only additions are copied.
CopyFileAdds(u) ==
    /\ updater[u].pc = "copy"
    /\ updater[u].n <= Len(KitFiles)
    /\ IF updater[u].plan[File(u)] = "add"
       THEN /\ disk' = [disk EXCEPT ![File(u)] = release]
            /\ updater' = [Seen(u) EXCEPT ![u].n = @ + 1]
       ELSE /\ Moves(u, [updater[u] EXCEPT !.n = @ + 1])
            /\ UNCHANGED disk
    /\ UNCHANGED <<release, edits, reports>>
CopyFile(u) ==
    /\ updater[u].pc = "copy"
    /\ updater[u].n <= Len(KitFiles)
    /\ IF updater[u].plan[File(u)] \in Safe
       THEN /\ disk' = [disk EXCEPT ![File(u)] = release]
            /\ updater' = [Seen(u) EXCEPT ![u].n = @ + 1]
       ELSE /\ Moves(u, [updater[u] EXCEPT !.n = @ + 1])
            /\ UNCHANGED disk
    /\ UNCHANGED <<release, edits, reports>>

\* writeUpdateReport, after the last copy; then exit code 0.
ReportUpdate(u) ==
    /\ updater[u].pc = "copy"
    /\ updater[u].n > Len(KitFiles)
    /\ WriteReport(u, TRUE)
    /\ Leave(u, 0)
    /\ UNCHANGED <<release, disk, edits>>

\* The run dies or an operation on a file throws: exit code 1. A copy that was
\* under way may leave a torso.
UpdateDies(u) ==
    /\ updater[u].pc \in {"plan", "copy"}
    /\ \/ Leave(u, 1) /\ UNCHANGED disk
       \/ /\ updater[u].pc = "copy"
          /\ updater[u].n <= Len(KitFiles)
          /\ updater[u].plan[File(u)] \in Safe
          /\ disk' = [disk EXCEPT ![File(u)] = Torso]
          /\ updater' = [Seen(u) EXCEPT ![u] = Gone(1)]
    /\ UNCHANGED <<release, edits, reports>>

\* The operator writes a file of the workspace (bootstrap writes the record).
EditFile(f) ==
    /\ edits < MaxEdits
    /\ disk' = [disk EXCEPT ![f] = Mine]
    /\ edits' = edits + 1
    /\ updater' = [u \in Updater |-> [updater[u] EXCEPT !.alone = FALSE]]
    /\ UNCHANGED <<release, reports>>

\* The operator pulls the source clone.
PullSource ==
    /\ release < MaxRelease
    /\ release' = release + 1
    /\ updater' = [u \in Updater |-> [updater[u] EXCEPT !.alone = FALSE]]
    /\ UNCHANGED <<disk, edits, reports>>

UpdaterStep(u) == SourceIsTarget(u) \/ UpdateStart(u) \/ JudgeFile(u) \/ PlanMade(u) 
                  \/ CopyFile(u) \/ ReportUpdate(u)
UpdateNext ==
    \/ \E u \in Updater : UpdaterStep(u) \/ UpdateDies(u)
    \/ \E f \in Paths : EditFile(f)
    \/ PullSource
UpdateSpec == UpdateInit /\ [][UpdateNext]_updateVars

-----------------------------------------------------------------------------
\* The kit's copy of a hard-blocked file (install record, discovery brief,
\* workspace registry, ...) is never written, however long ago the plan was made
\* and whether the file was there then (HARD_BLOCKED_UPDATE_PATHS).
BlockedNeverWritten ==
    \A f \in Files : KindOf(f) = "blocked" => disk[f] \in {Absent, Mine}

\* An existing local-state or manual-review file is replaced only by a run that
\* planned its addition while it was not there (classifyChange).
ReviewedFilesStay ==
    [][\A f \in Files : /\ KindOf(f) \in {"local", "manual"}
                        /\ disk[f] \in {Old, Mine} /\ disk'[f] # disk[f]
          => disk'[f] = Mine \/ \E u \in Updater : updater[u].plan[f] = "add"]_updateVars

\* `apply` ending with code 0 leaves every ordinary kit file as the clone has it,
\* also when an earlier run broke off in the middle of a copy, provided nobody
\* else wrote to clone or workspace from its start to its end.
PassMeansCurrent ==
    [][\A u \in Updater :
          /\ updater[u].pc # "done" /\ updater'[u].exit = 0
          /\ updater[u].pc = "copy" /\ updater[u].alone
          => \A f \in Files : KindOf(f) = "plain" => disk'[f] = release']_updateVars

\* An update leaves alone what is the founder's and brings all the rest.
UpdateIsFaithful == []BlockedNeverWritten /\ ReviewedFilesStay /\ PassMeansCurrent

\* A file the secret audit reports is not shipped into a workspace: the update
\* "reports it as a blocker so the operator never ships an .env ... into a
\* target install" (company-os-update-core.mjs:51-53).
NoSecretShipped == \A f \in KitSecrets : disk[f] \in {Absent, Mine}
=============================================================================
