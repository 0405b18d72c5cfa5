------------------------------ MODULE EveShell ------------------------------
(* The operator shell: install-command-eve.mjs builds AionUI and Hermes beside   *)
(* the client, start_eve.mjs check inspects, repairs and registers a session,    *)
(* the start_eve launcher just starts AionUI, eve-session-registry.mjs closes a   *)
(* session; update_eve pulls the source and installs again with --force.         *)
EXTENDS Integers, Sequences

CONSTANTS Releases,     \* Company.OS releases: [tag, core, patch, marks, assets], what
                        \* each pins; marks: what the overlay's source check looks for
          Operator,     \* invocations of the four commands
          MaxEvents     \* pulls, edits and other events around the commands

\* 0 stands for nothing there.
ASSUME ReleasePins ==
    /\ Releases \in Seq([tag : Nat \ {0}, core : Nat \ {0}, patch : Nat \ {0},
                        marks : Nat, assets : Nat \ {0}])
    /\ Releases # <<>>

VARIABLES source,       \* the release the Company.OS checkout holds
          ui,           \* the AionUI tree and what was built from it
          home,         \* Hermes, its SOUL.md, the prepared context, launchers, killswitch
          session,      \* the one workstream of EVE_WORKSTREAM_SESSIONS.json
          shown,        \* the version the running AionUI displays
          op,
          events
shellVars == <<source, ui, home, session, shown, op, events>>

NoTree == [kind |-> "none", tag |-> 0, patch |-> 0, repairs |-> 0, assets |-> 0,
           locale |-> 0, brand |-> 0, core |-> 0, built |-> <<>>]
NoSession == [status |-> "none", markers |-> FALSE, generation |-> 0, old |-> FALSE]
NotRun == [pc |-> "idle", kind |-> "none", force |-> FALSE, release |-> 1,
           read |-> NoSession, alone |-> TRUE, result |-> "none"]
ShellInit ==
    /\ source = 1
    /\ ui = NoTree
    /\ home = [hermes |-> FALSE, soul |-> "none", saved |-> FALSE, wrote |-> FALSE,
               context |-> 0, launchers |-> FALSE, killswitch |-> FALSE]
    /\ session = NoSession
    /\ shown = 0
    /\ op = [p \in Operator |-> NotRun]
    /\ events = 0

Release == Releases[source]
Runs(p) == op[p].pc \notin {"idle", "done"}

\* The process takes a step; the others are no longer alone when it wrote.
Steps(p, wrote, r) ==
    op' = [q \in Operator |->
              IF q = p THEN r ELSE [op[q] EXCEPT !.alone = @ /\ ~(wrote /\ Runs(q))]]
To(p, wrote, pc) == Steps(p, wrote, [op[p] EXCEPT !.pc = pc])
Stops(p, result) ==
    Steps(p, TRUE, [NotRun EXCEPT !.pc = "done", !.result = result])

-----------------------------------------------------------------------------
(* The overlay on the AionUI tree.                                            *)
\* isAionuiCommandEvePatchedSourceOverlayApplied: looks for marks in the sources.
Patched(t) == /\ t.patch # 0
              /\ \E i \in DOMAIN Releases :
                    Releases[i].patch = t.patch /\ Releases[i].marks = Release.marks
\* isAionuiCommandEveOverlayApplied: the patch, the three repairs, the locale pack; not
\* the assets.
OverlayApplied(t) == Patched(t) /\ t.repairs = 3 /\ t.locale = Release.assets
\* planManagedFileCopies without force: a differing asset of AionUI is in the way.
AssetConflict(t) == t.assets \notin {0, Release.assets}

\* git apply is all or nothing, and meant for the clean tree of its tag.
PatchFits(t) == t.patch = 0 /\ t.tag = Release.tag

\* The three repairs rewrite one file each, and leave it when their place is not found.
ChatRepair(t) == IF t.repairs = 0 THEN {t, [t EXCEPT !.repairs = 1]} ELSE {t}
GuidRepair(t) == IF t.repairs = 1 THEN {t, [t EXCEPT !.repairs = 2]} ELSE {t}
AcpRepair(t) == IF t.repairs = 2 THEN {t, [t EXCEPT !.repairs = 3]} ELSE {t}
Repaired(t) ==
    UNION {AcpRepair(u) : u \in UNION {GuidRepair(v) : v \in ChatRepair(t)}}

\* applyAionuiCommandEveOverlay: assets that nothing blocks, the brand, the patch, then
\* one repair after the other; the locale pack comes last.
Overlaid(t) ==
    LET copied == [t EXCEPT !.assets = IF AssetConflict(t) THEN @ ELSE Release.assets,
                            !.brand = source]
        patched == [copied EXCEPT !.patch = IF Patched(t) THEN @ ELSE Release.patch]
    IN  IF ~Patched(t) /\ ~PatchFits(t) THEN {[ok |-> FALSE, tree |-> copied]}
        ELSE {[ok |-> u.repairs = 3,
               tree |-> [u EXCEPT !.locale = IF u.repairs = 3 THEN Release.assets ELSE @]] :
                  u \in Repaired(patched)}

\* inspectAionuiCommandEveOverlay.
Inspection(t) ==
    IF t.kind = "none" \/ AssetConflict(t) \/ (~Patched(t) /\ ~PatchFits(t)) THEN {"blocked"}
    ELSE IF OverlayApplied(t) THEN {"applied"} ELSE {"ready", "blocked"}

-----------------------------------------------------------------------------
(* runCommandEveInstall.                                                      *)
BeginInstall(p) ==
    /\ op[p].pc = "idle"
    /\ \/ \E force \in BOOLEAN :
             Steps(p, FALSE, [NotRun EXCEPT !.pc = "source", !.kind = "install",
                                            !.force = force, !.release = source])
       \/ Stops(p, "blocked")                    \* a prerequisite is missing
    /\ UNCHANGED <<source, ui, home, session, shown, events>>
Pinned(p) == Releases[op[p].release]

Cloned(p) == [NoTree EXCEPT !.kind = "git", !.tag = Pinned(p).tag]
\* Mutant: a forced install, too, checks out the tag in the tree that is there.
GetSourceKeeps(p) ==
    /\ op[p].pc = "source"
    /\ CASE ui.kind = "git" -> IF ui.tag = Pinned(p).tag THEN To(p, TRUE, "core") /\ UNCHANGED ui
                               ELSE Stops(p, "blocked") /\ UNCHANGED ui
         [] ui.kind = "dir" /\ ~op[p].force -> Stops(p, "blocked") /\ UNCHANGED ui
         [] OTHER -> \/ ui' = NoTree /\ Stops(p, "blocked")
                     \/ ui' = Cloned(p) /\ To(p, TRUE, "core")
    /\ UNCHANGED <<source, home, session, shown, events>>
\* cloneOrUpdateAionUi: the shallow clone knows no tag but its own; --force removes the
\* tree before it clones. Then bun install, which may fail.
GetSource(p) ==
    /\ op[p].pc = "source"
    /\ CASE ui.kind = "git" /\ ~op[p].force ->
               /\ UNCHANGED ui
               /\ \/ ui.tag = Pinned(p).tag /\ To(p, TRUE, "core")
                  \/ Stops(p, "blocked")
         [] ui.kind = "dir" /\ ~op[p].force -> Stops(p, "blocked") /\ UNCHANGED ui
         [] OTHER -> \/ ui' = NoTree /\ Stops(p, "blocked")
                     \/ ui' = Cloned(p) /\ (To(p, TRUE, "core") \/ Stops(p, "blocked"))
    /\ UNCHANGED <<source, home, session, shown, events>>

\* AionUI's script, or the archive of the pinned release: either may fail.
AionCores(p) == {0, Pinned(p).core}
\* prepareAionCoreBackend: a backend that is there, of whatever version, is kept.
PrepareCore(p) ==
    /\ op[p].pc = "core"
    /\ \/ ui.core # 0 /\ UNCHANGED ui /\ To(p, TRUE, "hermes")
       \/ /\ ui.core = 0
          /\ \E core \in AionCores(p) :
                /\ ui' = [ui EXCEPT !.core = core]
                /\ IF core = 0 THEN Stops(p, "blocked") ELSE To(p, TRUE, "hermes")
    /\ UNCHANGED <<source, home, session, shown, events>>

\* installHermes and writeHermesConfig, which keeps a config that is there.
InstallHermes(p) ==
    /\ op[p].pc = "hermes"
    /\ \/ home' = [home EXCEPT !.hermes = TRUE] /\ To(p, TRUE, "overlay")
       \/ UNCHANGED home /\ Stops(p, "blocked")
    /\ UNCHANGED <<source, ui, session, shown, events>>

\* The first thing applyAionuiCommandEveOverlay looks for is the killswitch.
InstallOverlay(p) ==
    /\ op[p].pc = "overlay"
    /\ IF home.killswitch THEN UNCHANGED ui /\ Stops(p, "blocked")
       ELSE IF ui.kind = "none" THEN UNCHANGED ui /\ To(p, TRUE, "build")
       ELSE \E result \in Overlaid(ui) :
               /\ ui' = result.tree
               /\ IF result.ok THEN To(p, TRUE, "build") ELSE Stops(p, "blocked")
    /\ UNCHANGED <<source, home, session, shown, events>>

\* buildAionUiRendererAssets: what was built from whatever sources is kept.
BuildRenderer(p) ==
    /\ op[p].pc = "build"
    /\ \/ ui.built # <<>> /\ UNCHANGED ui /\ To(p, TRUE, "prepare")
       \/ /\ ui.built = <<>> /\ ui.kind # "none"
          /\ ui' = [ui EXCEPT !.built = <<ui.tag, ui.patch, ui.assets>>]
          /\ To(p, TRUE, "prepare")
       \/ ui.built = <<>> /\ UNCHANGED ui /\ Stops(p, "blocked")
    /\ UNCHANGED <<source, home, session, shown, events>>

\* Mutant: only what it generated itself is saved, not the founder's.
BackupIfNeededGenerated(soul) == soul = "generated"
\* backupIfNeeded: a SOUL.md without the generated marker.
BackupIfNeeded(soul) == soul = "founder"
Prepared == [home EXCEPT !.saved = @ \/ BackupIfNeeded(home.soul),
                         !.soul = "generated", !.context = source]
\* prepareEveSidecar, in both commands; the installer writes its launchers even when the
\* preflight fails.
Prepare(p) ==
    /\ op[p].pc = "prepare"
    /\ IF ui.kind = "none" \/ ~home.hermes
       THEN UNCHANGED home /\ Stops(p, "blocked")
       ELSE \/ home' = Prepared /\ To(p, TRUE, "preflight")
            \/ UNCHANGED home /\ Stops(p, "blocked")
    /\ UNCHANGED <<source, ui, session, shown, events>>
PreflightPasses == ui.kind # "none" /\ home.hermes /\ home.context # 0
Preflight(p) ==
    /\ op[p].pc = "preflight"
    /\ \E passes \in BOOLEAN :
          /\ passes => PreflightPasses
          /\ IF op[p].kind = "install"
             THEN /\ home' = [home EXCEPT !.launchers = TRUE]
                  /\ Stops(p, IF passes THEN "pass" ELSE "blocked")
             ELSE /\ UNCHANGED home
                  /\ IF passes THEN To(p, FALSE, "session") ELSE Stops(p, "blocked")
    /\ UNCHANGED <<source, ui, session, shown, events>>

-----------------------------------------------------------------------------
(* runStartEve, and the session registry.                                     *)
BeginStart(p) ==
    /\ op[p].pc = "idle"
    /\ \E apply \in BOOLEAN :
          Steps(p, FALSE, [NotRun EXCEPT !.pc = "inspect", !.kind = "start",
                                         !.force = apply])
    /\ UNCHANGED <<source, ui, home, session, shown, events>>

\* With --apply-overlay a tree that is ready is overlaid; then it has to be applied.
StartOverlay(p) ==
    /\ op[p].pc = "inspect"
    /\ \E found \in Inspection(ui) :
          CASE found = "applied" -> UNCHANGED ui /\ To(p, FALSE, "brand")
            [] found = "ready" /\ op[p].force /\ ~home.killswitch ->
                  \E result \in Overlaid(ui) :
                     /\ ui' = result.tree
                     /\ IF result.ok /\ OverlayApplied(ui') THEN To(p, TRUE, "brand")
                        ELSE Stops(p, "blocked")
            [] OTHER -> UNCHANGED ui /\ Stops(p, "blocked")
    /\ UNCHANGED <<source, home, session, shown, events>>

\* inspectAionuiCommandEveBrandConfig, writeAionuiCommandEveBrandConfig.
RefreshBrand(p) ==
    /\ op[p].pc = "brand"
    /\ ui' = IF ui.kind = "none" THEN ui ELSE [ui EXCEPT !.brand = source]
    /\ To(p, TRUE, "prepare")
    /\ UNCHANGED <<source, home, session, shown, events>>

\* evaluateEveSessionHygiene.
Polluted(s) == s.status = "polluted" \/ s.markers
StaleSession(s) == s.status = "open" /\ s.old
\* Mutant: a stale session goes on under its generation.
SessionForKeeps(s) ==
    [status |-> "open", markers |-> FALSE, old |-> FALSE,
     generation |-> s.generation + IF s = NoSession THEN 1 ELSE 0]
\* buildStartEveWorkstreamSession: a new or a stale one starts a generation.
SessionFor(s) ==
    [status |-> "open", markers |-> FALSE, old |-> FALSE,
     generation |-> s.generation + IF s = NoSession \/ StaleSession(s) THEN 1 ELSE 0]

\* routeStartEveSessionContinuity, then loadEveSessionRegistry and the upsert. The
\* code reads the file for each and asks for pollution twice; one read here.
ReadSession(p) ==
    /\ op[p].pc = "session"
    /\ \/ Stops(p, "blocked")                    \* another class than continuity is asked
       \/ IF Polluted(session) THEN Stops(p, "polluted")
          ELSE Steps(p, FALSE, [op[p] EXCEPT !.pc = "register", !.read = session])
    /\ UNCHANGED <<source, ui, home, session, shown, events>>
\* writeEveSessionRegistry; the auth smoke, if asked for, comes after it.
WriteSession(p) ==
    /\ op[p].pc = "register"
    /\ session' = SessionFor(op[p].read)
    /\ \E result \in {"ready", "blocked"} : Stops(p, result)
    /\ UNCHANGED <<source, ui, home, shown, events>>

\* eve-session-registry.mjs close: reads, then writes the session as closed.
\* closeEveWorkstreamSession.
ClosedSession(s) == [s EXCEPT !.status = "closed", !.old = FALSE]
BeginClose(p) ==
    /\ op[p].pc = "idle"
    /\ session # NoSession
    /\ Steps(p, FALSE, [NotRun EXCEPT !.pc = "close", !.kind = "close", !.read = session])
    /\ UNCHANGED <<source, ui, home, session, shown, events>>
WriteClosed(p) ==
    /\ op[p].pc = "close"
    /\ session' = ClosedSession(op[p].read)
    /\ Stops(p, "closed")
    /\ UNCHANGED <<source, ui, home, shown, events>>

\* The start_eve launcher without an argument: exec bun run webui --no-build.
LaunchEve ==
    /\ home.launchers /\ ui.kind # "none" /\ ui.built # <<>>
    /\ shown' = ui.brand
    /\ UNCHANGED <<source, ui, home, session, op, events>>

-----------------------------------------------------------------------------
OperatorDies(p) ==
    /\ Runs(p)
    /\ Stops(p, "died")
    /\ UNCHANGED <<source, ui, home, session, shown, events>>
RunAgain(p) ==
    /\ op[p].pc = "done"
    /\ op' = [op EXCEPT ![p] = NotRun]
    /\ UNCHANGED <<source, ui, home, session, shown, events>>

Around == /\ events < MaxEvents
          /\ events' = events + 1
          /\ op' = [q \in Operator |-> [op[q] EXCEPT !.alone = @ /\ ~Runs(q)]]
\* update_eve check, or git: git pull --ff-only.
PullRelease ==
    /\ Around
    /\ source < Len(Releases)
    /\ source' = source + 1
    /\ UNCHANGED <<ui, home, session, shown>>
FounderSoul ==
    /\ Around
    /\ home' = [home EXCEPT !.soul = "founder", !.saved = FALSE, !.wrote = TRUE]
    /\ UNCHANGED <<source, ui, session, shown>>
\* The killswitch file is there or gone; the AionUI directory is not a clone.
FlipKillswitch ==
    /\ Around
    /\ home' = [home EXCEPT !.killswitch = ~@]
    /\ UNCHANGED <<source, ui, session, shown>>
PlainDirectory ==
    /\ Around
    /\ ui.kind = "none"
    /\ ui' = [ui EXCEPT !.kind = "dir"]
    /\ UNCHANGED <<source, home, session, shown>>
\* More than stale_after_days go by; somebody marks the session as polluted.
DaysGoBy ==
    /\ Around
    /\ session.status = "open"
    /\ session' = [session EXCEPT !.old = TRUE]
    /\ UNCHANGED <<source, ui, home, shown>>
MarkPolluted ==
    /\ Around
    /\ session.status = "open"
    /\ \/ session' = [session EXCEPT !.markers = TRUE]
       \/ session' = [session EXCEPT !.status = "polluted"]
    /\ UNCHANGED <<source, ui, home, shown>>

ShellNext ==
    \/ \E p \in Operator :
          \/ BeginInstall(p) \/ GetSource(p) \/ PrepareCore(p) \/ InstallHermes(p)
          \/ InstallOverlay(p) \/ BuildRenderer(p) \/ Prepare(p) \/ Preflight(p)
          \/ BeginStart(p) \/ StartOverlay(p) \/ RefreshBrand(p) \/ ReadSession(p)
          \/ WriteSession(p) \/ BeginClose(p) \/ WriteClosed(p) \/ OperatorDies(p)
          \/ RunAgain(p)
    \/ LaunchEve \/ PullRelease \/ FounderSoul \/ FlipKillswitch \/ PlainDirectory
    \/ DaysGoBy \/ MarkPolluted
ShellSpec == ShellInit /\ [][ShellNext]_shellVars

-----------------------------------------------------------------------------
Finishes(p, result) == op[p].result = "none" /\ op'[p].result = result /\ op[p].alone

\* A forced install that passes, with nobody else at work, leaves the AionUI, backend,
\* overlay and renderer of the release it read (1.0-command-eve-operator-shell-alpha.md:131
\* "refreshes the pinned AionUI/Hermes sidecars").
PassIsPinned ==
    [][\A p \in Operator : Finishes(p, "pass") /\ op[p].force =>
          /\ ui.tag = Release.tag /\ ui.core = Release.core /\ ui.patch = Release.patch
          /\ ui.built = <<Release.tag, Release.patch, Release.assets>>
          /\ OverlayApplied(ui) /\ home'.launchers
      ]_shellVars

\* A start check that ends ready, with nobody else at work, leaves an applied overlay of
\* the source's own version, a prepared context and an open session that is neither
\* polluted nor stale, and never went on with the generation of a stale one.
ReadyIsSound ==
    [][\A p \in Operator : Finishes(p, "ready") =>
          /\ OverlayApplied(ui) /\ ~AssetConflict(ui)
          /\ ui.brand = source /\ home.context = source
          /\ session'.status = "open" /\ ~session.markers /\ ~session'.old
          /\ session.old /\ session.status = "open" =>
                session'.generation > session.generation
      ]_shellVars

\* The founder's SOUL.md is in its place or saved in a backup (backupIfNeeded).
FounderSoulKept == home.wrote => home.soul = "founder" \/ home.saved

\* A start is ready on sound ground only, and never at the founder's cost.
StartIsSound == ReadyIsSound /\ []FounderSoulKept

\* "`/start_eve` blocks until the workstream is closed/reset"
\* (workstream-session-continuity.md:213).
CloseUnblocks == session.status = "closed" => ~Polluted(session)

\* start_eve "refreshes `public/command-eve-brand.json` from the root `VERSION`, so the
\* login UI cannot keep showing a stale product version after a repo update"
\* (1.0-command-eve-operator-shell-alpha.md:126).
ShownIsCurrent == [][shown' # shown => shown' = source]_shellVars
=============================================================================
