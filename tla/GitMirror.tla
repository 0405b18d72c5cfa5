----------------------------- MODULE GitMirror -----------------------------
(* The git hygiene scripts over the registered workspaces. check-git-hygiene *)
(* inspects every workspace and sandbox and, with --close-session, exits 0   *)
(* only when nothing is left to settle; sync-main --write inspects all        *)
(* workspaces first, plans which integration branches to mirror, and then     *)
(* runs four git commands in each, stopping everything at the first failure.  *)
(* People and workers keep using the repositories all along, and any git      *)
(* command may fail. A branch is the set of commits reachable from it.        *)
EXTENDS Integers, FiniteSets

CONSTANTS Workspace,    \* registered workspaces
          Commit,       \* commits still to be made, in any repository
          Mirror,       \* invocations of sync-main.mjs --write
          Closer        \* invocations of check-git-hygiene.mjs --close-session

VARIABLES repo,         \* the repositories of the workspaces
          server,       \* the integration branch on each workspace's remote
          sandbox,      \* the sandbox worktree: "none", "clean" or "dirty"
          mirror, closer
mirrorVars == <<repo, server, sandbox, mirror, closer>>

\* "at" is what HEAD points to while detached; "feature" the one other branch.
FreshRepo == [head |-> "main", main |-> {}, tracking |-> {}, at |-> {}, feature |-> {},
              dirty |-> FALSE, stash |-> FALSE]
Made == UNION {server[w] \cup repo[w].main \cup repo[w].at \cup repo[w].feature
               : w \in Workspace}

-----------------------------------------------------------------------------
(* git-hygiene-core: inspectGitDirectory and inspectWorkspaceGitHygiene.     *)

\* What the inspection sees of a repository when the commands in "broken" fail:
\* a failed `git status` reads as a clean worktree, a failed `git stash list` as
\* an empty one, a failed `git rev-list` as neither ahead nor behind.
Reads == {"status", "stash", "upstream", "rev-list"}
InspectGit(r, broken) ==
    LET tracked == r.head = "main" /\ "upstream" \notin broken
        counted == tracked /\ "rev-list" \notin broken
    IN  [branch |-> r.head, dirty |-> r.dirty /\ "status" \notin broken,
         stash |-> r.stash /\ "stash" \notin broken, upstream |-> tracked,
         ahead |-> counted /\ r.main \ r.tracking # {},
         behind |-> counted /\ r.tracking \ r.main # {}]

\* The blockers of a workspace with the registry's default policy. --close-session
\* (strict) promotes branch, upstream, ahead and behind from warnings.
\* Mutant: being ahead stays a warning.
BlockersAheadWarns(g, strict) ==
    {b \in {"dirty", "stash"} : g[b]} \cup {b \in {"detached"} : g.branch = b}
      \cup IF strict
           THEN {b \in {"feature"} : g.branch = b} \cup {b \in {"upstream"} : ~g[b]}
                  \cup {b \in {"behind"} : g[b]}
           ELSE {}
Blockers(g, strict) ==
    {b \in {"dirty", "stash"} : g[b]} \cup {b \in {"detached"} : g.branch = b}
      \cup IF strict
           THEN {b \in {"feature"} : g.branch = b} \cup {b \in {"upstream"} : ~g[b]}
                  \cup {b \in {"ahead", "behind"} : g[b]}
           ELSE {}

\* scanSandboxRoots: only a dirty sandbox is a blocker.
SandboxBlockers == {b \in {"dirty"} : sandbox = b}

\* sync-main's planWorkspaceSync on an inspected workspace.
PlanWorkspaceSync(g) ==
    CASE Blockers(g, FALSE) # {} \/ g.branch # "main" \/ ~g.upstream -> "skip"
      [] Blockers(g, FALSE) = {} /\ g.branch = "main" /\ g.upstream ->
             IF g.ahead \/ g.behind THEN "sync" ELSE "noop"

\* buildMainMirrorCommands, in order, as a change of the repository (and a guard
\* git imposes: a branch that is checked out cannot be moved by force).
MainMirrorCommands == <<"fetch", "switch --detach", "branch -f", "switch">>
GitAllows(command, r) == command = "branch -f" => r.head # "main"
GitRuns(command, w) ==
    LET r == repo[w]
    IN  CASE command = "fetch"           -> [r EXCEPT !.tracking = server[w]]
          [] command = "switch --detach" -> [r EXCEPT !.head = "detached", !.at = r.tracking]
          [] command = "branch -f"       -> [r EXCEPT !.main = r.tracking]
          [] command = "switch"          -> [r EXCEPT !.head = "main", !.at = {}]

-----------------------------------------------------------------------------
MirrorInit ==
    /\ repo = [w \in Workspace |-> FreshRepo]
    /\ server = [w \in Workspace |-> {}]
    /\ sandbox = "none"
    /\ mirror = [p \in Mirror |-> [pc |-> "idle", plan |-> [w \in Workspace |-> "unread"],
                                   now |-> {}, step |-> 1, alone |-> TRUE, exit |-> -1]]
    /\ closer = [p \in Closer |-> [pc |-> "idle", read |-> {}, blocked |-> FALSE,
                                   alone |-> TRUE, exit |-> -1]]

\* History: every other run under way is no longer alone.
OthersSee(m, c) ==
    /\ mirror' = [p \in Mirror |-> [m[p] EXCEPT !.alone = @ /\ m[p] # mirror[p]]]
    /\ closer' = [p \in Closer |-> [c[p] EXCEPT !.alone = @ /\ c[p] # closer[p]]]

\* sync-main: inspect the next workspace, before anything is fetched.
MirrorInspects(p, w) ==
    /\ mirror[p].pc = "idle"
    /\ mirror[p].plan[w] = "unread"
    /\ \E broken \in SUBSET Reads :
          mirror' = [mirror EXCEPT ![p].plan[w] = PlanWorkspaceSync(InspectGit(repo[w], broken)),
                                   ![p].alone = @ \/ \A v \in Workspace : mirror[p].plan[v] = "unread"]
    /\ UNCHANGED <<repo, server, sandbox, closer>>

\* Everything is inspected; run the first command of the next planned workspace,
\* or the next command of the present one. A failure ends the run with code 2.
\* Mutant: a failed command goes on to the next workspace, and the exit code is 0.
MirrorCommandGoesOn(p, w) ==
    /\ mirror[p].pc = "idle" /\ "unread" \notin {mirror[p].plan[v] : v \in Workspace}
    /\ mirror[p].plan[w] = "sync" /\ mirror[p].now \in {{}, {w}}
    /\ LET command == MainMirrorCommands[mirror[p].step]
           ok == [mirror EXCEPT ![p].step = IF @ = 4 THEN 1 ELSE @ + 1,
                                ![p].now = IF mirror[p].step = 4 THEN {} ELSE {w},
                                ![p].plan[w] = IF mirror[p].step = 4 THEN "synced" ELSE @]
       IN  \/ /\ GitAllows(command, repo[w])
              /\ repo' = [repo EXCEPT ![w] = GitRuns(command, w)]
              /\ OthersSee(ok, closer)
           \/ /\ mirror' = [mirror EXCEPT ![p].step = 1, ![p].now = {}, ![p].plan[w] = "synced"]
              /\ UNCHANGED <<repo, closer>>
    /\ UNCHANGED <<server, sandbox>>
MirrorCommand(p, w) ==
    /\ mirror[p].pc = "idle" /\ "unread" \notin {mirror[p].plan[v] : v \in Workspace}
    /\ mirror[p].plan[w] = "sync" /\ mirror[p].now \in {{}, {w}}
    /\ LET command == MainMirrorCommands[mirror[p].step]
           ok == [mirror EXCEPT ![p].step = IF @ = 4 THEN 1 ELSE @ + 1,
                                ![p].now = IF mirror[p].step = 4 THEN {} ELSE {w},
                                ![p].plan[w] = IF mirror[p].step = 4 THEN "synced" ELSE @]
       IN  \/ /\ GitAllows(command, repo[w])
              /\ repo' = [repo EXCEPT ![w] = GitRuns(command, w)]
              /\ OthersSee(ok, closer)
           \/ /\ mirror' = [mirror EXCEPT ![p].pc = "done", ![p].exit = 2]
              /\ UNCHANGED <<repo, closer>>
    /\ UNCHANGED <<server, sandbox>>

\* No planned workspace is left: exit code 0.
MirrorEnds(p) ==
    /\ mirror[p].pc = "idle"
    /\ {mirror[p].plan[w] : w \in Workspace} \subseteq {"skip", "noop", "synced"}
    /\ mirror' = [mirror EXCEPT ![p].pc = "done", ![p].exit = 0]
    /\ UNCHANGED <<repo, server, sandbox, closer>>

\* check-git-hygiene --close-session: inspect the next workspace; after the last
\* one scan the sandboxes and exit with 2 when there is any blocker.
CloserInspects(p, w) ==
    /\ closer[p].pc = "idle" /\ w \notin closer[p].read
    /\ \E broken \in SUBSET Reads :
          closer' = [closer EXCEPT ![p].read = @ \cup {w},
              ![p].blocked = @ \/ Blockers(InspectGit(repo[w], broken), TRUE) # {},
              ![p].alone = (@ \/ closer[p].read = {}) /\ broken = {}]
    /\ UNCHANGED <<repo, server, sandbox, mirror>>
CloserEnds(p) ==
    /\ closer[p].pc = "idle" /\ closer[p].read = Workspace
    /\ closer' = [closer EXCEPT ![p].pc = "done",
           ![p].exit = IF closer[p].blocked \/ SandboxBlockers # {} THEN 2 ELSE 0]
    /\ UNCHANGED <<repo, server, sandbox, mirror>>

\* Somebody works in a repository: edits, commits, stashes, pushes, switches.
Working(w, r) ==
    /\ repo' = [repo EXCEPT ![w] = r]
    /\ OthersSee(mirror, closer)
    /\ UNCHANGED <<server, sandbox>>
EditWorktree(w) == ~repo[w].dirty /\ Working(w, [repo[w] EXCEPT !.dirty = TRUE])
CommitWork(w) ==
    \E c \in Commit \ Made, branch \in {"main", "at", "feature"} :
       /\ repo[w].dirty
       /\ repo[w].head = IF branch = "at" THEN "detached" ELSE branch
       /\ Working(w, [repo[w] EXCEPT ![branch] = @ \cup {c}, !.dirty = FALSE])
StashWork(w) == repo[w].dirty /\ Working(w, [repo[w] EXCEPT !.dirty = FALSE, !.stash = TRUE])
SwitchBranch(w) ==
    \E branch \in {"main", "feature"} \ {repo[w].head} :
       ~repo[w].dirty /\ Working(w, [repo[w] EXCEPT !.head = branch, !.at = {}])
PushMain(w) ==
    /\ server[w] \subseteq repo[w].main /\ server[w] # repo[w].main
    /\ server' = [server EXCEPT ![w] = repo[w].main]
    /\ repo' = [repo EXCEPT ![w].tracking = repo[w].main]
    /\ OthersSee(mirror, closer)
    /\ UNCHANGED sandbox
OthersPush(w) ==
    /\ \E c \in Commit \ Made : server' = [server EXCEPT ![w] = @ \cup {c}]
    /\ UNCHANGED <<repo, sandbox, mirror, closer>>
SandboxWork ==
    /\ sandbox' = (CASE sandbox = "none" -> "clean" [] sandbox = "clean" -> "dirty"
                     [] sandbox = "dirty" -> "none")
    /\ OthersSee(mirror, closer)
    /\ UNCHANGED <<repo, server>>

MirrorNext ==
    \/ \E p \in Mirror : MirrorEnds(p) \/ \E w \in Workspace : MirrorInspects(p, w) \/ MirrorCommand(p, w)
    \/ \E p \in Closer : CloserEnds(p) \/ \E w \in Workspace : CloserInspects(p, w)
    \/ \E w \in Workspace :
          \/ EditWorktree(w) \/ CommitWork(w) \/ StashWork(w) \/ SwitchBranch(w)
          \/ PushMain(w) \/ OthersPush(w)
    \/ SandboxWork
MirrorSpec == MirrorInit /\ [][MirrorNext]_mirrorVars

-----------------------------------------------------------------------------
\* A mirror run that ends with code 0 has left every workspace it synced on its
\* integration branch, which equals the fetched upstream, unless somebody else
\* wrote to a repository meanwhile (sync-main.mjs, main).
ExitZeroMirrors ==
    [][\A p \in Mirror : mirror[p].pc = "idle" /\ mirror'[p].exit = 0 /\ mirror[p].alone =>
          \A w \in Workspace : mirror[p].plan[w] = "synced" =>
             repo'[w].head = "main" /\ repo'[w].main = repo'[w].tracking]_mirrorVars

\* When --close-session exits with 0, every git command having answered and
\* nobody having worked meanwhile, no work is unsettled in any root or sandbox:
\* nothing uncommitted, stashed, unpushed, detached or on a side branch.
CloseIsSettled ==
    [][\A p \in Closer : closer[p].pc = "idle" /\ closer'[p].exit = 0 /\ closer[p].alone =>
          /\ \A w \in Workspace : /\ ~repo[w].dirty /\ ~repo[w].stash
                                  /\ repo[w].head = "main" /\ repo[w].main = repo[w].tracking
          /\ sandbox # "dirty"]_mirrorVars

\* Exit code 0 of mirror and close means what it says of every repository.
ExitZeroIsSettled == ExitZeroMirrors /\ CloseIsSettled

\* "Work in progress therefore remains visible as dirty files, stashes, feature
\* branches or PRs, and blocks the sync instead of being hidden"
\* (git-worktree-hygiene-controller.md:161-162): no step makes a commit
\* unreachable from every branch, HEAD and remote.
WorkStaysVisible ==
    [][\A p \in Mirror : mirror'[p].step = mirror[p].step
          \/ Made \subseteq UNION {server'[w] \cup repo'[w].main \cup repo'[w].at
                                   \cup repo'[w].feature : w \in Workspace}]_mirrorVars
=============================================================================
