-------------------------- MODULE WriteAttribution --------------------------
(***************************************************************************)
(* Who changed which file during one worker run of runtime-dispatcher-v1:  *)
(* the tool calls on the worker's output stream, the files git reports as  *)
(* changed, and the two scope guards that compare them.                    *)
(*                                                                         *)
(* RuntimeSupervisor says what a guard does to the process; this module    *)
(* says which calls and files make it speak.  A path is a model value in   *)
(* one of the places below; paths inside directories are left out.         *)
(***************************************************************************)
EXTENDS Integers, Sequences

CONSTANTS
  Scope,     \* workspace files inside the contract's write paths
  Strays,    \* workspace files outside of them
  Owned,     \* the dispatcher's report, stream log and metrics file
  Foreign,   \* files outside the workspace and of every declared path
  Scratch,   \* those under ~/.claude/plans, which may be written
  Results,   \* those under Claude's tool-results, which may be read
  MaxUses,   \* bound: tool calls of the worker
  MaxOthers  \* bound: edits by anybody else

ASSUME AttributionPlaces ==
  /\ Scratch \subseteq Foreign /\ Results \subseteq Foreign
  /\ Strays \cap (Scope \cup Owned) = {}
  /\ Foreign \cap (Scope \cup Strays \cup Owned) = {}

VARIABLES
  guard,  \* --scope-guard ("off" acts like "warn" here), and whether the contract yields write paths
  by,     \* for every workspace file, who made it differ from HEAD
  uses,   \* tool calls, in the order of their lines on the stream
  heard,  \* lines the dispatcher has read
  run,    \* the dispatcher's own state
  others  \* edits by anybody else so far

attributionVars == <<guard, by, uses, heard, run, others>>

Workspace == Scope \cup Strays \cup Owned
Hands == {"before", "tool", "shell", "others", "dispatcher"}

(* "Bash" names its path absolutely, "Shell" is a command that does not;   *)
(* "Quote" is output of the worker (a stream log it shows, a file it       *)
(* writes) that holds the record of somebody's Write call.                 *)
Targets(tool) ==
  CASE tool \in {"Write", "Bash"} -> Workspace \cup Foreign
    [] tool = "Read"  -> Foreign
    [] tool = "Shell" -> Workspace
    [] OTHER          -> Scope \cup Strays

(* A call of another tool whose line is cut is like one through a shell.   *)
Wholes(tool) == IF tool = "Write" THEN BOOLEAN ELSE {TRUE}

(* whole: its line arrives in one chunk; made: the call had its effect. *)
Call(tool, file, whole) ==
  [tool |-> tool, file |-> file, whole |-> whole, made |-> FALSE]

Waiting == [phase |-> "setup", baseline |-> {}, named |-> {},
            cause |-> "", verdict |-> "", blind |-> FALSE]

AttributionInit ==
  /\ guard = [mode |-> "kill", paths |-> FALSE]
  /\ by = [f \in Workspace |-> {}]
  /\ uses = <<>> /\ heard = 0 /\ others = 0
  /\ run = Waiting

(* AllowedWritePaths, or the path-like tokens of Scope.  A declared entry  *)
(* that is neither absolute nor under a known directory resolves to        *)
(* nothing, and then no path is left to guard.                             *)
WritePaths(declared, scope) ==
  IF declared # "none" THEN declared = "resolves" ELSE scope = "resolves"

AllowedWrites == IF guard.paths THEN Scope \cup Owned ELSE {}
AllowedReads == Workspace

Changed == {f \in Workspace : by[f] # {}}

(* git status, less what it listed before the worker started; a failing    *)
(* git counts as no changes.                                               *)
NewChanges(answers) == IF answers THEN Changed \ run.baseline ELSE {}

(* Mutant: every changed file is the worker's. *)
AttributedAll(files, named) == files
Attributed(files, named) == files \cap named

OutOfScope(files) == IF guard.paths THEN files \ AllowedWrites ELSE {}

Writes(u) == u.whole /\ u.tool \in {"Write", "Quote"}

WriteViolation(u) ==
  /\ guard.paths /\ Writes(u)
  /\ u.file \notin AllowedWrites \cup Scratch

ReadViolation(u) ==
  /\ u.whole
  /\ \/ u.tool = "Bash" /\ u.file \notin AllowedReads
     \/ u.tool = "Read" /\ u.file \notin AllowedReads \cup Results

Launch(mode, declared, scope, dirty) ==
  /\ run.phase = "setup"
  /\ guard' = [mode |-> mode, paths |-> WritePaths(declared, scope)]
  /\ by' = [f \in Workspace |->
              (IF f \in dirty THEN {"before"} ELSE {})
                \cup (IF f \in Owned THEN {"dispatcher"} ELSE {})]
  /\ run' = [run EXCEPT !.phase = "running", !.baseline = dirty]
  /\ UNCHANGED <<uses, heard, others>>

Settled == \A i \in 1..Len(uses) : uses[i].made

(* The line of a call reaches the stream before the call has its effect. *)
CallTool(tool, file, whole) ==
  /\ run.phase = "running" /\ Settled /\ Len(uses) < MaxUses
  /\ uses' = Append(uses, Call(tool, file, whole))
  /\ UNCHANGED <<guard, by, heard, run, others>>

Effect(u, writes) ==
  LET hand == IF u.tool = "Write" THEN "tool" ELSE "shell" IN
  IF writes /\ u.file \in Workspace /\ u.tool \in {"Write", "Bash", "Shell"}
    THEN [by EXCEPT ![u.file] = @ \cup {hand}]
    ELSE by

MakeCall(writes) ==
  /\ run.phase = "running" /\ ~Settled
  /\ LET n == Len(uses) IN
       /\ by' = Effect(uses[n], writes)
       /\ uses' = [uses EXCEPT ![n].made = TRUE]
  /\ UNCHANGED <<guard, heard, run, others>>

(* terminate keeps the first reason. *)
Reason(reason) == IF run.cause = "" THEN reason ELSE run.cause

(* A chunk arrives: the read guard looks first, then the call is named and *)
(* the write guard looks.                                                  *)
HearLine ==
  /\ run.phase = "running" /\ heard < Len(uses)
  /\ heard' = heard + 1
  /\ LET u == uses[heard + 1] IN
       run' = [run EXCEPT
         !.named = IF Writes(u) THEN @ \cup {u.file} ELSE @,
         !.cause = CASE guard.mode = "kill" /\ ReadViolation(u) -> Reason("scope-read-drift")
                     [] guard.mode = "kill" /\ WriteViolation(u) -> Reason("scope-write-drift")
                     [] OTHER -> @]
  /\ UNCHANGED <<guard, by, uses, others>>

Heartbeat(answers) ==
  /\ run.phase = "running" /\ run.cause = ""
  /\ guard.mode = "kill"
  /\ OutOfScope(Attributed(NewChanges(answers), run.named)) # {}
  /\ run' = [run EXCEPT !.cause = "scope-drift"]
  /\ UNCHANGED <<guard, by, uses, heard, others>>

(* The close event comes after the last of the output. *)
WorkerCloses ==
  /\ run.phase = "running" /\ heard = Len(uses)
  /\ Settled \/ run.cause # ""
  /\ run' = [run EXCEPT !.phase = "closed"]
  /\ UNCHANGED <<guard, by, uses, heard, others>>

(* Mutant: the final look at the files is skipped. *)
FinalStateUnchecked(cause, strays) ==
  IF cause # "" THEN <<cause, "NEEDS_HUMAN">> ELSE <<"", "PASS">>

(* finalizeRuntimeState for a worker that says PASS: the guard's mode does *)
(* not matter any more.                                                    *)
FinalState(cause, strays) ==
  IF cause # "" THEN <<cause, "NEEDS_HUMAN">>
  ELSE IF strays # {} THEN <<"scope-drift", "NEEDS_HUMAN">>
  ELSE <<"", "PASS">>

ConcludeRun(answers) ==
  /\ run.phase = "closed"
  /\ LET strays == OutOfScope(Attributed(NewChanges(answers), run.named \cup Owned))
         final == FinalState(run.cause, strays)
     IN run' = [run EXCEPT !.phase = "over", !.blind = ~answers,
                           !.cause = final[1], !.verdict = final[2]]
  /\ UNCHANGED <<guard, by, uses, heard, others>>

(* Somebody else edits a file of the worktree, or commits or restores it;  *)
(* in the scope nothing looks at who did.                                  *)
Interfere(f, hands) ==
  /\ run.phase \in {"running", "closed"} /\ others < MaxOthers
  /\ by' = [by EXCEPT ![f] = hands] /\ by' # by
  /\ others' = others + 1
  /\ UNCHANGED <<guard, uses, heard, run>>

AttributionNext ==
  \/ \E mode \in {"kill", "warn"}, dirty \in SUBSET Strays,
        declared \in {"none", "unresolved", "resolves"}, scope \in {"none", "resolves"} :
       Launch(mode, declared, scope, dirty)
  \/ \E tool \in {"Write", "Read", "Bash", "Shell", "Quote"} :
       \E file \in Targets(tool), whole \in Wholes(tool) : CallTool(tool, file, whole)
  \/ \E writes \in BOOLEAN : MakeCall(writes)
  \/ HearLine \/ WorkerCloses
  \/ \E answers \in BOOLEAN : Heartbeat(answers) \/ ConcludeRun(answers)
  \/ \E f \in Strays :
       Interfere(f, by[f] \cup {"others"}) \/ Interfere(f, {})

AttributionSpec == AttributionInit /\ [][AttributionNext]_attributionVars

----------------------------------------------------------------------------
WriteCauses == {"scope-write-drift", "scope-drift"}

(* A run is stopped or held for a write outside its scope only if its      *)
(* contract yields write paths and a record of an edit call on such a file *)
(* reached the dispatcher: what others do to the worktree, before or       *)
(* during the run, and the dispatcher's own files never hold a worker.     *)
BlameHasARecord ==
  run.cause \in WriteCauses =>
    /\ guard.paths
    /\ \E i \in 1..heard : WriteViolation(uses[i])

(* A run that passes under write paths left no new change outside of them  *)
(* by an edit call whose line arrived whole, whatever the guard's mode; a  *)
(* git that fails at the end hides it from the modes that do not kill.     *)
ToolWritesAreSeen ==
  run.verdict = "PASS" /\ guard.paths /\ (guard.mode = "kill" \/ ~run.blind) =>
    \A f \in Strays \ run.baseline : "tool" \in by[f] =>
      \A i \in 1..Len(uses) : uses[i].tool = "Write" /\ uses[i].file = f => ~uses[i].whole

(* The guard holds nobody without a record, and sees what has one. *)
GuardIsFair == BlameHasARecord /\ ToolWritesAreSeen

(* What the documents say: with --scope-guard kill, a write outside the    *)
(* scope ends in NEEDS_HUMAN.  Writes through Bash, to files that were     *)
(* dirty before, and calls cut by a chunk boundary pass.                   *)
OutOfScopeNeverPasses ==
  run.verdict = "PASS" /\ guard.paths /\ guard.mode = "kill" =>
    \A f \in Strays : by[f] \cap {"tool", "shell"} = {}

(* What the documents say: only a streamed edit call of the worker itself  *)
(* can end the run.  A record the worker merely quotes does so too.        *)
NobodyElseIsBlamed ==
  run.cause \in WriteCauses =>
    \E i \in 1..Len(uses) :
      uses[i].tool = "Write" /\ uses[i].file \notin AllowedWrites
=============================================================================
