------------------------- MODULE RuntimeSupervisor -------------------------
(***************************************************************************)
(* runProcess of runtime-dispatcher-v1.mjs: one worker process, its        *)
(* descendants and its output pipe, watched by the timers and listeners of *)
(* the dispatcher, and the run state concluded when it is over.            *)
(*                                                                         *)
(* The listeners run one at a time (Node's event loop); the only await is  *)
(* the Plane kill-switch request, whose answer is an event of its own.     *)
(* Durations are left out: an armed timer may fire at any moment.          *)
(***************************************************************************)
EXTENDS Integers, SequencesExt

CONSTANTS
  Leader, Kin,  \* the spawned process; its possible descendants
  Natures,      \* what a descendant may be like: subset of Nature
  ScopeGuard,   \* --scope-guard: "kill", "warn" or "off"
  Said,         \* what the worker may write: subset of Chunks
  MaxOutput,    \* bound: chunks of output
  MaxChecks,    \* bound: kill-switch requests in flight
  None

(* group: is in the worker's process group; pipe: holds its stdout or      *)
(* stderr open; stubborn: survives SIGTERM.                                *)
Nature == [group : BOOLEAN, pipe : BOOLEAN, stubborn : BOOLEAN]
Procs == {Leader} \cup Kin

(* "drift" is a tool call outside the allowed paths that arrives in one     *)
(* chunk; "split-drift" is one whose line is cut by a chunk boundary, so    *)
(* that no chunk of it parses; "pass" and "refuse" declare a final state on *)
(* stdout, "err-pass" on stderr.                                            *)
Chunks == {"work", "drift", "split-drift", "pass", "refuse", "err-pass"}

ASSUME SupervisorAssumption ==
  /\ Leader \notin Kin
  /\ Natures \subseteq Nature /\ Said \subseteq Chunks
  /\ ScopeGuard \in {"kill", "warn", "off"}
  /\ MaxOutput \in Nat /\ MaxChecks \in Nat
  /\ None \notin {"timeout", "scope-drift", "scope-stream-drift",
                  "kill-switch-local", "kill-switch-plane",
                  "PASS", "NEEDS_HUMAN", "TIMEOUT", "RUNTIME_ERROR",
                  "DECLARED"}

VARIABLES
  tree,      \* state, nature and pending signal of every process
  exitCode,  \* of the leader, once it is gone
  pipe,      \* output written and not yet read by the dispatcher
  strayed,   \* a file outside the allowed write paths has changed
  run        \* the dispatcher's own state

vars == <<tree, exitCode, pipe, strayed, run>>

Causes == {"timeout", "scope-drift", "scope-stream-drift",
           "kill-switch-local", "kill-switch-plane"}

(* "DECLARED" is whatever non-PASS state the worker declared. *)
States == {"PASS", "NEEDS_HUMAN", "TIMEOUT", "RUNTIME_ERROR", "DECLARED"}

Alive == {p \in Procs : tree[p].state = "alive"}
Group == {p \in Alive : tree[p].nature.group}
Writers == {p \in Alive : tree[p].nature.pipe}

-----------------------------------------------------------------------------
(* The worker and its descendants: whatever they please. *)

FreshRun ==
  [pc |-> "running", timer |-> "armed", heartbeat |-> "on", grace |-> "off",
   timedOut |-> FALSE, cause |-> None, checks |-> 0, out |-> <<>>,
   state |-> None]

Init ==
  /\ \E stubborn \in BOOLEAN :
       tree = [p \in Procs |->
         [state |-> IF p = Leader THEN "alive" ELSE "unborn",
          nature |-> [group |-> TRUE, pipe |-> TRUE, stubborn |-> stubborn],
          signal |-> "none"]]
  /\ exitCode = 0 /\ pipe = <<>> /\ strayed = FALSE
  /\ run = FreshRun

(* Only who holds the pipe can pass it on. *)
Fork(k) ==
  /\ tree[k].state = "unborn"
  /\ \E p \in Alive, n \in Natures :
       /\ tree[p].signal # "kill"
       /\ n.pipe => tree[p].nature.pipe
       /\ tree' = [tree EXCEPT ![k].state = "alive", ![k].nature = n]
  /\ UNCHANGED <<exitCode, pipe, strayed, run>>

Emit(p, c) ==
  /\ p \in Writers /\ tree[p].signal # "kill"
  /\ Len(pipe) + Len(run.out) < MaxOutput
  /\ pipe' = Append(pipe, c)
  /\ UNCHANGED <<tree, exitCode, strayed, run>>

Stray(p) ==
  /\ p \in Alive /\ tree[p].signal # "kill" /\ ~strayed
  /\ strayed' = TRUE
  /\ UNCHANGED <<tree, exitCode, pipe, run>>

(* A process may end on its own account or on a signal; SIGKILL leaves no   *)
(* exit code, and `code ?? 1' makes that 1.                                 *)
Die(p) ==
  /\ p \in Alive
  /\ tree' = [tree EXCEPT ![p].state = "gone"]
  /\ IF p = Leader
     THEN \E code \in {0, 1} :
            /\ tree[p].signal = "kill" => code = 1
            /\ exitCode' = code
     ELSE UNCHANGED exitCode
  /\ UNCHANGED <<pipe, strayed, run>>

-----------------------------------------------------------------------------
(* The dispatcher's listeners *)

Settled == run.pc # "running"

SignalGroup(sig) ==
  tree' = [p \in Procs |-> IF p \in Group THEN [tree[p] EXCEPT !.signal = sig]
                           ELSE tree[p]]

(* Mutant: a later reason replaces the first one. *)
TerminateLatestWins(r, cause) ==
  /\ run' = [r EXCEPT !.cause = cause, !.heartbeat = "off", !.grace = "armed"]
  /\ SignalGroup("term")

(* Mutant: no second, unconditional signal. *)
TerminateOnce(r, cause) ==
  IF Settled \/ run.cause # None
  THEN run' = r /\ UNCHANGED tree
  ELSE /\ run' = [r EXCEPT !.cause = cause, !.heartbeat = "off"]
       /\ SignalGroup("term")

(* terminate(reason): the first reason wins; r is run with whatever the     *)
(* calling listener has changed already.                                    *)
Terminate(r, cause) ==
  IF Settled \/ run.cause # None
  THEN run' = r /\ UNCHANGED tree
  ELSE /\ run' = [r EXCEPT !.cause = cause, !.heartbeat = "off", !.grace = "armed"]
       /\ SignalGroup("term")

(* child.stdout/stderr "data": both scope observers see the chunk.          *)
ReadOutput ==
  /\ ~Settled /\ pipe # <<>>
  /\ LET c == Head(pipe)
         r == [run EXCEPT !.out = Append(@, c)]
     IN  IF c = "drift" /\ ScopeGuard = "kill"
         THEN Terminate(r, "scope-stream-drift")
         ELSE run' = r /\ UNCHANGED tree
  /\ pipe' = Tail(pipe)
  /\ UNCHANGED <<exitCode, strayed>>

Timeout ==
  /\ run.timer = "armed"
  /\ Terminate([run EXCEPT !.timer = "off", !.timedOut = TRUE], "timeout")
  /\ UNCHANGED <<exitCode, pipe, strayed>>

(* Mutant: the callback does not ask whether the run has settled. *)
GraceUnconditional ==
  /\ run.grace = "armed"
  /\ run' = [run EXCEPT !.grace = "off"]
  /\ SignalGroup("kill")
  /\ UNCHANGED <<exitCode, pipe, strayed>>

(* Five seconds after SIGTERM. *)
Grace ==
  /\ run.grace = "armed"
  /\ run' = [run EXCEPT !.grace = "off"]
  /\ IF Settled THEN UNCHANGED tree ELSE SignalGroup("kill")
  /\ UNCHANGED <<exitCode, pipe, strayed>>

(* Changed files count against the worker only if its stream announced the  *)
(* write (splitChangedFilesByRuntimeAttribution).                           *)
OutOfScopeFiles == strayed /\ Contains(run.out, "drift")

(* The synchronous part of the heartbeat, up to the await; killFile: a      *)
(* kill-switch file exists at that moment.                                  *)
Heartbeat(killFile) ==
  /\ run.heartbeat = "on" /\ ~Settled /\ run.cause = None
  /\ CASE OutOfScopeFiles /\ ScopeGuard = "kill" -> Terminate(run, "scope-drift")
       [] ~(OutOfScopeFiles /\ ScopeGuard = "kill") /\ killFile
            -> Terminate(run, "kill-switch-local")
       [] OTHER -> /\ run.checks < MaxChecks
                   /\ run' = [run EXCEPT !.checks = @ + 1]
                   /\ UNCHANGED tree
  /\ UNCHANGED <<exitCode, pipe, strayed>>

(* The answer of a kill-switch request: there is a KILL comment, or there   *)
(* is none, or the request failed, which kills nothing.                     *)
CheckAnswers(kill) ==
  /\ run.checks > 0
  /\ LET r == [run EXCEPT !.checks = @ - 1]
     IN  IF kill THEN Terminate(r, "kill-switch-plane") ELSE run' = r /\ UNCHANGED tree
  /\ UNCHANGED <<exitCode, pipe, strayed>>

Settle ==
  run' = [run EXCEPT !.pc = "settled", !.timer = "off", !.heartbeat = "off"]

(* child "error": the command could not be spawned. *)
SpawnError ==
  /\ run = FreshRun /\ pipe = <<>> /\ ~strayed
  /\ tree[Leader].state = "alive" /\ \A k \in Kin : tree[k].state = "unborn"
  /\ tree' = [tree EXCEPT ![Leader].state = "gone"]
  /\ exitCode' = 127
  /\ Settle
  /\ UNCHANGED <<pipe, strayed>>

(* Mutant: settle on the child's "exit" event, with output still unread. *)
CloseOnExit ==
  /\ run.pc = "running" /\ tree[Leader].state = "gone"
  /\ Settle
  /\ UNCHANGED <<tree, exitCode, pipe, strayed>>

(* child "close": the leader is gone, nobody holds its pipes any more, and  *)
(* all output has been read.                                                *)
Close ==
  /\ run.pc = "running" /\ tree[Leader].state = "gone"
  /\ Writers = {} /\ pipe = <<>>
  /\ Settle
  /\ UNCHANGED <<tree, exitCode, pipe, strayed>>

-----------------------------------------------------------------------------
(* The run state *)

(* extractWorkerDeclaredState reads all of stdout before all of stderr.     *)
(* Within each it takes state keys of JSON lines before states in the text; *)
(* here a declaration is one or the other, and the last one counts.         *)
Declarations(out) == SelectSeq(out, LAMBDA c : c \in {"pass", "refuse"})
                       \o SelectSeq(out, LAMBDA c : c = "err-pass")
Refused(out) == LET d == Declarations(out) IN d # <<>> /\ Last(d) = "refuse"

(* Mutant: the stop reason is looked at only when the exit code is not 0. *)
InferStateExitFirst ==
  CASE exitCode = 0 /\ ~Refused(run.out) -> "PASS"
    [] exitCode = 0 /\ Refused(run.out)  -> "DECLARED"
    [] exitCode # 0 /\ run.timedOut      -> "TIMEOUT"
    [] exitCode # 0 /\ ~run.timedOut /\ run.cause # None -> "NEEDS_HUMAN"
    [] OTHER                             -> "RUNTIME_ERROR"

(* Mutant: the reason of the stop is reported where the state belongs. *)
InferStateReason ==
  CASE run.cause # None                      -> run.cause
    [] run.cause = None /\ Refused(run.out)  -> "DECLARED"
    [] run.cause = None /\ ~Refused(run.out) /\ exitCode = 0 -> "PASS"
    [] OTHER                                 -> "RUNTIME_ERROR"

(* inferRuntimeStateFromWorkerOutput: the first of these that applies.      *)
InferState ==
  CASE run.timedOut                                         -> "TIMEOUT"
    [] ~run.timedOut /\ run.cause # None                    -> "NEEDS_HUMAN"
    [] ~run.timedOut /\ run.cause = None /\ Refused(run.out) -> "DECLARED"
    [] ~run.timedOut /\ run.cause = None /\ ~Refused(run.out)
         /\ exitCode = 0                                    -> "PASS"
    [] OTHER                                                -> "RUNTIME_ERROR"

StreamHealthy == run.out # <<>>

(* finalizeRuntimeState: only a PASS can be taken back. *)
FinalState ==
  IF InferState = "PASS" /\ (~StreamHealthy \/ OutOfScopeFiles)
  THEN "NEEDS_HUMAN" ELSE InferState

Conclude ==
  /\ run.pc = "settled"
  /\ run' = [run EXCEPT !.pc = "concluded", !.state = FinalState]
  /\ UNCHANGED <<tree, exitCode, pipe, strayed>>

-----------------------------------------------------------------------------
WorkerStep ==
  \/ \E k \in Kin : Fork(k)
  \/ \E p \in Procs, c \in Said : Emit(p, c)
  \/ \E p \in Procs : Stray(p) \/ Die(p)

ListenerStep ==
  \/ ReadOutput
  \/ Timeout
  \/ Grace
  \/ \E killFile \in BOOLEAN : Heartbeat(killFile)
  \/ \E kill \in BOOLEAN : CheckAnswers(kill)
  \/ SpawnError
  \/ Close
  \/ Conclude

Next == WorkerStep \/ ListenerStep

(* The event loop delivers every pending event; the kernel delivers         *)
(* signals.  Nothing is assumed of a worker that was not signalled.         *)
Signalled(p) ==
  \/ tree[p].signal = "kill"
  \/ tree[p].signal = "term" /\ ~tree[p].nature.stubborn

Fairness ==
  /\ WF_vars(ReadOutput) /\ WF_vars(Timeout) /\ WF_vars(Grace)
  /\ WF_vars(Close) /\ WF_vars(Conclude)
  /\ \A p \in Procs : WF_vars(Signalled(p) /\ Die(p))

Spec == Init /\ [][Next]_vars /\ Fairness

-----------------------------------------------------------------------------
TypeOK ==
  /\ tree \in [Procs -> [state : {"unborn", "alive", "gone"}, nature : Nature,
                         signal : {"none", "term", "kill"}]]
  /\ exitCode \in {0, 1, 127}
  /\ pipe \in Seq(Chunks)
  /\ strayed \in BOOLEAN
  /\ run \in [pc : {"running", "settled", "concluded"}, timer : {"armed", "off"},
              heartbeat : {"on", "off"}, grace : {"armed", "off"},
              timedOut : BOOLEAN, cause : Causes \cup {None},
              checks : Nat, out : Seq(Chunks), state : States \cup {None}]

(* A PASS was earned by everything the worker wrote, read or not: nobody    *)
(* stopped it, its last declaration is not a refusal, and under the kill    *)
(* guard no out-of-scope tool call arrived whole.                           *)
PassIsUndisturbed ==
  run.state = "PASS" =>
    LET said == run.out \o pipe
    IN  /\ run.cause = None /\ ~run.timedOut /\ exitCode = 0
        /\ said # <<>> /\ ~Refused(said)
        /\ ScopeGuard = "kill" => ~Contains(said, "drift")

(* What is always true of a run and of the process tree. *)
RunIsSound == TypeOK /\ PassIsUndisturbed

(* Once the run has settled no process is signalled any more, whatever      *)
(* timer or kill-switch answer is still to come: by then the group id may   *)
(* belong to somebody else.                                                 *)
NoSignalAfterSettle ==
  [][Settled => \A p \in Procs : tree'[p].signal = tree[p].signal]_vars

(* An intervention is final: the reason reported is the first one, and it   *)
(* is not undone by the others that race with it.                           *)
FirstCauseStands ==
  [][run.cause # None => run'.cause = run.cause]_vars

(* What was decided once stays so: the cause, and that the run is over. *)
SettledIsFinal == NoSignalAfterSettle /\ FirstCauseStands

(* The run as its caller sees it. *)
Run == INSTANCE BoundedRun WITH
  phase <- IF run.pc = "concluded" THEN "over"
           ELSE IF run.cause # None THEN "stopping" ELSE "running",
  cause <- run.cause,
  outcome <- run.state

ImplementsBoundedRun == Run!BoundedSpec

-----------------------------------------------------------------------------
(* What the documents say and the code does not do; TLC refutes each. *)

(* "Headless Claude/worker child processes must not survive the dispatcher  *)
(* decision."                                                               *)
NoSurvivors == (run.cause # None) ~> (Group = {})

(* "A streamed out-of-scope worker write still triggers immediate           *)
(* scope-write-drift": under the kill guard no run that streamed one is a   *)
(* PASS.                                                                    *)
StreamedDriftStops ==
  (ScopeGuard = "kill" /\ run.state = "PASS") =>
    \A i \in DOMAIN run.out : run.out[i] \notin {"drift", "split-drift"}
=============================================================================
