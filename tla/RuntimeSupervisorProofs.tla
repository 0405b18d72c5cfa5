----------------------- MODULE RuntimeSupervisorProofs -----------------------
(***************************************************************************)
(* Proofs about one supervised worker run, for any process tree, any       *)
(* output, any scope guard and any number of timers and answers in flight. *)
(*                                                                         *)
(* A PASS is decided long before it is judged: its output was read chunk by *)
(* chunk, its leader died, somebody else may have held the pipe.  SoundInv  *)
(* says what each of these events leaves behind for the verdict.           *)
(***************************************************************************)
EXTENDS RuntimeSupervisor, TLAPS

TreeState ==
  [Procs -> [state : {"unborn", "alive", "gone"}, nature : Nature,
             signal : {"none", "term", "kill"}]]
RunState ==
  [pc : {"running", "settled", "concluded"}, timer : {"armed", "off"},
   heartbeat : {"on", "off"}, grace : {"armed", "off"},
   timedOut : BOOLEAN, cause : Causes \cup {None},
   checks : Nat, out : Seq(Chunks), state : States \cup {None}]

(* A settled run has no timer, no writer and no output left, and its leader *)
(* is gone; output that strays was answered; the final state comes last.    *)
Quiet ==
  Settled => /\ run.timer = "off" /\ pipe = <<>> /\ Writers = {}
             /\ tree[Leader].state = "gone"
Answered ==
  ScopeGuard = "kill" /\ Contains(run.out, "drift") => run.cause # None
DecidedLast == run.state # None => run.pc = "concluded"
Earned ==
  run.state = "PASS" =>
    /\ run.cause = None /\ ~run.timedOut /\ exitCode = 0
    /\ run.out # <<>> /\ ~Refused(run.out)

SoundInv == TypeOK /\ Quiet /\ Answered /\ DecidedLast /\ Earned

-----------------------------------------------------------------------------
(* The two halves of every listener that stops a run *)

LEMMA SignalKeeps ==
  ASSUME tree \in TreeState, NEW sig \in {"term", "kill"}, SignalGroup(sig)
  PROVE  /\ tree' \in TreeState
         /\ \A p \in Procs : /\ tree'[p].state = tree[p].state
                             /\ tree'[p].nature = tree[p].nature
<1>1. tree' = [p \in Procs |-> IF p \in Group THEN [tree[p] EXCEPT !.signal = sig]
                               ELSE tree[p]]
  BY DEF SignalGroup
<1>2. \A p \in Procs :
        /\ tree'[p] \in [state : {"unborn", "alive", "gone"}, nature : Nature,
                         signal : {"none", "term", "kill"}]
        /\ tree'[p].state = tree[p].state
        /\ tree'[p].nature = tree[p].nature
  BY <1>1 DEF TreeState
<1> QED BY <1>1, <1>2 DEF TreeState

LEMMA TerminateKeeps ==
  ASSUME tree \in TreeState, run \in RunState, NEW r \in RunState, NEW c \in Causes,
         r.cause = run.cause, Terminate(r, c)
  PROVE  /\ tree' \in TreeState /\ run' \in RunState
         /\ Settled => run' = r /\ tree' = tree
         /\ \A p \in Procs : /\ tree'[p].state = tree[p].state
                             /\ tree'[p].nature = tree[p].nature
         /\ run'.pc = r.pc /\ run'.timer = r.timer /\ run'.timedOut = r.timedOut
         /\ run'.out = r.out /\ run'.state = r.state
         /\ run'.cause = IF Settled \/ run.cause # None THEN run.cause ELSE c
<1>1. CASE Settled \/ run.cause # None
  BY <1>1 DEF Terminate
<1>2. CASE ~(Settled \/ run.cause # None)
  <2>1. /\ run' = [r EXCEPT !.cause = c, !.heartbeat = "off", !.grace = "armed"]
        /\ SignalGroup("term")
    BY <1>2 DEF Terminate
  <2>2. /\ run' \in RunState
        /\ run'.pc = r.pc /\ run'.timer = r.timer /\ run'.timedOut = r.timedOut
        /\ run'.out = r.out /\ run'.state = r.state /\ run'.cause = c
    BY <2>1 DEF RunState
  <2> QED BY <1>2, <2>1, <2>2, SignalKeeps
<1> QED BY <1>1, <1>2

LEMMA SettleKeeps ==
  ASSUME run \in RunState, Settle
  PROVE  /\ run' \in RunState
         /\ run'.pc = "settled" /\ run'.timer = "off" /\ run'.timedOut = run.timedOut
         /\ run'.out = run.out /\ run'.state = run.state /\ run'.cause = run.cause
  BY DEF Settle, RunState

LEMMA AppendedOutput ==
  ASSUME NEW out \in Seq(Chunks), NEW c \in Chunks,
         Contains(Append(out, c), "drift")
  PROVE  c = "drift" \/ Contains(out, "drift")
<1>1. /\ Len(Append(out, c)) = Len(out) + 1 /\ Len(out) \in Nat
      /\ \A i \in 1..Len(out) : Append(out, c)[i] = out[i]
      /\ Append(out, c)[Len(out) + 1] = c
  OBVIOUS
<1>2. PICK i \in 1..Len(Append(out, c)) : Append(out, c)[i] = "drift"
  BY DEF Contains
<1>3. CASE i = Len(out) + 1 BY <1>1, <1>2, <1>3
<1>4. CASE i \in 1..Len(out) BY <1>1, <1>2, <1>4 DEF Contains
<1> QED BY <1>1, <1>2, <1>3, <1>4

LEMMA FinalStateIsState == FinalState \in States
  BY DEF FinalState, InferState, States

LEMMA PassedWell ==
  ASSUME FinalState = "PASS"
  PROVE  /\ run.cause = None /\ ~run.timedOut /\ exitCode = 0
         /\ run.out # <<>> /\ ~Refused(run.out)
  BY DEF FinalState, InferState, StreamHealthy

-----------------------------------------------------------------------------
(* What every step keeps *)

LEMMA InitSound == Init => SoundInv
<1> SUFFICES ASSUME Init PROVE SoundInv OBVIOUS
<1> USE DEF Init
<1>1. tree \in TreeState
  <2>1. \A b \in BOOLEAN : [group |-> TRUE, pipe |-> TRUE, stubborn |-> b] \in Nature
    BY DEF Nature
  <2> QED BY <2>1 DEF TreeState
<1>2. FreshRun \in RunState
  BY DEF FreshRun, RunState, Causes, States
<1>3. TypeOK
  <2>1. run \in RunState /\ pipe \in Seq(Chunks) /\ exitCode \in {0, 1, 127}
    BY <1>2
  <2> QED BY <1>1, <2>1 DEF TypeOK, TreeState, RunState
<1>4. ~Settled /\ run.state = None /\ run.out = <<>>
  BY DEF FreshRun, Settled
<1>5. ~Contains(run.out, "drift") BY <1>4 DEF Contains
<1> QED BY <1>3, <1>4, <1>5, SupervisorAssumption
        DEF SoundInv, Quiet, Answered, DecidedLast, Earned, Settled

(* A step of the worker: the dispatcher's own state stands still. *)
LEMMA ForkKeeps ==
  ASSUME SoundInv, NEW k \in Kin, Fork(k)
  PROVE  SoundInv'
<1> USE DEF Fork
<1>1. tree \in TreeState BY DEF SoundInv, TypeOK, TreeState
<1>2. PICK p \in Alive, n \in Natures :
        /\ tree[p].signal # "kill" /\ (n.pipe => tree[p].nature.pipe)
        /\ tree' = [tree EXCEPT ![k].state = "alive", ![k].nature = n]
  OBVIOUS
<1>3. n \in Nature /\ k \in Procs /\ k # Leader /\ Leader \in Procs
  BY SupervisorAssumption DEF Procs
<1>4. /\ tree' \in TreeState
      /\ \A q \in Procs \ {k} : tree'[q] = tree[q]
      /\ tree'[k].nature = n
  BY <1>1, <1>2, <1>3 DEF TreeState
<1>5. TypeOK' BY <1>4 DEF SoundInv, TypeOK, TreeState
<1>6. Quiet'
  <2> SUFFICES ASSUME Settled PROVE Writers' = {} /\ tree'[Leader].state = "gone"
    BY DEF Quiet, Settled, SoundInv
  <2>1. Writers = {} /\ tree[Leader].state = "gone" BY DEF SoundInv, Quiet
  <2>2. ~n.pipe BY <1>2, <2>1 DEF Writers
  <2>3. \A q \in Procs : q \notin Writers'
    BY <1>3, <1>4, <2>1, <2>2 DEF Writers, Alive
  <2> QED BY <1>3, <1>4, <2>1, <2>3 DEF Writers, Alive
<1> QED BY <1>5, <1>6 DEF SoundInv, Answered, DecidedLast, Earned

LEMMA EmitKeeps ==
  ASSUME SoundInv, NEW p \in Procs, NEW c \in Said, Emit(p, c)
  PROVE  SoundInv'
<1> USE DEF Emit
<1>1. c \in Chunks /\ pipe \in Seq(Chunks)
  BY SupervisorAssumption DEF SoundInv, TypeOK
<1>2. pipe' \in Seq(Chunks) BY <1>1
<1>3. TypeOK' BY <1>2 DEF SoundInv, TypeOK
<1>4. ~Settled BY DEF SoundInv, Quiet
<1> QED BY <1>3, <1>4 DEF SoundInv, Quiet, Settled, Answered, DecidedLast, Earned

LEMMA StrayKeeps ==
  ASSUME SoundInv, NEW p \in Procs, Stray(p)
  PROVE  SoundInv'
<1>1. TypeOK' BY DEF Stray, SoundInv, TypeOK
<1> QED BY <1>1 DEF Stray, SoundInv, Quiet, Settled, Writers, Alive, Answered,
                    DecidedLast, Earned

LEMMA DieKeeps ==
  ASSUME SoundInv, NEW p \in Procs, Die(p)
  PROVE  SoundInv'
<1> USE DEF Die
<1>1. tree \in TreeState BY DEF SoundInv, TypeOK, TreeState
<1>2. /\ tree' \in TreeState /\ tree'[p].state = "gone"
      /\ \A q \in Procs \ {p} : tree'[q] = tree[q]
  BY <1>1 DEF TreeState
<1>3. exitCode' \in {0, 1, 127} BY DEF SoundInv, TypeOK
<1>4. TypeOK' BY <1>2, <1>3 DEF SoundInv, TypeOK, TreeState
<1>5. Leader \in Procs BY DEF Procs
<1>6. Quiet'
  BY <1>2, <1>5 DEF SoundInv, Quiet, Settled, Writers, Alive
<1>7. Earned'
  <2>1. CASE p = Leader
    <3>1. tree[Leader].state = "alive" BY <2>1 DEF Alive
    <3>2. run.state # "PASS"
      BY <3>1, SupervisorAssumption DEF SoundInv, Quiet, DecidedLast, Settled
    <3> QED BY <3>2 DEF Earned
  <2>2. CASE p # Leader BY <2>2 DEF SoundInv, Earned
  <2> QED BY <2>1, <2>2
<1> QED BY <1>4, <1>6, <1>7 DEF SoundInv, Answered, DecidedLast

(* A listener that may stop the run, with r for what it changes besides.    *)
LEMMA StopKeeps ==
  ASSUME SoundInv, NEW r \in RunState, NEW c \in Causes,
         r.pc = run.pc, r.cause = run.cause, r.state = run.state, r.out = run.out,
         Settled => r.timer = run.timer /\ r.timedOut = run.timedOut,
         Terminate(r, c), UNCHANGED <<exitCode, pipe, strayed>>
  PROVE  SoundInv'
<1>1. tree \in TreeState /\ run \in RunState
  BY DEF SoundInv, TypeOK, TreeState, RunState
<1> DEFINE stopped == ~(Settled \/ run.cause # None)
<1>2. /\ tree' \in TreeState /\ run' \in RunState
      /\ \A p \in Procs : tree'[p].state = tree[p].state /\ tree'[p].nature = tree[p].nature
      /\ run'.pc = run.pc /\ run'.timer = r.timer /\ run'.timedOut = r.timedOut
      /\ run'.out = run.out /\ run'.state = run.state
      /\ run'.cause = IF stopped THEN c ELSE run.cause
  BY <1>1, TerminateKeeps
<1>3. TypeOK' BY <1>2 DEF SoundInv, TypeOK, TreeState, RunState
<1>4. Writers' = Writers /\ Leader \in Procs
  BY <1>2 DEF Writers, Alive, Procs
<1>5. Quiet'
  BY <1>2, <1>4 DEF SoundInv, Quiet, Settled
<1>6. c # None BY SupervisorAssumption DEF Causes
<1>7. Answered' BY <1>2, <1>6 DEF SoundInv, Answered
<1>8. DecidedLast' BY <1>2 DEF SoundInv, DecidedLast
<1>9. Earned'
  <2> SUFFICES ASSUME run.state = "PASS" PROVE Earned' BY <1>2 DEF Earned
  <2>1. Settled BY SupervisorAssumption DEF SoundInv, DecidedLast, Settled
  <2> QED BY <1>2, <2>1 DEF SoundInv, Earned
<1> QED BY <1>3, <1>5, <1>7, <1>8, <1>9 DEF SoundInv

LEMMA ReadOutputKeeps == SoundInv /\ ReadOutput => SoundInv'
<1> SUFFICES ASSUME SoundInv, ReadOutput PROVE SoundInv' OBVIOUS
<1> DEFINE c == Head(pipe)
           r == [run EXCEPT !.out = Append(@, c)]
<1>1. tree \in TreeState /\ run \in RunState /\ pipe \in Seq(Chunks) /\ run.out \in Seq(Chunks)
  BY DEF SoundInv, TypeOK, TreeState, RunState
<1>2. /\ ~Settled /\ pipe # <<>> /\ pipe' = Tail(pipe) /\ UNCHANGED <<exitCode, strayed>>
      /\ IF c = "drift" /\ ScopeGuard = "kill" THEN Terminate(r, "scope-stream-drift")
         ELSE run' = r /\ UNCHANGED tree
  BY DEF ReadOutput
<1>3. c \in Chunks /\ Tail(pipe) \in Seq(Chunks) BY <1>1, <1>2
<1> HIDE DEF c
<1>4. Append(run.out, c) \in Seq(Chunks) BY <1>1, <1>3
<1>5. /\ r \in RunState
      /\ r.pc = run.pc /\ r.timer = run.timer /\ r.timedOut = run.timedOut
      /\ r.out = Append(run.out, c) /\ r.cause = run.cause /\ r.state = run.state
  <2> DEFINE out == Append(run.out, c)
  <2>1. out \in Seq(Chunks) BY <1>4
  <2> HIDE DEF out
  <2>2. [run EXCEPT !.out = out] \in RunState BY <1>1, <2>1 DEF RunState
  <2>3. r = [run EXCEPT !.out = out] BY <1>1 DEF RunState, out
  <2> QED BY <1>1, <2>2, <2>3 DEF RunState, out
<1> HIDE DEF r
<1>6. "scope-stream-drift" \in Causes BY DEF Causes
<1>7. /\ tree' \in TreeState /\ run' \in RunState
      /\ run'.pc = run.pc /\ run'.out = Append(run.out, c) /\ run'.state = run.state
      /\ run.cause # None => run'.cause = run.cause
      /\ c = "drift" /\ ScopeGuard = "kill" => run'.cause # None
  <2>1. CASE c = "drift" /\ ScopeGuard = "kill"
    <3>1. "scope-stream-drift" # None BY SupervisorAssumption
    <3> QED BY <1>1, <1>2, <1>5, <1>6, <2>1, <3>1, TerminateKeeps
  <2>2. CASE ~(c = "drift" /\ ScopeGuard = "kill") BY <1>1, <1>2, <1>5, <2>2
  <2> QED BY <2>1, <2>2
<1>8. TypeOK' BY <1>2, <1>3, <1>7 DEF SoundInv, TypeOK, TreeState, RunState
<1>9. ~Settled' BY <1>2, <1>7 DEF Settled
<1>10. Answered'
  <2> SUFFICES ASSUME ScopeGuard = "kill", Contains(run'.out, "drift")
               PROVE run'.cause # None
    BY DEF Answered
  <2>1. c = "drift" \/ Contains(run.out, "drift")
    BY <1>1, <1>3, <1>7, AppendedOutput
  <2> QED BY <1>7, <2>1 DEF SoundInv, Answered
<1>11. run'.state = None
  BY <1>2, <1>7 DEF SoundInv, DecidedLast, Settled
<1> QED BY <1>8, <1>9, <1>10, <1>11, SupervisorAssumption
        DEF SoundInv, Quiet, DecidedLast, Earned

LEMMA TimeoutKeeps == SoundInv /\ Timeout => SoundInv'
<1> SUFFICES ASSUME SoundInv, Timeout PROVE SoundInv' OBVIOUS
<1> DEFINE r == [run EXCEPT !.timer = "off", !.timedOut = TRUE]
<1>1. run \in RunState BY DEF SoundInv, TypeOK, RunState
<1>2. ~Settled BY DEF Timeout, SoundInv, Quiet
<1>3. /\ r \in RunState
      /\ r.pc = run.pc /\ r.cause = run.cause /\ r.state = run.state /\ r.out = run.out
  BY <1>1 DEF RunState
<1>4. Terminate(r, "timeout") /\ UNCHANGED <<exitCode, pipe, strayed>> BY DEF Timeout
<1> HIDE DEF r
<1> QED BY <1>2, <1>3, <1>4, StopKeeps DEF Causes

LEMMA GraceKeeps == SoundInv /\ Grace => SoundInv'
<1> SUFFICES ASSUME SoundInv, Grace PROVE SoundInv' OBVIOUS
<1>1. tree \in TreeState /\ run \in RunState
  BY DEF SoundInv, TypeOK, TreeState, RunState
<1>2. /\ run' \in RunState
      /\ run'.pc = run.pc /\ run'.timer = run.timer /\ run'.timedOut = run.timedOut
      /\ run'.out = run.out /\ run'.state = run.state /\ run'.cause = run.cause
  BY <1>1 DEF Grace, RunState
<1>3. /\ tree' \in TreeState
      /\ \A p \in Procs : tree'[p].state = tree[p].state /\ tree'[p].nature = tree[p].nature
  BY <1>1, SignalKeeps DEF Grace
<1>4. UNCHANGED <<exitCode, pipe, strayed>> BY DEF Grace
<1>5. TypeOK' BY <1>2, <1>3, <1>4 DEF SoundInv, TypeOK, TreeState, RunState
<1>6. Writers' = Writers /\ Leader \in Procs BY <1>3 DEF Writers, Alive, Procs
<1>7. Quiet' BY <1>2, <1>3, <1>4, <1>6 DEF SoundInv, Quiet, Settled
<1> QED BY <1>2, <1>4, <1>5, <1>7 DEF SoundInv, Answered, DecidedLast, Earned

(* A change of the number of requests in flight alone. *)
LEMMA ChecksKeep ==
  ASSUME SoundInv, NEW r \in RunState,
         r.pc = run.pc, r.timer = run.timer, r.timedOut = run.timedOut,
         r.out = run.out, r.state = run.state, r.cause = run.cause,
         run' = r, UNCHANGED <<tree, exitCode, pipe, strayed>>
  PROVE  SoundInv'
<1>1. TypeOK' BY DEF SoundInv, TypeOK, RunState
<1>2. Quiet' BY DEF SoundInv, Quiet, Settled, Writers, Alive
<1> QED BY <1>1, <1>2 DEF SoundInv, Answered, DecidedLast, Earned

LEMMA HeartbeatKeeps ==
  ASSUME SoundInv, NEW killFile \in BOOLEAN, Heartbeat(killFile)
  PROVE  SoundInv'
<1> DEFINE r == [run EXCEPT !.checks = @ + 1]
<1>1. run \in RunState BY DEF SoundInv, TypeOK, RunState
<1>2. UNCHANGED <<exitCode, pipe, strayed>> BY DEF Heartbeat
<1>3. \/ Terminate(run, "scope-drift") \/ Terminate(run, "kill-switch-local")
      \/ run' = r /\ UNCHANGED tree
  BY DEF Heartbeat
<1>4. "scope-drift" \in Causes /\ "kill-switch-local" \in Causes BY DEF Causes
<1>5. CASE Terminate(run, "scope-drift") BY <1>1, <1>2, <1>4, <1>5, StopKeeps
<1>6. CASE Terminate(run, "kill-switch-local") BY <1>1, <1>2, <1>4, <1>6, StopKeeps
<1>7. CASE run' = r /\ UNCHANGED tree
  <2>1. /\ r \in RunState
        /\ r.pc = run.pc /\ r.timer = run.timer /\ r.timedOut = run.timedOut
        /\ r.out = run.out /\ r.state = run.state /\ r.cause = run.cause
    BY <1>1 DEF RunState
  <2> HIDE DEF r
  <2> QED BY <1>2, <1>7, <2>1, ChecksKeep
<1> QED BY <1>3, <1>5, <1>6, <1>7

LEMMA CheckAnswersKeeps ==
  ASSUME SoundInv, NEW kill \in BOOLEAN, CheckAnswers(kill)
  PROVE  SoundInv'
<1> DEFINE r == [run EXCEPT !.checks = @ - 1]
<1>1. run \in RunState BY DEF SoundInv, TypeOK, RunState
<1>2. UNCHANGED <<exitCode, pipe, strayed>> BY DEF CheckAnswers
<1>3. Terminate(r, "kill-switch-plane") \/ (run' = r /\ UNCHANGED tree)
  BY DEF CheckAnswers
<1>4. "kill-switch-plane" \in Causes BY DEF Causes
<1>5. /\ r \in RunState
      /\ r.pc = run.pc /\ r.timer = run.timer /\ r.timedOut = run.timedOut
      /\ r.out = run.out /\ r.state = run.state /\ r.cause = run.cause
  BY <1>1 DEF RunState, CheckAnswers
<1> HIDE DEF r
<1>6. CASE Terminate(r, "kill-switch-plane") BY <1>2, <1>4, <1>5, <1>6, StopKeeps
<1>7. CASE run' = r /\ UNCHANGED tree BY <1>2, <1>5, <1>7, ChecksKeep
<1> QED BY <1>3, <1>6, <1>7

LEMMA SpawnErrorKeeps == SoundInv /\ SpawnError => SoundInv'
<1> SUFFICES ASSUME SoundInv, SpawnError PROVE SoundInv' OBVIOUS
<1>1. tree \in TreeState /\ run \in RunState /\ Leader \in Procs
  BY DEF SoundInv, TypeOK, TreeState, RunState, Procs
<1>2. /\ tree' \in TreeState /\ tree'[Leader].state = "gone"
      /\ \A k \in Kin : tree'[k].state = "unborn"
  BY <1>1, SupervisorAssumption DEF SpawnError, TreeState, Procs
<1>3. Writers' = {} BY <1>2 DEF Writers, Alive, Procs
<1>4. /\ run' \in RunState
      /\ run'.pc = "settled" /\ run'.timer = "off" /\ run'.timedOut = run.timedOut
      /\ run'.out = run.out /\ run'.state = run.state /\ run'.cause = run.cause
  BY <1>1, SettleKeeps DEF SpawnError
<1>5. pipe' = <<>> /\ pipe \in Seq(Chunks) /\ UNCHANGED <<pipe, strayed>> /\ exitCode' = 127
  BY DEF SpawnError, SoundInv, TypeOK
<1>6. TypeOK' BY <1>2, <1>4, <1>5 DEF SoundInv, TypeOK, TreeState, RunState
<1>7. run.state = None BY DEF SpawnError, FreshRun
<1> QED BY <1>2, <1>3, <1>4, <1>5, <1>6, <1>7, SupervisorAssumption
        DEF SoundInv, Quiet, Answered, DecidedLast, Earned

LEMMA CloseKeeps == SoundInv /\ Close => SoundInv'
<1> SUFFICES ASSUME SoundInv, Close PROVE SoundInv' OBVIOUS
<1>1. run \in RunState BY DEF SoundInv, TypeOK, RunState
<1>2. /\ run' \in RunState
      /\ run'.pc = "settled" /\ run'.timer = "off" /\ run'.timedOut = run.timedOut
      /\ run'.out = run.out /\ run'.state = run.state /\ run'.cause = run.cause
  BY <1>1, SettleKeeps DEF Close
<1>3. UNCHANGED <<tree, exitCode, pipe, strayed>> BY DEF Close
<1>4. TypeOK' BY <1>2, <1>3 DEF SoundInv, TypeOK, RunState
<1>5. Quiet' BY <1>2, <1>3 DEF Close, Quiet, Writers, Alive
<1>6. run.state = None BY DEF Close, SoundInv, DecidedLast
<1> QED BY <1>2, <1>3, <1>4, <1>5, <1>6, SupervisorAssumption
        DEF SoundInv, Answered, DecidedLast, Earned

LEMMA ConcludeKeeps == SoundInv /\ Conclude => SoundInv'
<1> SUFFICES ASSUME SoundInv, Conclude PROVE SoundInv' OBVIOUS
<1>1. run \in RunState BY DEF SoundInv, TypeOK, RunState
<1>2. /\ run' = [run EXCEPT !.pc = "concluded", !.state = FinalState]
      /\ UNCHANGED <<tree, exitCode, pipe, strayed>> /\ run.pc = "settled"
  BY DEF Conclude
<1>3. /\ run' \in RunState
      /\ run'.pc = "concluded" /\ run'.timer = run.timer /\ run'.timedOut = run.timedOut
      /\ run'.out = run.out /\ run'.state = FinalState /\ run'.cause = run.cause
  BY <1>1, <1>2, FinalStateIsState DEF RunState
<1>4. TypeOK' BY <1>2, <1>3 DEF SoundInv, TypeOK, RunState
<1>5. Quiet' BY <1>2, <1>3 DEF SoundInv, Quiet, Settled, Writers, Alive
<1>6. Earned' BY <1>2, <1>3, PassedWell DEF Earned
<1> QED BY <1>3, <1>4, <1>5, <1>6 DEF SoundInv, Answered, DecidedLast

LEMMA NextKeeps == SoundInv /\ [Next]_vars => SoundInv'
<1> SUFFICES ASSUME SoundInv, [Next]_vars PROVE SoundInv' OBVIOUS
<1>1. CASE WorkerStep BY <1>1, ForkKeeps, EmitKeeps, StrayKeeps, DieKeeps DEF WorkerStep
<1>2. CASE ListenerStep
  BY <1>2, ReadOutputKeeps, TimeoutKeeps, GraceKeeps, HeartbeatKeeps, CheckAnswersKeeps,
     SpawnErrorKeeps, CloseKeeps, ConcludeKeeps DEF ListenerStep
<1>3. CASE UNCHANGED vars
  BY <1>3 DEF vars, SoundInv, TypeOK, Quiet, Settled, Writers, Alive, Answered,
              DecidedLast, Earned
<1> QED BY <1>1, <1>2, <1>3 DEF Next

-----------------------------------------------------------------------------
(* Theorems *)

(* SoundInv is true of every state of every supervised run. *)
THEOREM RunStaysSound == Spec => []SoundInv
  BY InitSound, NextKeeps, PTL DEF Spec

(* Whatever races with whatever, a run is well typed, and one that is judged *)
(* a PASS was stopped by nobody, refused nothing in all its worker wrote and *)
(* ended with exit code 0 (runProcess, finalizeRuntimeState).               *)
THEOREM PassesAreUndisturbed == Spec => []RunIsSound
<1>1. SoundInv => RunIsSound
  <2> SUFFICES ASSUME SoundInv PROVE RunIsSound OBVIOUS
  <2>1. TypeOK BY DEF SoundInv
  <2>2. PassIsUndisturbed
    <3> SUFFICES ASSUME run.state = "PASS" PROVE PassIsUndisturbed
      BY DEF PassIsUndisturbed
    <3>1. Settled BY SupervisorAssumption DEF SoundInv, DecidedLast, Settled
    <3>2. pipe = <<>> BY <3>1 DEF SoundInv, Quiet
    <3>3. run.out \o pipe = run.out BY <3>2 DEF SoundInv, TypeOK
    <3> QED BY <3>3 DEF PassIsUndisturbed, SoundInv, Earned, Answered
  <2> QED BY <2>1, <2>2 DEF RunIsSound
<1> QED BY <1>1, RunStaysSound, PTL

-----------------------------------------------------------------------------
(* What every step does to what was decided: signals, causes and outcomes.   *)

Calls(p) == tree'[p].signal # tree[p].signal
CauseKept == run.cause # None => run'.cause = run.cause

(* The run as BoundedRun sees it, in the terms of its actions. *)
Seen ==
  \/ run'.pc # "concluded" /\ run.pc # "concluded" /\ UNCHANGED <<run.cause, run.state>>
  \/ /\ run.pc = "running" /\ run'.pc = "running" /\ run.cause = None
     /\ run'.cause \in Causes /\ run'.state = run.state
  \/ /\ run.pc = "settled" /\ run'.pc = "concluded"
     /\ run'.state \in States /\ (run'.state = "PASS" => run.cause = None)
     /\ run'.cause = run.cause
  \/ run'.pc = run.pc /\ run'.cause = run.cause /\ run'.state = run.state

LEMMA StopIsSeen ==
  ASSUME SoundInv, NEW r \in RunState, NEW c \in Causes,
         r.pc = run.pc, r.cause = run.cause, r.state = run.state, Terminate(r, c)
  PROVE  Seen /\ (Settled => \A p \in Procs : ~Calls(p)) /\ CauseKept
<1>1. tree \in TreeState /\ run \in RunState
  BY DEF SoundInv, TypeOK, TreeState, RunState
<1>2. /\ Settled => tree' = tree
      /\ run'.pc = run.pc /\ run'.state = run.state
      /\ run'.cause = IF Settled \/ run.cause # None THEN run.cause ELSE c
  BY <1>1, TerminateKeeps
<1> QED BY <1>2 DEF Seen, Calls, CauseKept, Settled

LEMMA WorkerIsSeen ==
  ASSUME SoundInv, WorkerStep
  PROVE  Seen /\ (\A p \in Procs : ~Calls(p)) /\ CauseKept
<1>1. tree \in TreeState BY DEF SoundInv, TypeOK, TreeState
<1>2. run' = run BY DEF WorkerStep, Fork, Emit, Stray, Die
<1>3. ASSUME NEW p \in Procs PROVE tree'[p].signal = tree[p].signal
  <2>1. CASE \E k \in Kin : Fork(k)
    <3>1. PICK k \in Kin, n \in Natures :
            tree' = [tree EXCEPT ![k].state = "alive", ![k].nature = n]
      BY <2>1 DEF Fork
    <3> QED BY <1>1, <3>1 DEF TreeState
  <2>2. CASE \E q \in Procs : Die(q)
    <3>1. PICK q \in Procs : tree' = [tree EXCEPT ![q].state = "gone"]
      BY <2>2 DEF Die
    <3> QED BY <1>1, <3>1 DEF TreeState
  <2>3. CASE \E q \in Procs : Stray(q) BY <2>3 DEF Stray
  <2>4. CASE \E q \in Procs, c \in Said : Emit(q, c) BY <2>4 DEF Emit
  <2> QED BY <2>1, <2>2, <2>3, <2>4 DEF WorkerStep
<1> QED BY <1>2, <1>3 DEF Seen, Calls, CauseKept

LEMMA ListenerIsSeen ==
  ASSUME SoundInv, ListenerStep
  PROVE  Seen /\ (Settled => \A p \in Procs : ~Calls(p)) /\ CauseKept
<1> DEFINE Goal == Seen /\ (Settled => \A p \in Procs : ~Calls(p)) /\ CauseKept
<1>1. tree \in TreeState /\ run \in RunState /\ run.out \in Seq(Chunks)
  BY DEF SoundInv, TypeOK, TreeState, RunState
<1>2. {"timeout", "scope-drift", "scope-stream-drift", "kill-switch-local",
       "kill-switch-plane"} \subseteq Causes
  BY DEF Causes
<1>3. ASSUME ReadOutput PROVE Goal
  <2> DEFINE r == [run EXCEPT !.out = Append(@, Head(pipe))]
  <2>1. Head(pipe) \in Chunks BY <1>3 DEF ReadOutput, SoundInv, TypeOK
  <2>2. Append(run.out, Head(pipe)) \in Seq(Chunks) BY <1>1, <2>1
  <2>3. r \in RunState /\ r.pc = run.pc /\ r.cause = run.cause /\ r.state = run.state
    <3> DEFINE out == Append(run.out, Head(pipe))
    <3>1. out \in Seq(Chunks) BY <2>2
    <3> HIDE DEF out
    <3>2. [run EXCEPT !.out = out] \in RunState BY <1>1, <3>1 DEF RunState
    <3>3. r = [run EXCEPT !.out = out] BY <1>1 DEF RunState, out
    <3> QED BY <1>1, <3>2, <3>3 DEF RunState, out
  <2>4. Terminate(r, "scope-stream-drift") \/ (run' = r /\ UNCHANGED tree)
    BY <1>3 DEF ReadOutput
  <2> HIDE DEF r
  <2>5. CASE Terminate(r, "scope-stream-drift") BY <1>2, <2>3, <2>5, StopIsSeen
  <2>6. CASE run' = r /\ UNCHANGED tree BY <2>3, <2>6 DEF Seen, Calls, CauseKept
  <2> QED BY <2>4, <2>5, <2>6
<1>4. ASSUME Timeout PROVE Goal
  <2> DEFINE r == [run EXCEPT !.timer = "off", !.timedOut = TRUE]
  <2>1. r \in RunState /\ r.pc = run.pc /\ r.cause = run.cause /\ r.state = run.state
    BY <1>1 DEF RunState
  <2>2. Terminate(r, "timeout") BY <1>4 DEF Timeout
  <2> HIDE DEF r
  <2> QED BY <1>2, <2>1, <2>2, StopIsSeen
<1>5. ASSUME Grace PROVE Goal
  <2>1. run'.pc = run.pc /\ run'.state = run.state /\ run'.cause = run.cause
    BY <1>1, <1>5 DEF Grace, RunState
  <2>2. Settled => tree' = tree BY <1>5 DEF Grace
  <2> QED BY <2>1, <2>2 DEF Seen, Calls, CauseKept
<1>6. ASSUME NEW killFile \in BOOLEAN, Heartbeat(killFile) PROVE Goal
  <2>1. \/ Terminate(run, "scope-drift") \/ Terminate(run, "kill-switch-local")
        \/ run' = [run EXCEPT !.checks = @ + 1] /\ UNCHANGED tree
    BY <1>6 DEF Heartbeat
  <2>2. CASE Terminate(run, "scope-drift") BY <1>1, <1>2, <2>2, StopIsSeen
  <2>3. CASE Terminate(run, "kill-switch-local") BY <1>1, <1>2, <2>3, StopIsSeen
  <2>4. CASE run' = [run EXCEPT !.checks = @ + 1] /\ UNCHANGED tree
    BY <1>1, <2>4 DEF Seen, Calls, CauseKept, RunState
  <2> QED BY <2>1, <2>2, <2>3, <2>4
<1>7. ASSUME NEW kill \in BOOLEAN, CheckAnswers(kill) PROVE Goal
  <2> DEFINE r == [run EXCEPT !.checks = @ - 1]
  <2>1. r \in RunState /\ r.pc = run.pc /\ r.cause = run.cause /\ r.state = run.state
    BY <1>1, <1>7 DEF RunState, CheckAnswers
  <2>2. Terminate(r, "kill-switch-plane") \/ (run' = r /\ UNCHANGED tree)
    BY <1>7 DEF CheckAnswers
  <2> HIDE DEF r
  <2>3. CASE Terminate(r, "kill-switch-plane") BY <1>2, <2>1, <2>3, StopIsSeen
  <2>4. CASE run' = r /\ UNCHANGED tree BY <2>1, <2>4 DEF Seen, Calls, CauseKept
  <2> QED BY <2>2, <2>3, <2>4
<1>8. ASSUME SpawnError PROVE Goal
  <2>1. run'.pc = "settled" /\ run'.state = run.state /\ run'.cause = run.cause
    BY <1>1, <1>8, SettleKeeps DEF SpawnError
  <2>2. run.pc = "running" BY <1>8 DEF SpawnError, FreshRun
  <2> QED BY <2>1, <2>2 DEF Seen, CauseKept, Settled
<1>9. ASSUME Close PROVE Goal
  <2>1. run'.pc = "settled" /\ run'.state = run.state /\ run'.cause = run.cause
    BY <1>1, <1>9, SettleKeeps DEF Close
  <2>2. run.pc = "running" BY <1>9 DEF Close
  <2> QED BY <2>1, <2>2 DEF Seen, CauseKept, Settled
<1>10. ASSUME Conclude PROVE Goal
  <2>1. /\ run.pc = "settled" /\ run'.pc = "concluded" /\ UNCHANGED tree
        /\ run'.state = FinalState /\ run'.cause = run.cause
    BY <1>1, <1>10 DEF Conclude, RunState
  <2> QED BY <2>1, FinalStateIsState, PassedWell DEF Seen, Calls, CauseKept
<1> QED BY <1>3, <1>4, <1>5, <1>6, <1>7, <1>8, <1>9, <1>10 DEF ListenerStep

LEMMA StepIsSeen ==
  ASSUME SoundInv, [Next]_vars
  PROVE  Seen /\ (Settled => \A p \in Procs : ~Calls(p)) /\ CauseKept
<1>1. CASE UNCHANGED vars BY <1>1 DEF vars, Seen, Calls, CauseKept
<1> QED BY <1>1, WorkerIsSeen, ListenerIsSeen DEF Next

(* Nobody is signalled after the run has settled, whatever timer or answer is *)
(* still under way, and the first reason to stop a run stays the reason      *)
(* (terminate and settle in runProcess).                                    *)
THEOREM DecisionsAreFinal == Spec => SettledIsFinal
<1>1. SoundInv /\ [Next]_vars =>
        [Settled => \A p \in Procs : tree'[p].signal = tree[p].signal]_vars
  BY StepIsSeen DEF Calls
<1>2. SoundInv /\ [Next]_vars => [run.cause # None => run'.cause = run.cause]_vars
  BY StepIsSeen DEF CauseKept
<1> QED BY <1>1, <1>2, RunStaysSound, PTL
        DEF Spec, SettledIsFinal, NoSignalAfterSettle, FirstCauseStands

(* Each step of the supervisor is a step of BoundedRun or none: seen from its *)
(* caller a run is stopped at most once, is over exactly once, and is a PASS *)
(* only if nobody stopped it.  That it does come to an end TLC checks.       *)
THEOREM RefinesBoundedRun ==
  Spec => Run!BoundedInit /\ [][Run!BoundedNext]_(Run!boundedVars)
<1>1. Init => Run!BoundedInit
  BY DEF Init, FreshRun, Run!BoundedInit
<1>2. SoundInv /\ [Next]_vars => [Run!BoundedNext]_(Run!boundedVars)
  <2> SUFFICES ASSUME SoundInv, [Next]_vars
               PROVE [Run!BoundedNext]_(Run!boundedVars)
    OBVIOUS
  <2> USE DEF Run!BoundedNext, Run!Stop, Run!Finish, Run!boundedVars
  <2>1. Seen /\ CauseKept BY StepIsSeen
  <2>2. \A c \in Causes : c # None BY SupervisorAssumption DEF Causes
  <2> QED BY <2>1, <2>2 DEF Seen, CauseKept
<1> QED BY <1>1, <1>2, RunStaysSound, PTL DEF Spec
=============================================================================
