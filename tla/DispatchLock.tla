---------------------------- MODULE DispatchLock ----------------------------
(***************************************************************************)
(* plane-dispatcher-v0.mjs --mode lock: processes that lock a reviewed     *)
(* work item for one worker run.                                           *)
(*                                                                         *)
(*   DispatcherFetch    fetch the item, validate its contract              *)
(*   DispatcherRead     list the comments; contract-review gate, duplicate *)
(*                      check, run id, expiry: one synchronous decision    *)
(*   PostLock           POST worker.lock                                   *)
(*   PostContext        POST worker.context, whatever status PostLock saw  *)
(*                                                                         *)
(* The lock is a comment, so checking for one and posting one are two      *)
(* requests; between them other dispatchers, reviewers and people act, and *)
(* time passes.                                                            *)
(***************************************************************************)
EXTENDS ContractReview

CONSTANTS
  Dispatchers,  \* processes; a dispatcher's run id is its own name
  ReviewMode,   \* --contract-review: "require", "warn" or "off"
  TTL,          \* LOCK_TTL_MIN in ticks
  MaxTime       \* bound: the clock stops here

ASSUME LockAssumption ==
  /\ Dispatchers \subseteq Runs
  /\ ReviewMode \in {"require", "warn", "off"}
  /\ TTL \in Nat \ {0} /\ MaxTime \in Nat

VARIABLES
  now,        \* the clock all processes read
  dispatcher  \* process state

vars == <<description, edits, ledger, reviewer, now, dispatcher>>

(* seen, readAt: length of the ledger when the process read it, and when;  *)
(* lockOk: did its lock POST answer ok; exit: its exit code.               *)
DispatcherState ==
  [pc : {"idle", "fetched", "locking", "context", "exited"},
   hash : Hashes \cup {None}, seen : Nat, readAt : Nat, expires : Nat,
   prev : Runs \cup {None}, lockOk : BOOLEAN, exit : {"none", "0", "1", "2"}]

Init ==
  /\ ReviewInit
  /\ now = 0
  /\ dispatcher = [d \in Dispatchers |->
       [pc |-> "idle", hash |-> None, seen |-> 0, readAt |-> 0, expires |-> 0,
        prev |-> None, lockOk |-> FALSE, exit |-> "none"]]

Exit(d, code) ==
  dispatcher' = [dispatcher EXCEPT
    ![d] = [@ EXCEPT !.pc = "exited", !.exit = code,
                     !.expires = 0, !.prev = None, !.lockOk = FALSE]]

DispatcherFetch(d) ==
  /\ dispatcher[d].pc = "idle"
  /\ IF "validator-fail" \in Defects[description]
     THEN Exit(d, "2")
     ELSE dispatcher' = [dispatcher EXCEPT ![d].pc = "fetched",
                                           ![d].hash = description]
  /\ UNCHANGED <<description, edits, ledger, reviewer, now>>

GateHolds(hash) ==
  ReviewMode = "require" => ContractReviewGate(ledger, hash) = "ok"

(* Mutant: an active lock is reported but does not stop the dispatch. *)
DispatcherReadLayering(d) ==
  LET hash == dispatcher[d].hash
  IN  /\ dispatcher[d].pc = "fetched"
      /\ IF GateHolds(hash)
         THEN dispatcher' = [dispatcher EXCEPT
                ![d] = [@ EXCEPT !.pc = "locking", !.seen = Len(ledger),
                                 !.readAt = now, !.expires = now + TTL,
                                 !.prev = SupersededRun(ledger, hash, now)]]
         ELSE Exit(d, "2")
      /\ UNCHANGED <<description, edits, ledger, reviewer, now>>

DispatcherRead(d) ==
  LET hash == dispatcher[d].hash
  IN  /\ dispatcher[d].pc = "fetched"
      /\ IF GateHolds(hash) /\ ActiveLocks(ledger, hash, now) = {}
         THEN dispatcher' = [dispatcher EXCEPT
                ![d] = [@ EXCEPT !.pc = "locking", !.seen = Len(ledger),
                                 !.readAt = now, !.expires = now + TTL,
                                 !.prev = SupersededRun(ledger, hash, now)]]
         ELSE Exit(d, "2")
      /\ UNCHANGED <<description, edits, ledger, reviewer, now>>

(* An error status is noted and the process goes on; an exception ends it. *)
PostLock(d, landed, answer) ==
  LET me == dispatcher[d]
  IN  /\ me.pc = "locking"
      /\ Post(LockComment(me.hash, d, me.expires, me.prev), landed, answer = "ok")
      /\ IF answer = "exception"
         THEN Exit(d, "1")
         ELSE dispatcher' = [dispatcher EXCEPT ![d].pc = "context",
                                               ![d].lockOk = (answer = "ok")]
      /\ UNCHANGED <<description, edits, reviewer, now>>

(* Mutant: only the last POST decides the exit code. *)
PostContextLastWins(d, landed, ok) ==
  /\ dispatcher[d].pc = "context"
  /\ Post(ContextComment(d), landed, ok)
  /\ Exit(d, IF ok THEN "0" ELSE "1")
  /\ UNCHANGED <<description, edits, reviewer, now>>

PostContext(d, landed, ok) ==
  /\ dispatcher[d].pc = "context"
  /\ Post(ContextComment(d), landed, ok)
  /\ Exit(d, IF dispatcher[d].lockOk /\ ok THEN "0" ELSE "1")
  /\ UNCHANGED <<description, edits, reviewer, now>>

(* A failed GET or a signal; labels that do not resolve, with exit code 2. *)
DispatcherAbort(d) ==
  /\ dispatcher[d].pc \notin {"idle", "exited"}
  /\ \E code \in {"1", "2"} :
       /\ code = "2" => dispatcher[d].pc = "fetched"
       /\ Exit(d, code)
  /\ UNCHANGED <<description, edits, ledger, reviewer, now>>

Tick ==
  /\ now < MaxTime
  /\ now' = now + 1
  /\ UNCHANGED <<description, edits, ledger, reviewer, dispatcher>>

DispatcherStep(d) ==
  \/ DispatcherFetch(d)
  \/ DispatcherRead(d)
  \/ \E landed \in BOOLEAN, answer \in {"ok", "error", "exception"} :
       PostLock(d, landed, answer)
  \/ \E landed, ok \in BOOLEAN : PostContext(d, landed, ok)
  \/ DispatcherAbort(d)

Next ==
  \/ ReviewStep /\ UNCHANGED <<now, dispatcher>>
  \/ \E d \in Dispatchers : DispatcherStep(d)
  \/ Tick

Spec == Init /\ [][Next]_vars

-----------------------------------------------------------------------------
TypeOK ==
  /\ ReviewTypeOK
  /\ now \in 0 .. MaxTime
  /\ dispatcher \in [Dispatchers -> DispatcherState]

Locks == At(ledger, "worker.lock")

(* With --contract-review require, whoever reads a lock finds before it a  *)
(* CONTRACT_PASS for the very description hash the lock carries, although  *)
(* the description may have been edited between the dispatcher's requests. *)
LockedHashWasReviewed ==
  ReviewMode = "require" =>
    \A i \in Locks : \E j \in PassReviews(ledger, ledger[i].hash) : j < i

(* Two locks for the same description overlap in time only when their      *)
(* dispatchers raced: if the later dispatcher had the earlier lock in its  *)
(* listing, that lock had expired by then.                                 *)
OverlapOnlyFromRace ==
  \A i, j \in Locks :
    LET later == dispatcher[ledger[j].run]
    IN  (i < j /\ ledger[i].hash = ledger[j].hash /\ i <= later.seen)
          => ledger[i].expires <= later.readAt

(* The superseded field links a lock to a run the dispatcher really found  *)
(* on the ledger and that was no longer entitled to the item: its lock had *)
(* expired, or was for another description.  It is empty only for the      *)
(* first lock.                                                             *)
SupersededIsSpent ==
  \A j \in Locks :
    LET me    == dispatcher[ledger[j].run]
        found == {i \in Locks : i <= me.seen}
        spent(i) == ledger[i].expires <= me.readAt \/ ledger[i].hash # me.hash
    IN  IF found = {} THEN ledger[j].prev = None
        ELSE \E i \in found : ledger[i].run = ledger[j].prev /\ spent(i)

(* Exit code 0 means both comments are on the ledger, the lock first, so a *)
(* caller may start the worker on it.  The converse does not hold: a run   *)
(* may exit 1 with its lock posted.                                        *)
ExitZeroMeansLocked ==
  \A d \in Dispatchers : dispatcher[d].exit = "0" =>
    \E i \in Locks, j \in At(ledger, "worker.context") :
      i < j /\ ledger[i].run = d /\ ledger[j].run = d

-----------------------------------------------------------------------------
(* What the documents say and the code does not do; TLC refutes each. *)

(* "One active lock per work item." *)
OneActiveLock == Cardinality(Unexpired(ledger, now)) <= 1

(* "latest controller.contract-review exists, verdict is CONTRACT_PASS,    *)
(* description_hash equals the current": a lock follows a PASS that was    *)
(* the newest review its dispatcher had read.                              *)
LockFollowsLatestReview ==
  \A i \in Locks :
    LET read == SubSeq(ledger, 1, dispatcher[ledger[i].run].seen)
        reviews == At(read, "contract-review")
    IN  \E j \in PassReviews(read, ledger[i].hash) : \A k \in reviews : k <= j
=============================================================================
