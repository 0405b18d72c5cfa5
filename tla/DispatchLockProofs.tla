------------------------- MODULE DispatchLockProofs -------------------------
(***************************************************************************)
(* Proofs about DispatchLock for any number of descriptions, processes,    *)
(* edits and ticks.                                                        *)
(*                                                                         *)
(* The safety properties relate a lock to the snapshot its dispatcher read *)
(* when it decided.  They follow from one inductive invariant, LockInv:    *)
(* what a dispatcher decided on its snapshot (Decided) is true when it     *)
(* reads, and stays true because comments are only appended.               *)
(***************************************************************************)
EXTENDS DispatchLock, ContractReviewProofs, CommonLemmas

-----------------------------------------------------------------------------
(* Facts about the functions of PlaneLedger, for any ledger. *)

(* Both ends of a listing belong to it. *)
LEMMA EndsAreListed ==
  ASSUME NEW n \in Nat, NEW S, S \subseteq 1 .. n, S # {}
  PROVE  FirstListed(S) \in S /\ LastListed(S) \in S
<1>1. S \subseteq Nat /\ S \subseteq 0 .. n OBVIOUS
<1>2. \E x \in S : \A y \in S : x <= y BY <1>1, LeastExists
<1>3. \E x \in S : \A y \in S : y <= x BY <1>1, GreatestExists
<1>4. \E x \in S : \A y \in S : x >= y BY <1>3, <1>1
<1> QED BY <1>2, <1>4 DEF FirstListed, LastListed, Max, Min

LEMMA ExpiryIsNat ==
  ASSUME NEW cs \in Seq(Comment), NEW i \in DOMAIN cs
  PROVE  cs[i].expires \in Nat
<1>1. cs[i] \in Comment OBVIOUS
<1> QED BY <1>1 DEF Comment

(* Among locks whose expiry is bounded one lives longest. *)
LEMMA SomeLivesLongest ==
  ASSUME NEW cs \in Seq(Comment), NEW b \in Nat,
         NEW S, S \subseteq DOMAIN cs, S # {},
         \A i \in S : cs[i].expires <= b
  PROVE  LongestLived(cs, S) # {}
<1> DEFINE E == {cs[i].expires : i \in S}
<1>1. \A i \in S : cs[i].expires \in 0 .. b
  <2>1. \A i \in S : cs[i].expires \in Nat BY ExpiryIsNat
  <2> QED BY <2>1
<1>2. E \subseteq 0 .. b /\ E # {} BY <1>1
<1>3. PICK e \in E : \A f \in E : f <= e BY <1>2, GreatestExists
<1>4. PICK i \in S : e = cs[i].expires OBVIOUS
<1>5. \A j \in S : cs[j].expires <= cs[i].expires BY <1>3, <1>4
<1> QED BY <1>5 DEF LongestLived

(* What findExistingLock reports as superseded: nothing on a ledger without *)
(* locks; otherwise the run of a lock on the ledger that has expired or is  *)
(* for another description, provided no lock is active.                     *)
LEMMA SupersededRunIsSpent ==
  ASSUME NEW cs \in Seq(Comment), NEW b \in Nat,
         \A i \in At(cs, "worker.lock") : cs[i].expires <= b,
         NEW hash, NEW t \in Nat, ActiveLocks(cs, hash, t) = {}
  PROVE  IF At(cs, "worker.lock") = {}
         THEN SupersededRun(cs, hash, t) = None
         ELSE \E i \in At(cs, "worker.lock") :
                /\ SupersededRun(cs, hash, t) = cs[i].run
                /\ cs[i].expires <= t \/ cs[i].hash # hash
<1> DEFINE locks == At(cs, "worker.lock")
           stale == StaleActive(cs, hash, t)
           longest == LongestLived(cs, locks)
<1>1. locks \subseteq 1 .. Len(cs) /\ locks \subseteq DOMAIN cs BY DEF At
<1>2. stale \subseteq locks BY DEF StaleActive, Unexpired
<1>3. longest \subseteq locks BY DEF LongestLived
<1>4. Len(cs) \in Nat OBVIOUS
<1>5. \A i \in locks : cs[i].expires \in Nat BY <1>1, ExpiryIsNat
<1>6. \A i \in stale : cs[i].hash # hash
  BY DEF StaleActive, ActiveLocks
<1>7. CASE stale # {}
  <2>1. stale \subseteq 1 .. Len(cs) BY <1>1, <1>2
  <2>2. LastListed(stale) \in stale BY <2>1, <1>4, <1>7, EndsAreListed
  <2>3. SupersededRun(cs, hash, t) = cs[LastListed(stale)].run
    BY <1>7 DEF SupersededRun
  <2> QED BY <2>2, <2>3, <1>2, <1>6
<1>8. CASE stale = {} /\ locks # {}
  <2>1. longest # {} BY <1>1, <1>8, SomeLivesLongest
  <2>2. longest \subseteq 1 .. Len(cs) BY <1>1, <1>3
  <2>3. FirstListed(longest) \in longest BY <2>1, <2>2, <1>4, EndsAreListed
  <2>4. SupersededRun(cs, hash, t) = cs[FirstListed(longest)].run
    BY <1>8 DEF SupersededRun
  <2>5. Unexpired(cs, t) = {}
    BY <1>8 DEF StaleActive
  <2>6. \A i \in locks : cs[i].expires <= t
    BY <2>5, <1>5 DEF Unexpired
  <2> QED BY <2>3, <2>4, <2>6, <1>3
<1>9. CASE stale = {} /\ locks = {}
  BY <1>9 DEF SupersededRun
<1> QED BY <1>7, <1>8, <1>9, <1>2

(* Decided(l, h, n, t, q): the first n comments of l, read at time t, let a *)
(* dispatcher lock description h and supersede run q.                       *)
GateSeen(l, h, n) ==
  ReviewMode = "require" => \E j \in PassReviews(l, h) : j <= n
NoneActive(l, h, n, t) ==
  \A i \in At(l, "worker.lock") : (i <= n /\ l[i].hash = h) => l[i].expires <= t
PrevSpent(l, h, n, t, q) ==
  LET found == {i \in At(l, "worker.lock") : i <= n}
  IN  IF found = {} THEN q = None
      ELSE \E i \in found : l[i].run = q /\ (l[i].expires <= t \/ l[i].hash # h)
Decided(l, h, n, t, q) ==
  /\ h \in Hashes /\ n \in Nat /\ n <= Len(l)
  /\ GateSeen(l, h, n)
  /\ NoneActive(l, h, n, t)
  /\ PrevSpent(l, h, n, t, q)

(* A lock at position i of l carries what its dispatcher decided, and the  *)
(* dispatcher is past its POST.                                            *)
LockOf(l, i, ds) ==
  LET d == l[i].run
  IN  /\ d \in Dispatchers
      /\ ds[d].pc \in {"context", "exited"}
      /\ l[i].hash = ds[d].hash
      /\ ds[d].seen < i
      /\ Decided(l, ds[d].hash, ds[d].seen, ds[d].readAt, l[i].prev)
      /\ l[i].expires <= MaxTime + TTL

(* What dispatcher d knows at each of its steps. *)
Knows(l, d, me) ==
  /\ me.pc = "fetched" => me.hash \in Hashes
  /\ me.pc = "locking" => /\ Decided(l, me.hash, me.seen, me.readAt, me.prev)
                          /\ me.expires <= MaxTime + TTL
  /\ me.pc = "context" /\ me.lockOk =>
       \E i \in At(l, "worker.lock") : l[i].run = d
  /\ me.exit = "0" =>
       \E i \in At(l, "worker.lock"), j \in At(l, "worker.context") :
         i < j /\ l[i].run = d /\ l[j].run = d

LockInv ==
  /\ \A i \in Locks : LockOf(ledger, i, dispatcher)
  /\ \A d \in Dispatchers : Knows(ledger, d, dispatcher[d])

-----------------------------------------------------------------------------
(* Appending keeps every decision *)

LEMMA AtAppend ==
  ASSUME NEW l \in Seq(Comment), NEW c \in Comment, NEW title
  PROVE  /\ \A i \in At(l, title) : i \in At(Append(l, c), title)
         /\ \A i \in At(Append(l, c), title) :
              \/ i \in At(l, title)
              \/ i = Len(l) + 1 /\ c.title = title
         /\ c.title = title => Len(l) + 1 \in At(Append(l, c), title)
         /\ \A i \in At(l, title) : i \in Nat /\ i <= Len(l) /\ Append(l, c)[i] = l[i]
  BY AppendKeeps DEF At

LEMMA DecidedKept ==
  ASSUME NEW l \in Seq(Comment), NEW c \in Comment,
         NEW h, NEW n, NEW t, NEW q, Decided(l, h, n, t, q)
  PROVE  Decided(Append(l, c), h, n, t, q)
<1> DEFINE k == Append(l, c)
           found(s) == {i \in At(s, "worker.lock") : i <= n}
<1>1. /\ k \in Seq(Comment) /\ Len(l) \in Nat /\ Len(k) = Len(l) + 1
      /\ n \in Nat /\ n <= Len(l) /\ h \in Hashes
  BY DEF Decided
<1>2. PassReviews(l, h) \subseteq PassReviews(k, h)
  BY AppendKeeps DEF PassReviews, At
<1>3. found(k) = found(l) /\ \A i \in found(l) : k[i] = l[i]
  <2>1. \A i \in found(l) : i \in found(k) /\ k[i] = l[i] BY AtAppend
  <2>2. \A i \in found(k) : i \in found(l) BY <1>1, AtAppend
  <2> QED BY <2>1, <2>2
<1> HIDE DEF k
<1>4. GateSeen(k, h, n) BY <1>2 DEF Decided, GateSeen
<1>5. NoneActive(k, h, n, t) BY <1>3 DEF Decided, NoneActive
<1>6. PrevSpent(k, h, n, t, q) BY <1>3 DEF Decided, PrevSpent
<1>7. Decided(k, h, n, t, q) BY <1>1, <1>4, <1>5, <1>6 DEF Decided
<1> QED BY <1>7 DEF k

(* A lock stays justified while comments follow it. *)
LEMMA LockOfKept ==
  ASSUME NEW l \in Seq(Comment), NEW c \in Comment, NEW i \in At(l, "worker.lock"),
         NEW ds, LockOf(l, i, ds)
  PROVE  LockOf(Append(l, c), i, ds)
<1>1. Append(l, c)[i] = l[i] BY AppendKeeps DEF At
<1> QED BY <1>1, DecidedKept DEF LockOf

LEMMA KnowsKept ==
  ASSUME NEW l \in Seq(Comment), NEW c \in Comment, NEW d, NEW me, Knows(l, d, me)
  PROVE  Knows(Append(l, c), d, me)
<1> DEFINE k == Append(l, c)
<1>1. ASSUME NEW title, NEW i \in At(l, title)
      PROVE  i \in At(k, title) /\ k[i] = l[i]
  BY <1>1, AppendKeeps DEF At
<1>2. \A h, n, t, q : Decided(l, h, n, t, q) => Decided(k, h, n, t, q)
  BY DecidedKept
<1> HIDE DEF k
<1>3. Knows(k, d, me) BY <1>1, <1>2 DEF Knows
<1> QED BY <1>3 DEF k

-----------------------------------------------------------------------------
LEMMA LockIsComment ==
  ASSUME NEW h \in Hashes \cup {None}, NEW d \in Dispatchers, NEW e \in Nat,
         NEW q \in Runs \cup {None}
  PROVE  LockComment(h, d, e, q) \in Comment
  BY LockAssumption DEF LockComment, Comment, Titles, Values

LEMMA ContextIsComment ==
  ASSUME NEW d \in Dispatchers
  PROVE  /\ ContextComment(d) \in Comment
         /\ ContextComment(d).title = "worker.context"
         /\ ContextComment(d).run = d
  BY LockAssumption DEF ContextComment, Comment, Titles, Values

(* What the decision of DispatcherRead is worth. *)
LEMMA ReadDecides ==
  ASSUME NEW l \in Seq(Comment), NEW h \in Hashes, NEW t \in Nat,
         \A i \in At(l, "worker.lock") : l[i].expires <= MaxTime + TTL,
         ReviewMode = "require" => ContractReviewGate(l, h) = "ok",
         ActiveLocks(l, h, t) = {}
  PROVE  /\ Decided(l, h, Len(l), t, SupersededRun(l, h, t))
         /\ SupersededRun(l, h, t) \in Runs \cup {None}
<1> DEFINE q == SupersededRun(l, h, t)
           locks == At(l, "worker.lock")
<1>1. Len(l) \in Nat /\ MaxTime + TTL \in Nat BY LockAssumption
<1>2. \A title : \A i \in At(l, title) : i \in DOMAIN l /\ i <= Len(l)
  BY DEF At
<1>3. \A i \in DOMAIN l : l[i].expires \in Nat /\ l[i].run \in Runs \cup {None}
  <2>1. \A i \in DOMAIN l : l[i] \in Comment OBVIOUS
  <2> QED BY <2>1 DEF Comment
<1>4. GateSeen(l, h, Len(l))
  <2>1. ContractReviewGate(l, h) = "ok" => PassReviews(l, h) # {}
    BY DEF ContractReviewGate
  <2> QED BY <2>1, <1>2 DEF GateSeen, PassReviews
<1>5. NoneActive(l, h, Len(l), t)
  BY <1>2, <1>3 DEF ActiveLocks, Unexpired, NoneActive
<1>6. IF locks = {} THEN q = None
      ELSE \E i \in locks : q = l[i].run /\ (l[i].expires <= t \/ l[i].hash # h)
  <2> HIDE DEF q
  <2> QED BY <1>1, SupersededRunIsSpent DEF q
<1>7. {i \in locks : i <= Len(l)} = locks BY <1>2
<1>8. PrevSpent(l, h, Len(l), t, q)
  <2> HIDE DEF q
  <2> QED BY <1>6, <1>7 DEF PrevSpent
<1>9. q \in Runs \cup {None}
  <2> HIDE DEF q
  <2> QED BY <1>2, <1>3, <1>6
<1> QED BY <1>1, <1>4, <1>5, <1>8, <1>9 DEF Decided

-----------------------------------------------------------------------------
(* Steps *)

DInv == TypeOK /\ PassInv /\ LockInv

LEMMA DispatcherMoves ==
  ASSUME NEW me \in DispatcherState, NEW h \in Hashes, NEW n \in Nat,
         NEW t \in Nat, NEW e \in Nat, NEW q \in Runs \cup {None},
         NEW ok \in BOOLEAN, NEW code \in {"0", "1", "2"}
  PROVE  /\ [me EXCEPT !.pc = "fetched", !.hash = h] \in DispatcherState
         /\ [me EXCEPT !.pc = "locking", !.seen = n, !.readAt = t, !.expires = e,
                       !.prev = q] \in DispatcherState
         /\ [me EXCEPT !.pc = "context", !.lockOk = ok] \in DispatcherState
         /\ [me EXCEPT !.pc = "exited", !.exit = code, !.expires = 0, !.prev = None,
                       !.lockOk = FALSE] \in DispatcherState
  BY DEF DispatcherState

(* A comment appended by a dispatcher, or none. *)
LEMMA LedgerMoves ==
  ASSUME DInv, NEW c \in Comment, EarnedPass(c, At(ledger, "human-gate-released")),
         UNCHANGED <<description, edits, reviewer>>,
         ledger' = ledger \/ ledger' = Append(ledger, c)
  PROVE  ReviewTypeOK' /\ PassInv'
<1>1. ReviewTypeOK /\ PassInv /\ ledger \in Seq(Comment)
  BY DEF DInv, TypeOK, ReviewTypeOK
<1>2. ReviewTypeOK' BY <1>1 DEF ReviewTypeOK
<1>3. CASE ledger' = ledger BY <1>1, <1>2, <1>3 DEF PassInv, PassIsEarned
<1>4. CASE ledger' = Append(ledger, c)
  <2>1. /\ PassIsEarned'
        /\ At(ledger, "human-gate-released") \subseteq At(ledger, "human-gate-released")'
    BY <1>1, <1>4, PassKept
  <2>2. \A p \in Reviewers :
          reviewer[p].queue \in Seq(Postable(At(ledger, "human-gate-released")'))
    BY <1>1, <2>1, PostableGrows DEF PassInv
  <2> QED BY <1>2, <2>1, <2>2 DEF PassInv
<1> QED BY <1>2, <1>3, <1>4

LEMMA LockInvKept ==
  ASSUME TypeOK, LockInv, NEW d \in Dispatchers, NEW r,
         dispatcher' = [dispatcher EXCEPT ![d] = r],
         ledger' = ledger \/ \E c \in Comment : ledger' = Append(ledger, c),
         dispatcher[d].pc \in {"context", "exited"} =>
           /\ r.pc \in {"context", "exited"} /\ r.hash = dispatcher[d].hash
           /\ r.seen = dispatcher[d].seen /\ r.readAt = dispatcher[d].readAt,
         Knows(ledger', d, r),
         \A i \in At(ledger', "worker.lock") :
           i \in Locks \/ LockOf(ledger', i, dispatcher')
  PROVE  LockInv'
<1>1. ledger \in Seq(Comment) BY DEF TypeOK, ReviewTypeOK
<1>2. \A e \in Dispatchers : dispatcher'[e] = IF e = d THEN r ELSE dispatcher[e]
  BY DEF TypeOK
<1>3. \A e \in Dispatchers : dispatcher[e].pc \in {"context", "exited"} =>
        /\ dispatcher'[e].pc \in {"context", "exited"}
        /\ dispatcher'[e].hash = dispatcher[e].hash
        /\ dispatcher'[e].seen = dispatcher[e].seen
        /\ dispatcher'[e].readAt = dispatcher[e].readAt
  BY <1>2
<1>4. ASSUME NEW i \in Locks, LockOf(ledger, i, dispatcher)
      PROVE  LockOf(ledger', i, dispatcher')
  <2>1. i \in At(ledger, "worker.lock") BY DEF Locks
  <2>2. LockOf(ledger, i, dispatcher') BY <1>3, <1>4 DEF LockOf
  <2> QED BY <1>1, <2>1, <2>2, LockOfKept
<1>5. \A i \in Locks' : LockOf(ledger', i, dispatcher')
  BY <1>4 DEF LockInv, Locks
<1>6. ASSUME NEW e \in Dispatchers PROVE Knows(ledger', e, dispatcher[e])
  <2>1. Knows(ledger, e, dispatcher[e]) BY DEF LockInv
  <2> QED BY <1>1, <2>1, KnowsKept
<1>7. \A e \in Dispatchers : Knows(ledger', e, dispatcher'[e])
  BY <1>2, <1>6
<1> QED BY <1>5, <1>7 DEF LockInv

LEMMA DInit == Init => DInv
<1> SUFFICES ASSUME Init PROVE DInv OBVIOUS
<1>1. ReviewTypeOK /\ PassInv BY ReviewTypeInit, PassInit DEF Init
<1>2. TypeOK BY <1>1, LockAssumption DEF Init, TypeOK, DispatcherState
<1>3. Locks = {} BY DEF Init, ReviewInit, Locks, At
<1>4. ASSUME NEW d \in Dispatchers PROVE Knows(ledger, d, dispatcher[d])
  BY DEF Init, Knows
<1> QED BY <1>1, <1>2, <1>3, <1>4 DEF DInv, LockInv

(* A step of another process: it posts nothing of a lock dispatcher's.       *)
LEMMA OthersKeep ==
  ASSUME DInv, ReviewTypeOK', PassInv', UNCHANGED <<now, dispatcher>>,
         \/ ledger' = ledger
         \/ \E c \in Comment : /\ ledger' = Append(ledger, c)
                               /\ c.title \notin {"worker.lock", "worker.context"}
  PROVE  DInv'
<1>1. TypeOK /\ PassInv /\ LockInv /\ ReviewTypeOK BY DEF DInv, TypeOK
<1>2. TypeOK' BY <1>1 DEF TypeOK
<1>3. CASE ledger' = ledger BY <1>1, <1>2, <1>3 DEF DInv, LockInv, Locks
<1>4. CASE \E c \in Comment : /\ ledger' = Append(ledger, c)
                             /\ c.title \notin {"worker.lock", "worker.context"}
  <2>1. PICK c \in Comment : /\ ledger' = Append(ledger, c)
                             /\ c.title \notin {"worker.lock", "worker.context"}
    BY <1>4
  <2>2. ledger \in Seq(Comment) BY <1>1 DEF ReviewTypeOK
  <2>3. At(ledger', "worker.lock") \subseteq Locks
    BY <2>1, <2>2, AtAppend DEF Locks
  <2>4. \A i \in Locks : LockOf(ledger', i, dispatcher)
    BY <1>1, <2>1, <2>2, LockOfKept DEF LockInv, Locks
  <2>5. \A d \in Dispatchers : Knows(ledger', d, dispatcher[d])
    BY <1>1, <2>1, <2>2, KnowsKept DEF LockInv
  <2>6. LockInv' BY <2>3, <2>4, <2>5 DEF LockInv, Locks
  <2> QED BY <1>2, <2>6 DEF DInv
<1> QED BY <1>3, <1>4

(* A reviewer's step posts no lock and touches no dispatcher. *)
LEMMA ReviewKeeps ==
  ASSUME DInv, [ReviewStep]_reviewVars, UNCHANGED <<now, dispatcher>>
  PROVE  DInv'
<1>1. TypeOK /\ PassInv /\ LockInv /\ ReviewTypeOK BY DEF DInv, TypeOK
<1>2. ReviewTypeOK' /\ PassInv' BY <1>1, ReviewTypeStep, PassStep
<1>3. \/ ledger' = ledger
      \/ \E c \in Comment : /\ ledger' = Append(ledger, c)
                            /\ c.title \notin {"worker.lock", "worker.context"}
  BY <1>1, ReviewAppends DEF WorkTitles
<1> QED BY <1>2, <1>3, OthersKeep

(* What every step of dispatcher d has to establish. *)
LEMMA DispatcherKeeps ==
  ASSUME DInv, NEW d \in Dispatchers, NEW r \in DispatcherState,
         dispatcher' = [dispatcher EXCEPT ![d] = r],
         UNCHANGED <<description, edits, reviewer, now>>,
         NEW c \in Comment, c.title \in {"worker.lock", "worker.context"},
         ledger' = ledger \/ ledger' = Append(ledger, c),
         dispatcher[d].pc \in {"context", "exited"} =>
           /\ r.pc \in {"context", "exited"} /\ r.hash = dispatcher[d].hash
           /\ r.seen = dispatcher[d].seen /\ r.readAt = dispatcher[d].readAt,
         Knows(ledger', d, r),
         \A i \in At(ledger', "worker.lock") :
           i \in Locks \/ LockOf(ledger', i, dispatcher')
  PROVE  DInv'
<1>1. EarnedPass(c, At(ledger, "human-gate-released")) BY DEF EarnedPass
<1>2. ReviewTypeOK' /\ PassInv' BY <1>1, LedgerMoves
<1>3. TypeOK' BY <1>2 DEF DInv, TypeOK
<1>4. TypeOK /\ LockInv BY DEF DInv
<1>5. LockInv' BY <1>4, LockInvKept
<1> QED BY <1>2, <1>3, <1>5 DEF DInv

(* A step that posts nothing. *)
LEMMA SilentKeeps ==
  ASSUME DInv, NEW d \in Dispatchers, NEW r \in DispatcherState,
         dispatcher' = [dispatcher EXCEPT ![d] = r],
         UNCHANGED <<description, edits, ledger, reviewer, now>>,
         dispatcher[d].pc \in {"context", "exited"} =>
           /\ r.pc \in {"context", "exited"} /\ r.hash = dispatcher[d].hash
           /\ r.seen = dispatcher[d].seen /\ r.readAt = dispatcher[d].readAt,
         Knows(ledger, d, r)
  PROVE  DInv'
<1>1. /\ ContextComment(d) \in Comment
      /\ ContextComment(d).title \in {"worker.lock", "worker.context"}
  BY ContextIsComment
<1>2. \A i \in At(ledger', "worker.lock") : i \in Locks BY DEF Locks
<1>3. Knows(ledger', d, r) OBVIOUS
<1> QED BY <1>1, <1>2, <1>3, DispatcherKeeps

Exited(me, code) ==
  [me EXCEPT !.pc = "exited", !.exit = code, !.expires = 0, !.prev = None,
             !.lockOk = FALSE]

LEMMA ExitedFields ==
  ASSUME NEW me \in DispatcherState, NEW code \in {"0", "1", "2"}
  PROVE  LET r == Exited(me, code)
         IN  /\ r \in DispatcherState /\ r.pc = "exited" /\ r.exit = code
             /\ r.hash = me.hash /\ r.seen = me.seen /\ r.readAt = me.readAt
             /\ r.lockOk = FALSE
  BY DEF Exited, DispatcherState

LEMMA ExitKnows ==
  ASSUME NEW l, NEW d, NEW me \in DispatcherState, NEW code \in {"1", "2"}
  PROVE  Knows(l, d, Exited(me, code))
  BY ExitedFields DEF Knows

LEMMA ExitIsExited ==
  ASSUME DInv, NEW d \in Dispatchers, NEW code, Exit(d, code)
  PROVE  dispatcher' = [dispatcher EXCEPT ![d] = Exited(dispatcher[d], code)]
  BY DEF DInv, TypeOK, Exit, Exited

LEMMA ExitKeeps ==
  ASSUME DInv, NEW d \in Dispatchers, NEW code \in {"1", "2"}, Exit(d, code),
         UNCHANGED <<description, edits, ledger, reviewer, now>>
  PROVE  DInv'
<1> DEFINE r == Exited(dispatcher[d], code)
<1>1. dispatcher[d] \in DispatcherState BY DEF DInv, TypeOK
<1>2. /\ r \in DispatcherState /\ r.pc = "exited" /\ r.hash = dispatcher[d].hash
      /\ r.seen = dispatcher[d].seen /\ r.readAt = dispatcher[d].readAt
  <2>1. code \in {"0", "1", "2"} OBVIOUS
  <2> QED BY <1>1, <2>1, ExitedFields
<1>3. Knows(ledger, d, r) BY <1>1, ExitKnows
<1>4. dispatcher' = [dispatcher EXCEPT ![d] = r] BY ExitIsExited
<1> HIDE DEF r
<1> QED BY <1>2, <1>3, <1>4, SilentKeeps

LEMMA FetchKeeps ==
  ASSUME DInv, NEW d \in Dispatchers, DispatcherFetch(d)
  PROVE  DInv'
<1> DEFINE r == [dispatcher[d] EXCEPT !.pc = "fetched", !.hash = description]
<1>1. /\ dispatcher[d] \in DispatcherState /\ description \in Hashes
      /\ Knows(ledger, d, dispatcher[d])
  BY DEF DInv, TypeOK, ReviewTypeOK, LockInv
<1>2. CASE "validator-fail" \in Defects[description]
  BY <1>2, ExitKeeps DEF DispatcherFetch
<1>3. CASE "validator-fail" \notin Defects[description]
  <2>1. /\ r \in DispatcherState /\ r.pc = "fetched" /\ r.hash = description
        /\ r.exit = dispatcher[d].exit
    BY <1>1 DEF DispatcherState
  <2>2. dispatcher' = [dispatcher EXCEPT ![d] = r]
    BY <1>1, <1>3 DEF DispatcherFetch, DInv, TypeOK
  <2>3. dispatcher[d].pc = "idle" /\ UNCHANGED <<description, edits, ledger, reviewer, now>>
    BY DEF DispatcherFetch
  <2>4. Knows(ledger, d, r)
    <3> HIDE DEF r
    <3> QED BY <1>1, <2>1 DEF Knows
  <2> HIDE DEF r
  <2> QED BY <2>1, <2>2, <2>3, <2>4, SilentKeeps
<1> QED BY <1>2, <1>3

LEMMA ReadKeeps ==
  ASSUME DInv, NEW d \in Dispatchers, DispatcherRead(d)
  PROVE  DInv'
<1> DEFINE me == dispatcher[d]
           q == SupersededRun(ledger, me.hash, now)
           r == [me EXCEPT !.pc = "locking", !.seen = Len(ledger), !.readAt = now,
                           !.expires = now + TTL, !.prev = q]
<1>1. /\ me \in DispatcherState /\ ledger \in Seq(Comment) /\ now \in Nat
      /\ now <= MaxTime /\ Knows(ledger, d, me) /\ me.pc = "fetched"
  BY LockAssumption DEF DInv, TypeOK, ReviewTypeOK, LockInv, DispatcherRead
<1>2. me.hash \in Hashes BY <1>1 DEF Knows
<1>3. CASE ~(GateHolds(me.hash) /\ ActiveLocks(ledger, me.hash, now) = {})
  BY <1>3, ExitKeeps DEF DispatcherRead
<1>4. CASE GateHolds(me.hash) /\ ActiveLocks(ledger, me.hash, now) = {}
  <2>1. \A i \in At(ledger, "worker.lock") : ledger[i].expires <= MaxTime + TTL
    BY DEF DInv, LockInv, Locks, LockOf
  <2>2. Decided(ledger, me.hash, Len(ledger), now, q) /\ q \in Runs \cup {None}
    BY <1>1, <1>2, <1>4, <2>1, ReadDecides DEF GateHolds
  <2>3. dispatcher' = [dispatcher EXCEPT ![d] = r]
    BY <1>4 DEF DispatcherRead
  <2>4. UNCHANGED <<description, edits, ledger, reviewer, now>>
    BY DEF DispatcherRead
  <2>5. Len(ledger) \in Nat /\ now + TTL \in Nat /\ now + TTL <= MaxTime + TTL
    BY <1>1, LockAssumption
  <2> HIDE DEF q
  <2>6. /\ r \in DispatcherState /\ r.pc = "locking" /\ r.hash = me.hash
        /\ r.seen = Len(ledger) /\ r.readAt = now /\ r.expires = now + TTL
        /\ r.prev = q /\ r.exit = me.exit
    BY <1>1, <2>2, <2>5 DEF DispatcherState
  <2>7. Knows(ledger, d, r)
    <3> HIDE DEF r, me
    <3> QED BY <1>1, <2>2, <2>5, <2>6 DEF Knows
  <2> HIDE DEF r
  <2> QED BY <1>1, <2>3, <2>4, <2>6, <2>7, SilentKeeps
<1> QED BY <1>3, <1>4

LEMMA PostLockKeeps ==
  ASSUME DInv, NEW d \in Dispatchers, NEW landed \in BOOLEAN,
         NEW answer \in {"ok", "error", "exception"}, PostLock(d, landed, answer)
  PROVE  DInv'
<1> DEFINE me == dispatcher[d]
           c == LockComment(me.hash, d, me.expires, me.prev)
           r == IF answer = "exception" THEN Exited(me, "1")
                ELSE [me EXCEPT !.pc = "context", !.lockOk = (answer = "ok")]
<1>1. /\ me \in DispatcherState /\ ledger \in Seq(Comment)
      /\ Knows(ledger, d, me) /\ me.pc = "locking"
      /\ Decided(ledger, me.hash, me.seen, me.readAt, me.prev)
      /\ me.expires <= MaxTime + TTL
  BY DEF DInv, TypeOK, ReviewTypeOK, LockInv, PostLock, Knows
<1>2. /\ me.hash \in Hashes \cup {None} /\ me.expires \in Nat
      /\ me.prev \in Runs \cup {None} /\ me.seen \in Nat /\ me.seen <= Len(ledger)
  BY <1>1 DEF DispatcherState, Decided
<1>3. /\ c \in Comment /\ c.title = "worker.lock" /\ c.hash = me.hash /\ c.run = d
      /\ c.expires = me.expires /\ c.prev = me.prev
  <2> HIDE DEF me
  <2>1. c \in Comment BY <1>2, LockIsComment
  <2> QED BY <2>1 DEF LockComment
<1>4. dispatcher' = [dispatcher EXCEPT ![d] = r]
  <2>1. CASE answer = "exception"
    BY <2>1, ExitIsExited DEF PostLock
  <2>2. CASE answer # "exception"
    BY <2>2, <1>1 DEF PostLock, DInv, TypeOK
  <2> QED BY <2>1, <2>2
<1>5. /\ r \in DispatcherState /\ r.pc \in {"context", "exited"} /\ r.hash = me.hash
      /\ r.seen = me.seen /\ r.readAt = me.readAt
      /\ r.pc = "context" => r.lockOk = (answer = "ok") /\ r.exit = me.exit
      /\ r.pc = "exited" => r.exit = "1"
  <2>1. CASE answer = "exception"
    <3>1. "1" \in {"0", "1", "2"} OBVIOUS
    <3>2. r = Exited(me, "1") BY <2>1
    <3> HIDE DEF r, me
    <3> QED BY <1>1, <3>1, <3>2, ExitedFields
  <2>2. CASE answer # "exception"
    BY <1>1, <2>2 DEF DispatcherState
  <2> QED BY <2>1, <2>2
<1>6. /\ UNCHANGED <<description, edits, reviewer, now>>
      /\ ledger' = IF landed THEN Append(ledger, c) ELSE ledger
      /\ answer = "ok" => landed
  BY DEF PostLock, Post
<1>7. dispatcher'[d] = r BY <1>4 DEF DInv, TypeOK
<1> HIDE DEF me, c, r
<1>8. CASE ~landed
  <2>1. Knows(ledger, d, r) BY <1>1, <1>5, <1>6, <1>8 DEF Knows
  <2>2. me.pc = dispatcher[d].pc BY DEF me
  <2> QED BY <1>1, <1>4, <1>5, <1>6, <1>8, <2>1, <2>2, SilentKeeps
<1>9. CASE landed
  <2> DEFINE n == Len(ledger) + 1
  <2>1. ledger' = Append(ledger, c) BY <1>6, <1>9
  <2>2. /\ n \in At(ledger', "worker.lock") /\ ledger'[n] = c
        /\ \A i \in At(ledger', "worker.lock") : i \in Locks \/ i = n
    BY <1>1, <1>3, <2>1, AtAppend, AppendKeeps DEF Locks
  <2>3. Decided(ledger', me.hash, me.seen, me.readAt, me.prev)
    BY <1>1, <1>3, <2>1, DecidedKept
  <2>4. me.seen < n BY <1>2, <1>1
  <2> HIDE DEF n
  <2>5. LockOf(ledger', n, dispatcher')
    BY <1>1, <1>3, <1>5, <1>7, <2>2, <2>3, <2>4 DEF LockOf
  <2>6. Knows(ledger', d, r)
    <3>1. Knows(ledger', d, me) BY <1>1, <1>3, <2>1, KnowsKept
    <3> QED BY <1>1, <1>3, <1>5, <2>2, <3>1 DEF Knows
  <2>7. dispatcher[d].pc = "locking" BY <1>1 DEF me
  <2> QED BY <1>3, <1>4, <1>5, <1>6, <2>1, <2>2, <2>5, <2>6, <2>7, DispatcherKeeps
<1> QED BY <1>8, <1>9

LEMMA PostContextKeeps ==
  ASSUME DInv, NEW d \in Dispatchers, NEW landed \in BOOLEAN, NEW ok \in BOOLEAN,
         PostContext(d, landed, ok)
  PROVE  DInv'
<1> DEFINE me == dispatcher[d]
           c == ContextComment(d)
           code == IF me.lockOk /\ ok THEN "0" ELSE "1"
           r == Exited(me, code)
<1>1. /\ me \in DispatcherState /\ ledger \in Seq(Comment)
      /\ Knows(ledger, d, me) /\ me.pc = "context"
  BY DEF DInv, TypeOK, ReviewTypeOK, LockInv, PostContext
<1>2. c \in Comment /\ c.title = "worker.context" /\ c.run = d
  BY ContextIsComment
<1>3. dispatcher' = [dispatcher EXCEPT ![d] = r] BY ExitIsExited DEF PostContext
<1>4. /\ r \in DispatcherState /\ r.pc = "exited" /\ r.hash = me.hash
      /\ r.seen = me.seen /\ r.readAt = me.readAt /\ r.exit = code
  <2>1. code \in {"0", "1", "2"} OBVIOUS
  <2> HIDE DEF code, me
  <2> QED BY <1>1, <2>1, ExitedFields
<1>5. /\ UNCHANGED <<description, edits, reviewer, now>>
      /\ ledger' = IF landed THEN Append(ledger, c) ELSE ledger
      /\ ok => landed
  BY DEF PostContext, Post
<1>6. code = "0" => me.lockOk /\ ok OBVIOUS
<1>7. dispatcher[d].pc = "context" BY <1>1
<1>8. me.lockOk => \E i \in At(ledger, "worker.lock") : ledger[i].run = d
  BY <1>1 DEF Knows
<1>9. me.hash = dispatcher[d].hash /\ me.seen = dispatcher[d].seen
      /\ me.readAt = dispatcher[d].readAt
  OBVIOUS
<1> HIDE DEF me, c, r, code
<1>10. CASE ~landed
  <2>1. Knows(ledger, d, r) BY <1>4, <1>5, <1>6, <1>10 DEF Knows
  <2> QED BY <1>3, <1>4, <1>5, <1>7, <1>9, <1>10, <2>1, SilentKeeps
<1>11. CASE landed
  <2>1. ledger' = Append(ledger, c) BY <1>5, <1>11
  <2>2. \A i \in At(ledger', "worker.lock") : i \in Locks
    BY <1>1, <1>2, <2>1, AtAppend DEF Locks
  <2>3. code = "0" => \E i \in At(ledger', "worker.lock"), j \in At(ledger', "worker.context") :
                        i < j /\ ledger'[i].run = d /\ ledger'[j].run = d
    <3> DEFINE n == Len(ledger) + 1
    <3>1. n \in At(ledger', "worker.context") /\ ledger'[n] = c
      BY <1>1, <1>2, <2>1, AtAppend, AppendKeeps
    <3>2. \A i \in At(ledger, "worker.lock") :
            i \in At(ledger', "worker.lock") /\ ledger'[i] = ledger[i] /\ i < n
      BY <1>1, <1>2, <2>1, AppendKeeps DEF At
    <3> HIDE DEF n
    <3> QED BY <1>2, <1>6, <1>8, <3>1, <3>2
  <2>4. Knows(ledger', d, r) BY <1>4, <2>3 DEF Knows
  <2> QED BY <1>2, <1>3, <1>4, <1>5, <1>7, <1>9, <2>1, <2>2, <2>4, DispatcherKeeps
<1> QED BY <1>10, <1>11

LEMMA DStep == DInv /\ [Next]_vars => DInv'
<1> SUFFICES ASSUME DInv, [Next]_vars PROVE DInv' OBVIOUS
<1>1. CASE ReviewStep /\ UNCHANGED <<now, dispatcher>> BY <1>1, ReviewKeeps
<1>2. ASSUME NEW d \in Dispatchers, DispatcherFetch(d) PROVE DInv'
  BY <1>2, FetchKeeps
<1>3. ASSUME NEW d \in Dispatchers, DispatcherRead(d) PROVE DInv'
  BY <1>3, ReadKeeps
<1>4. ASSUME NEW d \in Dispatchers, NEW landed \in BOOLEAN,
             NEW answer \in {"ok", "error", "exception"}, PostLock(d, landed, answer)
      PROVE  DInv'
  BY <1>4, PostLockKeeps
<1>5. ASSUME NEW d \in Dispatchers, NEW landed \in BOOLEAN, NEW ok \in BOOLEAN,
             PostContext(d, landed, ok)
      PROVE  DInv'
  BY <1>5, PostContextKeeps
<1>6. ASSUME NEW d \in Dispatchers, DispatcherAbort(d) PROVE DInv'
  BY <1>6, ExitKeeps DEF DispatcherAbort
<1>7. CASE Tick
  BY <1>7, LockAssumption, ReviewKeeps DEF Tick, DInv, TypeOK, ReviewTypeOK,
     PassInv, PassIsEarned, LockInv, Locks
<1>8. CASE UNCHANGED vars
  <2>1. UNCHANGED reviewVars /\ UNCHANGED <<now, dispatcher>>
    BY <1>8 DEF vars, reviewVars
  <2> QED BY <2>1, ReviewKeeps
<1> QED BY <1>1, <1>2, <1>3, <1>4, <1>5, <1>6, <1>7, <1>8 DEF Next, DispatcherStep

-----------------------------------------------------------------------------
(* The theorems *)

LEMMA DInvAlways == Spec => []DInv
  BY DInit, DStep, PTL DEF Spec

(* Type correctness of reviewers, dispatchers, clock and ledger together.  *)
THEOREM TypeCorrect == Spec => []TypeOK
<1>1. DInv => TypeOK BY DEF DInv
<1> QED BY <1>1, DInvAlways, PTL

(* Lock dispatchers post no review, so every PASS on a ledger they share   *)
(* with the reviewers is still earned.                                     *)
THEOREM PassesStayEarned == Spec => []PassIsEarned
<1>1. DInv => PassIsEarned BY DEF DInv, PassInv
<1> QED BY <1>1, DInvAlways, PTL

LEMMA LockIsReviewed == DInv => LockedHashWasReviewed
<1> SUFFICES ASSUME DInv, ReviewMode = "require", NEW i \in Locks
             PROVE  \E j \in PassReviews(ledger, ledger[i].hash) : j < i
  BY DEF LockedHashWasReviewed
<1> DEFINE me == dispatcher[ledger[i].run]
<1>1. LockOf(ledger, i, dispatcher) BY DEF DInv, LockInv
<1>2. me.seen \in Nat /\ me.seen < i /\ ledger[i].hash = me.hash
  BY <1>1 DEF LockOf, Decided
<1>3. PICK j \in PassReviews(ledger, me.hash) : j <= me.seen
  BY <1>1 DEF LockOf, Decided, GateSeen
<1>4. j \in Nat /\ i \in Nat BY DEF PassReviews, At, Locks, DInv, TypeOK, ReviewTypeOK
<1> HIDE DEF me
<1>5. j < i BY <1>2, <1>3, <1>4
<1> QED BY <1>2, <1>3, <1>5

(* With --contract-review require, a lock comes after a CONTRACT_PASS for  *)
(* the hash it carries, whatever edits and reviews happen in between.      *)
THEOREM LockedHashesAreReviewed == Spec => []LockedHashWasReviewed
  BY LockIsReviewed, DInvAlways, PTL

(* Two locks of one description can both be active only if neither         *)
(* dispatcher could have read the other's lock.                            *)
THEOREM OverlapsAreRaces == Spec => []OverlapOnlyFromRace
<1>1. ASSUME DInv PROVE OverlapOnlyFromRace
  <2> SUFFICES ASSUME NEW i \in Locks, NEW j \in Locks,
                      ledger[i].hash = ledger[j].hash,
                      i <= dispatcher[ledger[j].run].seen
               PROVE  ledger[i].expires <= dispatcher[ledger[j].run].readAt
    BY DEF OverlapOnlyFromRace
  <2>1. LockOf(ledger, j, dispatcher) BY <1>1 DEF DInv, LockInv
  <2>2. i \in At(ledger, "worker.lock") BY DEF Locks
  <2> QED BY <2>1, <2>2 DEF LockOf, Decided, NoneActive
<1> QED BY <1>1, DInvAlways, PTL

(* The superseded field of a lock names a run whose lock the dispatcher    *)
(* had read and that was expired or for another description.               *)
THEOREM SupersededRunsAreSpent == Spec => []SupersededIsSpent
<1>1. ASSUME DInv PROVE SupersededIsSpent
  <2> SUFFICES ASSUME NEW j \in Locks
               PROVE  LET me == dispatcher[ledger[j].run]
                          found == {i \in Locks : i <= me.seen}
                      IN  IF found = {} THEN ledger[j].prev = None
                          ELSE \E i \in found :
                                 /\ ledger[i].run = ledger[j].prev
                                 /\ \/ ledger[i].expires <= me.readAt
                                    \/ ledger[i].hash # me.hash
    BY DEF SupersededIsSpent
  <2>1. LockOf(ledger, j, dispatcher) BY <1>1 DEF DInv, LockInv
  <2> QED BY <2>1 DEF LockOf, Decided, PrevSpent, Locks
<1> QED BY <1>1, DInvAlways, PTL

(* A dispatcher that exits with 0 has its lock and, after it, its context  *)
(* on the ledger.                                                          *)
THEOREM ExitZeroIsLocked == Spec => []ExitZeroMeansLocked
<1>1. DInv => ExitZeroMeansLocked
  BY DEF DInv, LockInv, Knows, ExitZeroMeansLocked, Locks
<1> QED BY <1>1, DInvAlways, PTL
=============================================================================
