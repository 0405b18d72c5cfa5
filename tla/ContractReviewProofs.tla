------------------------ MODULE ContractReviewProofs ------------------------
(***************************************************************************)
(* Proofs about ContractReview for any descriptions, processes and bounds. *)
(* The step lemmas speak of ReviewStep alone, so that the modules which    *)
(* compose it with other processes can cite them.                          *)
(***************************************************************************)
EXTENDS ContractReview, CommonLemmas

LEMMA OneCommentQueue == \A S, c : c \in S => <<c>> \in Seq(S)
  OBVIOUS

LEMMA JoinedQueues == \A S : \A s, t \in Seq(S) : s \o t \in Seq(S)
  OBVIOUS

LEMMA ReviewIsComment ==
  ASSUME NEW h \in Hashes, NEW released \in BOOLEAN, NEW labelsOk \in BOOLEAN
  PROVE  /\ Review(h, released, labelsOk) \in Comment
         /\ Review(h, released, labelsOk).hash = h
         /\ Review(h, released, labelsOk).title = "contract-review"
<1>1. ReasonsOf(h, released, labelsOk) \in SUBSET ReasonCodes
  BY ReviewAssumption DEF ReasonsOf, ReasonCodes
<1>2. \A r : SelectVerdict(r) \in ReviewVerdicts
  BY DEF SelectVerdict, ReviewVerdicts
<1> QED BY <1>1, <1>2 DEF Review, ReviewComment, Comment, Titles, Values

LEMMA StageCommentIsComment ==
  ASSUME NEW title \in Titles, NEW h \in Hashes \cup {None}, NEW v \in Values
  PROVE  StageComment(title, h, v) \in Comment
  BY DEF StageComment, Comment

LEMMA RouteIsComment ==
  ASSUME NEW review \in Comment
  PROVE  /\ Route(review) \in Comment /\ Route(review).title = "remediation-routed"
         /\ Route(review).hash = review.hash /\ Route(review).value = review.value
<1>1. /\ review.hash \in Hashes \cup {None} /\ review.value \in Values
      /\ review.reasons \in SUBSET ReasonCodes
  BY DEF Comment
<1>2. Route(review) =
        [title |-> "remediation-routed", hash |-> review.hash, value |-> review.value,
         reasons |-> review.reasons, run |-> None, expires |-> 0, prev |-> None]
  BY DEF Route, StageComment
<1> QED BY <1>1, <1>2 DEF Comment, Titles

(* What a scheduler will post is a sequence over any set its three parts   *)
(* are sequences over.                                                     *)
LEMMA QueueIsOfParts ==
  ASSUME NEW S, NEW h, NEW cs,
         UnlessRepeated(cs, <<Review(h, HumanGateReleased(cs), TRUE)>>) \in Seq(S),
         UnlessRepeated(cs, FollowUp(Review(h, HumanGateReleased(cs), TRUE))) \in Seq(S),
         UnlessRepeated(cs, RuntimeReadyResult(h)) \in Seq(S)
  PROVE  CommentsToPost(h, cs) \in Seq(S)
<1> DEFINE Queues == Seq(S)
           a == UnlessRepeated(cs, <<Review(h, HumanGateReleased(cs), TRUE)>>)
           b == UnlessRepeated(cs, FollowUp(Review(h, HumanGateReleased(cs), TRUE)))
           c == UnlessRepeated(cs, RuntimeReadyResult(h))
<1>1. \A s, t \in Queues : s \o t \in Queues BY JoinedQueues
<1>2. CommentsToPost(h, cs) = a \o b \o c BY DEF CommentsToPost
<1>3. a \in Queues /\ b \in Queues /\ c \in Queues OBVIOUS
<1> HIDE DEF Queues, a, b, c
<1>4. CommentsToPost(h, cs) \in Queues
  BY <1>1, <1>2, <1>3, Zenon
<1> QED BY <1>4 DEF Queues

LEMMA PartIsOver ==
  ASSUME NEW S, NEW cs, NEW part \in Seq(S)
  PROVE  UnlessRepeated(cs, part) \in Seq(S)
<1> DEFINE Queues == Seq(S)
<1>1. <<>> \in Queues /\ part \in Queues OBVIOUS
<1> HIDE DEF Queues
<1>2. UnlessRepeated(cs, part) \in Queues BY <1>1 DEF UnlessRepeated
<1> QED BY <1>2 DEF Queues

(* Whatever set the decided review and the stage comments belong to, what  *)
(* a scheduler will post is a sequence over it.                            *)
LEMMA QueueIsOver ==
  ASSUME NEW S, NEW h \in Hashes, NEW cs,
         Review(h, HumanGateReleased(cs), TRUE) \in S,
         Route(Review(h, HumanGateReleased(cs), TRUE)) \in S,
         \A t \in {"executive-routing", "runtime-ready"},
            v \in Values : StageComment(t, h, v) \in S
  PROVE  CommentsToPost(h, cs) \in Seq(S)
<1> DEFINE review == Review(h, HumanGateReleased(cs), TRUE)
           Queues == Seq(S)
<1>1. review \in Comment /\ review.hash = h
  BY ReviewIsComment DEF HumanGateReleased
<1>2. <<>> \in Queues /\ \A c \in S : <<c>> \in Queues
  BY OneCommentQueue
<1>4. review.value \in Values BY <1>1 DEF Comment
<1>5. RuntimeReady[h] \in Values /\ (Routing[h] # None => Routing[h] \in Values)
  BY ReviewAssumption DEF Values
<1>6. review \in S /\ Route(review) \in S OBVIOUS
<1> HIDE DEF review, Queues
<1>7. FollowUp(review) \in Queues
  BY <1>1, <1>2, <1>4, <1>5, <1>6 DEF FollowUp
<1>8. RuntimeReadyResult(h) \in Queues
  BY <1>2, <1>5 DEF RuntimeReadyResult
<1>9. <<review>> \in Queues BY <1>2, <1>6
<1> QED BY <1>7, <1>8, <1>9, PartIsOver, QueueIsOfParts DEF Queues, review

LEMMA QueueIsComments ==
  ASSUME NEW h \in Hashes, NEW cs
  PROVE  CommentsToPost(h, cs) \in Seq(Comment)
<1>1. Review(h, HumanGateReleased(cs), TRUE) \in Comment
  BY ReviewIsComment DEF HumanGateReleased
<1>2. {"executive-routing", "runtime-ready"} \subseteq Titles
  BY DEF Titles
<1>3. Route(Review(h, HumanGateReleased(cs), TRUE)) \in Comment BY <1>1, RouteIsComment
<1> QED BY <1>1, <1>2, <1>3, StageCommentIsComment, QueueIsOver

(* The states a step can bring a reviewer to. *)
LEMMA ReviewerExits ==
  Blank("exited") \in ReviewerState /\ Blank("exited").pc = "exited"
  BY DEF ReviewerState, Blank

LEMMA ReviewerFetches ==
  ASSUME NEW me \in ReviewerState, NEW h \in Hashes,
         NEW r, r = [me EXCEPT !.pc = "fetched", !.hash = h]
  PROVE  r \in ReviewerState /\ r.hash = h
<1> DEFINE Queues == Seq(Comment)
<1>1. ReviewerState = [pc : {"idle", "fetched", "posting", "exited"},
                       hash : Hashes \cup {None}, queue : Queues, seen : Nat]
  BY DEF ReviewerState
<1> HIDE DEF Queues
<1> QED BY <1>1

LEMMA ControllerQueues ==
  ASSUME NEW me \in ReviewerState, NEW q \in Seq(Comment), NEW h \in Hashes,
         NEW r, r = [me EXCEPT !.pc = "posting", !.hash = h, !.queue = q]
  PROVE  r \in ReviewerState /\ r.pc = "posting"
<1> DEFINE Queues == Seq(Comment)
<1>1. ReviewerState = [pc : {"idle", "fetched", "posting", "exited"},
                       hash : Hashes \cup {None}, queue : Queues, seen : Nat]
  BY DEF ReviewerState
<1>2. q \in Queues OBVIOUS
<1> HIDE DEF Queues
<1> QED BY <1>1, <1>2

LEMMA SchedulerQueues ==
  ASSUME NEW me \in ReviewerState, NEW q \in Seq(Comment), NEW n \in Nat,
         NEW r, r = [me EXCEPT !.pc = "posting", !.seen = n, !.queue = q]
  PROVE  r \in ReviewerState /\ r.pc = "posting"
<1> DEFINE Queues == Seq(Comment)
<1>1. ReviewerState = [pc : {"idle", "fetched", "posting", "exited"},
                       hash : Hashes \cup {None}, queue : Queues, seen : Nat]
  BY DEF ReviewerState
<1>2. q \in Queues OBVIOUS
<1> HIDE DEF Queues
<1> QED BY <1>1, <1>2

LEMMA ReviewerPosts ==
  ASSUME NEW me \in ReviewerState, NEW q \in Seq(Comment),
         NEW r, r = [me EXCEPT !.queue = q]
  PROVE  r \in ReviewerState /\ r.pc = me.pc
<1> DEFINE Queues == Seq(Comment)
<1>1. ReviewerState = [pc : {"idle", "fetched", "posting", "exited"},
                       hash : Hashes \cup {None}, queue : Queues, seen : Nat]
  BY DEF ReviewerState
<1>2. q \in Queues OBVIOUS
<1> HIDE DEF Queues
<1> QED BY <1>1, <1>2

LEMMA ReviewerMoves ==
  ASSUME ReviewTypeOK, NEW p \in Reviewers, NEW r \in ReviewerState,
         r.pc = "fetched" => r.hash # None,
         reviewer' = [reviewer EXCEPT ![p] = r]
  PROVE  /\ reviewer' \in [Reviewers -> ReviewerState]
         /\ \A q \in Reviewers : reviewer'[q].pc = "fetched" => reviewer'[q].hash # None
  BY DEF ReviewTypeOK

LEMMA ReviewTypeInit == ReviewInit => ReviewTypeOK
  BY ReviewAssumption DEF ReviewInit, ReviewTypeOK, ReviewerState, Blank

LEMMA ReviewTypeStep ==
  ReviewTypeOK /\ [ReviewStep]_reviewVars => ReviewTypeOK'
<1> SUFFICES ASSUME ReviewTypeOK, [ReviewStep]_reviewVars PROVE ReviewTypeOK'
  OBVIOUS
<1>0. /\ description \in Hashes /\ edits \in 0 .. MaxEdits /\ ledger \in Seq(Comment)
      /\ \A p \in Reviewers : reviewer[p] \in ReviewerState
  BY DEF ReviewTypeOK
<1>1. CASE EditDescription
  BY <1>1, ReviewAssumption DEF EditDescription, ReviewTypeOK
<1>2. CASE ReleaseHumanGate
  <2>1. StageComment("human-gate-released", None, "released") \in Comment
    BY StageCommentIsComment DEF Titles, Values
  <2> QED BY <1>2, <2>1 DEF ReleaseHumanGate, ReviewTypeOK
<1>3. ASSUME NEW p \in Controllers, NEW ok \in BOOLEAN, ControllerFetch(p, ok)
      PROVE  ReviewTypeOK'
  <2> DEFINE q == <<Review(description, FALSE, ok)>>
             r == [reviewer[p] EXCEPT !.pc = "posting", !.hash = description,
                                      !.queue = q]
  <2>1. q \in Seq(Comment) BY <1>0, ReviewIsComment, OneCommentQueue
  <2>2. reviewer' = [reviewer EXCEPT ![p] = r] /\ p \in Reviewers
    BY <1>0, <1>3 DEF ControllerFetch, Reviewers, ReviewTypeOK
  <2> HIDE DEF q
  <2>3. r \in ReviewerState /\ r.pc = "posting"
    <3>1. reviewer[p] \in ReviewerState /\ description \in Hashes
      BY <1>0, <2>2
    <3> QED BY <3>1, <2>1, ControllerQueues
  <2> HIDE DEF r
  <2> QED BY <1>0, <1>3, <2>2, <2>3, ReviewerMoves DEF ControllerFetch, ReviewTypeOK
<1>4. ASSUME NEW p \in Schedulers, SchedulerFetch(p) PROVE ReviewTypeOK'
  <2> DEFINE r == [reviewer[p] EXCEPT !.pc = "fetched", !.hash = description]
  <2>1. reviewer' = [reviewer EXCEPT ![p] = r] /\ p \in Reviewers
    BY <1>0, <1>4 DEF SchedulerFetch, Reviewers, ReviewTypeOK
  <2>2. r \in ReviewerState /\ r.hash # None
    <3>1. reviewer[p] \in ReviewerState /\ description \in Hashes BY <1>0, <2>1
    <3> QED BY <3>1, ReviewerFetches, LedgerAssumption
  <2> HIDE DEF r
  <2> QED BY <1>0, <1>4, <2>1, <2>2, ReviewerMoves DEF SchedulerFetch, ReviewTypeOK
<1>5. ASSUME NEW p \in Schedulers, SchedulerRead(p)
      PROVE ReviewTypeOK'
  <2> DEFINE q == CommentsToPost(reviewer[p].hash, ledger)
             r == [reviewer[p] EXCEPT !.pc = "posting", !.seen = Len(ledger),
                                      !.queue = q]
  <2>0. p \in Reviewers BY DEF Reviewers
  <2>1. q \in Seq(Comment)
    BY <1>0, <1>5, <2>0, QueueIsComments DEF SchedulerRead, ReviewTypeOK, ReviewerState
  <2>2. reviewer' = [reviewer EXCEPT ![p] = r]
    BY <1>5 DEF SchedulerRead
  <2> HIDE DEF q
  <2>3. r \in ReviewerState /\ r.pc = "posting"
    <3>1. reviewer[p] \in ReviewerState /\ Len(ledger) \in Nat BY <1>0, <2>0
    <3> QED BY <3>1, <2>1, SchedulerQueues
  <2> HIDE DEF r
  <2> QED BY <1>0, <1>5, <2>0, <2>2, <2>3, ReviewerMoves DEF SchedulerRead, ReviewTypeOK
<1>6. ASSUME NEW p \in Reviewers, NEW landed \in BOOLEAN, NEW ok \in BOOLEAN,
             PostNext(p, landed, ok)
      PROVE  ReviewTypeOK'
  <2> DEFINE q == Tail(reviewer[p].queue)
             r == [reviewer[p] EXCEPT !.queue = q]
  <2>1. Head(reviewer[p].queue) \in Comment /\ q \in Seq(Comment)
    BY <1>0, <1>6 DEF PostNext, ReviewerState
  <2>2. ledger' \in Seq(Comment) BY <1>0, <1>6, <2>1 DEF PostNext, Post
  <2>3. reviewer' = [reviewer EXCEPT ![p] = IF ok THEN r ELSE Blank("exited")]
    BY <1>6 DEF PostNext
  <2> HIDE DEF q
  <2>4. r \in ReviewerState /\ r.pc = "posting"
    BY <1>0, <1>6, <2>1, ReviewerPosts DEF PostNext, ReviewerState
  <2> HIDE DEF r
  <2> QED BY <1>0, <1>6, <2>2, <2>3, <2>4, ReviewerExits, ReviewerMoves
         DEF PostNext, ReviewTypeOK
<1>7. ASSUME NEW p \in Reviewers, ReviewerDone(p) \/ ReviewerAbort(p)
      PROVE  ReviewTypeOK'
  <2> QED BY <1>0, <1>7, ReviewerExits, ReviewerMoves
          DEF ReviewerDone, ReviewerAbort, ReviewTypeOK
<1>8. CASE UNCHANGED reviewVars
  BY <1>8 DEF reviewVars, ReviewTypeOK
<1> QED BY <1>1, <1>2, <1>3, <1>4, <1>5, <1>6, <1>7, <1>8 DEF ReviewStep

(* Type correctness of the review stage: every comment on the ledger has a *)
(* known shape and every process is in a state of its program.             *)
THEOREM ReviewTypeCorrect == ReviewSpec => []ReviewTypeOK
  BY ReviewTypeInit, ReviewTypeStep, PTL DEF ReviewSpec

-----------------------------------------------------------------------------
(* A PASS is earned *)

(* The titles of what comes after the reviews. *)
WorkTitles == {"worker.lock", "worker.context", "worker.reported",
               "controller.verdict", "controller.decision"}

(* What a reviewer may post when `releases' are on the ledger: no PASS     *)
(* that is not earned, and no comment of a process after the reviews.      *)
Postable(releases) ==
  {c \in Comment : /\ EarnedPass(c, releases)
                   /\ c.title \notin WorkTitles}

(* PassIsEarned is not inductive: a PASS is earned when it is decided, and *)
(* waits in a queue before it is posted.                                   *)
PassInv ==
  /\ PassIsEarned
  /\ \A p \in Reviewers :
       reviewer[p].queue \in Seq(Postable(At(ledger, "human-gate-released")))

LEMMA PostableReview ==
  ASSUME NEW h \in Hashes, NEW released \in BOOLEAN, NEW labelsOk \in BOOLEAN,
         NEW releases, released => releases # {}
  PROVE  Review(h, released, labelsOk) \in Postable(releases)
<1> DEFINE r == ReasonsOf(h, released, labelsOk)
<1>1. SelectVerdict(r) = "CONTRACT_PASS" => r = {}
  BY DEF SelectVerdict
<1>2. r = {} => Defects[h] \subseteq IF released THEN GateCodes ELSE {}
  BY DEF ReasonsOf
<1>3. Review(h, released, labelsOk).value = SelectVerdict(r)
  BY DEF Review, ReviewComment
<1> HIDE DEF r
<1> QED BY <1>1, <1>2, <1>3, ReviewIsComment DEF Postable, EarnedPass, WorkTitles

LEMMA PostableStage ==
  ASSUME NEW t \in Titles \ (WorkTitles \cup {"contract-review"}),
         NEW h \in Hashes \cup {None},
         NEW v \in Values, NEW releases
  PROVE  StageComment(t, h, v) \in Postable(releases)
<1>1. StageComment(t, h, v).title = t BY DEF StageComment
<1> QED BY <1>1, StageCommentIsComment DEF Postable, EarnedPass

LEMMA PostableRoute ==
  ASSUME NEW releases, NEW review \in Postable(releases)
  PROVE  Route(review) \in Postable(releases)
<1>1. review \in Comment BY DEF Postable
<1>2. Route(review).title # "contract-review" /\ Route(review).title \notin WorkTitles
  BY <1>1, RouteIsComment DEF WorkTitles
<1>3. EarnedPass(Route(review), releases) BY <1>2 DEF EarnedPass
<1> QED BY <1>1, <1>2, <1>3, RouteIsComment DEF Postable

(* What may be posted now may be posted later. *)
LEMMA PostableGrows ==
  ASSUME NEW R, NEW S, R # {} => S # {}, NEW q \in Seq(Postable(R))
  PROVE  q \in Seq(Postable(S))
<1>1. Postable(R) \subseteq Postable(S) BY DEF Postable, EarnedPass
<1> HIDE DEF Postable
<1> QED BY <1>1

(* A comment appended to the ledger leaves the positions before it alone.  *)
LEMMA AppendKeeps ==
  ASSUME NEW l \in Seq(Comment), NEW c \in Comment
  PROVE  /\ Append(l, c) \in Seq(Comment)
         /\ Len(l) \in Nat
         /\ DOMAIN Append(l, c) = DOMAIN l \cup {Len(l) + 1}
         /\ \A i \in DOMAIN l : Append(l, c)[i] = l[i] /\ i <= Len(l) /\ i \in Nat
         /\ Append(l, c)[Len(l) + 1] = c
  OBVIOUS

LEMMA PassKept ==
  ASSUME ledger \in Seq(Comment), PassInv,
         NEW c \in Comment, EarnedPass(c, At(ledger, "human-gate-released")),
         ledger' = Append(ledger, c)
  PROVE  /\ PassIsEarned'
         /\ At(ledger, "human-gate-released") \subseteq At(ledger, "human-gate-released")'
<1> DEFINE releases == At(ledger, "human-gate-released")
           before(l, i) == {j \in At(l, "human-gate-released") : j < i}
<1>1. c \in Comment /\ EarnedPass(c, releases) OBVIOUS
<1>2. releases \subseteq releases' BY <1>1, AppendKeeps DEF At
<1>3. ASSUME NEW i \in DOMAIN ledger PROVE before(ledger', i) = before(ledger, i)
  BY <1>1, <1>3, AppendKeeps DEF At
<1>4. before(ledger', Len(ledger) + 1) = releases
  BY <1>1, AppendKeeps DEF At
<1>5. ASSUME NEW i \in DOMAIN ledger'
      PROVE  EarnedPass(ledger'[i], before(ledger', i))
  <2>1. CASE i \in DOMAIN ledger
    BY <1>1, <1>3, <2>1, AppendKeeps DEF PassInv, PassIsEarned
  <2>2. CASE i = Len(ledger) + 1
    BY <1>1, <1>4, <2>2, AppendKeeps
  <2> QED BY <2>1, <2>2, <1>1, AppendKeeps
<1> QED BY <1>2, <1>5 DEF PassIsEarned

LEMMA QueuesKept ==
  ASSUME PassInv, ReviewTypeOK, NEW p \in Reviewers, NEW r,
         reviewer' = [reviewer EXCEPT ![p] = r],
         r.queue \in Seq(Postable(At(ledger, "human-gate-released"))),
         At(ledger, "human-gate-released") \subseteq At(ledger, "human-gate-released")'
  PROVE  \A q \in Reviewers :
           reviewer'[q].queue \in Seq(Postable(At(ledger, "human-gate-released")'))
<1> DEFINE R == At(ledger, "human-gate-released")
           Q(S) == Seq(Postable(S))
<1>1. \A x \in Q(R) : x \in Q(R') BY PostableGrows
<1>2. \A q \in Reviewers : reviewer[q].queue \in Q(R) BY DEF PassInv
<1>3. \A q \in Reviewers : reviewer'[q] = IF q = p THEN r ELSE reviewer[q]
  BY DEF ReviewTypeOK
<1>4. r.queue \in Q(R) OBVIOUS
<1> SUFFICES \A q \in Reviewers : reviewer'[q].queue \in Q(R') OBVIOUS
<1> HIDE DEF Q, R
<1> QED BY <1>1, <1>2, <1>3, <1>4

LEMMA NothingQueued == \A pc, S : Blank(pc).queue \in Seq(S)
  BY DEF Blank

LEMMA PassInit == ReviewInit => PassInv
  BY NothingQueued DEF ReviewInit, PassInv, PassIsEarned

LEMMA PassStep ==
  ReviewTypeOK /\ PassInv /\ [ReviewStep]_reviewVars => PassInv'
<1> SUFFICES ASSUME ReviewTypeOK, PassInv, [ReviewStep]_reviewVars PROVE PassInv'
  OBVIOUS
<1> DEFINE R == At(ledger, "human-gate-released")
<1>0. /\ ledger \in Seq(Comment) /\ description \in Hashes
      /\ \A p \in Reviewers : reviewer[p] \in ReviewerState
  BY DEF ReviewTypeOK
<1>1. ASSUME UNCHANGED <<ledger, reviewer>> PROVE PassInv'
  BY <1>1 DEF PassInv, PassIsEarned
<1>2. CASE ReleaseHumanGate
  <2> DEFINE c == StageComment("human-gate-released", None, "released")
  <2>1. c \in Postable(R) BY PostableStage DEF Titles, Values, WorkTitles
  <2>2. ledger' = Append(ledger, c) /\ reviewer' = reviewer
    BY <1>2 DEF ReleaseHumanGate
  <2>3. PassIsEarned' /\ R \subseteq R'
    <3> HIDE DEF c
    <3> QED BY <1>0, <2>1, <2>2, PassKept DEF Postable
  <2>4. \A p \in Reviewers : reviewer[p].queue \in Seq(Postable(R'))
    BY <2>3, PostableGrows DEF PassInv
  <2> QED BY <2>2, <2>3, <2>4 DEF PassInv
<1>3. ASSUME NEW p \in Reviewers, NEW r, r.queue \in Seq(Postable(R)),
             reviewer' = [reviewer EXCEPT ![p] = r], ledger' = ledger
      PROVE  PassInv'
  <2>1. PassIsEarned' /\ R' = R BY <1>3 DEF PassInv, PassIsEarned
  <2> QED BY <1>3, <2>1, QueuesKept DEF PassInv
<1>4. ASSUME NEW p \in Controllers, NEW ok \in BOOLEAN, ControllerFetch(p, ok)
      PROVE  PassInv'
  <2> DEFINE c == Review(description, FALSE, ok)
             r == [reviewer[p] EXCEPT !.pc = "posting", !.hash = description,
                                      !.queue = <<c>>]
  <2>1. c \in Postable(R) BY <1>0, PostableReview
  <2>2. p \in Reviewers /\ reviewer[p] \in ReviewerState BY <1>0 DEF Reviewers
  <2>3. reviewer' = [reviewer EXCEPT ![p] = r] /\ ledger' = ledger
    BY <1>4 DEF ControllerFetch
  <2>4. <<c>> \in Seq(Postable(R)) BY <2>1, OneCommentQueue
  <2>5. r.queue = <<c>> BY <2>2 DEF ReviewerState
  <2> HIDE DEF r
  <2> QED BY <1>3, <2>2, <2>3, <2>4, <2>5
<1>5. ASSUME NEW p \in Schedulers, SchedulerFetch(p) PROVE PassInv'
  <2> DEFINE r == [reviewer[p] EXCEPT !.pc = "fetched", !.hash = description]
  <2>1. p \in Reviewers /\ reviewer[p] \in ReviewerState BY <1>0 DEF Reviewers
  <2>2. reviewer' = [reviewer EXCEPT ![p] = r] /\ ledger' = ledger
    BY <1>0, <1>5, <2>1 DEF SchedulerFetch, ReviewTypeOK
  <2>3. r.queue = reviewer[p].queue BY <2>1 DEF ReviewerState
  <2>4. r.queue \in Seq(Postable(R)) BY <2>1, <2>3 DEF PassInv
  <2> HIDE DEF r
  <2> QED BY <1>3, <2>1, <2>2, <2>4
<1>6. ASSUME NEW p \in Schedulers, SchedulerRead(p) PROVE PassInv'
  <2> DEFINE h == reviewer[p].hash
             q == CommentsToPost(h, ledger)
             r == [reviewer[p] EXCEPT !.pc = "posting", !.seen = Len(ledger),
                                      !.queue = q]
  <2>1. p \in Reviewers /\ reviewer[p] \in ReviewerState BY <1>0 DEF Reviewers
  <2>2. h \in Hashes
    BY <1>6, <2>1 DEF SchedulerRead, ReviewTypeOK, ReviewerState
  <2>3. reviewer' = [reviewer EXCEPT ![p] = r] /\ ledger' = ledger
    BY <1>6 DEF SchedulerRead
  <2>4. Review(h, HumanGateReleased(ledger), TRUE) \in Postable(R)
    BY <2>2, PostableReview DEF HumanGateReleased
  <2>5. \A t \in {"executive-routing", "runtime-ready"},
           v \in Values : StageComment(t, h, v) \in Postable(R)
    BY <2>2, PostableStage DEF Titles, WorkTitles
  <2>8. Route(Review(h, HumanGateReleased(ledger), TRUE)) \in Postable(R)
    BY <2>4, PostableRoute
  <2> HIDE DEF h
  <2>6. q \in Seq(Postable(R)) BY <2>2, <2>4, <2>5, <2>8, QueueIsOver
  <2>7. r.queue = q BY <2>1 DEF ReviewerState
  <2> HIDE DEF r
  <2> QED BY <1>3, <2>1, <2>3, <2>6, <2>7
<1>7. ASSUME NEW p \in Reviewers, NEW landed \in BOOLEAN, NEW ok \in BOOLEAN,
             PostNext(p, landed, ok)
      PROVE  PassInv'
  <2> DEFINE c == Head(reviewer[p].queue)
             r == IF ok THEN [reviewer[p] EXCEPT !.queue = Tail(@)] ELSE Blank("exited")
  <2>1. c \in Postable(R) /\ Tail(reviewer[p].queue) \in Seq(Postable(R))
    BY <1>7 DEF PassInv, PostNext
  <2>2. reviewer' = [reviewer EXCEPT ![p] = r] BY <1>7 DEF PostNext
  <2>3. r.queue \in Seq(Postable(R))
    BY <1>0, <2>1, NothingQueued DEF ReviewerState
  <2>4. CASE landed
    <3>1. ledger' = Append(ledger, c) BY <1>7, <2>4 DEF PostNext, Post
    <3> HIDE DEF c, r
    <3>2. PassIsEarned' /\ R \subseteq R' BY <1>0, <2>1, <3>1, PassKept DEF Postable
    <3> QED BY <2>2, <2>3, <3>2, QueuesKept DEF PassInv
  <2>5. CASE ~landed
    <3>1. ledger' = ledger BY <1>7, <2>5 DEF PostNext, Post
    <3> HIDE DEF r
    <3> QED BY <1>3, <2>2, <2>3, <3>1
  <2> QED BY <2>4, <2>5
<1>8. ASSUME NEW p \in Reviewers, ReviewerDone(p) \/ ReviewerAbort(p) PROVE PassInv'
  <2>1. reviewer' = [reviewer EXCEPT ![p] = Blank("exited")] /\ ledger' = ledger
    BY <1>8 DEF ReviewerDone, ReviewerAbort
  <2> QED BY <1>3, <2>1, NothingQueued
<1>9. CASE EditDescription BY <1>1, <1>9 DEF EditDescription
<1>10. CASE UNCHANGED reviewVars BY <1>1, <1>10 DEF reviewVars
<1> QED BY <1>2, <1>4, <1>5, <1>6, <1>7, <1>8, <1>9, <1>10 DEF ReviewStep

(* A step of the review stage posts at most one comment, and never one of  *)
(* a later process.                                                        *)
LEMMA ReviewAppends ==
  ASSUME ReviewTypeOK, PassInv, [ReviewStep]_reviewVars
  PROVE  \/ ledger' = ledger
         \/ \E c \in Comment : /\ ledger' = Append(ledger, c)
                               /\ c.title \notin WorkTitles
<1>1. CASE ReleaseHumanGate
  <2>1. StageComment("human-gate-released", None, "released") \in Comment
    BY StageCommentIsComment DEF Titles, Values
  <2> QED BY <1>1, <2>1 DEF ReleaseHumanGate, StageComment, WorkTitles
<1>2. ASSUME NEW p \in Reviewers, NEW landed \in BOOLEAN, NEW ok \in BOOLEAN,
             PostNext(p, landed, ok)
      PROVE  \/ ledger' = ledger
             \/ \E c \in Comment : /\ ledger' = Append(ledger, c)
                                   /\ c.title \notin WorkTitles
  <2>1. Head(reviewer[p].queue) \in Postable(At(ledger, "human-gate-released"))
    BY <1>2 DEF PassInv, PostNext
  <2> QED BY <1>2, <2>1 DEF PostNext, Post, Postable
<1> QED BY <1>1, <1>2 DEF ReviewStep, EditDescription, ControllerFetch, SchedulerFetch,
          SchedulerRead, ReviewerDone, ReviewerAbort, reviewVars

(* Every CONTRACT_PASS on the ledger is earned, for any descriptions and   *)
(* any number of reviewers: only human gates stand against its hash, and a *)
(* release of the gate precedes it if one does.                            *)
THEOREM PassesAreEarned == ReviewSpec => []PassIsEarned
<1>1. PassInv => PassIsEarned BY DEF PassInv
<1> QED BY <1>1, ReviewTypeInit, ReviewTypeStep, PassInit, PassStep, PTL DEF ReviewSpec

-----------------------------------------------------------------------------
(* Stage comments follow a review, and repeats come from races *)

(* `c' is a comment that one of `rs' may precede: what                     *)
(* StageCommentsFollowReview asks of a position and the comments before it. *)
StageBacked(c, rs) ==
  /\ c.title = "remediation-routed" =>
       \E r \in rs : /\ r.title = "contract-review" /\ r.hash = c.hash
                     /\ r.value = c.value
  /\ c.title = "executive-routing" =>
       \E r \in rs : /\ r.title = "contract-review" /\ r.hash = c.hash
                     /\ r.value = "CONTRACT_PASS"
  /\ c.title = "runtime-ready" =>
       \E r \in rs : r.title = "contract-review" /\ r.hash = c.hash

Before(s, i) == {s[j] : j \in 1 .. i - 1}

(* A scheduler that read n comments may post c: the newest comment of its  *)
(* title differs, or came after the read.                                  *)
Fresh(l, n) ==
  {c \in Comment : SameAsLatest(l, c) => \E i \in At(l, c.title) : i > n}

(* Every comment of queue q has its review on ledger l or before it in q.  *)
QueueBacked(l, q) ==
  \A i \in DOMAIN q : StageBacked(q[i], Range(l) \cup Before(q, i))

(* What process me has queued repeats nothing it has read of ledger l.     *)
QueueFresh(l, me) ==
  me.seen <= Len(l) /\ me.queue \in Seq(Fresh(l, me.seen))

(* Neither property is inductive alone: both are settled when a queue is   *)
(* decided, and must last until its comments are posted.                   *)
QueueInv ==
  /\ \A i \in DOMAIN ledger : StageBacked(ledger[i], Before(ledger, i))
  /\ \A p \in Reviewers : QueueBacked(ledger, reviewer[p].queue)
  /\ \A p \in Schedulers : QueueFresh(ledger, reviewer[p])

LEMMA BackedGrows ==
  ASSUME NEW c, NEW R, NEW S, R \subseteq S, StageBacked(c, R)
  PROVE  StageBacked(c, S)
  BY DEF StageBacked

LEMMA BackedIsFollowing ==
  ASSUME \A i \in DOMAIN ledger : StageBacked(ledger[i], Before(ledger, i))
  PROVE  StageCommentsFollowReview
  BY DEF StageBacked, Before, StageCommentsFollowReview

(* A comment appended to a ledger that backs it. *)
LEMMA LedgerBacked ==
  ASSUME NEW l \in Seq(Comment), NEW c \in Comment,
         \A i \in DOMAIN l : StageBacked(l[i], Before(l, i)), StageBacked(c, Range(l))
  PROVE  /\ \A i \in DOMAIN Append(l, c) :
              StageBacked(Append(l, c)[i], Before(Append(l, c), i))
         /\ Range(Append(l, c)) = Range(l) \cup {c}
<1> DEFINE m == Append(l, c)
           n == Len(l)
<1>1. /\ DOMAIN m = DOMAIN l \cup {n + 1} /\ n \in Nat /\ DOMAIN l = 1 .. n
      /\ \A i \in DOMAIN l : m[i] = l[i]
      /\ m[n + 1] = c
  BY AppendKeeps
<1> HIDE DEF m, n
<1>2. ASSUME NEW i \in DOMAIN l PROVE Before(m, i) = Before(l, i)
  <2>1. \A j \in 1 .. i - 1 : j \in DOMAIN l BY <1>1
  <2> QED BY <1>1, <2>1 DEF Before
<1>3. Before(m, n + 1) = Range(l)
  <2>1. 1 .. (n + 1) - 1 = DOMAIN l BY <1>1
  <2> QED BY <1>1, <2>1 DEF Before, Range
<1>4. Range(m) = Range(l) \cup {c} BY <1>1 DEF Range
<1> QED BY <1>1, <1>2, <1>3, <1>4 DEF m

(* What a process may still post stays so when somebody appends. *)
LEMMA FreshKept ==
  ASSUME NEW l \in Seq(Comment), NEW c \in Comment, NEW n \in Nat, n <= Len(l)
  PROVE  Fresh(l, n) \subseteq Fresh(Append(l, c), n) /\ n <= Len(Append(l, c))
<1> DEFINE m == Append(l, c)
           k == Len(l)
<1>1. /\ DOMAIN m = DOMAIN l \cup {k + 1} /\ k \in Nat
      /\ \A i \in DOMAIN l : m[i] = l[i] /\ i <= k /\ i \in Nat
      /\ m[k + 1] = c
  BY AppendKeeps
<1>2. Len(m) = k + 1 OBVIOUS
<1>3. n <= k OBVIOUS
<1> HIDE DEF m, k
<1>4. ASSUME NEW d \in Fresh(l, n) PROVE d \in Fresh(m, n)
  <2>1. CASE d.title = c.title
    <3>1. k + 1 \in At(m, d.title) /\ k + 1 > n BY <1>1, <1>3, <2>1 DEF At
    <3> QED BY <1>4, <3>1 DEF Fresh
  <2>2. CASE d.title # c.title
    <3>1. At(m, d.title) = At(l, d.title) BY <1>1, <2>2 DEF At
    <3>2. CASE At(l, d.title) = {} BY <1>4, <3>1, <3>2 DEF Fresh, SameAsLatest
    <3>3. CASE At(l, d.title) # {}
      <4>1. \E x \in At(l, d.title) : \A y \in At(l, d.title) : x >= y
        <5>1. At(l, d.title) \subseteq 0 .. k BY <1>1 DEF At
        <5>2. \E x \in At(l, d.title) : \A y \in At(l, d.title) : y <= x
          BY <1>1, <3>3, <5>1, GreatestExists
        <5> QED BY <5>1, <5>2
      <4>2. Max(At(l, d.title)) \in At(l, d.title) BY <4>1 DEF Max
      <4>3. m[Max(At(l, d.title))] = l[Max(At(l, d.title))] BY <1>1, <4>2 DEF At
      <4> QED BY <1>4, <3>1, <4>3 DEF Fresh, SameAsLatest
    <3> QED BY <3>2, <3>3
  <2> QED BY <2>1, <2>2
<1> QED BY <1>1, <1>2, <1>3, <1>4 DEF m

LEMMA LatestIsOnLedger ==
  ASSUME NEW l \in Seq(Comment), NEW c, SameAsLatest(l, c)
  PROVE  c \in Range(l)
<1> DEFINE same == At(l, c.title)
<1>1. same \subseteq 0 .. Len(l) /\ same # {} /\ Len(l) \in Nat
  BY DEF At, SameAsLatest
<1>2. \E x \in same : \A y \in same : y <= x BY <1>1, GreatestExists
<1>3. \E x \in same : \A y \in same : x >= y BY <1>1, <1>2
<1>4. Max(same) \in same BY <1>3 DEF Max
<1> QED BY <1>4 DEF At, SameAsLatest, Range

(* The parts of a scheduler's decision all rest on its review. *)
LEMMA PartsAreBacked ==
  ASSUME NEW h \in Hashes, NEW review \in Comment, NEW S,
         review.hash = h, review.title = "contract-review",
         S = {c \in Comment : StageBacked(c, {review})}
  PROVE  /\ <<review>> \in Seq(S)
         /\ FollowUp(review) \in Seq(S)
         /\ RuntimeReadyResult(h) \in Seq(S)
<1> DEFINE Queues == Seq(S)
           routed == Route(review)
           executive == StageComment("executive-routing", review.hash, Routing[review.hash])
           ready == StageComment("runtime-ready", h, RuntimeReady[h])
<1>1. review \in S BY DEF StageBacked
<1>2. routed \in S
  <2>1. /\ routed \in Comment /\ routed.title = "remediation-routed" /\ routed.hash = review.hash
        /\ routed.value = review.value
    BY RouteIsComment
  <2> HIDE DEF routed
  <2> QED BY <2>1 DEF StageBacked
<1>3. (review.value = "CONTRACT_PASS" /\ Routing[review.hash] # None) => executive \in S
  <2> SUFFICES ASSUME review.value = "CONTRACT_PASS", Routing[review.hash] # None
               PROVE  executive \in S
    OBVIOUS
  <2>1. Routing[review.hash] \in Values BY ReviewAssumption DEF Values
  <2>2. executive \in Comment BY <2>1, StageCommentIsComment DEF Titles
  <2> QED BY <2>2 DEF StageBacked, StageComment
<1>4. ready \in S
  <2>1. RuntimeReady[h] \in Values BY ReviewAssumption DEF Values
  <2>2. ready \in Comment BY <2>1, StageCommentIsComment DEF Titles
  <2> QED BY <2>2 DEF StageBacked, StageComment
<1>5. <<>> \in Queues /\ \A c \in S : <<c>> \in Queues BY OneCommentQueue
<1>6. FollowUp(review) \in {<<>>, <<routed>>, <<executive>>}
      /\ (FollowUp(review) = <<executive>> =>
            \/ FollowUp(review) = <<routed>>
            \/ review.value = "CONTRACT_PASS" /\ Routing[review.hash] # None)
  BY DEF FollowUp
<1>7. RuntimeReadyResult(h) \in {<<>>, <<ready>>} BY DEF RuntimeReadyResult
<1> HIDE DEF Queues, routed, executive, ready
<1>8. /\ <<review>> \in Queues /\ FollowUp(review) \in Queues
      /\ RuntimeReadyResult(h) \in Queues
  BY <1>1, <1>2, <1>3, <1>4, <1>5, <1>6, <1>7
<1> QED BY <1>8 DEF Queues

(* What a scheduler decides to post rests on the comments it has read and  *)
(* on its own review, which is the first in the queue unless the ledger    *)
(* already ends its reviews with it.                                       *)
LEMMA QueueIsBacked ==
  ASSUME NEW h \in Hashes, NEW cs \in Seq(Comment),
         NEW q, q = CommentsToPost(h, cs)
  PROVE  QueueBacked(cs, q)
<1> SUFFICES \A i \in DOMAIN q : StageBacked(q[i], Range(cs) \cup Before(q, i))
  BY DEF QueueBacked
<1> DEFINE review == Review(h, HumanGateReleased(cs), TRUE)
           S == {c \in Comment : StageBacked(c, {review})}
           rest == UnlessRepeated(cs, FollowUp(review))
                     \o UnlessRepeated(cs, RuntimeReadyResult(h))
<1>1. /\ review \in Comment /\ review.hash = h /\ review.title = "contract-review"
  BY ReviewIsComment DEF HumanGateReleased
<1>2. /\ <<review>> \in Seq(S)
      /\ FollowUp(review) \in Seq(S)
      /\ RuntimeReadyResult(h) \in Seq(S)
  <2> HIDE DEF review
  <2> QED BY <1>1, PartsAreBacked
<1>3. /\ UnlessRepeated(cs, <<review>>) \in Seq(S)
      /\ UnlessRepeated(cs, FollowUp(review)) \in Seq(S)
      /\ UnlessRepeated(cs, RuntimeReadyResult(h)) \in Seq(S)
  <2> HIDE DEF review, S
  <2> QED BY <1>2, PartIsOver
<1>4. q \in Seq(S)
  <2> HIDE DEF S
  <2> QED BY <1>3, QueueIsOfParts DEF review
<1>5. \A i \in DOMAIN q : StageBacked(q[i], {review})
  <2>1. \A c \in S : StageBacked(c, {review}) OBVIOUS
  <2>2. \A i \in DOMAIN q : q[i] \in S
    <3> HIDE DEF S
    <3> QED BY <1>4
  <2> HIDE DEF S, review
  <2> QED BY <2>1, <2>2
<1>6. CASE SameAsLatest(cs, review)
  <2>1. {review} \subseteq Range(cs) BY <1>6, LatestIsOnLedger
  <2> HIDE DEF review, S
  <2> QED BY <1>5, <2>1, BackedGrows
<1>7. CASE ~SameAsLatest(cs, review)
  <2>1. UnlessRepeated(cs, <<review>>) = <<review>>
    <3>1. Head(<<review>>) = review OBVIOUS
    <3> HIDE DEF review
    <3> QED BY <1>7, <3>1 DEF UnlessRepeated
  <2>2. q = <<review>> \o UnlessRepeated(cs, FollowUp(review))
              \o UnlessRepeated(cs, RuntimeReadyResult(h))
    BY <2>1 DEF CommentsToPost
  <2> DEFINE a == <<review>>
             b == UnlessRepeated(cs, FollowUp(review))
             c == UnlessRepeated(cs, RuntimeReadyResult(h))
  <2>3. a \in Seq(S) /\ b \in Seq(S) /\ c \in Seq(S) /\ Len(a) = 1 /\ a[1] = review
    BY <1>2, <1>3
  <2> HIDE DEF review, S, rest
  <2>4. q = (a \o b) \o c BY <2>2
  <2> HIDE DEF a, b, c
  <2>5. a \o b \in Seq(S) /\ Len(a \o b) = 1 + Len(b) /\ (a \o b)[1] = review
    <3>1. 1 \in 1 .. Len(a) BY <2>3
    <3>2. /\ a \o b \in Seq(S) /\ Len(a \o b) = Len(a) + Len(b)
          /\ \A k \in 1 .. Len(a) : (a \o b)[k] = a[k]
      BY <2>3, ConcatEnds
    <3> QED BY <2>3, <3>1, <3>2
  <2>6. 1 \in 1 .. Len(a \o b) BY <2>3, <2>5
  <2>7. q[1] = review BY <2>3, <2>4, <2>5, <2>6, ConcatEnds
  <2>8. ASSUME NEW i \in DOMAIN q PROVE StageBacked(q[i], Range(cs) \cup Before(q, i))
    <3>1. CASE i = 1 BY <1>1, <2>7, <3>1 DEF StageBacked
    <3>2. CASE i # 1
      <4>1. 1 \in 1 .. i - 1 BY <1>4, <3>2
      <4>2. {review} \subseteq Range(cs) \cup Before(q, i) BY <2>7, <4>1 DEF Before
      <4> QED BY <1>5, <4>2, BackedGrows
    <3> QED BY <3>1, <3>2
  <2> QED BY <2>8
<1> QED BY <1>6, <1>7

(* A comment that is posted unless the ledger ends its title with it. *)
LEMMA PartIsFresh ==
  ASSUME NEW cs, NEW n, NEW part \in Seq(Comment), part # <<>> => part = <<Head(part)>>
  PROVE  UnlessRepeated(cs, part) \in Seq(Fresh(cs, n))
<1> DEFINE Queues == Seq(Fresh(cs, n))
<1>1. CASE part = <<>> BY <1>1 DEF UnlessRepeated
<1>2. CASE part # <<>>
  <2> DEFINE c == Head(part)
  <2>1. c \in Comment /\ part = <<c>> BY <1>2
  <2>2. <<>> \in Queues /\ (c \in Fresh(cs, n) => <<c>> \in Queues)
    BY OneCommentQueue
  <2>3. SameAsLatest(cs, c) \/ c \in Fresh(cs, n) BY <2>1 DEF Fresh
  <2> HIDE DEF c, Queues
  <2>4. UnlessRepeated(cs, part) \in Queues
    <3>1. UnlessRepeated(cs, part) = IF SameAsLatest(cs, c) THEN <<>> ELSE <<c>>
      BY <1>2, <2>1 DEF UnlessRepeated, c
    <3> QED BY <2>2, <2>3, <3>1
  <2> QED BY <2>4 DEF Queues
<1> QED BY <1>1, <1>2

LEMMA QueueIsFresh ==
  ASSUME NEW h \in Hashes, NEW cs \in Seq(Comment), NEW n
  PROVE  CommentsToPost(h, cs) \in Seq(Fresh(cs, n))
<1> DEFINE review == Review(h, HumanGateReleased(cs), TRUE)
<1>1. /\ review \in Comment /\ review.hash = h /\ review.title = "contract-review"
  BY ReviewIsComment DEF HumanGateReleased
<1>2. /\ <<review>> \in Seq(Comment) /\ FollowUp(review) \in Seq(Comment)
      /\ RuntimeReadyResult(h) \in Seq(Comment)
  <2> DEFINE S == {c \in Comment : StageBacked(c, {review})}
  <2>1. S \subseteq Comment OBVIOUS
  <2>2. /\ <<review>> \in Seq(S) /\ FollowUp(review) \in Seq(S)
        /\ RuntimeReadyResult(h) \in Seq(S)
    <3> HIDE DEF review
    <3> QED BY <1>1, PartsAreBacked
  <2> HIDE DEF S, review
  <2> QED BY <2>1, <2>2
<1>3. /\ <<review>> # <<>> => <<review>> = <<Head(<<review>>)>>
      /\ FollowUp(review) # <<>> => FollowUp(review) = <<Head(FollowUp(review))>>
      /\ RuntimeReadyResult(h) # <<>> =>
           RuntimeReadyResult(h) = <<Head(RuntimeReadyResult(h))>>
  <2> HIDE DEF review
  <2> QED BY DEF FollowUp, RuntimeReadyResult
<1>4. /\ UnlessRepeated(cs, <<review>>) \in Seq(Fresh(cs, n))
      /\ UnlessRepeated(cs, FollowUp(review)) \in Seq(Fresh(cs, n))
      /\ UnlessRepeated(cs, RuntimeReadyResult(h)) \in Seq(Fresh(cs, n))
  <2> HIDE DEF review
  <2> QED BY <1>2, <1>3, PartIsFresh
<1> QED BY <1>4, QueueIsOfParts DEF review

(* A comment posted to the ledger keeps every queue in order.              *)
LEMMA QueueKept ==
  ASSUME NEW l \in Seq(Comment), NEW c \in Comment, NEW me \in ReviewerState
  PROVE  /\ QueueBacked(l, me.queue) => QueueBacked(Append(l, c), me.queue)
         /\ QueueFresh(l, me) => QueueFresh(Append(l, c), me)
<1> DEFINE m == Append(l, c)
<1>1. Range(l) \subseteq Range(m) BY AppendKeeps DEF Range
<1>2. me.seen \in Nat BY DEF ReviewerState
<1>3. me.seen <= Len(l) => /\ Fresh(l, me.seen) \subseteq Fresh(m, me.seen)
                           /\ me.seen <= Len(m)
  BY <1>2, FreshKept
<1> HIDE DEF m
<1>4. QueueFresh(l, me) => QueueFresh(m, me)
  <2> SUFFICES ASSUME QueueFresh(l, me) PROVE QueueFresh(m, me) OBVIOUS
  <2> DEFINE A == Fresh(l, me.seen)
             B == Fresh(m, me.seen)
  <2>1. A \subseteq B /\ me.queue \in Seq(A) /\ me.seen <= Len(m)
    BY <1>3 DEF QueueFresh
  <2> HIDE DEF A, B
  <2>2. me.queue \in Seq(B) BY <2>1
  <2> QED BY <2>1, <2>2 DEF QueueFresh, B
<1>5. QueueBacked(l, me.queue) => QueueBacked(m, me.queue)
  <2> SUFFICES ASSUME QueueBacked(l, me.queue), NEW i \in DOMAIN me.queue
               PROVE  StageBacked(me.queue[i], Range(m) \cup Before(me.queue, i))
    BY DEF QueueBacked
  <2>1. StageBacked(me.queue[i], Range(l) \cup Before(me.queue, i)) BY DEF QueueBacked
  <2> QED BY <1>1, <2>1, BackedGrows
<1> QED BY <1>4, <1>5 DEF m

(* The first of a queue may be posted, and the rest stays in order.        *)
LEMMA HeadIsBacked ==
  ASSUME NEW l \in Seq(Comment), NEW q \in Seq(Comment), q # <<>>, QueueBacked(l, q)
  PROVE  /\ StageBacked(Head(q), Range(l))
         /\ QueueBacked(Append(l, Head(q)), Tail(q))
<1> DEFINE c == Head(q)
           t == Tail(q)
           n == Len(q)
<1>1. /\ n \in Nat \ {0} /\ DOMAIN q = 1 .. n /\ c = q[1] /\ c \in Comment
      /\ t \in Seq(Comment) /\ DOMAIN t = 1 .. n - 1
      /\ \A i \in 1 .. n - 1 : t[i] = q[i + 1]
  OBVIOUS
<1>2. Range(Append(l, c)) = Range(l) \cup {c} BY <1>1, AppendKeeps DEF Range
<1> HIDE DEF c, t, n
<1>3. StageBacked(c, Range(l))
  <2>1. Before(q, 1) = {} BY DEF Before
  <2>2. 1 \in DOMAIN q BY <1>1
  <2> QED BY <1>1, <2>1, <2>2 DEF QueueBacked
<1>4. ASSUME NEW i \in DOMAIN t
      PROVE  StageBacked(t[i], Range(Append(l, c)) \cup Before(t, i))
  <2>1. i \in 1 .. n - 1 /\ i + 1 \in DOMAIN q /\ t[i] = q[i + 1] BY <1>1
  <2>2. StageBacked(q[i + 1], Range(l) \cup Before(q, i + 1)) BY <2>1 DEF QueueBacked
  <2>3. Before(q, i + 1) \subseteq {c} \cup Before(t, i)
    <3> SUFFICES ASSUME NEW j \in 1 .. (i + 1) - 1 PROVE q[j] \in {c} \cup Before(t, i)
      BY DEF Before
    <3>1. CASE j = 1 BY <1>1, <3>1
    <3>2. CASE j # 1
      <4>1. j - 1 \in 1 .. i - 1 /\ j - 1 \in 1 .. n - 1 /\ (j - 1) + 1 = j
        BY <1>1, <2>1, <3>2
      <4>2. t[j - 1] = q[j] BY <1>1, <4>1
      <4> QED BY <4>1, <4>2 DEF Before
    <3> QED BY <3>1, <3>2
  <2>4. Range(l) \cup Before(q, i + 1) \subseteq Range(Append(l, c)) \cup Before(t, i)
    BY <1>2, <2>3
  <2> QED BY <2>1, <2>2, <2>4, BackedGrows
<1> QED BY <1>3, <1>4 DEF QueueBacked, c, t

LEMMA NothingBacked ==
  \A pc, l : l \in Seq(Comment) => QueueBacked(l, Blank(pc).queue) /\ QueueFresh(l, Blank(pc))
  BY DEF Blank, QueueBacked, QueueFresh

LEMMA QueueInit == ReviewInit => QueueInv
<1> SUFFICES ASSUME ReviewInit PROVE QueueInv OBVIOUS
<1>1. /\ ledger = <<>> /\ ledger \in Seq(Comment)
      /\ \A p \in Reviewers : reviewer[p] = Blank("idle")
  BY DEF ReviewInit
<1>2. QueueBacked(ledger, Blank("idle").queue) /\ QueueFresh(ledger, Blank("idle"))
  BY <1>1, NothingBacked
<1> QED BY <1>1, <1>2 DEF QueueInv, Reviewers

(* One process moves to state r, and the ledger stays as it is ...         *)
LEMMA MoverKeeps ==
  ASSUME ReviewTypeOK, QueueInv, NEW p \in Reviewers, NEW r,
         reviewer' = [reviewer EXCEPT ![p] = r], ledger' = ledger,
         QueueBacked(ledger, r.queue), p \in Schedulers => QueueFresh(ledger, r)
  PROVE  QueueInv'
<1>1. \A q \in Reviewers : reviewer'[q] = IF q = p THEN r ELSE reviewer[q]
  BY DEF ReviewTypeOK
<1> QED BY <1>1 DEF QueueInv, Reviewers

(* ... or a comment is posted that the ledger backs.                       *)
LEMMA PosterKeeps ==
  ASSUME ReviewTypeOK, QueueInv, NEW c \in Comment, ledger' = Append(ledger, c),
         StageBacked(c, Range(ledger)),
         NEW P, P \subseteq Reviewers,
         \A q \in Reviewers \ P : reviewer'[q] = reviewer[q],
         \A p \in P : /\ QueueBacked(ledger', reviewer'[p].queue)
                      /\ p \in Schedulers => QueueFresh(ledger', reviewer'[p])
  PROVE  QueueInv'
<1>1. ledger \in Seq(Comment) /\ \A p \in Reviewers : reviewer[p] \in ReviewerState
  BY DEF ReviewTypeOK
<1>2. \A i \in DOMAIN ledger' : StageBacked(ledger'[i], Before(ledger', i))
  BY <1>1, LedgerBacked DEF QueueInv
<1>3. \A p \in Reviewers : /\ QueueBacked(ledger', reviewer[p].queue)
                           /\ p \in Schedulers => QueueFresh(ledger', reviewer[p])
  BY <1>1, QueueKept DEF QueueInv
<1> QED BY <1>2, <1>3 DEF QueueInv, Reviewers

LEMMA QueueStep ==
  ReviewTypeOK /\ QueueInv /\ [ReviewStep]_reviewVars => QueueInv'
<1> SUFFICES ASSUME ReviewTypeOK, QueueInv, [ReviewStep]_reviewVars PROVE QueueInv'
  OBVIOUS
<1>0. /\ ledger \in Seq(Comment) /\ description \in Hashes
      /\ \A p \in Reviewers : reviewer[p] \in ReviewerState
  BY DEF ReviewTypeOK
<1>1. ASSUME UNCHANGED <<ledger, reviewer>> PROVE QueueInv'
  BY <1>1 DEF QueueInv
<1>2. CASE ReleaseHumanGate
  <2> DEFINE c == StageComment("human-gate-released", None, "released")
  <2>1. c \in Comment BY StageCommentIsComment DEF Titles, Values
  <2>2. StageBacked(c, Range(ledger)) BY DEF StageBacked, StageComment
  <2>3. ledger' = Append(ledger, c) /\ reviewer' = reviewer
    BY <1>2 DEF ReleaseHumanGate
  <2> HIDE DEF c
  <2> DEFINE P == {}
  <2>4. /\ P \subseteq Reviewers
        /\ \A q \in Reviewers \ P : reviewer'[q] = reviewer[q]
        /\ \A q \in P : /\ QueueBacked(ledger', reviewer'[q].queue)
                        /\ q \in Schedulers => QueueFresh(ledger', reviewer'[q])
    BY <2>3
  <2> HIDE DEF P
  <2> QED BY <2>1, <2>2, <2>3, <2>4, PosterKeeps
<1>3. ASSUME NEW p \in Controllers, NEW ok \in BOOLEAN, ControllerFetch(p, ok)
      PROVE  QueueInv'
  <2> DEFINE c == Review(description, FALSE, ok)
             r == [reviewer[p] EXCEPT !.pc = "posting", !.hash = description,
                                      !.queue = <<c>>]
  <2>1. p \in Reviewers /\ p \notin Schedulers /\ reviewer[p] \in ReviewerState
    BY <1>0, ReviewAssumption DEF Reviewers
  <2>2. reviewer' = [reviewer EXCEPT ![p] = r] /\ ledger' = ledger
    BY <1>3 DEF ControllerFetch
  <2>3. c.title = "contract-review" BY <1>0, ReviewIsComment
  <2>4. r.queue = <<c>> BY <2>1 DEF ReviewerState
  <2> HIDE DEF r, c
  <2>5. QueueBacked(ledger, <<c>>) BY <2>3 DEF QueueBacked, StageBacked
  <2> QED BY <2>1, <2>2, <2>4, <2>5, MoverKeeps
<1>4. ASSUME NEW p \in Schedulers, SchedulerFetch(p) PROVE QueueInv'
  <2> DEFINE r == [reviewer[p] EXCEPT !.pc = "fetched", !.hash = description]
  <2>1. p \in Reviewers /\ reviewer[p] \in ReviewerState BY <1>0 DEF Reviewers
  <2>2. reviewer' = [reviewer EXCEPT ![p] = r] /\ ledger' = ledger
    BY <1>0, <1>4, <2>1 DEF SchedulerFetch, ReviewTypeOK
  <2>3. r.queue = reviewer[p].queue /\ r.seen = reviewer[p].seen
    BY <2>1 DEF ReviewerState
  <2> HIDE DEF r
  <2>4. QueueBacked(ledger, r.queue) /\ QueueFresh(ledger, r)
    BY <2>1, <2>3 DEF QueueInv, QueueFresh
  <2> QED BY <2>1, <2>2, <2>4, MoverKeeps
<1>5. ASSUME NEW p \in Schedulers, SchedulerRead(p) PROVE QueueInv'
  <2> DEFINE h == reviewer[p].hash
             q == CommentsToPost(h, ledger)
             n == Len(ledger)
             r == [reviewer[p] EXCEPT !.pc = "posting", !.seen = n, !.queue = q]
  <2>1. p \in Reviewers /\ reviewer[p] \in ReviewerState BY <1>0 DEF Reviewers
  <2>2. h \in Hashes
    BY <1>5, <2>1 DEF SchedulerRead, ReviewTypeOK, ReviewerState
  <2>3. reviewer' = [reviewer EXCEPT ![p] = r] /\ ledger' = ledger
    BY <1>5 DEF SchedulerRead
  <2>4. QueueBacked(ledger, q) BY <1>0, <2>2, QueueIsBacked
  <2>5. q \in Seq(Fresh(ledger, n)) /\ n \in Nat
    <3> HIDE DEF h
    <3> QED BY <1>0, <2>2, QueueIsFresh
  <2>6. r.queue = q /\ r.seen = n BY <2>1 DEF ReviewerState
  <2> HIDE DEF r, q
  <2>7. n <= Len(ledger) BY <2>5
  <2>8. QueueFresh(ledger, r) BY <2>5, <2>6, <2>7 DEF QueueFresh
  <2> QED BY <2>1, <2>3, <2>4, <2>6, <2>8, MoverKeeps
<1>6. ASSUME NEW p \in Reviewers, NEW landed \in BOOLEAN, NEW ok \in BOOLEAN,
             PostNext(p, landed, ok)
      PROVE  QueueInv'
  <2> DEFINE q == reviewer[p].queue
             c == Head(q)
             t == Tail(q)
             r == [reviewer[p] EXCEPT !.queue = t]
             next == IF ok THEN r ELSE Blank("exited")
  <2>1. reviewer[p] \in ReviewerState /\ q \in Seq(Comment) /\ q # <<>>
    BY <1>0, <1>6 DEF PostNext, ReviewerState
  <2>2. c \in Comment /\ t \in Seq(Comment) BY <2>1
  <2>3. reviewer' = [reviewer EXCEPT ![p] = next] BY <1>6 DEF PostNext
  <2>4. StageBacked(c, Range(ledger)) /\ QueueBacked(Append(ledger, c), t)
    BY <1>0, <2>1, HeadIsBacked DEF QueueInv
  <2>5. r.queue = t /\ r.seen = reviewer[p].seen BY <2>1 DEF ReviewerState
  <2>6. CASE landed
    <3>1. ledger' = Append(ledger, c) BY <1>6, <2>6 DEF PostNext, Post
    <3>2. \A o \in Reviewers : reviewer'[o] = IF o = p THEN next ELSE reviewer[o]
      BY <2>3 DEF ReviewTypeOK
    <3>3. p \in Schedulers => QueueFresh(ledger', r)
      <4> SUFFICES ASSUME p \in Schedulers PROVE QueueFresh(ledger', r) OBVIOUS
      <4>1. QueueFresh(ledger', reviewer[p])
        <5> HIDE DEF c
        <5> QED BY <1>0, <2>2, <3>1, QueueKept DEF QueueInv
      <4> DEFINE F == Fresh(ledger', reviewer[p].seen)
      <4>2. q \in Seq(F) /\ reviewer[p].seen <= Len(ledger')
        BY <4>1 DEF QueueFresh
      <4> HIDE DEF F
      <4>3. t \in Seq(F)
        <5> HIDE DEF q
        <5> QED BY <2>1, <4>2
      <4> HIDE DEF r, t
      <4> QED BY <2>5, <4>2, <4>3 DEF QueueFresh, F
    <3>4. ledger' \in Seq(Comment)
      <4> HIDE DEF c
      <4> QED BY <1>0, <2>2, <3>1
    <3> HIDE DEF c, t, r, q
    <3>5. /\ QueueBacked(ledger', next.queue)
          /\ p \in Schedulers => QueueFresh(ledger', next)
      BY <2>4, <2>5, <3>1, <3>3, <3>4, NothingBacked
    <3> HIDE DEF next
    <3> DEFINE P == {p}
    <3>6. /\ P \subseteq Reviewers
          /\ \A o \in Reviewers \ P : reviewer'[o] = reviewer[o]
          /\ \A o \in P : /\ QueueBacked(ledger', reviewer'[o].queue)
                          /\ o \in Schedulers => QueueFresh(ledger', reviewer'[o])
      BY <3>2, <3>5
    <3> HIDE DEF P
    <3> QED BY <2>2, <2>4, <3>1, <3>6, PosterKeeps
  <2>7. CASE ~landed
    <3>1. ledger' = ledger /\ next = Blank("exited") BY <1>6, <2>7 DEF PostNext, Post
    <3> HIDE DEF next
    <3> QED BY <1>0, <2>3, <3>1, NothingBacked, MoverKeeps
  <2> QED BY <2>6, <2>7
<1>7. ASSUME NEW p \in Reviewers, ReviewerDone(p) \/ ReviewerAbort(p) PROVE QueueInv'
  <2>1. reviewer' = [reviewer EXCEPT ![p] = Blank("exited")] /\ ledger' = ledger
    BY <1>7 DEF ReviewerDone, ReviewerAbort
  <2> QED BY <1>0, <2>1, NothingBacked, MoverKeeps
<1>8. CASE EditDescription BY <1>1, <1>8 DEF EditDescription
<1>9. CASE UNCHANGED reviewVars BY <1>1, <1>9 DEF reviewVars
<1> QED BY <1>2, <1>3, <1>4, <1>5, <1>6, <1>7, <1>8, <1>9 DEF ReviewStep

(* No stage comment without its review, for any descriptions and any       *)
(* number of reviewers: a scheduler that skips its own review as a repeat  *)
(* (selectSchedulerStage0506CommentsToPost), or whose post fails half way, *)
(* leaves no route, executive routing or Stage 0.65 result that follows    *)
(* from nothing on the ledger.                                             *)
THEOREM StageCommentsStayBacked == ReviewSpec => []StageCommentsFollowReview
<1>1. QueueInv => StageCommentsFollowReview BY BackedIsFollowing DEF QueueInv
<1> QED BY <1>1, ReviewTypeInit, ReviewTypeStep, QueueInit, QueueStep, PTL DEF ReviewSpec

LEMMA SchedulerPostsFresh ==
  ASSUME ReviewTypeOK, QueueInv, ReviewStep, NEW p \in Schedulers,
         ledger' # ledger, reviewer'[p] # reviewer[p]
  PROVE  Last(ledger') \in Fresh(ledger, reviewer[p].seen)
<1>1. p \in Reviewers BY DEF Reviewers
<1>2. PICK o \in Reviewers, landed \in BOOLEAN, ok \in BOOLEAN : PostNext(o, landed, ok)
  BY DEF ReviewStep, EditDescription, ReleaseHumanGate, ControllerFetch, SchedulerFetch,
         SchedulerRead, ReviewerDone, ReviewerAbort
<1>3. \E r : reviewer' = [reviewer EXCEPT ![o] = r]
  <2>1. reviewer' = IF ok THEN [reviewer EXCEPT ![o].queue = Tail(@)]
                    ELSE [reviewer EXCEPT ![o] = Blank("exited")]
    BY <1>2 DEF PostNext
  <2> QED BY <2>1
<1>4. o = p
  <2>1. PICK r : reviewer' = [reviewer EXCEPT ![o] = r] BY <1>3
  <2> QED BY <1>1, <2>1 DEF ReviewTypeOK
<1> DEFINE q == reviewer[p].queue
           F == Fresh(ledger, reviewer[p].seen)
<1>5. q # <<>> /\ ledger' = Append(ledger, Head(q))
  BY <1>2, <1>4 DEF PostNext, Post
<1>6. q \in Seq(F) BY DEF QueueInv, QueueFresh
<1> HIDE DEF q, F
<1>7. Head(q) \in F BY <1>5, <1>6
<1>8. Last(ledger') = Head(q)
  <2>1. ledger \in Seq(Comment) BY DEF ReviewTypeOK
  <2>2. Head(q) \in Comment BY <1>7 DEF F, Fresh
  <2>3. Len(ledger') = Len(ledger) + 1 /\ ledger'[Len(ledger) + 1] = Head(q)
    BY <1>5, <2>1, <2>2, AppendKeeps
  <2> QED BY <2>3 DEF Last
<1> QED BY <1>7, <1>8 DEF F

(* A scheduler repeats the newest comment of a title only when somebody    *)
(* posted that comment after the scheduler had read the ledger, for any    *)
(* descriptions and any number of reviewers.                               *)
THEOREM DuplicatesComeFromRaces == ReviewSpec => DuplicateOnlyFromRace
<1>1. ReviewTypeOK /\ QueueInv /\ [ReviewStep]_reviewVars =>
        [\A p \in Schedulers :
           (ledger' # ledger /\ reviewer'[p] # reviewer[p]) =>
             LET c == Last(ledger')
             IN  SameAsLatest(ledger, c) =>
                   \E i \in At(ledger, c.title) : i > reviewer[p].seen]_reviewVars
  BY SchedulerPostsFresh DEF Fresh, reviewVars
<1> QED BY <1>1, ReviewTypeInit, ReviewTypeStep, QueueInit, QueueStep, PTL
        DEF ReviewSpec, DuplicateOnlyFromRace
=============================================================================
