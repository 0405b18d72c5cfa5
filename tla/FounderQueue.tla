---------------------------- MODULE FounderQueue ----------------------------
(***************************************************************************)
(* founder-daily-queue.mjs: the artifact the founder opens once a day,     *)
(* built from comments that are fetched item by item while workers,        *)
(* controllers and people go on posting.                                   *)
(*                                                                         *)
(* Templates, redaction and the layout of the Markdown are left out.       *)
(***************************************************************************)
EXTENDS Integers, Sequences, FiniteSets, SequencesExt

CONSTANTS
  Asked,        \* work items whose contract declares HG-4 or HG-3.5
  GateLevel,    \* GateLevel[i]: "HG-4" or "HG-3.5"
  PrimaryCap, TrackedCap,
  MaxPosts,     \* bound: comments
  MaxTouches    \* bound: edits that change an item's updated_at

ASSUME QueueCaps ==
  /\ IsFiniteSet(Asked)
  /\ GateLevel \in [Asked -> {"HG-4", "HG-3.5"}]
  /\ PrimaryCap \in Nat /\ TrackedCap \in Nat /\ PrimaryCap <= TrackedCap

VARIABLES
  talk,     \* comments of every item, oldest first
  order,    \* the items by updated_at, oldest first
  touches,  \* edits so far
  maker     \* the generator's run

queueVars == <<talk, order, touches, maker>>

(* Posted on the two kinds of items; of a report only the state counts.    *)
Posts(level) ==
  IF level = "HG-4" THEN {"released", "needs-human", "pass", "decision"}
                    ELSE {"awaits-sign", "pass", "PARK", "verdict"}
Reports == {"needs-human", "awaits-sign", "pass"}
Rulings == {"PARK", "verdict"}

(* listed: the items as the run found them; from: how long each thread was *)
(* then; got: the comments it was given; failed: the items whose comments  *)
(* it could not fetch; asks, primary, next: the artifact.                  *)
AtRest == [pc |-> "rest", listed |-> <<>>, todo |-> <<>>, from |-> [i \in Asked |-> 0],
           got |-> [i \in Asked |-> <<>>], failed |-> {},
           asks |-> [i \in Asked |-> "none"], primary |-> <<>>, next |-> <<>>]

QueueInit ==
  /\ talk = [i \in Asked |-> <<>>]
  /\ order = SetToSeq(Asked)
  /\ touches = 0
  /\ maker = AtRest

Says(cs, kinds) == \E n \in DOMAIN cs : cs[n] \in kinds

(* findLatestCaoVerdict, findLatestWorkerReported *)
NewestPost(cs, kinds) ==
  IF Says(cs, kinds) THEN Last(SelectSeq(cs, LAMBDA c : c \in kinds)) ELSE "none"

(* Mutant: a decision counts until the next report. *)
AskOfReopened(i, cs) ==
  CASE GateLevel[i] = "HG-4" /\ NewestPost(cs, Reports \cup {"decision"}) = "decision" -> "none"
    [] GateLevel[i] = "HG-4" /\ ~Says(cs, {"released"}) -> "sign"
    [] NewestPost(cs, Reports) = "needs-human" -> "review"
    [] NewestPost(cs, Rulings) = "PARK" -> "resume"
    [] OTHER -> "none"

(* classifyItemForQueue.  On HG-4 any decision, of whatever age and mode,  *)
(* ends the ask; on HG-3.5 a PARK or a waiting report is enough.           *)
AskOf(i, cs) ==
  LET report == NewestPost(cs, Reports) IN
  IF GateLevel[i] = "HG-4" THEN
    IF Says(cs, {"decision"}) THEN "none"
    ELSE IF ~Says(cs, {"released"}) THEN "sign"
    ELSE IF report = "needs-human" THEN "review" ELSE "none"
  ELSE IF NewestPost(cs, Rulings) = "PARK" \/ report = "awaits-sign"
       THEN "resume" ELSE "none"

KindRank == [review |-> 0, sign |-> 1, resume |-> 2]

(* compareQueueItems: the kind of ask, then updated_at; there is one such  *)
(* sequence.                                                               *)
Ranked(asks, items) ==
  LET asked == {i \in Range(items) : asks[i] # "none"}
      Place(i) == CHOOSE n \in DOMAIN items : items[n] = i
      Ahead(i, j) == \/ KindRank[asks[i]] < KindRank[asks[j]]
                     \/ asks[i] = asks[j] /\ Place(i) < Place(j)
  IN  {ranked \in Bijection(1..Cardinality(asked), asked) :
         \A m, n \in DOMAIN ranked : m < n => Ahead(ranked[m], ranked[n])}

(* The list of items is read first; if that fails nothing is written. *)
ListAsked ==
  /\ maker.pc = "rest"
  /\ maker' = [maker EXCEPT !.pc = "fetch", !.listed = order, !.todo = order,
                            !.from = [i \in Asked |-> Len(talk[i])]]
  /\ UNCHANGED <<talk, order, touches>>

(* A failed request leaves the item without comments, and the run goes on. *)
FetchTalk(ok) ==
  /\ maker.pc = "fetch" /\ maker.todo # <<>>
  /\ LET i == Head(maker.todo) IN
       maker' = [maker EXCEPT
         !.todo = Tail(@),
         !.got[i] = IF ok THEN talk[i] ELSE <<>>,
         !.failed = IF ok THEN @ ELSE @ \cup {i}]
  /\ UNCHANGED <<talk, order, touches>>

Slice(s, first, last) == SubSeq(s, first, IF last < Len(s) THEN last ELSE Len(s))

(* Mutant: "Next Up" starts one item late. *)
SplitSkips(ranked) ==
  <<Slice(ranked, 1, PrimaryCap), Slice(ranked, PrimaryCap + 2, TrackedCap)>>

Split(ranked) ==
  <<Slice(ranked, 1, PrimaryCap), Slice(ranked, PrimaryCap + 1, TrackedCap)>>

WriteQueue ==
  /\ maker.pc = "fetch" /\ maker.todo = <<>>
  /\ LET asks == [i \in Asked |-> AskOf(i, maker.got[i])]
     IN \E ranked \in Ranked(asks, maker.listed) :
          maker' = [maker EXCEPT !.pc = "written", !.asks = asks, !.got = AtRest.got,
                                 !.primary = Split(ranked)[1], !.next = Split(ranked)[2]]
  /\ UNCHANGED <<talk, order, touches>>

(* renderQueueMarkdown: the whole artifact is then the sentence that no    *)
(* item waits, without the warnings.                                       *)
InboxZero == maker.pc = "written" /\ \A i \in Asked : maker.asks[i] = "none"

(* The next day's run; or this one is killed before it writes. *)
RunQueueAgain ==
  /\ maker.pc # "rest"
  /\ maker' = AtRest
  /\ UNCHANGED <<talk, order, touches>>

(* An HG-4 item is not worked on before its release, and a PARK follows a  *)
(* report that awaits a signature.                                         *)
MayPost(i, c) ==
  /\ c \in {"needs-human", "pass"} /\ GateLevel[i] = "HG-4" => Says(talk[i], {"released"})
  /\ c \in Rulings => Says(talk[i], Reports)

PostsSoFar == FoldFunction(LAMBDA cs, n : Len(cs) + n, 0, talk)

PostOn(i, c) ==
  /\ PostsSoFar < MaxPosts /\ MayPost(i, c)
  /\ talk' = [talk EXCEPT ![i] = Append(@, c)]
  /\ UNCHANGED <<order, touches, maker>>

TouchItem(i) ==
  /\ touches < MaxTouches
  /\ \E n \in DOMAIN order : order[n] = i /\ order' = Append(RemoveAt(order, n), i)
  /\ order' # order
  /\ touches' = touches + 1
  /\ UNCHANGED <<talk, maker>>

QueueNext ==
  \/ ListAsked \/ WriteQueue \/ RunQueueAgain
  \/ \E ok \in BOOLEAN : FetchTalk(ok)
  \/ \E i \in Asked : TouchItem(i) \/ \E c \in Posts(GateLevel[i]) : PostOn(i, c)

QueueSpec == QueueInit /\ [][QueueNext]_queueVars
-----------------------------------------------------------------------------
(* The admission rules of the documents. *)
Waits(i, cs) ==
  IF GateLevel[i] = "HG-4"
  THEN ~Says(cs, {"decision"})
         /\ (Says(cs, {"released"}) => NewestPost(cs, Reports) = "needs-human")
  ELSE NewestPost(cs, Rulings) = "PARK" /\ NewestPost(cs, Reports) = "awaits-sign"

(* The states of an item's thread since the run began. *)
Moments(i) == {SubSeq(talk[i], 1, n) : n \in maker.from[i] .. Len(talk[i])}
WaitsThroughout(i) == \A cs \in Moments(i) : Waits(i, cs)

Shown == {maker.primary[n] : n \in DOMAIN maker.primary}
           \cup {maker.next[n] : n \in DOMAIN maker.next}

(* An item that waits for a person during the whole run is in the artifact *)
(* or behind a full list of others, if its comments could be fetched: no   *)
(* order of posts, fetches and edits of updated_at hides it.               *)
WaitingIsShown ==
  maker.pc = "written" =>
    \A i \in Asked \ maker.failed :
      WaitsThroughout(i) => i \in Shown \/ Cardinality(Shown) = TrackedCap

(* Nothing that was settled before the run began is asked again: an HG-4   *)
(* item that is shown has, at some moment of the run, waited for a person; *)
(* an HG-3.5 item was parked or its report awaited a signature.            *)
AskWasTrue ==
  maker.pc = "written" =>
    \A i \in Shown \ maker.failed :
      \E cs \in Moments(i) :
        \/ Waits(i, cs)
        \/ GateLevel[i] = "HG-3.5" /\ (NewestPost(cs, Rulings) = "PARK"
                                        \/ NewestPost(cs, Reports) = "awaits-sign")

(* Nobody who waits is missing, and nobody is asked what is settled. *)
QueueIsTrue == WaitingIsShown /\ AskWasTrue

(* What the artifact says when nothing is asked: no HG-4 or HG-3.5 item    *)
(* waits for a decision.  A failed comment request reads as no comments.   *)
EmptyMeansNobodyWaits ==
  InboxZero => \A i \in Asked : ~WaitsThroughout(i)
=============================================================================
