------------------------------ MODULE GoalPlane ------------------------------
(* goal.mjs materialize --apply: a goal and its children become work items in  *)
(* Plane. The project's items are listed, a plan keeps, creates or re-parents  *)
(* by name, then the parent and the children are written one request at a time *)
(* and the first failure ends the run where it stands. A failed request may    *)
(* have landed all the same.                                                   *)
EXTENDS Integers, Sequences

CONSTANTS Goals,        \* [parent, children, labelled, project] of the goal inputs
          Applier,      \* invocations of materialize --apply
          MaxGoalItems      \* items in the project

ASSUME GoalInputs ==
    /\ \A g \in Goals : g.children \in Seq({g.children[n] : n \in DOMAIN g.children})
    /\ MaxGoalItems \in Nat

VARIABLES items,        \* the project: [name, parent], an item's position is its id
          applier,
          overlapped    \* history: two invocations wrote between each other's steps
goalPlaneVars == <<items, applier, overlapped>>

NoItem == 0
NotStarted == [pc |-> "idle", goal |-> "none", plan |-> <<>>, parent |-> NoItem, exit |-> 9]
Ended(code, g) == [NotStarted EXCEPT !.pc = "done", !.exit = code, !.goal = g]

GoalPlaneInit ==
    /\ items = <<>>
    /\ applier = [a \in Applier |-> NotStarted]
    /\ overlapped = FALSE

Named(listed, name) == {n \in DOMAIN listed : listed[n].name = name}
\* existingByName: one item per name; which one depends on Plane's order.
ByName(listed) ==
    LET names == {listed[n].name : n \in DOMAIN listed}
    IN  {f \in [names -> DOMAIN listed] : \A name \in names : listed[f[name]].name = name}

\* planGoalMaterializationApply: what happens to the parent and to each child.
ParentAction(g, found) ==
    IF g.parent \in DOMAIN found
    THEN [name |-> g.parent, action |-> "keep", id |-> found[g.parent]]
    ELSE [name |-> g.parent, action |-> "create", id |-> NoItem]
\* Mutant: a child that exists is kept, wherever it hangs.
ChildActionKeeps(name, parentId, listed, found) ==
    IF name \in DOMAIN found
    THEN [name |-> name, action |-> "keep", id |-> found[name]]
    ELSE [name |-> name, action |-> "create", id |-> NoItem]
\* Mutant: only the parent's own children count as existing.
ChildActionOwn(name, parentId, listed, found) ==
    IF name \in DOMAIN found /\ listed[found[name]].parent = parentId
    THEN [name |-> name, action |-> "keep", id |-> found[name]]
    ELSE [name |-> name, action |-> "create", id |-> NoItem]
ChildAction(name, parentId, listed, found) ==
    IF name \notin DOMAIN found
    THEN [name |-> name, action |-> "create", id |-> NoItem]
    ELSE [name |-> name, id |-> found[name],
          action |-> IF parentId = NoItem \/ listed[found[name]].parent # parentId
                     THEN "patch-parent" ELSE "keep"]
ApplyPlan(g, listed, found) ==
    LET parent == ParentAction(g, found)
    IN  <<parent>> \o [n \in DOMAIN g.children |->
                          ChildAction(g.children[n], parent.id, listed, found)]
\* buildGoalMaterialization warns of every role without a label id.
Rejected(g) == ~g.labelled \/ ~g.project

Leaves(a, code) == applier' = [applier EXCEPT ![a] = Ended(code, @.goal)]
Writing(a) == applier[a].pc = "writing"
OthersWrite(a) == \E b \in Applier \ {a} : Writing(b)

\* resolvePlaneAuth, then all pages of the project's items, then the plan.
BeginApply(a) ==
    /\ applier[a].pc = "idle"
    /\ \E g \in Goals :
          \/ applier' = [applier EXCEPT ![a] = Ended(2, g)]     \* BLOCKED_AUTH
          \/ applier' = [applier EXCEPT ![a] = Ended(1, g)]     \* PLANE_LIST_FAILED
          \/ /\ Rejected(g)                                     \* APPLY_PLAN_REJECTED
             /\ applier' = [applier EXCEPT ![a] = Ended(1, g)]
          \/ /\ ~Rejected(g)
             /\ \E found \in ByName(items) :
                   applier' = [applier EXCEPT ![a] =
                       [@ EXCEPT !.pc = "writing", !.goal = g,
                                 !.plan = ApplyPlan(g, items, found)]]
    /\ overlapped' = (overlapped \/ OthersWrite(a))
    /\ UNCHANGED items

\* The next entry of the plan is done; the first is the parent, whose id the
\* others use.
Done(a, id) ==
    applier' = [applier EXCEPT ![a].plan = Tail(@),
                               ![a].parent = IF @ = NoItem THEN id ELSE @]
Due(a, action) ==
    Writing(a) /\ applier[a].plan # <<>> /\ Head(applier[a].plan).action = action

CreateItem(a) ==
    /\ Due(a, "create")
    /\ LET name == Head(applier[a].plan).name
           created == Append(items, [name |-> name, parent |-> applier[a].parent])
       IN  \/ /\ Len(items) < MaxGoalItems
              /\ items' = created
              /\ Done(a, Len(created)) \/ Leaves(a, 1)
           \/ UNCHANGED items /\ Leaves(a, 1)
    /\ overlapped' = (overlapped \/ OthersWrite(a))

PatchParent(a) ==
    /\ Due(a, "patch-parent")
    /\ LET id == Head(applier[a].plan).id
       IN  \/ /\ items' = [items EXCEPT ![id].parent = applier[a].parent]
              /\ Done(a, id) \/ Leaves(a, 1)
           \/ UNCHANGED items /\ Leaves(a, 1)
    /\ overlapped' = (overlapped \/ OthersWrite(a))

KeepItem(a) ==
    /\ Due(a, "keep")
    /\ Done(a, Head(applier[a].plan).id)
    /\ UNCHANGED <<items, overlapped>>

FinishApply(a) ==
    /\ Writing(a) /\ applier[a].plan = <<>>
    /\ Leaves(a, 0)
    /\ UNCHANGED <<items, overlapped>>

\* The process is killed between two requests.
ApplyDies(a) == Writing(a) /\ Leaves(a, 1) /\ UNCHANGED <<items, overlapped>>

\* The next invocation of a shell that has come to its end.
NewApply(a) ==
    /\ applier[a].pc = "done"
    /\ applier' = [applier EXCEPT ![a] = NotStarted]
    /\ UNCHANGED <<items, overlapped>>

GoalPlaneNext ==
    \E a \in Applier :
        \/ BeginApply(a) \/ CreateItem(a) \/ PatchParent(a) \/ KeepItem(a)
        \/ FinishApply(a) \/ ApplyDies(a) \/ NewApply(a)
GoalPlaneSpec == GoalPlaneInit /\ [][GoalPlaneNext]_goalPlaneVars

-----------------------------------------------------------------------------
\* "Apply mode is idempotent: it lists existing Plane work items, keeps matching
\* items by name, creates missing items, links children to the parent"
\* (docs/operations/goal-command.md:56): as long as invocations do not overlap,
\* and whatever failed, died or landed unseen before, no name is held twice but
\* one that a goal's own input gives twice, as it does for two untitled children.
NamesIn(g) == <<g.parent>> \o g.children
Repeated(name) ==
    \E g \in Goals : \E n, k \in DOMAIN NamesIn(g) :
        n # k /\ NamesIn(g)[n] = name /\ NamesIn(g)[k] = name
OneItemPerName ==
    ~overlapped => \A n, k \in DOMAIN items :
        items[n].name = items[k].name => n = k \/ Repeated(items[n].name)

\* When a run exits 0 and none has overlapped, the goal exists and each of its
\* children hangs under the goal's own item (applyGoalMaterialization).
AppliedIsLinked ==
    [][\A a \in Applier :
          applier[a].exit # 0 /\ applier'[a].exit = 0 /\ ~overlapped =>
             LET g == applier[a].goal
             IN  \E p \in Named(items, g.parent) :
                    \A n \in DOMAIN g.children :
                       \E c \in Named(items, g.children[n]) : items[c].parent = p
      ]_goalPlaneVars

\* Apply may be repeated, and what exits 0 is there: both halves of the promise.
ApplyIsIdempotent == []OneItemPerName /\ AppliedIsLinked
=============================================================================
