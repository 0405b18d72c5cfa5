--------------------------- MODULE PublicRelease ---------------------------
(* The public mirror: build-public-mirror.mjs copies the private tree by an       *)
(* include and a strip list, rewrites private text, writes a page index and a     *)
(* manifest; verify-clean-clone.mjs judges a tree that has no private history;    *)
(* verify-fresh-history-remote.mjs builds, pushes to a local bare remote, clones, *)
(* judges the clone and bootstraps from it.                                       *)
EXTENDS Integers, Sequences

CONSTANTS Plan,         \* the files of the private tree, a sequence in the order of the plan
          Included,     \* those an include rule names
          Stripped,     \* those a strip rule names and no keep pattern saves
          Ignored,      \* those .gitignore, published with them, leaves out of `git add`
          Markdown,     \* those the page index lists
          Textual,      \* those the rewrites and the scans of a clone take for text
          Releaser,     \* invocations of the three scripts
          MaxWrites     \* how often the tree is edited

TreeFiles == {Plan[i] : i \in DOMAIN Plan}
ASSUME ReleaseSets ==
    /\ Plan \in Seq(TreeFiles)
    /\ Included \cup Stripped \cup Ignored \cup Markdown \cup Textual \subseteq TreeFiles
    /\ "out" \notin Releaser

\* A file is absent, or plain text in one of two versions, or holds a private marker (which
\* the rewrites know) or a token (which they do not).
NoFile == "gone"
Texts == {"one", "two", "marker", "token"}
NoIndex == [p \in {} |-> NoFile]
EmptyDir == [files |-> [p \in TreeFiles |-> NoFile], index |-> NoIndex, manifest |-> FALSE]
NoLabel == [head |-> [p \in TreeFiles |-> NoFile], dirty |-> FALSE]

VARIABLES tree,         \* the private working tree
          head,         \* the tree of its HEAD
          output,       \* the --out directory, "out", and the mirror in the run root of each
                        \* fresh-history run: [files, index, manifest]
          releaser,
          writes
releaseVars == <<tree, head, output, releaser, writes>>

Resting == [pc |-> "idle", tool |-> "none", verify |-> FALSE, label |-> NoLabel,
            left |-> {}, clone |-> EmptyDir, alone |-> TRUE, exit |-> "none"]
ReleaseInit ==
    /\ tree = [p \in TreeFiles |-> "one"] /\ head = tree
    /\ output = [d \in {"out"} \cup Releaser |-> EmptyDir]
    /\ releaser = [r \in Releaser |-> Resting]
    /\ writes = 0

\* A run root is a new directory, and its process alone knows it.
Dir(r) == IF releaser[r].tool = "fresh" THEN r ELSE "out"
Releasing(r) == releaser[r].pc \notin {"idle", "done"}
Acts(r, wrote, to) ==
    releaser' = [q \in Releaser |->
        IF q = r THEN to ELSE [releaser[q] EXCEPT !.alone = @ /\ ~(wrote /\ Releasing(q))]]
Stage(r, wrote, pc) == Acts(r, wrote, [releaser[r] EXCEPT !.pc = pc])
Over(r, wrote, code) ==
    Acts(r, wrote, [Resting EXCEPT !.pc = "done", !.tool = releaser[r].tool, !.exit = code])

-----------------------------------------------------------------------------
\* sanitizePublicMirrorText.
Sanitized(p, text) == IF text = "marker" /\ p \in Textual THEN "rewritten" ELSE text
\* Mutant: an include rule beats a strip rule.
CopiedIncludeFirst(files) == {p \in TreeFiles : files[p] # NoFile /\ p \in Included}
\* planPublicMirror: what is neither included nor stripped stays behind, too.
Copied(files) == {p \in TreeFiles : files[p] # NoFile /\ p \notin Stripped /\ p \in Included}
\* What the copy of a tree is to hold.
MirrorOf(files) ==
    [p \in TreeFiles |-> IF p \in Copied(files) THEN Sanitized(p, files[p]) ELSE NoFile]

\* verifyPublicMirrorOutput.
Detected(files) == \E p \in TreeFiles : files[p] \in {"marker", "token"}

\* buildPageIndex over a tree's Markdown files.
IndexOf(files) == [p \in {q \in Markdown : files[q] # NoFile} |-> files[p]]
\* `git add -A` of a tree that carries the .gitignore.
Tracked(files) == [p \in TreeFiles |-> IF p \in Ignored THEN NoFile ELSE files[p]]

\* Mutant: the label does not say that the tree had changes of its own.
SnapshotHeadOnly == [head |-> head, dirty |-> FALSE]
\* resolveSourceSnapshot: HEAD, and whether the tree differs from it.
Snapshot == [head |-> head, dirty |-> tree # head]
\* resolveSourceSha: HEAD alone.
HeadSha == [head |-> head, dirty |-> FALSE]

-----------------------------------------------------------------------------
\* build-public-mirror, with --verify or not, or verify-fresh-history-remote, whose run
\* root is a new directory.
BeginBuild(r) ==
    /\ releaser[r].pc = "idle"
    /\ \/ /\ \E verify \in BOOLEAN :
               Acts(r, FALSE, [Resting EXCEPT !.pc = "plan", !.tool = "build",
                                              !.verify = verify, !.label = HeadSha])
          /\ UNCHANGED output
       \/ /\ Acts(r, FALSE, [Resting EXCEPT !.pc = "plan", !.tool = "fresh",
                                            !.verify = TRUE, !.label = Snapshot])
          /\ output' = [output EXCEPT ![r] = EmptyDir]
    /\ UNCHANGED <<tree, head, writes>>

\* Mutant: only a directory with a manifest is taken for a mirror.
MayCopyIntoTorso(dir) == ~dir.manifest
\* ensureEmptyDirectory.
MayCopyInto(dir) == dir = EmptyDir
\* planPublicMirror, the stop of a dry run or of a missing fixture.
PlanMirror(r) ==
    /\ releaser[r].pc = "plan"
    /\ \/ \E code \in {"0 dry", "2"} : releaser[r].tool = "build" /\ Over(r, FALSE, code)
       \/ releaser[r].tool = "fresh" /\ Over(r, FALSE, "1")
       \/ /\ MayCopyInto(output[Dir(r)])
          /\ Acts(r, FALSE, [releaser[r] EXCEPT !.left = Copied(tree), !.pc = "copy"])
       \/ ~MayCopyInto(output[Dir(r)]) /\ Over(r, FALSE, "2")
    /\ UNCHANGED <<tree, head, output, writes>>

\* executeMirrorCopy, file by file in the order of the plan; a file that has gone fails it.
IsNext(p, left) ==
    \E i \in DOMAIN Plan : p = Plan[i] /\ p \in left /\ \A j \in 1..(i - 1) : Plan[j] \notin left
CopyNext(r) ==
    /\ releaser[r].pc = "copy"
    /\ \E p \in TreeFiles :
          /\ IsNext(p, releaser[r].left)
          /\ IF tree[p] = NoFile
             THEN /\ Over(r, FALSE, IF releaser[r].tool = "fresh" THEN "1" ELSE "2")
                  /\ UNCHANGED output
             ELSE /\ output' = [output EXCEPT ![Dir(r)].files[p] = Sanitized(p, tree[p])]
                  /\ Acts(r, TRUE, [releaser[r] EXCEPT !.left = @ \ {p}])
    /\ UNCHANGED <<tree, head, writes>>
\* writePublicMirrorPageIndex, from what the copy left.
WriteIndex(r) ==
    /\ releaser[r].pc = "copy" /\ releaser[r].left = {}
    /\ output' = [output EXCEPT ![Dir(r)].index = IndexOf(output[Dir(r)].files)]
    /\ Stage(r, TRUE, "verify")
    /\ UNCHANGED <<tree, head, writes>>

\* The verification and the manifest; private content is told, and stays where it is.
VerifyMirror(r) ==
    /\ releaser[r].pc = "verify"
    /\ LET d == Dir(r)
           detected == releaser[r].verify /\ Detected(output[d].files)
       IN  /\ output' = [output EXCEPT ![d].manifest = TRUE]
           /\ IF releaser[r].tool = "fresh"
              THEN IF detected THEN Over(r, TRUE, "1") ELSE Stage(r, TRUE, "push")
              ELSE Over(r, TRUE, IF detected THEN "3" ELSE "0")
    /\ UNCHANGED <<tree, head, writes>>

\* initFreshHistoryRemote: init, add, commit, push, clone, any of which may fail.
PushAndClone(r) ==
    /\ releaser[r].pc = "push"
    /\ \/ Over(r, FALSE, "2")
       \/ Acts(r, FALSE, [releaser[r] EXCEPT !.pc = "judge",
             !.clone = [output[r] EXCEPT !.files = Tracked(@)]])
    /\ UNCHANGED <<tree, head, output, writes>>

\* verify-clean-clone copies a tree of its own choice first.
BeginCleanClone(r) ==
    /\ releaser[r].pc = "idle"
    /\ Acts(r, FALSE, [Resting EXCEPT !.pc = "judge", !.tool = "clone",
                                      !.clone = output["out"]])
    /\ UNCHANGED <<tree, head, output, writes>>

\* The clean clone's scans for tokens, and for private paths and markers.
CloneHolds(clone, text) == \E p \in Textual : clone.files[p] = text
\* The page index is held against what git tracks once the copy is committed.
IndexIsStale(clone) == clone.index # IndexOf(Tracked(clone.files))
\* The versions, the release gate, the reports and metrics listings and the commit of the
\* copy rest on contents that are not modelled.
OtherResults == {"PASS", "BLOCKED_PUBLIC_GATE", "BLOCKED_BOOTSTRAP"}
\* deriveStatus, in its order of precedence; the codes are the verifier's.
CloneStatus(clone, other) ==
    CASE CloneHolds(clone, "token")           -> "3"
      [] CloneHolds(clone, "marker")
           /\ ~CloneHolds(clone, "token")     -> "4"
      [] other = "BLOCKED_BOOTSTRAP" /\ ~CloneHolds(clone, "token")
           /\ ~CloneHolds(clone, "marker")    -> "2"
      [] OTHER -> IF other = "BLOCKED_PUBLIC_GATE" \/ IndexIsStale(clone) THEN "1" ELSE "0"
\* runVerifyCleanClone, by itself or in the fresh-history run.
JudgeClone(r) ==
    /\ releaser[r].pc = "judge"
    /\ \E other \in OtherResults :
          LET code == CloneStatus(releaser[r].clone, other)
          IN  IF releaser[r].tool = "clone" THEN Over(r, FALSE, code)
              ELSE IF code = "0" THEN Stage(r, FALSE, "bootstrap") ELSE Over(r, FALSE, "3")
    /\ UNCHANGED <<tree, head, output, writes>>

\* runBootstrap from the clone into a new target.
BootstrapClone(r) ==
    /\ releaser[r].pc = "bootstrap"
    /\ \E code \in {"0", "4"} : Over(r, FALSE, code)
    /\ UNCHANGED <<tree, head, output, writes>>

ReleaserDies(r) ==
    /\ Releasing(r)
    /\ Over(r, FALSE, "killed")
    /\ UNCHANGED <<tree, head, output, writes>>
ReleaseAgain(r) ==
    /\ releaser[r].pc = "done"
    /\ releaser' = [releaser EXCEPT ![r] = Resting]
    /\ UNCHANGED <<tree, head, output, writes>>

-----------------------------------------------------------------------------
\* Others edit the private tree, commit it, and clear --out.
Touched == [q \in Releaser |-> [releaser[q] EXCEPT !.alone = @ /\ ~Releasing(q)]]
EditTree(p, text) ==
    /\ writes < MaxWrites /\ tree[p] # text
    /\ tree' = [tree EXCEPT ![p] = text]
    /\ writes' = writes + 1
    /\ releaser' = Touched
    /\ UNCHANGED <<head, output>>
CommitTree ==
    /\ head # tree /\ head' = tree
    /\ releaser' = Touched
    /\ UNCHANGED <<tree, output, writes>>
ClearOut ==
    /\ output["out"] # EmptyDir
    /\ output' = [output EXCEPT !["out"] = EmptyDir]
    /\ releaser' = Touched
    /\ UNCHANGED <<tree, head, writes>>

ReleaserStep(r) ==
    \/ BeginBuild(r) \/ PlanMirror(r) \/ CopyNext(r) \/ WriteIndex(r) \/ VerifyMirror(r)
    \/ PushAndClone(r) \/ BeginCleanClone(r) \/ JudgeClone(r) \/ BootstrapClone(r) \/ ReleaseAgain(r)
ReleaseNext ==
    \/ \E r \in Releaser : ReleaserStep(r) \/ ReleaserDies(r)
    \/ \E p \in TreeFiles, text \in Texts \cup {NoFile} : EditTree(p, text)
    \/ CommitTree \/ ClearOut
ReleaseSpec == ReleaseInit /\ [][ReleaseNext]_releaseVars

-----------------------------------------------------------------------------
Passes(r, tool) ==
    releaser[r].tool = tool /\ Releasing(r) /\ releaser'[r].exit = "0"

\* Whatever is edited while it runs, a fresh-history run that passes published no private
\* text, no stripped file, and an index of just the files the clone has.
PublishedIsClean ==
    [][\A r \in Releaser : Passes(r, "fresh") =>
          LET clone == releaser[r].clone
          IN  /\ ~Detected(clone.files)
              /\ \A p \in TreeFiles : clone.files[p] # NoFile => p \in Included \ Stripped
              /\ clone.index = IndexOf(clone.files)
      ]_releaseVars

\* What passes under the name of a clean HEAD is that HEAD's mirror, but for what git
\* ignores, when nobody edited meanwhile (resolveSourceSnapshot).
LabelIsHonest ==
    [][\A r \in Releaser :
          Passes(r, "fresh") /\ releaser[r].alone /\ ~releaser[r].label.dirty
          => releaser[r].clone.files = Tracked(MirrorOf(releaser[r].label.head))
      ]_releaseVars

\* A build that exits 0 while nobody edits leaves just the tree's mirror in --out, whatever
\* an interrupted build left there (ensureEmptyDirectory).
BuildIsWhole ==
    [][\A r \in Releaser :
          Passes(r, "build") /\ releaser[r].alone => output["out"].files = MirrorOf(tree)
      ]_releaseVars

\* What passes is clean, is what its label says, and is all there.
ReleaseIsHonest == PublishedIsClean /\ LabelIsHonest /\ BuildIsWhole

\* The standalone builder gives one and the same mirror for one source_sha
\* (docs/releases/public-mirror-builder-spec.md, 5.4 Determinism).
SameShaSameMirror ==
    [][\A r \in Releaser :
          Passes(r, "build") /\ releaser[r].alone
          => output["out"].files = MirrorOf(releaser[r].label.head)
      ]_releaseVars

\* A path of the include list that no rule strips reaches the published repository
\* (docs/releases/public-mirror-builder-spec.md, 2. Include List).
IncludedIsPublished ==
    [][\A r \in Releaser :
          Passes(r, "fresh") /\ releaser[r].alone
          => \A p \in Included \ Stripped :
                tree[p] # NoFile => releaser[r].clone.files[p] # NoFile
      ]_releaseVars
=============================================================================
