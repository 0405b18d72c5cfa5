--------------------------- MODULE LocalToolsProofs ---------------------------
(*****************************************************************************)
(* Proofs about the tools at work on the local machine, for any files,       *)
(* packs, tokens and processes.                                              *)
(*                                                                           *)
(* Each of these tools looks first and acts later, and says at the end that  *)
(* all is well. What it knows of the files holds only while nobody else      *)
(* writes, so the invariants are about processes that were left alone; what  *)
(* holds in spite of others is proved without that condition.                *)
(*****************************************************************************)
EXTENDS FirstInstall, PlaneToken, KitUpdate, GitMirror, PublicRelease, EveShell, CommonLemmas

(* FirstInstall: drafts, and what an install leaves of a target              *)

(* A draft is what Packet makes of an intake and a set of packs. *)
LEMMA PacketIsGuarded ==
  ASSUME NEW i, NEW registry, NEW d \in Packet(i, registry)
  PROVE  /\ d.finance => d.gate >= 30 /\ d.money
         /\ d.sends => d.mode = "draft-only"
  BY DEF Packet, ChildOf, RegistryValid, PackValid

LEMMA DraftIsPacket ==
  ASSUME InstallNext, draft' # draft
  PROVE  \E i, registry : draft' \in Packet(i, registry)
  BY DEF InstallNext, Begin, BeginCopy, CopyKitFile, WriteIntake, BuildPacket,
         WritePacketFile, CheckUpdate, InstallShell, InstallerDies, InstallAgain,
         FounderEdits, Finish

(* Whatever packs and intakes there are, and wherever installs and the     *)
(* founder get in each other's way, no Plane draft of a finance pack waits *)
(* for less than HG-3 or leaves money actions open, and none of a pack     *)
(* that sends leaves draft-only mode (validatePack, packChild...).           *)
THEOREM DraftsStayGuarded == InstallSpec => []DraftsAreGuarded
<1>1. InstallInit => DraftsAreGuarded BY DEF InstallInit, DraftsAreGuarded
<1>2. DraftsAreGuarded /\ [InstallNext]_installVars => DraftsAreGuarded'
  <2> SUFFICES ASSUME DraftsAreGuarded, [InstallNext]_installVars, draft' # draft
               PROVE  DraftsAreGuarded'
    BY DEF DraftsAreGuarded
  <2>1. InstallNext BY DEF installVars
  <2>2. PICK i, registry : draft' \in Packet(i, registry) BY <2>1, DraftIsPacket
  <2> QED BY <2>2, PacketIsGuarded DEF DraftsAreGuarded
<1> QED BY <1>1, <1>2, PTL DEF InstallSpec

-----------------------------------------------------------------------------
(* What an undisturbed install knows of its target *)

KitFilesCopied == {"guide", "gates", "brief"}
Packeted == {"brief", "record", "boot", "draft"}
CopyTodos == {<<"guide", "gates", "brief">>, <<"gates", "brief">>, <<"brief">>}
PacketTodos == {<<"brief", "record", "boot", "draft">>, <<"record", "boot", "draft">>,
                <<"boot", "draft">>, <<"draft">>}

(* The stages that follow the copy in a staged install. *)
Stages == {"intake", "packet", "write", "check", "shell"}
StagedKinds == Composed \cup {"smoke"}

InstallerStates ==
  [pc : {"idle", "bootstrap", "copy", "done"} \cup Stages,
   kind : {"none", "bootstrap", "packet"} \cup StagedKinds,
   force : BOOLEAN, input : Inputs \cup {NoInput}, registry : Registries \cup {{}},
   todo : {<<>>} \cup CopyTodos \cup PacketTodos, before : SUBSET TargetFiles,
   alone : BOOLEAN, result : {"none", "pass", "blocked", "error", "died"}]

Contents == {"missing", "kit", "edited"} \cup {i.company : i \in Inputs}

(* Where a process stands: what kinds reach which stage, and what is left. *)
Standing(me) ==
  /\ me.pc \in {"idle", "done"} => me.before = {}
  /\ me.pc # "done" => me.result = "none"
  /\ me.pc = "bootstrap" => me.kind \in {"bootstrap"} \cup StagedKinds
  /\ me.pc = "copy" => me.kind \in {"bootstrap"} \cup StagedKinds /\ me.todo \in CopyTodos
  /\ me.pc \in {"intake", "check", "shell"} => me.kind \in StagedKinds
  /\ me.pc = "packet" => me.kind \in {"packet"} \cup StagedKinds
  /\ me.pc = "write" => me.kind \in {"packet"} \cup StagedKinds /\ me.todo \in PacketTodos
  /\ me.pc \in {"bootstrap", "copy", "packet", "write", "intake"} => me.input \in Inputs

(* What was there when it began is there, and without --force it is none   *)
(* of what the process still has to write.                                 *)
Keeps(fs, me) ==
  /\ \A f \in me.before : fs[f] # "missing"
  /\ me.pc = "bootstrap" => me.before = {f \in TargetFiles : fs[f] # "missing"}
  /\ ~me.force =>
       /\ me.pc = "copy" => me.before \cap KitFilesCopied = {}
       /\ me.pc \in Stages /\ me.kind # "packet" => me.before \cap KitFilesCopied = {}
       /\ me.pc = "write" => me.before \cap Packeted = {}

(* What a staged install has written so far is there, and says what the    *)
(* intake says.                                                            *)
Brings(fs, me) ==
  me.kind \in StagedKinds =>
    /\ me.pc = "copy" => \A f \in KitFilesCopied \ Named(me.todo) : fs[f] # "missing"
    /\ me.pc \in Stages => \A f \in KitFilesCopied : fs[f] # "missing"
    /\ me.pc \in Stages \ {"intake"} => fs["intake"] = me.input.company /\ me.input \in Inputs
    /\ me.pc = "write" => \A f \in Packeted \ Named(me.todo) : fs[f] = me.input.company
    /\ me.pc \in {"check", "shell"} => \A f \in Packeted : fs[f] = me.input.company

(* It knows so while nobody else writes.                                   *)
Knows(fs, me) ==
  /\ Standing(me)
  /\ me.alone /\ me.pc \notin {"idle", "done"} => Keeps(fs, me) /\ Brings(fs, me)

InstallInv ==
  /\ files \in [TargetFiles -> Contents]
  /\ files["intake"] # "missing" => \E i \in Inputs : i.company = files["intake"]
  /\ installer \in [Installer -> InstallerStates]
  /\ \A p \in Installer : Knows(files, installer[p])

LEMMA ShortTuples ==
  /\ \A a : Head(<<a>>) = a /\ Tail(<<a>>) = <<>> /\ <<a>> # <<>>
  /\ \A a, b : Head(<<a, b>>) = a /\ Tail(<<a, b>>) = <<b>> /\ <<a, b>> # <<>>
  /\ \A a, b, c : /\ Head(<<a, b, c>>) = a /\ Tail(<<a, b, c>>) = <<b, c>>
                  /\ <<a, b, c>> # <<>>
  /\ \A a, b, c, d : /\ Head(<<a, b, c, d>>) = a /\ Tail(<<a, b, c, d>>) = <<b, c, d>>
                     /\ <<a, b, c, d>> # <<>>
  /\ \A S : \A a, b, c, d \in S : /\ <<a>> \in Seq(S) /\ <<a, b>> \in Seq(S)
                                  /\ <<a, b, c>> \in Seq(S) /\ <<a, b, c, d>> \in Seq(S)
  OBVIOUS

LEMMA TodosShrink ==
  /\ \A t \in CopyTodos : /\ Head(t) \in KitFilesCopied /\ t # <<>>
                          /\ Tail(t) = <<>> \/ Tail(t) \in CopyTodos
                          /\ Named(t) \subseteq Named(Tail(t)) \cup {Head(t)}
  /\ \A t \in PacketTodos : /\ Head(t) \in Packeted /\ t # <<>>
                            /\ Tail(t) = <<>> \/ Tail(t) \in PacketTodos
                            /\ Named(t) \subseteq Named(Tail(t)) \cup {Head(t)}
  /\ Named(<<>>) = {}
  /\ Named(<<"guide", "gates", "brief">>) = KitFilesCopied
  /\ Named(<<"brief", "record", "boot", "draft">>) = Packeted
<1>1. \A t \in CopyTodos : /\ Head(t) \in KitFilesCopied /\ t # <<>>
                           /\ Tail(t) = <<>> \/ Tail(t) \in CopyTodos
  <2> DEFINE a == <<"guide", "gates", "brief">>
             b == <<"gates", "brief">>
             c == <<"brief">>
  <2>1. Head(a) = "guide" /\ Tail(a) = b /\ a # <<>> BY ShortTuples
  <2>2. Head(b) = "gates" /\ Tail(b) = c /\ b # <<>> BY ShortTuples
  <2>3. Head(c) = "brief" /\ Tail(c) = <<>> /\ c # <<>> BY ShortTuples
  <2>4. CopyTodos = {a, b, c} BY DEF CopyTodos
  <2> HIDE DEF a, b, c
  <2> QED BY <2>1, <2>2, <2>3, <2>4 DEF KitFilesCopied
<1>2. \A t \in PacketTodos : /\ Head(t) \in Packeted /\ t # <<>>
                             /\ Tail(t) = <<>> \/ Tail(t) \in PacketTodos
  <2> DEFINE a == <<"brief", "record", "boot", "draft">>
             b == <<"record", "boot", "draft">>
             c == <<"boot", "draft">>
             d == <<"draft">>
  <2>1. Head(a) = "brief" /\ Tail(a) = b /\ a # <<>> BY ShortTuples
  <2>2. Head(b) = "record" /\ Tail(b) = c /\ b # <<>> BY ShortTuples
  <2>3. Head(c) = "boot" /\ Tail(c) = d /\ c # <<>> BY ShortTuples
  <2>4. Head(d) = "draft" /\ Tail(d) = <<>> /\ d # <<>> BY ShortTuples
  <2>5. PacketTodos = {a, b, c, d} BY DEF PacketTodos
  <2> HIDE DEF a, b, c, d
  <2> QED BY <2>1, <2>2, <2>3, <2>4, <2>5 DEF Packeted
<1>3. \A S : \A t \in Seq(S) : t # <<>> => Named(t) \subseteq Named(Tail(t)) \cup {Head(t)}
  <2> SUFFICES ASSUME NEW S, NEW t \in Seq(S), t # <<>>, NEW n \in DOMAIN t
               PROVE  t[n] \in Named(Tail(t)) \cup {Head(t)}
    BY DEF Named
  <2>1. CASE n = 1 BY <2>1
  <2>2. CASE n # 1
    <3>1. n - 1 \in DOMAIN Tail(t) /\ Tail(t)[n - 1] = t[n] BY <2>2
    <3> QED BY <3>1 DEF Named
  <2> QED BY <2>1, <2>2
<1>4. \A t \in CopyTodos \cup PacketTodos : t \in Seq(TargetFiles)
  <2>1. {"guide", "gates", "brief", "record", "boot", "draft"} \subseteq TargetFiles
    BY DEF TargetFiles
  <2>2. /\ <<"guide", "gates", "brief">> \in Seq(TargetFiles)
        /\ <<"gates", "brief">> \in Seq(TargetFiles) /\ <<"brief">> \in Seq(TargetFiles)
    BY <2>1, ShortTuples
  <2>3. /\ <<"brief", "record", "boot", "draft">> \in Seq(TargetFiles)
        /\ <<"record", "boot", "draft">> \in Seq(TargetFiles)
        /\ <<"boot", "draft">> \in Seq(TargetFiles) /\ <<"draft">> \in Seq(TargetFiles)
    BY <2>1, ShortTuples
  <2> QED BY <2>2, <2>3, Zenon DEF CopyTodos, PacketTodos
<1>5. /\ Named(<<>>) = {}
      /\ Named(<<"guide", "gates", "brief">>) = KitFilesCopied
      /\ Named(<<"brief", "record", "boot", "draft">>) = Packeted
  BY DEF Named, KitFilesCopied, Packeted
<1> QED BY <1>1, <1>2, <1>3, <1>4, <1>5

(* A process that only looks on knows what it knew, or that it is not      *)
(* alone.                                                                  *)
LEMMA BystanderKnows ==
  ASSUME NEW fs, NEW gs, NEW me \in InstallerStates, Knows(fs, me), NEW b \in BOOLEAN,
         b => gs = fs \/ me.pc \in {"idle", "done"},
         NEW o, o = [me EXCEPT !.alone = me.alone /\ b]
  PROVE  o \in InstallerStates /\ Knows(gs, o)
<1>1. /\ o.pc = me.pc /\ o.kind = me.kind /\ o.force = me.force /\ o.input = me.input
      /\ o.todo = me.todo /\ o.before = me.before /\ o.result = me.result
      /\ o.alone = (me.alone /\ b)
  BY DEF InstallerStates
<1>2. o \in InstallerStates
  <2>1. (me.alone /\ b) \in BOOLEAN OBVIOUS
  <2> QED BY <2>1 DEF InstallerStates
<1>3. Standing(o) BY <1>1 DEF Knows, Standing
<1>4. ASSUME o.alone, o.pc \notin {"idle", "done"} PROVE Keeps(gs, o) /\ Brings(gs, o)
  <2>1. me.alone /\ gs = fs BY <1>1, <1>4
  <2>2. Keeps(fs, me) /\ Brings(fs, me) BY <1>1, <1>4, <2>1 DEF Knows
  <2>3. Keeps(gs, o) BY <1>1, <2>1, <2>2 DEF Keeps
  <2>4. Brings(gs, o) BY <1>1, <2>1, <2>2 DEF Brings
  <2> QED BY <2>3, <2>4
<1> QED BY <1>2, <1>3, <1>4 DEF Knows

(* A process takes a step to r; what it writes is news to the others.      *)
LEMMA StepKeeps ==
  ASSUME InstallInv, NEW p \in Installer, NEW changed \in BOOLEAN, NEW r \in InstallerStates,
         Goes(p, changed, r), Knows(files', r),
         files' \in [TargetFiles -> Contents],
         files'["intake"] # "missing" => \E i \in Inputs : i.company = files'["intake"],
         changed \/ files' = files
  PROVE  InstallInv'
<1>1. ASSUME NEW q \in Installer, q # p
      PROVE  installer'[q] \in InstallerStates /\ Knows(files', installer'[q])
  <2> DEFINE b == changed => ~Active(q)
  <2>1. installer'[q] = [installer[q] EXCEPT !.alone = installer[q].alone /\ b]
    BY <1>1 DEF Goes
  <2>2. b \in BOOLEAN OBVIOUS
  <2>3. installer[q] \in InstallerStates /\ Knows(files, installer[q])
    BY <1>1 DEF InstallInv
  <2>4. b => files' = files \/ installer[q].pc \in {"idle", "done"} BY DEF Active
  <2> HIDE DEF b
  <2> QED BY <2>1, <2>2, <2>3, <2>4, BystanderKnows
<1>2. installer'[p] = r BY DEF Goes
<1>3. installer' = [q \in Installer |-> installer'[q]] BY DEF Goes
<1>4. \A q \in Installer : installer'[q] \in InstallerStates /\ Knows(files', installer'[q])
  BY <1>1, <1>2
<1>5. installer' \in [Installer -> InstallerStates] BY <1>3, <1>4
<1> QED BY <1>4, <1>5 DEF InstallInv

LEMMA WaitingIsState ==
  /\ Waiting \in InstallerStates /\ Waiting.before = {} /\ Waiting.pc = "idle"
  /\ Waiting.result = "none" /\ Waiting.alone = TRUE /\ Waiting.todo = <<>>
  BY DEF Waiting, InstallerStates

LEMMA EndsKnow ==
  ASSUME NEW result \in {"pass", "blocked", "error", "died"}, NEW fs, NEW me
  PROVE  /\ Ends(me, result) \in InstallerStates /\ Knows(fs, Ends(me, result))
         /\ Ends(me, result).result = result /\ Ends(me, result).before = {}
         /\ Waiting \in InstallerStates /\ Knows(fs, Waiting)
<1> DEFINE e == Ends(me, result)
<1>1. e = [Waiting EXCEPT !.pc = "done", !.result = result] BY DEF Ends
<1>2. /\ e \in InstallerStates /\ e.pc = "done" /\ e.before = Waiting.before
      /\ e.result = result
  BY <1>1, WaitingIsState DEF InstallerStates
<1>3. Knows(fs, e)
  <2> HIDE DEF e
  <2> QED BY <1>2, WaitingIsState DEF Knows, Standing
<1>4. Knows(fs, Waiting) BY WaitingIsState DEF Knows, Standing
<1> QED BY <1>2, <1>3, <1>4, WaitingIsState

LEMMA FinishKeeps ==
  ASSUME InstallInv, NEW p \in Installer, NEW result \in {"pass", "blocked", "error", "died"},
         Finish(p, result)
  PROVE  InstallInv'
<1> DEFINE r == Ends(installer[p], result)
<1>1. r \in InstallerStates /\ Knows(files', r) BY EndsKnow
<1>2. Goes(p, FALSE, r) /\ files' = files BY DEF Finish
<1> HIDE DEF r
<1> QED BY <1>1, <1>2, StepKeeps DEF InstallInv

LEMMA BeginKeeps ==
  ASSUME InstallInv, NEW p \in Installer, Begin(p)
  PROVE  InstallInv'
<1>1. PICK kind \in {"bootstrap", "packet", "smoke"} \cup Composed, force \in BOOLEAN,
           i \in Inputs, registry \in Registries :
      LET r == [Waiting EXCEPT !.kind = kind, !.force = force, !.input = i,
                          !.registry = registry,
                          !.before = {f \in TargetFiles : files[f] # Missing}]
      IN  \/ Goes(p, FALSE, [r EXCEPT !.pc = IF kind = "packet" THEN "packet" ELSE "bootstrap"])
          \/ Goes(p, FALSE, Ends(r, "error"))
  BY DEF Begin
<1> DEFINE there == {f \in TargetFiles : files[f] # "missing"}
           pc == IF kind = "packet" THEN "packet" ELSE "bootstrap"
           base == [Waiting EXCEPT !.kind = kind, !.force = force, !.input = i,
                          !.registry = registry, !.before = there]
           r == [base EXCEPT !.pc = pc]
<1>2. files' = files BY DEF Begin
<1>3. Goes(p, FALSE, r) \/ Goes(p, FALSE, Ends(base, "error")) BY <1>1 DEF Missing
<1>5. there \in SUBSET TargetFiles /\ \A f \in there : files[f] # "missing" OBVIOUS
<1>6. \/ pc = "packet" /\ kind = "packet"
      \/ pc = "bootstrap" /\ kind \in {"bootstrap"} \cup StagedKinds
  BY DEF StagedKinds
<1>7. there = {f \in TargetFiles : files[f] # "missing"} OBVIOUS
<1>4. base = [Waiting EXCEPT !.kind = kind, !.force = force, !.input = i,
                             !.registry = registry, !.before = there]
  OBVIOUS
<1> HIDE DEF there, pc, base
<1>12. /\ base \in InstallerStates /\ base.kind = kind /\ base.force = force
       /\ base.input = i /\ base.before = there /\ base.result = "none"
       /\ base.todo = <<>> /\ base.alone = TRUE
  <2>1. kind \in {"none", "bootstrap", "packet"} \cup StagedKinds BY DEF StagedKinds
  <2> QED BY <1>4, <1>5, <2>1, WaitingIsState DEF InstallerStates
<1>8. /\ r \in InstallerStates /\ r.kind = kind /\ r.force = force
      /\ r.input = i /\ r.before = there /\ r.result = "none" /\ r.pc = pc
  BY <1>12, <1>6 DEF InstallerStates, Stages
<1>9. Knows(files, r)
  <2> HIDE DEF r
  <2>1. Standing(r) BY <1>8, <1>6 DEF Standing
  <2>2. Keeps(files, r) BY <1>8, <1>5, <1>6, <1>7 DEF Keeps, Stages
  <2>3. Brings(files, r) BY <1>8, <1>6 DEF Brings, StagedKinds, Composed, Stages
  <2> QED BY <2>1, <2>2, <2>3 DEF Knows
<1>10. CASE Goes(p, FALSE, r)
  <2> HIDE DEF r
  <2> QED BY <1>2, <1>8, <1>9, <1>10, StepKeeps DEF InstallInv
<1>11. CASE Goes(p, FALSE, Ends(base, "error"))
  <2> DEFINE e == Ends(base, "error")
  <2>1. e \in InstallerStates /\ Knows(files', e) BY EndsKnow
  <2> HIDE DEF e
  <2> QED BY <1>2, <1>11, <2>1, StepKeeps DEF InstallInv, e
<1> QED BY <1>3, <1>10, <1>11

LEMMA ThreeFiles ==
  <<"guide">> \o <<"gates", "brief">> = <<"guide", "gates", "brief">>
<1> DEFINE s == <<"guide">>
           t == <<"gates", "brief">>
           u == <<"guide", "gates", "brief">>
           k == s \o t
<1>1. s \in Seq(TargetFiles) /\ t \in Seq(TargetFiles) /\ u \in Seq(TargetFiles)
  BY DEF TargetFiles
<1>2. Len(s) = 1 /\ Len(t) = 2 /\ Len(u) = 3 /\ u[1] = s[1] /\ u[2] = t[1] /\ u[3] = t[2]
  OBVIOUS
<1> HIDE DEF s, t, u
<1>3. /\ k \in Seq(TargetFiles) /\ Len(k) = Len(s) + Len(t)
      /\ \A i \in 1 .. Len(s) : k[i] = s[i]
      /\ \A i \in 1 .. Len(t) : k[Len(s) + i] = t[i]
  BY <1>1, ConcatEnds
<1> HIDE DEF k
<1>4. k[1] = u[1] /\ k[1 + 1] = u[2] /\ k[1 + 2] = u[3] /\ Len(k) = 3
  BY <1>2, <1>3
<1>5. \A i \in 1 .. 3 : i = 1 \/ i = 1 + 1 \/ i = 1 + 2 OBVIOUS
<1>6. \A i \in 1 .. Len(k) : k[i] = u[i]
  <2>1. u[1 + 1] = u[2] /\ u[1 + 2] = u[3] OBVIOUS
  <2> QED BY <1>4, <1>5, <2>1
<1>7. k = u BY <1>1, <1>2, <1>3, <1>4, <1>6, SeqEqual
<1> QED BY <1>7 DEF s, t, u, k

LEMMA BeginCopyKeeps ==
  ASSUME InstallInv, NEW p \in Installer, BeginCopy(p)
  PROVE  InstallInv'
<1> DEFINE me == installer[p]
           full == <<"guide", "gates", "brief">>
           r == [me EXCEPT !.pc = "copy", !.todo = full]
           there == {f \in TargetFiles : files[f] # "missing"}
<1>1. me \in InstallerStates /\ Knows(files, me) /\ me.pc = "bootstrap"
  BY DEF InstallInv, BeginCopy
<1>2. full \in CopyTodos /\ Named(full) = KitFilesCopied BY TodosShrink DEF CopyTodos
<1>3. CASE Finish(p, "blocked") \/ Finish(p, "error") BY <1>3, FinishKeeps
<1>4. CASE /\ Collisions({f \in TargetFiles : files[f] # Missing}) = {} \/ me.force
           /\ Goes(p, FALSE, [me EXCEPT !.pc = "copy", !.todo = ScaffoldFiles \o Generated])
           /\ files' = files
  <2>1. ScaffoldFiles \o Generated = full
    BY ThreeFiles, Zenon DEF ScaffoldFiles, Generated
  <2>2. Goes(p, FALSE, r) BY <1>4, <2>1
  <2>3. ~me.force => there \cap KitFilesCopied = {}
    <3>1. Named(ScaffoldFiles) \cup Named(Generated) = KitFilesCopied
      BY DEF Named, ScaffoldFiles, Generated, KitFilesCopied
    <3> QED BY <1>4, <3>1 DEF Collisions, Missing
  <2> HIDE DEF full
  <2>4. /\ r \in InstallerStates /\ r.pc = "copy" /\ r.kind = me.kind /\ r.force = me.force
        /\ r.input = me.input /\ r.todo = full /\ r.before = me.before
        /\ r.alone = me.alone /\ r.result = me.result
    BY <1>1, <1>2 DEF InstallerStates
  <2>5. Knows(files, r)
    <3> HIDE DEF r, me
    <3>1. Standing(r) BY <1>1, <1>2, <2>4 DEF Knows, Standing
    <3>2. ASSUME me.alone PROVE Keeps(files, r) /\ Brings(files, r)
      <4>1. Keeps(files, me) BY <1>1, <3>2 DEF Knows
      <4>2. me.before = there BY <1>1, <4>1 DEF Keeps
      <4> HIDE DEF there
      <4>3. Keeps(files, r) BY <2>3, <2>4, <4>1, <4>2 DEF Keeps, Stages
      <4>4. Brings(files, r) BY <1>2, <2>4 DEF Brings, Stages
      <4> QED BY <4>3, <4>4
    <3> QED BY <2>4, <3>1, <3>2 DEF Knows
  <2> HIDE DEF r
  <2> QED BY <1>4, <2>2, <2>4, <2>5, StepKeeps DEF InstallInv
<1> QED BY <1>3, <1>4 DEF BeginCopy

(* The file that is written next, and what is left of the list.            *)
LEMMA CopyKeeps ==
  ASSUME InstallInv, NEW p \in Installer, CopyKitFile(p)
  PROVE  InstallInv'
<1> DEFINE me == installer[p]
           f0 == Head(me.todo)
           rest == Tail(me.todo)
           next == IF me.kind = "bootstrap" THEN "done" ELSE "intake"
           more == [me EXCEPT !.todo = rest]
           last == [me EXCEPT !.todo = <<>>, !.pc = "intake"]
           r == IF rest # <<>> THEN more
                ELSE IF next = "done" THEN Ends(me, "pass") ELSE last
<1>1. /\ me \in InstallerStates /\ Knows(files, me) /\ me.pc = "copy"
      /\ me.todo \in CopyTodos /\ files \in [TargetFiles -> Contents]
  BY DEF InstallInv, CopyKitFile, Knows, Standing
<1>2. /\ f0 \in KitFilesCopied
      /\ rest = <<>> \/ rest \in CopyTodos
      /\ Named(me.todo) \subseteq Named(rest) \cup {f0} /\ Named(<<>>) = {}
  BY <1>1, TodosShrink
<1>3. files' = [files EXCEPT ![f0] = "kit"]
  BY DEF CopyKitFile, WriteNext
<1>4. Goes(p, TRUE, r)
  <2>1. Goes(p, TRUE, IF rest # <<>> THEN more
                      ELSE IF next = "done" THEN Ends(me, "pass")
                      ELSE [me EXCEPT !.todo = <<>>, !.pc = next])
    BY DEF CopyKitFile, WriteNext
  <2>2. next = "done" \/ next = "intake" OBVIOUS
  <2> QED BY <2>1, <2>2
<1> HIDE DEF f0, rest
<1>5. /\ more.pc = "copy" /\ more.kind = me.kind /\ more.force = me.force
      /\ more.input = me.input /\ more.todo = rest /\ more.before = me.before
      /\ more.alone = me.alone /\ more.result = me.result
      /\ more \in InstallerStates
  BY <1>1, <1>2 DEF InstallerStates
<1>6. /\ last.pc = "intake" /\ last.kind = me.kind /\ last.force = me.force
      /\ last.input = me.input /\ last.todo = <<>> /\ last.before = me.before
      /\ last.alone = me.alone /\ last.result = me.result
      /\ last \in InstallerStates
  BY <1>1 DEF InstallerStates, Stages
<1>7. /\ files' \in [TargetFiles -> Contents] /\ files'["intake"] = files["intake"]
      /\ \A f \in TargetFiles : files'[f] = IF f = f0 THEN "kit" ELSE files[f]
      /\ KitFilesCopied \subseteq TargetFiles
  <2>1. KitFilesCopied \subseteq TargetFiles /\ "intake" \in TargetFiles /\ "intake" \notin KitFilesCopied
        /\ "kit" \in Contents
    BY DEF Contents, KitFilesCopied, TargetFiles
  <2>2. f0 \in TargetFiles /\ f0 # "intake" BY <1>2, <2>1
  <2>3. files \in [TargetFiles -> Contents] BY <1>1
  <2> HIDE DEF Contents, TargetFiles, KitFilesCopied
  <2> QED BY <1>3, <2>1, <2>2, <2>3
<1> HIDE DEF me, more, last
<1>8. \A f \in TargetFiles : files[f] # "missing" => files'[f] # "missing" BY <1>7
<1>9. ASSUME rest # <<>> PROVE Knows(files', more)
  <2>1. Standing(more) BY <1>1, <1>2, <1>5, <1>9 DEF Knows, Standing
  <2>2. ASSUME me.alone PROVE Keeps(files', more) /\ Brings(files', more)
    <3>1. Keeps(files, me) /\ Brings(files, me) BY <1>1, <2>2 DEF Knows
    <3>2. me.before \subseteq TargetFiles BY <1>1 DEF InstallerStates
    <3>3. Keeps(files', more) BY <1>1, <1>5, <1>8, <3>1, <3>2 DEF Keeps, Stages
    <3>4. Brings(files', more)
      <4>1. me.kind \in StagedKinds =>
              \A f \in KitFilesCopied \ Named(rest) : files'[f] # "missing"
        BY <1>1, <1>2, <1>7, <1>8, <3>1 DEF Brings
      <4> QED BY <1>5, <4>1 DEF Brings, Stages
    <3> QED BY <3>3, <3>4
  <2> QED BY <1>5, <2>1, <2>2 DEF Knows
<1>10. ASSUME rest = <<>>, next # "done" PROVE Knows(files', last)
  <2>1. me.kind # "bootstrap" BY <1>10
  <2>2. Standing(last) BY <1>1, <1>6, <2>1 DEF Knows, Standing
  <2>3. ASSUME me.alone PROVE Keeps(files', last) /\ Brings(files', last)
    <3>1. Keeps(files, me) /\ Brings(files, me) BY <1>1, <2>3 DEF Knows
    <3>2. me.before \subseteq TargetFiles BY <1>1 DEF InstallerStates
    <3>3. Keeps(files', last) BY <1>1, <1>6, <1>8, <3>1, <3>2 DEF Keeps, Stages
    <3>4. Brings(files', last)
      <4>1. me.kind \in StagedKinds => \A f \in KitFilesCopied : files'[f] # "missing"
        BY <1>1, <1>2, <1>7, <1>8, <1>10, <3>1 DEF Brings
      <4> QED BY <1>6, <4>1 DEF Brings, Stages
    <3> QED BY <3>3, <3>4
  <2> QED BY <1>6, <2>2, <2>3 DEF Knows
<1>11. r \in InstallerStates /\ Knows(files', r)
  BY <1>5, <1>6, <1>9, <1>10, EndsKnow
<1> HIDE DEF r
<1> QED BY <1>4, <1>7, <1>11, StepKeeps DEF InstallInv

LEMMA IntakeKeeps ==
  ASSUME InstallInv, NEW p \in Installer, WriteIntake(p)
  PROVE  InstallInv'
<1> DEFINE me == installer[p]
           there == files["intake"] # "missing"
           mine == [me EXCEPT !.pc = "packet"]
           found == [me EXCEPT !.pc = "packet", !.input = SmokeIntake]
<1>1. /\ me \in InstallerStates /\ Knows(files, me) /\ me.pc = "intake"
      /\ me.kind \in StagedKinds /\ me.input \in Inputs /\ me.result = "none"
      /\ files \in [TargetFiles -> Contents]
      /\ there => \E i \in Inputs : i.company = files["intake"]
  BY DEF InstallInv, WriteIntake, Knows, Standing
<1>2. there => SmokeIntake \in Inputs /\ SmokeIntake.company = files["intake"]
  BY <1>1 DEF SmokeIntake
<1>3. /\ "intake" \in TargetFiles /\ "intake" \notin KitFilesCopied
      /\ KitFilesCopied \subseteq TargetFiles
      /\ me.input.company \in Contents /\ me.input.company # "missing"
  BY <1>1, InstallInputs DEF TargetFiles, KitFilesCopied, Contents
<1>4. \/ /\ there /\ files' = files /\ Goes(p, FALSE, found)
      \/ Goes(p, FALSE, Ends(me, "blocked")) /\ files' = files
      \/ /\ files' = [files EXCEPT !["intake"] = me.input.company]
         /\ Goes(p, TRUE, mine)
  BY DEF WriteIntake, Missing
<1>5. /\ mine \in InstallerStates /\ mine.pc = "packet" /\ mine.kind = me.kind
      /\ mine.force = me.force /\ mine.input = me.input /\ mine.before = me.before
      /\ mine.alone = me.alone /\ mine.result = me.result
  BY <1>1 DEF InstallerStates, Stages
<1>6. there => /\ found \in InstallerStates /\ found.pc = "packet" /\ found.kind = me.kind
               /\ found.force = me.force /\ found.input = SmokeIntake
               /\ found.before = me.before
               /\ found.alone = me.alone /\ found.result = me.result
  BY <1>1, <1>2 DEF InstallerStates, Stages
<1> DEFINE intake == SmokeIntake
<1> HIDE DEF me, found, mine, intake
<1>10. CASE there /\ files' = files /\ Goes(p, FALSE, found)
  <2>1. Standing(found) BY <1>1, <1>2, <1>6, <1>10 DEF Standing
  <2>2. ASSUME me.alone PROVE Keeps(files, found) /\ Brings(files, found)
    <3>1. Keeps(files, me) /\ Brings(files, me) BY <1>1, <2>2 DEF Knows
    <3>2. Keeps(files, found) BY <1>1, <1>6, <1>10, <3>1 DEF Keeps, Stages
    <3>3. \A f \in KitFilesCopied : files[f] # "missing" BY <1>1, <3>1 DEF Brings, Stages
    <3>4. Brings(files, found) BY <1>2, <1>6, <1>10, <3>3 DEF Brings, Stages
    <3> QED BY <3>2, <3>4
  <2>3. Knows(files, found) BY <1>6, <1>10, <2>1, <2>2 DEF Knows
  <2> QED BY <1>6, <1>10, <2>3, StepKeeps DEF InstallInv
<1>11. CASE Goes(p, FALSE, Ends(me, "blocked")) /\ files' = files
  <2> DEFINE e == Ends(me, "blocked")
  <2>1. e \in InstallerStates /\ Knows(files', e) BY EndsKnow
  <2> HIDE DEF e
  <2> QED BY <1>11, <2>1, StepKeeps DEF InstallInv, e
<1>12. CASE /\ files' = [files EXCEPT !["intake"] = me.input.company]
            /\ Goes(p, TRUE, mine)
  <2>1. /\ files' \in [TargetFiles -> Contents]
        /\ files'["intake"] = me.input.company
        /\ \A f \in TargetFiles : f # "intake" => files'[f] = files[f]
        /\ \A f \in TargetFiles : files[f] # "missing" => files'[f] # "missing"
    <3> HIDE DEF TargetFiles, Contents
    <3> QED BY <1>1, <1>3, <1>12
  <2>2. Standing(mine) BY <1>1, <1>5 DEF Standing
  <2>3. ASSUME me.alone PROVE Keeps(files', mine) /\ Brings(files', mine)
    <3>1. Keeps(files, me) /\ Brings(files, me) BY <1>1, <2>3 DEF Knows
    <3>2. me.before \subseteq TargetFiles BY <1>1 DEF InstallerStates
    <3>3. Keeps(files', mine) BY <1>1, <1>5, <2>1, <3>1, <3>2 DEF Keeps, Stages
    <3>4. \A f \in KitFilesCopied : files'[f] # "missing"
      BY <1>1, <1>3, <2>1, <3>1 DEF Brings, Stages
    <3>5. Brings(files', mine) BY <1>1, <1>5, <2>1, <3>4 DEF Brings, Stages
    <3> QED BY <3>3, <3>5
  <2>4. Knows(files', mine) BY <1>5, <2>2, <2>3 DEF Knows
  <2>5. files'["intake"] # "missing" => \E i \in Inputs : i.company = files'["intake"]
    BY <1>1, <2>1
  <2> QED BY <1>5, <1>12, <2>1, <2>4, <2>5, StepKeeps
<1> QED BY <1>4, <1>10, <1>11, <1>12

LEMMA BuildKeeps ==
  ASSUME InstallInv, NEW p \in Installer, BuildPacket(p)
  PROVE  InstallInv'
<1> DEFINE me == installer[p]
           full == <<"brief", "record", "boot", "draft">>
           r == [me EXCEPT !.pc = "write", !.todo = full]
           present == {f \in Named(PacketFiles) : files[f] # Missing}
<1>1. /\ me \in InstallerStates /\ Knows(files, me) /\ me.pc = "packet"
      /\ me.kind \in {"packet"} \cup StagedKinds /\ me.input \in Inputs
      /\ me.result = "none"
  BY DEF InstallInv, BuildPacket, Knows, Standing
<1>2. full \in PacketTodos /\ Named(full) = Packeted BY TodosShrink DEF PacketTodos
<1>3. CASE Finish(p, "blocked") \/ Finish(p, "error") BY <1>3, FinishKeeps
<1>4. CASE /\ BlockedFiles(me.kind, me.force, present) = {}
           /\ Goes(p, FALSE, [me EXCEPT !.pc = "write", !.todo = PacketFiles])
           /\ files' = files
  <2>1. PacketFiles = full BY DEF PacketFiles
  <2>2. Goes(p, FALSE, r) BY <1>4, <2>1
  <2>3. \A f \in Packeted :
          \/ me.force
          \/ files[f] = "missing"
          \/ me.kind # "packet" /\ f = "brief"
    <3>1. present = {f \in Packeted : files[f] # "missing"} BY <1>2, <2>1 DEF Missing
    <3> HIDE DEF present, me
    <3> QED BY <1>4, <3>1 DEF BlockedFiles
  <2> HIDE DEF full, present
  <2>4. /\ r \in InstallerStates /\ r.pc = "write" /\ r.kind = me.kind /\ r.force = me.force
        /\ r.input = me.input /\ r.todo = full /\ r.before = me.before
        /\ r.alone = me.alone /\ r.result = me.result
    BY <1>1, <1>2 DEF InstallerStates, Stages
  <2>5. Knows(files, r)
    <3> HIDE DEF r, me
    <3>1. Standing(r) BY <1>1, <1>2, <2>4 DEF Standing
    <3>2. ASSUME me.alone PROVE Keeps(files, r) /\ Brings(files, r)
      <4>1. Keeps(files, me) /\ Brings(files, me) BY <1>1, <3>2 DEF Knows
      <4>2. ~me.force => me.before \cap Packeted = {}
        <5>1. ~me.force /\ me.kind # "packet" => me.before \cap KitFilesCopied = {}
          BY <1>1, <4>1 DEF Keeps, Stages
        <5>2. "brief" \in KitFilesCopied BY DEF KitFilesCopied
        <5>3. \A f \in me.before : files[f] # "missing" BY <4>1 DEF Keeps
        <5> QED BY <2>3, <5>1, <5>2, <5>3
      <4>3. Keeps(files, r) BY <1>1, <2>4, <4>1, <4>2 DEF Keeps, Stages
      <4>4. Brings(files, r) BY <1>1, <1>2, <2>4, <4>1 DEF Brings, Stages
      <4> QED BY <4>3, <4>4
    <3> QED BY <2>4, <3>1, <3>2 DEF Knows
  <2> HIDE DEF r
  <2> QED BY <1>4, <2>2, <2>4, <2>5, StepKeeps DEF InstallInv
<1>5. \/ Finish(p, "blocked") \/ Finish(p, "error")
      \/ /\ BlockedFiles(me.kind, me.force, present) = {}
         /\ Goes(p, FALSE, [me EXCEPT !.pc = "write", !.todo = PacketFiles])
         /\ files' = files
  <2> HIDE DEF Packet, BlockedFiles, Finish, Goes
  <2> QED BY DEF BuildPacket
<1> QED BY <1>3, <1>4, <1>5

LEMMA WriteKeeps ==
  ASSUME InstallInv, NEW p \in Installer, WritePacketFile(p)
  PROVE  InstallInv'
<1> DEFINE me == installer[p]
           f0 == Head(me.todo)
           rest == Tail(me.todo)
           next == IF me.kind = "packet" THEN "done" ELSE "check"
           more == [me EXCEPT !.todo = rest]
           last == [me EXCEPT !.todo = <<>>, !.pc = "check"]
           r == IF rest # <<>> THEN more
                ELSE IF next = "done" THEN Ends(me, "pass") ELSE last
           mine == me.input.company
<1>1. /\ me \in InstallerStates /\ Knows(files, me) /\ me.pc = "write"
      /\ me.todo \in PacketTodos /\ files \in [TargetFiles -> Contents]
      /\ me.kind \in {"packet"} \cup StagedKinds /\ me.input \in Inputs
      /\ me.result = "none"
  BY DEF InstallInv, WritePacketFile, Knows, Standing
<1>2. /\ f0 \in Packeted
      /\ rest = <<>> \/ rest \in PacketTodos
      /\ Named(me.todo) \subseteq Named(rest) \cup {f0} /\ Named(<<>>) = {}
  BY <1>1, TodosShrink
<1>3. files' = [files EXCEPT ![f0] = mine]
  BY DEF WritePacketFile, WriteNext
<1>4. Goes(p, TRUE, r)
  <2>1. Goes(p, TRUE, IF rest # <<>> THEN more
                      ELSE IF next = "done" THEN Ends(me, "pass")
                      ELSE [me EXCEPT !.todo = <<>>, !.pc = next])
    BY DEF WritePacketFile, WriteNext
  <2>2. next = "done" \/ next = "check" OBVIOUS
  <2> QED BY <2>1, <2>2
<1> HIDE DEF f0, rest
<1>5. /\ more.pc = "write" /\ more.kind = me.kind /\ more.force = me.force
      /\ more.input = me.input /\ more.todo = rest /\ more.before = me.before
      /\ more.alone = me.alone /\ more.result = me.result
      /\ more \in InstallerStates
  BY <1>1, <1>2 DEF InstallerStates
<1>6. /\ last.pc = "check" /\ last.kind = me.kind /\ last.force = me.force
      /\ last.input = me.input /\ last.todo = <<>> /\ last.before = me.before
      /\ last.alone = me.alone /\ last.result = me.result
      /\ last \in InstallerStates
  BY <1>1 DEF InstallerStates, Stages
<1>7. /\ Packeted \subseteq TargetFiles /\ "intake" \in TargetFiles /\ "intake" \notin Packeted
      /\ KitFilesCopied \subseteq TargetFiles /\ mine \in Contents /\ mine # "missing"
  BY <1>1, InstallInputs DEF Contents, KitFilesCopied, Packeted, TargetFiles
<1> HIDE DEF mine
<1>8. /\ files' \in [TargetFiles -> Contents] /\ files'["intake"] = files["intake"]
      /\ \A f \in TargetFiles : files'[f] = IF f = f0 THEN mine ELSE files[f]
  <2>1. f0 \in TargetFiles /\ f0 # "intake" BY <1>2, <1>7
  <2>2. files \in [TargetFiles -> Contents] BY <1>1
  <2> HIDE DEF Contents, TargetFiles, Packeted
  <2> QED BY <1>3, <1>7, <2>1, <2>2
<1> HIDE DEF me, more, last
<1>9. \A f \in TargetFiles : files[f] # "missing" => files'[f] # "missing" BY <1>7, <1>8
<1>10. ASSUME me.alone
       PROVE  /\ \A f \in me.before : files'[f] # "missing"
              /\ ~me.force => me.before \cap Packeted = {}
              /\ ~me.force /\ me.kind # "packet" => me.before \cap KitFilesCopied = {}
              /\ me.kind \in StagedKinds =>
                   /\ \A f \in KitFilesCopied : files'[f] # "missing"
                   /\ files'["intake"] = mine
                   /\ \A f \in Packeted \ Named(rest) : files'[f] = mine
  <2>1. Keeps(files, me) /\ Brings(files, me) BY <1>1, <1>10 DEF Knows
  <2>2. me.before \subseteq TargetFiles BY <1>1 DEF InstallerStates
  <2>3. \A f \in me.before : files'[f] # "missing" BY <1>9, <2>1, <2>2 DEF Keeps
  <2>4. /\ ~me.force => me.before \cap Packeted = {}
        /\ ~me.force /\ me.kind # "packet" => me.before \cap KitFilesCopied = {}
    BY <1>1, <2>1 DEF Keeps, Stages
  <2>5. ASSUME me.kind \in StagedKinds
        PROVE  /\ \A f \in KitFilesCopied : files'[f] # "missing"
               /\ files'["intake"] = mine
               /\ \A f \in Packeted \ Named(rest) : files'[f] = mine
    <3>1. /\ \A f \in KitFilesCopied : files[f] # "missing"
          /\ files["intake"] = mine
          /\ \A f \in Packeted \ Named(me.todo) : files[f] = mine
      BY <1>1, <2>1, <2>5 DEF Brings, Stages, mine
    <3> QED BY <1>2, <1>7, <1>8, <1>9, <3>1
  <2> QED BY <2>3, <2>4, <2>5
<1>11. ASSUME rest # <<>> PROVE Knows(files', more)
  <2>1. Standing(more) BY <1>1, <1>2, <1>5, <1>11 DEF Standing
  <2>2. ASSUME me.alone PROVE Keeps(files', more) /\ Brings(files', more)
    <3>1. Keeps(files', more) BY <1>5, <1>10, <2>2 DEF Keeps, Stages
    <3>2. Brings(files', more) BY <1>1, <1>5, <1>10, <2>2 DEF Brings, Stages, mine
    <3> QED BY <3>1, <3>2
  <2> QED BY <1>5, <2>1, <2>2 DEF Knows
<1>12. ASSUME rest = <<>>, next # "done" PROVE Knows(files', last)
  <2>1. me.kind \in StagedKinds BY <1>1, <1>12
  <2>2. Standing(last) BY <1>1, <1>6, <2>1 DEF Standing
  <2>3. ASSUME me.alone PROVE Keeps(files', last) /\ Brings(files', last)
    <3>1. Keeps(files', last) BY <1>6, <1>10, <1>12, <2>3 DEF Keeps, Stages
    <3>2. Brings(files', last) BY <1>1, <1>2, <1>6, <1>10, <1>12, <2>3 DEF Brings, Stages, mine
    <3> QED BY <3>1, <3>2
  <2> QED BY <1>6, <2>2, <2>3 DEF Knows
<1>13. r \in InstallerStates /\ Knows(files', r)
  BY <1>5, <1>6, <1>11, <1>12, EndsKnow
<1> HIDE DEF r
<1> QED BY <1>4, <1>8, <1>13, StepKeeps DEF InstallInv

LEMMA CheckKeeps ==
  ASSUME InstallInv, NEW p \in Installer, CheckUpdate(p)
  PROVE  InstallInv'
<1> DEFINE me == installer[p]
           r == [me EXCEPT !.pc = "shell"]
<1>1. CASE Finish(p, "error") \/ Finish(p, "pass") BY <1>1, FinishKeeps
<1>2. CASE Goes(p, FALSE, r) /\ files' = files
  <2>1. /\ me \in InstallerStates /\ Knows(files, me) /\ me.pc = "check"
        /\ me.kind \in StagedKinds /\ me.result = "none"
    BY DEF InstallInv, CheckUpdate, Knows, Standing
  <2>2. /\ r \in InstallerStates /\ r.pc = "shell" /\ r.kind = me.kind /\ r.force = me.force
        /\ r.input = me.input /\ r.todo = me.todo /\ r.before = me.before
        /\ r.alone = me.alone /\ r.result = me.result
    BY <2>1 DEF InstallerStates, Stages
  <2> HIDE DEF r, me
  <2>3. Standing(r) BY <2>1, <2>2 DEF Standing
  <2>4. ASSUME me.alone PROVE Keeps(files, r) /\ Brings(files, r)
    <3>1. Keeps(files, me) /\ Brings(files, me) BY <2>1, <2>4 DEF Knows
    <3>2. Keeps(files, r) BY <2>1, <2>2, <3>1 DEF Keeps, Stages
    <3>3. Brings(files, r) BY <2>1, <2>2, <3>1 DEF Brings, Stages
    <3> QED BY <3>2, <3>3
  <2>5. Knows(files, r) BY <2>2, <2>3, <2>4 DEF Knows
  <2> QED BY <1>2, <2>2, <2>5, StepKeeps DEF InstallInv
<1> QED BY <1>1, <1>2 DEF CheckUpdate

LEMMA AgainKeeps ==
  ASSUME InstallInv, NEW p \in Installer, InstallAgain(p)
  PROVE  InstallInv'
<1>1. installer' = [installer EXCEPT ![p] = Waiting] /\ files' = files BY DEF InstallAgain
<1>2. Waiting \in InstallerStates /\ Knows(files, Waiting) BY EndsKnow
<1>3. \A q \in Installer : installer'[q] = IF q = p THEN Waiting ELSE installer[q]
  BY <1>1 DEF InstallInv
<1> QED BY <1>1, <1>2, <1>3 DEF InstallInv

LEMMA FounderKeeps ==
  ASSUME InstallInv, NEW f \in TargetFiles, FounderEdits(f)
  PROVE  InstallInv'
<1>1. \/ files' = [files EXCEPT ![f] = "edited"] /\ f # "intake"
      \/ files' = [files EXCEPT ![f] = "missing"]
  BY DEF FounderEdits, Missing
<1>2. /\ files' \in [TargetFiles -> Contents]
      /\ files'["intake"] # "missing" => files'["intake"] = files["intake"]
  <2>1. "edited" \in Contents /\ "missing" \in Contents /\ "intake" \in TargetFiles
    BY DEF Contents, TargetFiles
  <2>2. files \in [TargetFiles -> Contents] BY DEF InstallInv
  <2> HIDE DEF Contents, TargetFiles
  <2> QED BY <1>1, <2>1, <2>2
<1>3. ASSUME NEW q \in Installer
      PROVE  installer'[q] \in InstallerStates /\ Knows(files', installer'[q])
  <2> DEFINE b == ~Active(q)
  <2>1. installer'[q] = [installer[q] EXCEPT !.alone = installer[q].alone /\ b]
    BY DEF FounderEdits
  <2>2. b \in BOOLEAN /\ (b => installer[q].pc \in {"idle", "done"}) BY DEF Active
  <2>3. installer[q] \in InstallerStates /\ Knows(files, installer[q]) BY DEF InstallInv
  <2> HIDE DEF b
  <2> QED BY <2>1, <2>2, <2>3, BystanderKnows
<1>4. installer' = [q \in Installer |-> installer'[q]] BY DEF FounderEdits
<1>5. installer' \in [Installer -> InstallerStates] BY <1>3, <1>4
<1> QED BY <1>2, <1>3, <1>5 DEF InstallInv

LEMMA InstallInvStep == InstallInv /\ [InstallNext]_installVars => InstallInv'
<1> SUFFICES ASSUME InstallInv, [InstallNext]_installVars PROVE InstallInv' OBVIOUS
<1>1. CASE UNCHANGED installVars BY <1>1 DEF installVars, InstallInv
<1>2. ASSUME NEW p \in Installer, InstallShell(p) PROVE InstallInv'
  BY <1>2, FinishKeeps DEF InstallShell
<1>3. ASSUME NEW p \in Installer, InstallerDies(p) PROVE InstallInv'
  BY <1>3, FinishKeeps DEF InstallerDies
<1> QED BY <1>1, <1>2, <1>3, BeginKeeps, BeginCopyKeeps, CopyKeeps, IntakeKeeps, BuildKeeps,
          WriteKeeps, CheckKeeps, AgainKeeps, FounderKeeps DEF InstallNext

LEMMA InstallInvInit == InstallInit => InstallInv
<1> SUFFICES ASSUME InstallInit PROVE InstallInv OBVIOUS
<1>1. files \in [TargetFiles -> Contents] /\ files["intake"] = "missing"
  BY DEF InstallInit, Contents, Missing, TargetFiles
<1>2. \A p \in Installer : installer[p] = Waiting BY DEF InstallInit
<1>3. Waiting \in InstallerStates /\ Knows(files, Waiting) BY EndsKnow
<1>4. installer \in [Installer -> InstallerStates] BY <1>3 DEF InstallInit
<1> QED BY <1>1, <1>2, <1>3, <1>4 DEF InstallInv

(* Who stands elsewhere after a step has taken it. *)
LEMMA OthersStand ==
  ASSUME InstallInv, NEW p \in Installer, NEW q \in Installer, q # p, NEW c, NEW r,
         Goes(q, c, r)
  PROVE  /\ installer'[p].pc = installer[p].pc /\ installer'[p].todo = installer[p].todo
         /\ installer'[p].result = installer[p].result
<1>1. installer[p] \in InstallerStates BY DEF InstallInv
<1>2. installer'[p] = [installer[p] EXCEPT !.alone = installer[p].alone /\ (c => ~Active(p))]
  BY DEF Goes
<1> QED BY <1>1, <1>2 DEF InstallerStates

LEMMA MoverMoved ==
  ASSUME InstallInv, InstallNext, NEW p \in Installer,
         \/ <<installer'[p].pc, installer'[p].todo>> # <<installer[p].pc, installer[p].todo>>
         \/ installer'[p].result # installer[p].result
  PROVE  \/ Begin(p) \/ BeginCopy(p) \/ CopyKitFile(p) \/ WriteIntake(p) \/ BuildPacket(p)
         \/ WritePacketFile(p) \/ CheckUpdate(p) \/ InstallShell(p) \/ InstallerDies(p)
         \/ InstallAgain(p)
<1>1. ~ /\ installer'[p].pc = installer[p].pc /\ installer'[p].todo = installer[p].todo
        /\ installer'[p].result = installer[p].result
  OBVIOUS
<1>2. ASSUME NEW f \in TargetFiles, FounderEdits(f) PROVE FALSE
  <2>1. installer[p] \in InstallerStates BY DEF InstallInv
  <2>2. installer'[p] = [installer[p] EXCEPT !.alone = installer[p].alone /\ ~Active(p)]
    BY <1>2 DEF FounderEdits
  <2> QED BY <1>1, <2>1, <2>2 DEF InstallerStates
<1>3. ASSUME NEW q \in Installer, q # p, NEW c, NEW r, Goes(q, c, r) PROVE FALSE
  BY <1>1, <1>3, OthersStand
<1>4. ASSUME NEW q \in Installer, q # p, InstallAgain(q) PROVE FALSE
  <2>1. installer'[p] = installer[p] BY <1>4 DEF InstallAgain, InstallInv
  <2> QED BY <1>1, <2>1
<1>5. ASSUME NEW q \in Installer, q # p, NEW x, Finish(q, x) PROVE FALSE
  BY <1>3, <1>5 DEF Finish
<1>6. ASSUME NEW q \in Installer, q # p,
             \/ Begin(q) \/ BeginCopy(q) \/ CopyKitFile(q) \/ WriteIntake(q) \/ BuildPacket(q)
             \/ WritePacketFile(q) \/ CheckUpdate(q) \/ InstallShell(q) \/ InstallerDies(q)
             \/ InstallAgain(q)
      PROVE  FALSE
  <2>1. (\E c, r : Goes(q, c, r)) \/ (\E x : Finish(q, x)) \/ InstallAgain(q)
    <3> HIDE DEF Goes, Finish, InstallAgain, Packet, SmokeIntake, Ends, BlockedFiles
    <3>1. CASE Begin(q) BY <3>1 DEF Begin
    <3>2. CASE BeginCopy(q) BY <3>2 DEF BeginCopy
    <3>3. CASE CopyKitFile(q) BY <3>3 DEF CopyKitFile, WriteNext
    <3>4. CASE WriteIntake(q) BY <3>4 DEF WriteIntake
    <3>5. CASE BuildPacket(q) BY <3>5 DEF BuildPacket
    <3>6. CASE WritePacketFile(q) BY <3>6 DEF WritePacketFile, WriteNext
    <3>7. CASE CheckUpdate(q) BY <3>7 DEF CheckUpdate
    <3>8. CASE InstallShell(q) BY <3>8 DEF InstallShell
    <3>9. CASE InstallerDies(q) BY <3>9 DEF InstallerDies
    <3> QED BY <1>6, <3>1, <3>2, <3>3, <3>4, <3>5, <3>6, <3>7, <3>8, <3>9
  <2> QED BY <1>3, <1>4, <1>5, <1>6, <2>1
<1> QED BY <1>2, <1>6 DEF InstallNext

LEMMA FounderFilesStep ==
  ASSUME InstallInv, InstallNext, NEW p \in Installer, NEW f \in installer[p].before,
         installer[p].alone, ~installer[p].force,
         <<installer'[p].pc, installer'[p].todo>> # <<installer[p].pc, installer[p].todo>>
  PROVE  files'[f] = files[f]
<1> DEFINE me == installer[p]
<1>1. /\ me \in InstallerStates /\ Knows(files, me) /\ files \in [TargetFiles -> Contents]
      /\ f \in TargetFiles
  <2>1. me \in InstallerStates BY DEF InstallInv
  <2>2. me.before \subseteq TargetFiles BY <2>1 DEF InstallerStates
  <2> QED BY <2>1, <2>2 DEF InstallInv
<1>2. \/ Begin(p) \/ BeginCopy(p) \/ CopyKitFile(p) \/ WriteIntake(p) \/ BuildPacket(p)
      \/ WritePacketFile(p) \/ CheckUpdate(p) \/ InstallShell(p) \/ InstallerDies(p)
      \/ InstallAgain(p)
  BY MoverMoved
<1>3. CASE CopyKitFile(p)
  <2>1. me.pc = "copy" /\ files' = [files EXCEPT ![Head(me.todo)] = "kit"]
    BY <1>3 DEF CopyKitFile, WriteNext
  <2>2. Head(me.todo) \in KitFilesCopied BY <1>1, <2>1, TodosShrink DEF Knows, Standing
  <2>3. f \notin KitFilesCopied BY <1>1, <2>1 DEF Knows, Keeps
  <2> QED BY <1>1, <2>1, <2>2, <2>3
<1>4. CASE WritePacketFile(p)
  <2>1. me.pc = "write" /\ files' = [files EXCEPT ![Head(me.todo)] = me.input.company]
    BY <1>4 DEF WritePacketFile, WriteNext
  <2>2. Head(me.todo) \in Packeted BY <1>1, <2>1, TodosShrink DEF Knows, Standing
  <2>3. f \notin Packeted BY <1>1, <2>1 DEF Knows, Keeps
  <2> QED BY <1>1, <2>1, <2>2, <2>3
<1>5. CASE WriteIntake(p)
  <2>1. me.pc = "intake" BY <1>5 DEF WriteIntake
  <2>2. \/ files' = files
        \/ /\ files' = [files EXCEPT !["intake"] = me.input.company]
           /\ files["intake"] = "missing"
    <3> HIDE DEF Goes, SmokeIntake, Ends
    <3> QED BY <1>5 DEF WriteIntake, Missing
  <2>3. files[f] # "missing" BY <1>1, <2>1 DEF Knows, Keeps
  <2> QED BY <1>1, <2>2, <2>3
<1>6. CASE \/ Begin(p) \/ BeginCopy(p) \/ BuildPacket(p) \/ CheckUpdate(p) \/ InstallShell(p)
           \/ InstallerDies(p) \/ InstallAgain(p)
  BY <1>6 DEF Begin, BeginCopy, BuildPacket, CheckUpdate, InstallShell, InstallerDies,
              InstallAgain, Finish
<1> QED BY <1>2, <1>3, <1>4, <1>5, <1>6

LEMMA WholeStep ==
  ASSUME InstallInv, InstallNext, NEW p \in Installer,
         installer[p].result = "none", installer'[p].result = "pass",
         installer[p].alone, installer[p].kind \in Composed \cup {"smoke"}
  PROVE  /\ \A f \in TargetFiles : files[f] # Missing
         /\ \A f \in Named(PacketFiles) : files[f] = files["intake"]
<1> DEFINE me == installer[p]
<1>1. me \in InstallerStates /\ Knows(files, me) BY DEF InstallInv
<1>2. me.pc \in {"check", "shell"}
  <2>1. \/ Begin(p) \/ BeginCopy(p) \/ CopyKitFile(p) \/ WriteIntake(p) \/ BuildPacket(p)
        \/ WritePacketFile(p) \/ CheckUpdate(p) \/ InstallShell(p) \/ InstallerDies(p)
        \/ InstallAgain(p)
    BY MoverMoved
  <2>2. \A c, r : Goes(p, c, r) => r.result = "pass" BY DEF Goes
  <2>3. ASSUME NEW x \in {"blocked", "error", "died"}
        PROVE  Ends(me, x).result # "pass" /\ ~Finish(p, x) /\ \A c : ~Goes(p, c, Ends(me, x))
    <3>1. Ends(me, x).result = x BY EndsKnow
    <3> QED BY <2>2, <3>1 DEF Finish
  <2>4. CASE Begin(p)
    <3>1. PICK kind, force, i, registry :
            LET r == [Waiting EXCEPT !.kind = kind, !.force = force, !.input = i,
                          !.registry = registry,
                          !.before = {f \in TargetFiles : files[f] # Missing}]
            IN  \/ Goes(p, FALSE, [r EXCEPT !.pc = IF kind = "packet" THEN "packet" ELSE "bootstrap"])
                \/ Goes(p, FALSE, Ends(r, "error"))
      BY <2>4 DEF Begin
    <3> DEFINE r == [Waiting EXCEPT !.kind = kind, !.force = force, !.input = i,
                          !.registry = registry,
                          !.before = {f \in TargetFiles : files[f] # Missing}]
    <3>2. Ends(r, "error").result = "error" BY EndsKnow
    <3>3. r.result = "none" /\ \A pc : [r EXCEPT !.pc = pc].result = "none"
      BY WaitingIsState DEF InstallerStates
    <3> HIDE DEF r
    <3> QED BY <2>2, <3>1, <3>2, <3>3 DEF r
  <2>5. CASE BeginCopy(p)
    <3>1. [me EXCEPT !.pc = "copy", !.todo = ScaffoldFiles \o Generated].result = "none"
      BY <1>1 DEF InstallerStates
    <3> QED BY <2>2, <2>3, <2>5, <3>1 DEF BeginCopy
  <2>6. CASE CopyKitFile(p)
    <3>1. /\ [me EXCEPT !.todo = Tail(me.todo)].result = "none"
          /\ [me EXCEPT !.todo = <<>>, !.pc = "intake"].result = "none"
      BY <1>1 DEF InstallerStates
    <3>2. me.kind # "bootstrap" BY DEF Composed
    <3>3. Goes(p, TRUE, IF Tail(me.todo) # <<>> THEN [me EXCEPT !.todo = Tail(me.todo)]
                        ELSE [me EXCEPT !.todo = <<>>, !.pc = "intake"])
      BY <2>6, <3>2 DEF CopyKitFile, WriteNext
    <3> QED BY <2>2, <3>1, <3>3
  <2>7. CASE WriteIntake(p)
    <3>1. /\ [me EXCEPT !.pc = "packet", !.input = SmokeIntake].result = "none"
          /\ [me EXCEPT !.pc = "packet"].result = "none"
      BY <1>1 DEF InstallerStates
    <3>2. \/ Goes(p, FALSE, [me EXCEPT !.pc = "packet", !.input = SmokeIntake])
          \/ Goes(p, FALSE, Ends(me, "blocked"))
          \/ Goes(p, TRUE, [me EXCEPT !.pc = "packet"])
      BY <2>7 DEF WriteIntake
    <3> QED BY <2>2, <2>3, <3>1, <3>2
  <2>8. CASE BuildPacket(p)
    <3>1. [me EXCEPT !.pc = "write", !.todo = PacketFiles].result = "none"
      BY <1>1 DEF InstallerStates
    <3>2. \/ Finish(p, "error") \/ Finish(p, "blocked")
          \/ Goes(p, FALSE, [me EXCEPT !.pc = "write", !.todo = PacketFiles])
      <4> HIDE DEF Packet, BlockedFiles, Finish, Goes
      <4> QED BY <2>8 DEF BuildPacket
    <3> QED BY <2>2, <2>3, <3>1, <3>2
  <2>9. CASE WritePacketFile(p)
    <3>1. /\ [me EXCEPT !.todo = Tail(me.todo)].result = "none"
          /\ [me EXCEPT !.todo = <<>>, !.pc = "check"].result = "none"
      BY <1>1 DEF InstallerStates
    <3>2. me.kind # "packet" BY DEF Composed
    <3>3. Goes(p, TRUE, IF Tail(me.todo) # <<>> THEN [me EXCEPT !.todo = Tail(me.todo)]
                        ELSE [me EXCEPT !.todo = <<>>, !.pc = "check"])
      BY <2>9, <3>2 DEF WritePacketFile, WriteNext
    <3> QED BY <2>2, <3>1, <3>3
  <2>10. CASE InstallerDies(p) BY <2>3, <2>10 DEF InstallerDies
  <2>11. CASE InstallAgain(p)
    <3>1. installer'[p] = Waiting BY <2>11 DEF InstallAgain, InstallInv
    <3> QED BY <3>1, WaitingIsState
  <2>12. CASE CheckUpdate(p) \/ InstallShell(p) BY <2>12 DEF CheckUpdate, InstallShell
  <2> QED BY <2>1, <2>4, <2>5, <2>6, <2>7, <2>8, <2>9, <2>10, <2>11, <2>12
<1> HIDE DEF me
<1>3. Brings(files, me) /\ me.kind \in StagedKinds /\ me.input \in Inputs
  BY <1>1, <1>2 DEF Knows, Brings, Standing, StagedKinds, Stages, me
<1>4. /\ \A f \in KitFilesCopied : files[f] # "missing"
      /\ files["intake"] = me.input.company
      /\ \A f \in Packeted : files[f] = me.input.company
      /\ me.input.company # "missing"
  BY <1>2, <1>3, InstallInputs DEF Brings, Stages
<1>5. TargetFiles = KitFilesCopied \cup Packeted \cup {"intake"} /\ Named(PacketFiles) = Packeted
  BY TodosShrink DEF TargetFiles, KitFilesCopied, Packeted, PacketFiles
<1> QED BY <1>4, <1>5 DEF Missing

(* An install takes nothing that was there and a pass leaves all of        *)
(* itself, for any number of the five commands, wherever they are cut off  *)
(* and started again, while the founder works in the same directory        *)
(* (bootstrap, first-company-packet, public-rc, self-serve-smoke,          *)
(* command-eve-self-install).                                              *)
THEOREM InstallsStaySound == InstallSpec => InstallIsSound
<1>1. InstallSpec => []InstallInv
  BY InstallInvInit, InstallInvStep, PTL DEF InstallSpec
<1>2. InstallInv /\ [InstallNext]_installVars =>
        [\A p \in Installer : \A f \in installer[p].before :
          /\ installer[p].alone /\ ~installer[p].force
          /\ <<installer'[p].pc, installer'[p].todo>> # <<installer[p].pc, installer[p].todo>>
          => files'[f] = files[f]]_installVars
  BY FounderFilesStep, Zenon
<1>3. InstallInv /\ [InstallNext]_installVars =>
        [\A p \in Installer :
          /\ installer[p].result = "none" /\ installer'[p].result = "pass"
          /\ installer[p].alone /\ installer[p].kind \in Composed \cup {"smoke"}
          => /\ \A f \in TargetFiles : files[f] # Missing
             /\ \A f \in Named(PacketFiles) : files[f] = files["intake"]]_installVars
  BY WholeStep, Zenon
<1>4. InstallSpec => FounderFilesStay
  BY <1>1, <1>2, PTL DEF InstallSpec, FounderFilesStay
<1>5. InstallSpec => InstalledIsWhole
  BY <1>1, <1>3, PTL DEF InstallSpec, InstalledIsWhole
<1> QED BY <1>4, <1>5 DEF InstallIsSound

-----------------------------------------------------------------------------
(* PlaneToken: what the keychain says of the token                           *)

RotatorStates ==
  [pc : {"idle", "before", "judge", "exchange", "save", "after", "verify", "done"},
   mode : {"none", "check", "ensure", "force", "bot-token", "repair"},
   env : [token : Nat, expiry : Nat], token : Nat, expiry : Nat, minted : Nat,
   left : {<<>>, <<"token", "expiry">>, <<"expiry">>},
   exit : {"none", "0", "1", "2", "killed"}, alone : BOOLEAN]

Keychains == [token : Nat, expiry : Nat]

(* What a rotator relies on: the grant it is about to save is of the         *)
(* present, nobody else touches the entries it saves, and a rotator that was *)
(* left alone judges the token the keychain still holds.                     *)
Holds(me, now, kept, raced) ==
  /\ me.pc = "save" => me.left # <<>> /\ me.expiry <= me.minted /\ me.minted <= now + Life
  /\ me.pc = "save" /\ ~raced => kept.expiry <= me.minted
  /\ me.pc = "save" /\ ~raced /\ me.left = <<"expiry">> => kept.token = me.minted
  /\ me.pc \in {"judge", "verify"} /\ me.alone /\ me.env.token = NoToken => me.token = kept.token
  /\ me.pc \in {"idle", "done"} => me.mode \in {"none", "repair"}
  /\ me.pc # "done" => me.exit = "none"

TokenTypeOK ==
  /\ clock \in Nat \ {0} /\ keychain \in Keychains /\ overlapped \in BOOLEAN
  /\ rotator \in [Rotator -> RotatorStates]

TokenInv ==
  /\ TokenTypeOK
  /\ keychain.expiry <= clock + Life
  /\ ExpiryIsHonest
  /\ \A r \in Rotator : Holds(rotator[r], clock, keychain, overlapped)

LEMMA LeftToSave ==
  /\ Head(<<"token", "expiry">>) = "token" /\ Tail(<<"token", "expiry">>) = <<"expiry">>
  /\ Head(<<"expiry">>) = "expiry" /\ Tail(<<"expiry">>) = <<>>
  /\ <<"expiry">> # <<>> /\ <<"token", "expiry">> # <<>> /\ <<"token", "expiry">> # <<"expiry">>
  OBVIOUS

LEMMA FreshHolds ==
  /\ Fresh \in RotatorStates
  /\ Fresh.pc = "idle" /\ Fresh.mode = "none" /\ Fresh.exit = "none"
  /\ Fresh.env = [token |-> NoToken, expiry |-> NoToken] /\ Fresh.left = <<>>
  BY DEF Fresh, RotatorStates, NoToken

LEMMA LaterHolds ==
  ASSUME NEW me \in RotatorStates, NEW now \in Nat, NEW later \in Nat, now <= later,
         NEW kept, NEW raced, Holds(me, now, kept, raced)
  PROVE  Holds(me, later, kept, raced)
<1>1. me.minted \in Nat /\ Life \in Nat BY TokenTimes DEF RotatorStates
<1>2. me.minted <= now + Life => me.minted <= later + Life BY <1>1
<1> QED BY <1>2 DEF Holds

LEMMA BystanderHolds ==
  ASSUME NEW me \in RotatorStates, NEW b \in BOOLEAN, NEW now, NEW kept, NEW raced,
         Holds(me, now, kept, raced)
  PROVE  /\ [me EXCEPT !.alone = me.alone /\ b] \in RotatorStates
         /\ Holds([me EXCEPT !.alone = me.alone /\ b], now, kept, raced)
<1> DEFINE to == [me EXCEPT !.alone = me.alone /\ b]
<1>1. /\ to \in RotatorStates /\ to.pc = me.pc /\ to.mode = me.mode /\ to.env = me.env
      /\ to.token = me.token /\ to.expiry = me.expiry /\ to.minted = me.minted
      /\ to.left = me.left /\ to.exit = me.exit /\ (to.alone => me.alone)
  BY DEF RotatorStates
<1>2. Holds(to, now, kept, raced)
  <2> HIDE DEF to
  <2> QED BY <1>1 DEF Holds
<1> QED BY <1>1, <1>2

(* A step of one rotator that leaves the clock and the keychain alone.        *)
LEMMA TurnHolds ==
  ASSUME TokenInv, NEW r \in Rotator, NEW to \in RotatorStates, Turn(r, FALSE, to),
         UNCHANGED <<clock, keychain, overlapped>>, Holds(to, clock, keychain, overlapped)
  PROVE  TokenInv'
<1>1. \A q \in Rotator : q # r =>
        /\ rotator'[q] \in RotatorStates /\ Holds(rotator'[q], clock, keychain, overlapped)
  <2> SUFFICES ASSUME NEW q \in Rotator, q # r
               PROVE  /\ rotator'[q] \in RotatorStates
                      /\ Holds(rotator'[q], clock, keychain, overlapped)
    OBVIOUS
  <2>0. PICK b \in BOOLEAN : b = ~(FALSE /\ Rotating(q)) OBVIOUS
  <2>1. rotator'[q] = [rotator[q] EXCEPT !.alone = rotator[q].alone /\ b]
    BY <2>0 DEF Turn
  <2>2. /\ rotator[q] \in RotatorStates
        /\ Holds(rotator[q], clock, keychain, overlapped)
    BY DEF TokenInv, TokenTypeOK
  <2> QED BY <2>1, <2>2, BystanderHolds
<1>2. rotator'[r] = to /\ rotator' = [q \in Rotator |-> rotator'[q]] BY DEF Turn
<1>3. \A q \in Rotator : rotator'[q] \in RotatorStates /\ Holds(rotator'[q], clock, keychain, overlapped)
  BY <1>1, <1>2
<1>4. rotator' \in [Rotator -> RotatorStates] BY <1>2, <1>3
<1>5. ExpiryIsHonest' BY DEF TokenInv, ExpiryIsHonest
<1> QED BY <1>3, <1>4, <1>5 DEF TokenInv, TokenTypeOK

LEMMA ExitHolds ==
  ASSUME NEW code \in {"0", "1", "2", "killed"}, NEW now, NEW kept, NEW raced
  PROVE  /\ [Fresh EXCEPT !.pc = "done", !.exit = code] \in RotatorStates
         /\ Holds([Fresh EXCEPT !.pc = "done", !.exit = code], now, kept, raced)
  BY DEF Fresh, RotatorStates, Holds, NoToken

LEMMA ExitKeeps ==
  ASSUME TokenInv, NEW r \in Rotator, NEW code \in {"0", "1", "2", "killed"},
         Exits(r, FALSE, code), UNCHANGED <<clock, keychain, overlapped>>
  PROVE  TokenInv'
  BY ExitHolds, TurnHolds DEF Exits

LEMMA PhaseKeeps ==
  ASSUME TokenInv, NEW r \in Rotator, NEW pc \in {"exchange", "after"},
         rotator[r].pc = "judge", Phase(r, FALSE, pc), UNCHANGED <<clock, keychain, overlapped>>
  PROVE  TokenInv'
<1>0. rotator[r] \in RotatorStates /\ Holds(rotator[r], clock, keychain, overlapped)
  BY DEF TokenInv, TokenTypeOK
<1> DEFINE to == [rotator[r] EXCEPT !.pc = pc]
<1>1. to \in RotatorStates /\ to.pc = pc /\ to.exit = rotator[r].exit
  BY <1>0 DEF RotatorStates
<1>2. Turn(r, FALSE, to) BY DEF Phase
<1> HIDE DEF to
<1>3. Holds(to, clock, keychain, overlapped) BY <1>0, <1>1 DEF Holds
<1> QED BY <1>1, <1>2, <1>3, TurnHolds

LEMMA BeginRotationKeeps ==
  ASSUME TokenInv, NEW r \in Rotator, BeginRotation(r) \/ BeginRepair(r)
  PROVE  TokenInv'
<1>u. UNCHANGED <<clock, keychain, overlapped>> BY DEF BeginRotation, BeginRepair
<1>1. CASE BeginRotation(r)
  <2>1. PICK mode \in {"check", "ensure", "force", "bot-token"}, env \in Envs :
          Turn(r, FALSE, [Fresh EXCEPT !.mode = mode, !.env = env,
                                       !.pc = IF mode = "bot-token" THEN "exchange"
                                              ELSE "before"])
    BY <1>1 DEF BeginRotation
  <2> DEFINE to == [Fresh EXCEPT !.mode = mode, !.env = env,
                                 !.pc = IF mode = "bot-token" THEN "exchange" ELSE "before"]
  <2>2. env \in [token : Nat, expiry : Nat]
    BY TokenTimes
  <2>3. to \in RotatorStates /\ to.pc \in {"exchange", "before"} /\ to.exit = "none"
    BY <2>2 DEF Fresh, RotatorStates, NoToken
  <2>4. Turn(r, FALSE, to) BY <2>1
  <2> HIDE DEF to
  <2>5. Holds(to, clock, keychain, overlapped) BY <2>3 DEF Holds
  <2> QED BY <1>u, <2>3, <2>4, <2>5, TurnHolds
<1>2. CASE BeginRepair(r)
  <2> DEFINE go == [Fresh EXCEPT !.mode = "repair", !.pc = "exchange"]
             no == [Fresh EXCEPT !.mode = "repair", !.pc = "done", !.exit = "1"]
  <2>1. Turn(r, FALSE, go) \/ Turn(r, FALSE, no) BY <1>2 DEF BeginRepair
  <2>2. /\ go \in RotatorStates /\ go.pc = "exchange" /\ go.exit = "none"
        /\ no \in RotatorStates /\ no.pc = "done" /\ no.mode = "repair"
    BY DEF Fresh, RotatorStates, NoToken
  <2> HIDE DEF go, no
  <2>3. Holds(go, clock, keychain, overlapped) /\ Holds(no, clock, keychain, overlapped)
    BY <2>2 DEF Holds
  <2> QED BY <1>u, <2>1, <2>2, <2>3, TurnHolds
<1> QED BY <1>1, <1>2

LEMMA ReadKeeps ==
  ASSUME TokenInv, NEW r \in Rotator, ReadToken(r)
  PROVE  TokenInv'
<1> DEFINE me == rotator[r]
           token == Given(me.env.token, keychain.token)
           pc == IF me.pc = "before" THEN "judge" ELSE "verify"
           to == [me EXCEPT !.token = token, !.pc = pc]
<1>0. /\ me \in RotatorStates /\ me.pc \in {"before", "after"} /\ keychain \in Keychains
      /\ Holds(me, clock, keychain, overlapped)
  BY DEF ReadToken, TokenInv, TokenTypeOK
<1>1. Turn(r, FALSE, to) /\ UNCHANGED <<clock, keychain, overlapped>> BY DEF ReadToken
<1>2. token \in Nat /\ (me.env.token = NoToken => token = keychain.token)
  BY <1>0 DEF Given, RotatorStates, Keychains
<1> HIDE DEF token
<1>3. pc \in {"judge", "verify"} OBVIOUS
<1> HIDE DEF pc
<1>4. /\ to \in RotatorStates /\ to.pc = pc /\ to.token = token /\ to.env = me.env
      /\ to.exit = me.exit
  BY <1>0, <1>2, <1>3 DEF RotatorStates
<1> HIDE DEF to
<1>5. Holds(to, clock, keychain, overlapped)
  BY <1>0, <1>2, <1>3, <1>4 DEF Holds
<1> QED BY <1>1, <1>4, <1>5, TurnHolds

LEMMA JudgeKeeps ==
  ASSUME TokenInv, NEW r \in Rotator, JudgeToken(r) \/ VerifyToken(r)
  PROVE  TokenInv'
<1>u. UNCHANGED <<clock, keychain, overlapped>> BY DEF JudgeToken, VerifyToken
<1>1. CASE JudgeToken(r)
  <2>1. rotator[r].pc = "judge" BY <1>1 DEF JudgeToken
  <2>2. \/ \E code \in {"0", "2"} : Exits(r, FALSE, code)
        \/ \E pc \in {"exchange", "after"} : Phase(r, FALSE, pc)
    BY <1>1 DEF JudgeToken
  <2> QED BY <1>u, <2>1, <2>2, ExitKeeps, PhaseKeeps
<1>2. CASE VerifyToken(r)
  <2>1. \E code \in {"0", "1"} : Exits(r, FALSE, code) BY <1>2 DEF VerifyToken
  <2> QED BY <1>u, <2>1, ExitKeeps
<1> QED BY <1>1, <1>2

LEMMA ExchangeKeeps ==
  ASSUME TokenInv, NEW r \in Rotator, ExchangeToken(r)
  PROVE  TokenInv'
<1>u. UNCHANGED <<clock, keychain, overlapped>> BY DEF ExchangeToken
<1>1. CASE Exits(r, FALSE, "1") BY <1>u, <1>1, ExitKeeps
<1>2. ASSUME NEW expiry \in {clock, clock + Life},
             Turn(r, FALSE, [rotator[r] EXCEPT !.pc = "save", !.minted = clock + Life,
                                               !.expiry = expiry, !.left = Entries])
      PROVE  TokenInv'
  <2> DEFINE me == rotator[r]
             minted == clock + Life
             to == [me EXCEPT !.pc = "save", !.minted = minted, !.expiry = expiry, !.left = Entries]
  <2>0. /\ me \in RotatorStates /\ me.pc = "exchange" /\ clock \in Nat /\ Life \in Nat
        /\ keychain \in Keychains /\ keychain.expiry <= clock + Life
        /\ Holds(me, clock, keychain, overlapped)
    BY TokenTimes DEF ExchangeToken, TokenInv, TokenTypeOK
  <2>1. minted \in Nat /\ expiry \in Nat /\ expiry <= minted BY <2>0
  <2>2. keychain.expiry <= minted /\ minted <= clock + Life BY <2>0
  <2>3. Turn(r, FALSE, to) BY <1>2
  <2> HIDE DEF minted
  <2>4. /\ to \in RotatorStates /\ to.pc = "save" /\ to.minted = minted /\ to.expiry = expiry
        /\ to.left = <<"token", "expiry">> /\ to.exit = me.exit
    BY <2>0, <2>1 DEF RotatorStates, Entries
  <2> HIDE DEF to
  <2>5. Holds(to, clock, keychain, overlapped)
    BY <2>0, <2>1, <2>2, <2>4, LeftToSave DEF Holds
  <2> QED BY <1>u, <2>3, <2>4, <2>5, TurnHolds
<1> QED BY <1>1, <1>2 DEF ExchangeToken

(* The step that writes.                                                      *)
LEMMA OverwrittenHolds ==
  ASSUME NEW me \in RotatorStates, NEW now \in Nat, NEW kept \in Keychains,
         NEW left \in Keychains, NEW raced \in BOOLEAN, NEW racing \in BOOLEAN,
         Holds(me, now, kept, raced), me.pc = "save" => racing, NEW running \in BOOLEAN,
         me.pc \notin {"idle", "done"} => running
  PROVE  /\ [me EXCEPT !.alone = me.alone /\ ~(TRUE /\ running)] \in RotatorStates
         /\ Holds([me EXCEPT !.alone = me.alone /\ ~(TRUE /\ running)], now, left, raced \/ racing)
<1> DEFINE to == [me EXCEPT !.alone = me.alone /\ ~(TRUE /\ running)]
<1>1. /\ to \in RotatorStates /\ to.pc = me.pc /\ to.mode = me.mode /\ to.env = me.env
      /\ to.token = me.token /\ to.expiry = me.expiry /\ to.minted = me.minted
      /\ to.left = me.left /\ to.exit = me.exit /\ (running => ~to.alone)
  BY DEF RotatorStates
<1> HIDE DEF to
<1>2. Holds(to, now, left, raced \/ racing) BY <1>1 DEF Holds
<1> QED BY <1>1, <1>2 DEF to

LEMMA SaveKeeps ==
  ASSUME TokenInv, NEW r \in Rotator, SaveEntry(r)
  PROVE  TokenInv'
<1> DEFINE me == rotator[r]
           entry == Head(me.left)
           rest == Tail(me.left)
           racing == \E q \in Rotator \ {r} : rotator[q].pc = "save"
           more == [me EXCEPT !.left = rest]
           over == [Fresh EXCEPT !.pc = "done", !.exit = "0"]
           after == [me EXCEPT !.left = rest, !.pc = "after"]
<1>0. /\ me \in RotatorStates /\ me.pc = "save" /\ keychain \in Keychains
      /\ clock \in Nat /\ Life \in Nat /\ overlapped \in BOOLEAN
      /\ Holds(me, clock, keychain, overlapped) /\ keychain.expiry <= clock + Life
      /\ ExpiryIsHonest
  BY TokenTimes DEF SaveEntry, TokenInv, TokenTypeOK
<1>1. /\ me.left \in {<<"token", "expiry">>, <<"expiry">>}
      /\ me.minted \in Nat /\ me.expiry \in Nat /\ me.expiry <= me.minted
      /\ me.minted <= clock + Life
  BY <1>0 DEF Holds, RotatorStates
<1>2. /\ clock' = clock /\ overlapped' = (overlapped \/ racing)
      /\ keychain' = [keychain EXCEPT ![entry] = IF entry = "token" THEN me.minted
                                                 ELSE me.expiry]
  BY DEF SaveEntry
<1>3. \E to \in {more, over, after} :
        /\ Turn(r, TRUE, to)
        /\ rest # <<>> => to = more
        /\ rest = <<>> => to \in {over, after}
  BY DEF SaveEntry, Exits
<1>4. PICK to \in {more, over, after} :
        /\ Turn(r, TRUE, to)
        /\ rest # <<>> => to = more
        /\ rest = <<>> => to \in {over, after}
  BY <1>3
<1>5. /\ keychain' \in Keychains
      /\ me.left = <<"token", "expiry">> =>
           keychain'.token = me.minted /\ keychain'.expiry = keychain.expiry
      /\ me.left = <<"expiry">> =>
           keychain'.token = keychain.token /\ keychain'.expiry = me.expiry
  BY <1>0, <1>1, <1>2, LeftToSave DEF Keychains
<1>6. keychain'.expiry <= clock' + Life
  <2>1. keychain'.expiry \in {keychain.expiry, me.expiry} BY <1>1, <1>5
  <2>2. me.expiry <= clock + Life /\ keychain.expiry <= clock + Life
    BY <1>0, <1>1
  <2> QED BY <1>2, <2>1, <2>2
<1>7. ExpiryIsHonest'
  <2> SUFFICES ASSUME ~overlapped PROVE keychain'.expiry <= keychain'.token
    BY <1>2 DEF ExpiryIsHonest
  <2>1. keychain.expiry <= me.minted BY <1>0 DEF Holds
  <2>2. me.left = <<"expiry">> => keychain.token = me.minted BY <1>0 DEF Holds
  <2> QED BY <1>1, <1>5, <2>1, <2>2
<1>8. \A q \in Rotator : q # r =>
        /\ rotator'[q] \in RotatorStates /\ Holds(rotator'[q], clock', keychain', overlapped')
  <2> SUFFICES ASSUME NEW q \in Rotator, q # r
               PROVE  /\ rotator'[q] \in RotatorStates
                      /\ Holds(rotator'[q], clock', keychain', overlapped')
    OBVIOUS
  <2>1. rotator'[q] = [rotator[q] EXCEPT !.alone = rotator[q].alone /\ ~(TRUE /\ Rotating(q))]
    BY <1>4 DEF Turn
  <2>2. /\ rotator[q] \in RotatorStates /\ Holds(rotator[q], clock, keychain, overlapped)
    BY DEF TokenInv, TokenTypeOK
  <2>3. rotator[q].pc = "save" => racing OBVIOUS
  <2>4. /\ Rotating(q) \in BOOLEAN /\ racing \in BOOLEAN
        /\ rotator[q].pc \notin {"idle", "done"} => Rotating(q)
    BY DEF Rotating
  <2> HIDE DEF racing
  <2> QED BY <1>0, <1>2, <1>5, <2>1, <2>2, <2>3, <2>4, OverwrittenHolds
<1>9. to \in RotatorStates /\ Holds(to, clock', keychain', overlapped')
  <2>1. CASE to = over BY <2>1, ExitHolds
  <2>2. CASE to = after /\ rest = <<>>
    <3>1. /\ after \in RotatorStates /\ after.pc = "after" /\ after.exit = me.exit
      BY <1>0, <2>2 DEF RotatorStates
    <3> HIDE DEF after
    <3>2. Holds(after, clock', keychain', overlapped') BY <1>0, <3>1 DEF Holds
    <3> QED BY <2>2, <3>1, <3>2
  <2>3. CASE to = more /\ rest # <<>>
    <3>1. me.left = <<"token", "expiry">> /\ rest = <<"expiry">>
      BY <1>1, <2>3, LeftToSave
    <3> HIDE DEF rest
    <3>2. /\ more \in RotatorStates /\ more.pc = "save" /\ more.exit = me.exit
          /\ more.left = <<"expiry">> /\ more.expiry = me.expiry /\ more.minted = me.minted
      BY <1>0, <3>1 DEF RotatorStates
    <3> HIDE DEF more
    <3>3. overlapped \in BOOLEAN /\ (~overlapped' => ~overlapped) BY <1>0, <1>2
    <3>4. ~overlapped => keychain.expiry <= me.minted BY <1>0 DEF Holds
    <3>5. Holds(more, clock', keychain', overlapped')
      BY <1>0, <1>1, <1>2, <1>5, <3>1, <3>2, <3>3, <3>4, LeftToSave DEF Holds
    <3> QED BY <2>3, <3>2, <3>5
  <2> QED BY <1>4, <2>1, <2>2, <2>3
<1>10. rotator'[r] = to /\ rotator' = [q \in Rotator |-> rotator'[q]] BY <1>4 DEF Turn
<1>11. \A q \in Rotator : rotator'[q] \in RotatorStates /\ Holds(rotator'[q], clock', keychain', overlapped')
  BY <1>8, <1>9, <1>10
<1>12. rotator' \in [Rotator -> RotatorStates] BY <1>10, <1>11
<1>13. overlapped' \in BOOLEAN BY <1>0, <1>2
<1>14. clock' \in Nat \ {0} BY <1>2 DEF TokenInv, TokenTypeOK
<1> QED BY <1>5, <1>6, <1>7, <1>11, <1>12, <1>13, <1>14 DEF TokenInv, TokenTypeOK

LEMMA TickKeeps ==
  ASSUME TokenInv, Tick
  PROVE  TokenInv'
<1>0. /\ clock \in Nat \ {0} /\ clock' = clock + 1 /\ Life \in Nat
      /\ keychain \in Keychains /\ keychain.expiry <= clock + Life
      /\ UNCHANGED <<keychain, rotator, overlapped>>
  BY TokenTimes DEF TokenInv, TokenTypeOK, Tick
<1>1. clock' \in Nat \ {0} /\ clock \in Nat /\ clock' \in Nat /\ clock <= clock' BY <1>0
<1>2. keychain'.expiry <= clock' + Life BY <1>0 DEF Keychains
<1>3. \A q \in Rotator : Holds(rotator[q], clock', keychain, overlapped)
  <2> SUFFICES ASSUME NEW q \in Rotator PROVE Holds(rotator[q], clock', keychain, overlapped)
    OBVIOUS
  <2>1. rotator[q] \in RotatorStates /\ Holds(rotator[q], clock, keychain, overlapped)
    BY DEF TokenInv, TokenTypeOK
  <2> QED BY <1>1, <2>1, LaterHolds
<1>4. ExpiryIsHonest' BY <1>0 DEF TokenInv, ExpiryIsHonest
<1> QED BY <1>0, <1>1, <1>2, <1>3, <1>4 DEF TokenInv, TokenTypeOK

LEMMA RotateAgainKeeps ==
  ASSUME TokenInv, NEW r \in Rotator, RotateAgain(r)
  PROVE  TokenInv'
<1>1. Fresh \in RotatorStates /\ Holds(Fresh, clock, keychain, overlapped)
  BY FreshHolds DEF Holds
<1>2. \A q \in Rotator : rotator'[q] = IF q = r THEN Fresh ELSE rotator[q]
  BY DEF RotateAgain, TokenInv, TokenTypeOK
<1>3. rotator' \in [Rotator -> RotatorStates]
  BY <1>1 DEF RotateAgain, TokenInv, TokenTypeOK
<1>4. ExpiryIsHonest' BY DEF RotateAgain, TokenInv, ExpiryIsHonest
<1> QED BY <1>1, <1>2, <1>3, <1>4 DEF RotateAgain, TokenInv, TokenTypeOK

LEMMA TokenInvHolds == TokenSpec => []TokenInv
<1>1. TokenInit => TokenInv
  <2> SUFFICES ASSUME TokenInit PROVE TokenInv OBVIOUS
  <2>1. \A r \in Rotator : Holds(rotator[r], clock, keychain, overlapped)
    BY FreshHolds DEF TokenInit, Holds
  <2>2. TokenTypeOK
    <3>1. keychain \in Keychains BY DEF TokenInit, Keychains, NoToken
    <3>2. rotator \in [Rotator -> RotatorStates] BY FreshHolds DEF TokenInit
    <3>3. clock \in Nat \ {0} BY DEF TokenInit
    <3>4. overlapped \in BOOLEAN BY DEF TokenInit
    <3> QED BY <3>1, <3>2, <3>3, <3>4 DEF TokenTypeOK
  <2>3. keychain.expiry <= clock + Life BY TokenTimes DEF TokenInit, NoToken
  <2> QED BY <2>1, <2>2, <2>3 DEF TokenInv, TokenInit, ExpiryIsHonest
<1>2. TokenInv /\ [TokenNext]_tokenVars => TokenInv'
  <2> SUFFICES ASSUME TokenInv, [TokenNext]_tokenVars PROVE TokenInv' OBVIOUS
  <2>1. CASE UNCHANGED tokenVars
    BY <2>1 DEF tokenVars, TokenInv, TokenTypeOK, ExpiryIsHonest
  <2>2. CASE Tick BY <2>2, TickKeeps
  <2>3. ASSUME NEW r \in Rotator, RotatorDies(r) PROVE TokenInv'
    BY <2>3, ExitKeeps DEF RotatorDies
  <2>4. ASSUME NEW r \in Rotator, RotatorStep(r) PROVE TokenInv'
    BY <2>4, BeginRotationKeeps, ReadKeeps, JudgeKeeps, ExchangeKeeps, SaveKeeps, RotateAgainKeeps
    DEF RotatorStep
  <2> QED BY <2>1, <2>2, <2>3, <2>4 DEF TokenNext
<1> QED BY <1>1, <1>2, PTL DEF TokenSpec

LEMMA ValidIsFresh ==
  ASSUME TokenInv, NEW r \in Rotator, ~ShouldRefresh(Judged(r)), rotator[r].alone,
         ~overlapped, rotator[r].pc \in {"judge", "verify"},
         rotator[r].env.token = NoToken, rotator[r].env.expiry = NoToken
  PROVE  keychain.token > clock + Window /\ keychain.expiry > clock + Window
<1>1. /\ clock \in Nat /\ Window \in Nat /\ keychain \in Keychains /\ ExpiryIsHonest
      /\ rotator[r].token = keychain.token
  BY TokenTimes DEF TokenInv, TokenTypeOK, Holds
<1>2. TokenState(keychain.token, keychain.expiry) = "valid"
  BY <1>1 DEF Judged, Given, ShouldRefresh
<1> DEFINE token == keychain.token
           expiry == keychain.expiry
<1>3. token \in Nat /\ expiry \in Nat BY <1>1 DEF Keychains
<1>4. token # NoToken /\ expiry # NoToken /\ ~(expiry <= clock)
      /\ ~(expiry > clock /\ expiry - clock <= Window)
  BY <1>2 DEF TokenState
<1>5. expiry <= token BY <1>1, <1>4 DEF ExpiryIsHonest
<1> HIDE DEF token, expiry
<1>6. token > clock + Window /\ expiry > clock + Window BY <1>1, <1>3, <1>4, <1>5
<1> QED BY <1>6 DEF token, expiry

(* Only a rotator that judged the token valid exits with 0 in these modes.    *)
LEMMA ZeroWasJudged ==
  ASSUME TokenInv, TokenNext, NEW r \in Rotator, rotator'[r].exit = "0",
         rotator[r].mode \in {"check", "ensure", "force"}
  PROVE  rotator[r].pc \in {"judge", "verify"} /\ ~ShouldRefresh(Judged(r))
<1>0. /\ rotator[r] \in RotatorStates /\ rotator \in [Rotator -> RotatorStates]
      /\ rotator[r].pc \notin {"idle", "done"} /\ rotator[r].exit = "none"
  BY DEF TokenInv, TokenTypeOK, Holds
<1>1. ~Tick BY <1>0 DEF Tick
<1>2. PICK q \in Rotator : RotatorStep(q) \/ RotatorDies(q) BY <1>1 DEF TokenNext
<1>3. q = r
  <2> SUFFICES ASSUME q # r PROVE FALSE OBVIOUS
  <2>1. \/ rotator'[r] = rotator[r]
        \/ \E b \in BOOLEAN : rotator'[r] = [rotator[r] EXCEPT !.alone = b]
    BY <1>0, <1>2 DEF RotatorStep, RotatorDies, BeginRotation, BeginRepair, ReadToken,
       JudgeToken, ExchangeToken, SaveEntry, VerifyToken, RotateAgain, Exits, Phase, Turn
  <2>2. rotator'[r].exit = rotator[r].exit BY <1>0, <2>1 DEF RotatorStates
  <2> QED BY <1>0, <2>2
<1>4. ~BeginRotation(r) /\ ~BeginRepair(r) /\ ~RotateAgain(r)
  BY <1>0 DEF BeginRotation, BeginRepair, RotateAgain
<1>5. ASSUME NEW to, NEW wrote \in BOOLEAN, Turn(r, wrote, to) PROVE to.exit = "0"
  BY <1>5 DEF Turn
<1>6. ASSUME NEW wrote \in BOOLEAN, NEW code, Exits(r, wrote, code) PROVE code = "0"
  <2> DEFINE to == [Fresh EXCEPT !.pc = "done", !.exit = code]
  <2>1. Turn(r, wrote, to) BY <1>6 DEF Exits
  <2>2. to.exit = code BY DEF Fresh
  <2> HIDE DEF to
  <2> QED BY <1>5, <2>1, <2>2
<1>7. ASSUME NEW wrote \in BOOLEAN, NEW pc, Phase(r, wrote, pc) PROVE FALSE
  BY <1>0, <1>5, <1>7 DEF Phase, RotatorStates
<1>8. ~RotatorDies(r) BY <1>6 DEF RotatorDies
<1>9. ~ReadToken(r)
  <2> SUFFICES ASSUME ReadToken(r) PROVE FALSE OBVIOUS
  <2> DEFINE token == Given(rotator[r].env.token, keychain.token)
             pc == IF rotator[r].pc = "before" THEN "judge" ELSE "verify"
             to == [rotator[r] EXCEPT !.token = token, !.pc = pc]
  <2>1. Turn(r, FALSE, to) BY DEF ReadToken
  <2> HIDE DEF token, pc
  <2>2. to.exit = "none" BY <1>0 DEF RotatorStates
  <2> HIDE DEF to
  <2> QED BY <1>5, <2>1, <2>2
<1>10. ~ExchangeToken(r)
  <2> SUFFICES ASSUME NEW expiry,
                 Turn(r, FALSE, [rotator[r] EXCEPT !.pc = "save", !.minted = clock + Life,
                                                   !.expiry = expiry, !.left = Entries])
               PROVE  FALSE
    BY <1>6 DEF ExchangeToken
  <2> DEFINE minted == clock + Life
             to == [rotator[r] EXCEPT !.pc = "save", !.minted = minted,
                                      !.expiry = expiry, !.left = Entries]
  <2>1. Turn(r, FALSE, to) OBVIOUS
  <2> HIDE DEF minted
  <2>2. to.exit = "none" BY <1>0 DEF RotatorStates
  <2> HIDE DEF to
  <2> QED BY <1>5, <2>1, <2>2
<1>11. ~SaveEntry(r)
  <2> SUFFICES ASSUME SaveEntry(r) PROVE FALSE OBVIOUS
  <2> DEFINE rest == Tail(rotator[r].left)
             more == [rotator[r] EXCEPT !.left = rest]
             after == [rotator[r] EXCEPT !.left = rest, !.pc = "after"]
  <2>1. Turn(r, TRUE, more) \/ Turn(r, TRUE, after) BY DEF SaveEntry
  <2>2. more.exit = "none" /\ after.exit = "none" BY <1>0 DEF RotatorStates
  <2> HIDE DEF more, after
  <2> QED BY <1>5, <2>1, <2>2
<1>12. CASE JudgeToken(r)
  BY <1>6, <1>7, <1>12 DEF JudgeToken
<1>13. CASE VerifyToken(r)
  BY <1>6, <1>13 DEF VerifyToken
<1> QED BY <1>2, <1>3, <1>4, <1>8, <1>9, <1>10, <1>11, <1>12, <1>13 DEF RotatorStep

(* However long tokens live and however wide the window is, and whatever     *)
(* rotations, repairs, refused grants and crashes interleave, the keychain   *)
(* never promises a token for longer than the server takes it, and exit 0    *)
(* tells of a token good for more than the window, as long as no two         *)
(* processes were saving at once (writeKeychainSecret's order of writes and  *)
(* the second evaluation of plane-app-token-rotation.mjs).                   *)
THEOREM TokenStaysTrue == TokenSpec => TokenIsTrue
<1>1. TokenInv => ExpiryIsHonest BY DEF TokenInv
<1>2. TokenInv /\ [TokenNext]_tokenVars =>
        [\A r \in Rotator :
          /\ rotator[r].mode \in {"check", "ensure", "force"}
          /\ rotator[r].env.token = NoToken /\ rotator[r].env.expiry = NoToken
          /\ rotator[r].alone /\ ~overlapped /\ rotator'[r].exit = "0"
          => keychain.token > clock + Window /\ keychain.expiry > clock + Window]_tokenVars
  <2> SUFFICES ASSUME TokenInv, TokenNext, NEW r \in Rotator,
                      rotator[r].mode \in {"check", "ensure", "force"},
                      rotator[r].env.token = NoToken, rotator[r].env.expiry = NoToken,
                      rotator[r].alone, ~overlapped, rotator'[r].exit = "0"
               PROVE  keychain.token > clock + Window /\ keychain.expiry > clock + Window
    OBVIOUS
  <2> QED BY ZeroWasJudged, ValidIsFresh
<1> QED BY <1>1, <1>2, TokenInvHolds, PTL DEF TokenSpec, TokenIsTrue, ExitZeroIsFresh

-----------------------------------------------------------------------------
(* KitUpdate: what a plan still says when it is carried out                  *)

Statuses ==
  {"unread", "add", "update", "unchanged", "blocked", "collision", "manual-review"}
UpdaterState ==
  [pc : {"idle", "plan", "copy", "done"}, mode : {"check", "dry-run", "apply"},
   installed : BOOLEAN, n : Nat \ {0}, plan : [Files -> Statuses], alone : BOOLEAN,
   exit : Int]

(* No plan lets a blocked file be copied or an existing reviewed one be      *)
(* replaced, however old it is.                                              *)
PlanIsCareful(plan) ==
  \A f \in Files : /\ KindOf(f) = "blocked" => plan[f] \notin Safe
                   /\ KindOf(f) \in {"local", "manual"} => plan[f] # "update"

(* A plain file is what the clone has.                                       *)
IsCurrent(d, rel, f) == KindOf(f) = "plain" => d[f] = rel

(* As long as nobody else writes, a file the plan will not copy is current,  *)
(* and so is one it has copied.                                              *)
PlanIsTrue(me, d, rel) ==
  /\ me.pc = "plan" /\ me.alone =>
       \A k \in DOMAIN KitFiles :
         k < me.n => me.plan[KitFiles[k]] \in Safe \/ IsCurrent(d, rel, KitFiles[k])
  /\ me.pc = "copy" /\ me.alone =>
       \A k \in DOMAIN KitFiles :
         (k >= me.n /\ me.plan[KitFiles[k]] \in Safe) \/ IsCurrent(d, rel, KitFiles[k])

UpdaterKnows(me, d, rel) ==
  /\ me \in UpdaterState /\ PlanIsCareful(me.plan) /\ PlanIsTrue(me, d, rel)
  /\ me.pc # "done" => me.exit = -1
  /\ me.pc = "idle" => me.n = 1

UpdateInv ==
  /\ release \in Int /\ disk \in [Paths -> Int]
  /\ updater \in [Updater -> UpdaterState]
  /\ BlockedNeverWritten
  /\ \A u \in Updater : UpdaterKnows(updater[u], disk, release)

LEMMA KitPlaces ==
  /\ Len(KitFiles) \in Nat /\ DOMAIN KitFiles = 1..Len(KitFiles)
  /\ \A k \in DOMAIN KitFiles : KitFiles[k] \in Files
  /\ Files \subseteq Paths
  BY KitAssumption DEF Files, Paths

LEMMA ClassifiesCarefully ==
  ASSUME NEW kind, NEW there \in BOOLEAN, NEW same \in BOOLEAN
  PROVE  LET s == ClassifyChange(kind, there, same)
         IN  /\ s \in Statuses \ {"unread"}
             /\ kind = "blocked" => s \notin Safe
             /\ kind \in {"local", "manual"} => s # "update"
             /\ kind = "plain" => s \in Safe \/ same
  BY DEF ClassifyChange, Statuses, Safe

LEMMA NoPlanIsCareful == NoPlan \in [Files -> Statuses] /\ PlanIsCareful(NoPlan)
  BY DEF NoPlan, Statuses, PlanIsCareful, Safe

LEMMA GoneKnows ==
  ASSUME NEW code \in Int, NEW d, NEW rel
  PROVE  UpdaterKnows(Gone(code), d, rel)
<1>1. /\ Gone(code).pc = "done" /\ Gone(code).plan = NoPlan
      /\ Gone(code) \in UpdaterState
  BY NoPlanIsCareful DEF Gone, UpdaterState
<1> QED BY <1>1, NoPlanIsCareful DEF UpdaterKnows, PlanIsTrue

(* Whoever is not alone does not rely on what the others overwrite.           *)
LEMMA DisturbedKnows ==
  ASSUME NEW me \in UpdaterState, NEW d, NEW rel, NEW e, NEW sel,
         UpdaterKnows(me, d, rel)
  PROVE  /\ [me EXCEPT !.alone = FALSE] \in UpdaterState
         /\ UpdaterKnows([me EXCEPT !.alone = FALSE], e, sel)
<1> DEFINE to == [me EXCEPT !.alone = FALSE]
<1>1. /\ to \in UpdaterState /\ to.pc = me.pc /\ to.plan = me.plan /\ to.exit = me.exit
      /\ to.alone = FALSE /\ to.n = me.n
  BY DEF UpdaterState
<1> HIDE DEF to
<1>2. UpdaterKnows(to, e, sel) BY <1>1 DEF UpdaterKnows, PlanIsTrue
<1> QED BY <1>1, <1>2 DEF to

(* A step of one run that writes nothing in clone and workspace.              *)
LEMMA MoveKeeps ==
  ASSUME UpdateInv, NEW u \in Updater, NEW to, Moves(u, to), UNCHANGED <<release, disk>>,
         UpdaterKnows(to, disk, release)
  PROVE  UpdateInv'
<1>1. \A v \in Updater : updater'[v] = IF v = u THEN to ELSE updater[v]
  BY DEF Moves, UpdateInv
<1>2. to \in UpdaterState BY DEF UpdaterKnows
<1>3. updater' \in [Updater -> UpdaterState] BY <1>2 DEF Moves, UpdateInv
<1>4. \A v \in Updater : UpdaterKnows(updater'[v], disk, release) BY <1>1 DEF UpdateInv
<1> QED BY <1>3, <1>4 DEF UpdateInv, BlockedNeverWritten

(* A step that writes: the one who writes, if it is a run, knows what it did. *)
LEMMA WriteKeepsKit ==
  ASSUME UpdateInv, release' \in Int, disk' \in [Paths -> Int], BlockedNeverWritten',
         updater' = [v \in Updater |-> updater'[v]],
         \A v \in Updater : \/ updater'[v] = [updater[v] EXCEPT !.alone = FALSE]
                            \/ UpdaterKnows(updater'[v], disk', release')
  PROVE  UpdateInv'
<1>1. \A v \in Updater :
        updater'[v] \in UpdaterState /\ UpdaterKnows(updater'[v], disk', release')
  <2> SUFFICES ASSUME NEW v \in Updater
               PROVE  /\ updater'[v] \in UpdaterState
                      /\ UpdaterKnows(updater'[v], disk', release')
    OBVIOUS
  <2>1. updater[v] \in UpdaterState /\ UpdaterKnows(updater[v], disk, release)
    BY DEF UpdateInv
  <2>2. CASE updater'[v] = [updater[v] EXCEPT !.alone = FALSE]
    BY <2>1, <2>2, DisturbedKnows
  <2>3. CASE UpdaterKnows(updater'[v], disk', release')
    BY <2>3 DEF UpdaterKnows
  <2> QED BY <2>2, <2>3
<1>2. updater' \in [Updater -> UpdaterState] BY <1>1
<1> QED BY <1>1, <1>2 DEF UpdateInv

LEMMA LeaveKeeps ==
  ASSUME UpdateInv, NEW u \in Updater, NEW code \in Int, Leave(u, code),
         UNCHANGED <<release, disk>>
  PROVE  UpdateInv'
  BY GoneKnows, MoveKeeps DEF Leave

LEMMA StartKeeps ==
  ASSUME UpdateInv, NEW u \in Updater, SourceIsTarget(u) \/ UpdateStart(u)
  PROVE  UpdateInv'
<1>u. UNCHANGED <<release, disk>> /\ updater[u].pc = "idle"
  BY DEF SourceIsTarget, UpdateStart
<1>1. ASSUME NEW code \in {0, 2}, Leave(u, code) PROVE UpdateInv'
  BY <1>u, <1>1, LeaveKeeps
<1>2. ASSUME NEW mode \in {"check", "dry-run", "apply"},
             Moves(u, [updater[u] EXCEPT !.pc = "plan", !.mode = mode, !.alone = TRUE,
                                         !.installed = disk[Record] # Absent])
      PROVE  UpdateInv'
  <2> DEFINE me == updater[u]
             there == disk[Record] # Absent
             to == [me EXCEPT !.pc = "plan", !.mode = mode, !.alone = TRUE, !.installed = there]
  <2>1. me \in UpdaterState /\ UpdaterKnows(me, disk, release) BY DEF UpdateInv
  <2>2. Moves(u, to) /\ there \in BOOLEAN BY <1>2
  <2> HIDE DEF there
  <2>3. /\ to \in UpdaterState /\ to.pc = "plan" /\ to.plan = me.plan /\ to.n = me.n
        /\ to.exit = me.exit
    BY <2>1, <2>2 DEF UpdaterState
  <2> HIDE DEF to
  <2>4. me.n = 1 BY <1>u, <2>1 DEF UpdaterKnows
  <2>5. UpdaterKnows(to, disk, release)
    BY <1>u, <2>1, <2>3, <2>4, KitPlaces DEF UpdaterKnows, PlanIsTrue
  <2> QED BY <1>u, <2>2, <2>5, MoveKeeps
<1>3. \/ \E code \in {0, 2} : Leave(u, code)
      \/ \E mode \in {"check", "dry-run", "apply"} :
            Moves(u, [updater[u] EXCEPT !.pc = "plan", !.mode = mode, !.alone = TRUE,
                                        !.installed = disk[Record] # Absent])
  BY DEF SourceIsTarget, UpdateStart
<1> QED BY <1>1, <1>2, <1>3

LEMMA JudgeFileKeeps ==
  ASSUME UpdateInv, NEW u \in Updater, JudgeFile(u)
  PROVE  UpdateInv'
<1> DEFINE me == updater[u]
           f == File(u)
           same == disk[f] = release
           there == disk[f] # Absent
           s == ClassifyChange(KindOf(f), there, same)
           plan == [me.plan EXCEPT ![f] = s]
           to == [me EXCEPT !.plan = plan, !.n = me.n + 1]
<1>0. /\ me \in UpdaterState /\ UpdaterKnows(me, disk, release) /\ me.pc = "plan"
      /\ me.n \in DOMAIN KitFiles /\ f = KitFiles[me.n] /\ f \in Files
      /\ UNCHANGED <<release, disk>>
  <2>1. /\ me \in UpdaterState /\ UpdaterKnows(me, disk, release) /\ me.pc = "plan"
        /\ me.n <= Len(KitFiles) /\ UNCHANGED <<release, disk>>
    BY DEF UpdateInv, JudgeFile
  <2>2. me.n \in Nat \ {0} BY <2>1 DEF UpdaterState
  <2>3. me.n \in DOMAIN KitFiles BY <2>1, <2>2, KitPlaces
  <2> QED BY <2>1, <2>3, KitPlaces DEF File
<1>1. Moves(u, [updater[u] EXCEPT !.plan[f] = s, !.n = @ + 1]) BY DEF JudgeFile
<1>2. /\ s \in Statuses
      /\ KindOf(f) = "blocked" => s \notin Safe
      /\ KindOf(f) \in {"local", "manual"} => s # "update"
      /\ KindOf(f) = "plain" => s \in Safe \/ same
  <2>1. there \in BOOLEAN /\ same \in BOOLEAN OBVIOUS
  <2> HIDE DEF there, same
  <2> QED BY <2>1, ClassifiesCarefully
<1> HIDE DEF s, f
<1>3. /\ plan \in [Files -> Statuses] /\ me.n \in Nat \ {0}
      /\ \A g \in Files : plan[g] = IF g = f THEN s ELSE me.plan[g]
  BY <1>0, <1>2 DEF UpdaterState
<1>4. Moves(u, to)
  BY <1>0, <1>1 DEF UpdaterState
<1> HIDE DEF plan
<1>5. /\ to \in UpdaterState /\ to.pc = "plan" /\ to.plan = plan /\ to.n = me.n + 1
      /\ to.alone = me.alone /\ to.exit = me.exit
  <2> DEFINE n == me.n + 1
  <2>1. n \in Nat \ {0} /\ me \in UpdaterState /\ me.pc = "plan" BY <1>0, <1>3
  <2> HIDE DEF me, n
  <2>2. to = [me EXCEPT !.plan = plan, !.n = n] BY DEF n
  <2>3. to \in UpdaterState BY <1>3, <2>1, <2>2 DEF UpdaterState
  <2>4. to.pc = "plan" /\ to.plan = plan /\ to.n = n /\ to.alone = me.alone /\ to.exit = me.exit
    BY <2>1, <2>2 DEF UpdaterState
  <2> QED BY <2>3, <2>4 DEF n
<1> HIDE DEF to
<1>6. PlanIsCareful(plan)
  BY <1>0, <1>2, <1>3 DEF PlanIsCareful, UpdaterKnows
<1>7. PlanIsTrue(to, disk, release)
  <2> SUFFICES ASSUME me.alone, NEW k \in DOMAIN KitFiles, k < me.n + 1
               PROVE  plan[KitFiles[k]] \in Safe \/ IsCurrent(disk, release, KitFiles[k])
    BY <1>5 DEF PlanIsTrue
  <2>1. KitFiles[k] \in Files BY KitPlaces
  <2>2. CASE KitFiles[k] = f BY <1>0, <1>2, <1>3, <2>2 DEF IsCurrent
  <2>3. CASE KitFiles[k] # f
    <3>1. k < me.n BY <1>0, <1>3, <2>3, KitPlaces
    <3> QED BY <1>0, <1>3, <2>1, <2>3, <3>1 DEF UpdaterKnows, PlanIsTrue
  <2> QED BY <2>2, <2>3
<1>8. UpdaterKnows(to, disk, release)
  BY <1>0, <1>5, <1>6, <1>7 DEF UpdaterKnows
<1> QED BY <1>0, <1>4, <1>8, MoveKeeps

LEMMA PlanMadeKeeps ==
  ASSUME UpdateInv, NEW u \in Updater, PlanMade(u)
  PROVE  UpdateInv'
<1> DEFINE me == updater[u]
           to == [me EXCEPT !.pc = "copy", !.n = 1]
<1>0. /\ me \in UpdaterState /\ UpdaterKnows(me, disk, release) /\ me.pc = "plan"
      /\ me.n > Len(KitFiles) /\ me.n \in Nat /\ UNCHANGED <<release, disk>>
  BY DEF UpdateInv, PlanMade, UpdaterState
<1>1. \/ \E code \in {0, 2} : Leave(u, code)
      \/ Moves(u, to)
  BY DEF PlanMade
<1>2. /\ to \in UpdaterState /\ to.pc = "copy" /\ to.n = 1 /\ to.plan = me.plan
      /\ to.alone = me.alone /\ to.exit = me.exit
  <2>1. 1 \in Nat \ {0} /\ me \in UpdaterState BY <1>0
  <2> HIDE DEF me
  <2>2. to \in UpdaterState BY <2>1 DEF UpdaterState
  <2> QED BY <2>1, <2>2 DEF UpdaterState
<1> HIDE DEF to
<1>3. PlanIsTrue(to, disk, release)
  <2> SUFFICES ASSUME me.alone, NEW k \in DOMAIN KitFiles
               PROVE  \/ k >= 1 /\ me.plan[KitFiles[k]] \in Safe
                      \/ IsCurrent(disk, release, KitFiles[k])
    BY <1>2 DEF PlanIsTrue
  <2>1. k < me.n /\ k >= 1 BY <1>0, KitPlaces
  <2> QED BY <1>0, <2>1 DEF UpdaterKnows, PlanIsTrue
<1>4. UpdaterKnows(to, disk, release) BY <1>0, <1>2, <1>3 DEF UpdaterKnows
<1> QED BY <1>0, <1>1, <1>4, MoveKeeps, LeaveKeeps

(* What a run copies is not blocked.                                          *)
LEMMA SafeIsNotBlocked ==
  ASSUME UpdateInv, NEW u \in Updater, NEW f \in Files, updater[u].plan[f] \in Safe, NEW c \in Int,
         disk' = [disk EXCEPT ![f] = c]
  PROVE  /\ BlockedNeverWritten' /\ disk' \in [Paths -> Int] /\ disk'[f] = c
         /\ \A g \in Paths : g # f => disk'[g] = disk[g]
<1>1. KindOf(f) # "blocked" BY DEF UpdateInv, UpdaterKnows, PlanIsCareful
<1>2. f \in Paths BY KitPlaces
<1>3. /\ disk' \in [Paths -> Int] /\ disk'[f] = c
      /\ \A g \in Paths : g # f => disk'[g] = disk[g]
  BY <1>2 DEF UpdateInv
<1>4. BlockedNeverWritten'
  BY <1>1, <1>3, KitPlaces DEF UpdateInv, BlockedNeverWritten
<1> QED BY <1>3, <1>4

LEMMA CopyFileKeeps ==
  ASSUME UpdateInv, NEW u \in Updater, CopyFile(u)
  PROVE  UpdateInv'
<1> DEFINE me == updater[u]
           f == File(u)
           to == [me EXCEPT !.n = me.n + 1]
<1>0. /\ me \in UpdaterState /\ UpdaterKnows(me, disk, release) /\ me.pc = "copy"
      /\ me.n \in DOMAIN KitFiles /\ f = KitFiles[me.n] /\ f \in Files /\ me.n \in Nat
      /\ release' = release /\ release \in Int
  <2>1. /\ me \in UpdaterState /\ UpdaterKnows(me, disk, release) /\ me.pc = "copy"
        /\ me.n <= Len(KitFiles) /\ release' = release /\ release \in Int
    BY DEF UpdateInv, CopyFile
  <2>2. me.n \in Nat \ {0} BY <2>1 DEF UpdaterState
  <2>3. me.n \in DOMAIN KitFiles BY <2>1, <2>2, KitPlaces
  <2> QED BY <2>1, <2>2, <2>3, KitPlaces DEF File
<1>1. /\ to \in UpdaterState /\ to.pc = "copy" /\ to.n = me.n + 1 /\ to.plan = me.plan
      /\ to.alone = me.alone /\ to.exit = me.exit
  BY <1>0 DEF UpdaterState
<1>2. ASSUME NEW d, me.plan[f] \in Safe => IsCurrent(d, release, f),
             \A g \in Files : g # f => d[g] = disk[g],
             me.plan[f] \notin Safe => d = disk
      PROVE  UpdaterKnows(to, d, release)
  <2> HIDE DEF to
  <2>1. PlanIsTrue(to, d, release)
    <3> SUFFICES ASSUME me.alone, NEW k \in DOMAIN KitFiles
                 PROVE  \/ k >= me.n + 1 /\ me.plan[KitFiles[k]] \in Safe
                        \/ IsCurrent(d, release, KitFiles[k])
      BY <1>1 DEF PlanIsTrue
    <3>1. KitFiles[k] \in Files /\ k \in Nat BY KitPlaces
    <3>2. \/ k >= me.n /\ me.plan[KitFiles[k]] \in Safe
          \/ IsCurrent(disk, release, KitFiles[k])
      BY <1>0 DEF UpdaterKnows, PlanIsTrue
    <3>3. CASE KitFiles[k] = f BY <1>0, <1>2, <3>2, <3>3
    <3>4. CASE KitFiles[k] # f
      <4>1. d[KitFiles[k]] = disk[KitFiles[k]] BY <1>2, <3>1, <3>4
      <4>2. k >= me.n => k >= me.n + 1 BY <1>0, <3>1, <3>4
      <4> QED BY <3>2, <4>1, <4>2 DEF IsCurrent
    <3> QED BY <3>3, <3>4
  <2> QED BY <1>0, <1>1, <2>1 DEF UpdaterKnows
<1>3. CASE me.plan[f] \notin Safe
  <2>1. disk' = disk /\ Moves(u, to) BY <1>3 DEF CopyFile
  <2> HIDE DEF to
  <2>2. UpdaterKnows(to, disk, release) BY <1>2, <1>3
  <2> QED BY <1>0, <2>1, <2>2, MoveKeeps
<1>4. CASE me.plan[f] \in Safe
  <2>1. disk' = [disk EXCEPT ![f] = release] /\ updater' = [Seen(u) EXCEPT ![u].n = @ + 1]
    BY <1>4 DEF CopyFile
  <2>2. /\ BlockedNeverWritten' /\ disk' \in [Paths -> Int] /\ disk'[f] = release
        /\ \A g \in Paths : g # f => disk'[g] = disk[g]
    BY <1>0, <1>4, <2>1, SafeIsNotBlocked
  <2>3. /\ updater' = [v \in Updater |-> updater'[v]] /\ updater'[u] = to
        /\ \A v \in Updater : v # u => updater'[v] = [updater[v] EXCEPT !.alone = FALSE]
    BY <2>1 DEF Seen
  <2> HIDE DEF to
  <2>4. UpdaterKnows(to, disk', release)
    BY <1>2, <1>4, <2>2, KitPlaces DEF IsCurrent
  <2> QED BY <1>0, <2>2, <2>3, <2>4, WriteKeepsKit
<1> QED BY <1>3, <1>4

LEMMA UpdateDiesKeeps ==
  ASSUME UpdateInv, NEW u \in Updater, UpdateDies(u)
  PROVE  UpdateInv'
<1>1. CASE Leave(u, 1) /\ UNCHANGED disk
  BY <1>1, LeaveKeeps DEF UpdateDies
<1>2. CASE /\ updater[u].n <= Len(KitFiles)
           /\ updater[u].plan[File(u)] \in Safe
           /\ disk' = [disk EXCEPT ![File(u)] = Torso]
           /\ updater' = [Seen(u) EXCEPT ![u] = Gone(1)]
  <2>1. File(u) \in Files
    <3>1. updater[u].n \in Nat \ {0} BY DEF UpdateInv, UpdaterState
    <3> QED BY <1>2, <3>1, KitPlaces DEF File
  <2>2. BlockedNeverWritten' /\ disk' \in [Paths -> Int]
    <3>1. Torso \in Int BY DEF Torso
    <3> QED BY <1>2, <2>1, <3>1, SafeIsNotBlocked
  <2>3. /\ updater' = [v \in Updater |-> updater'[v]] /\ updater'[u] = Gone(1)
        /\ \A v \in Updater : v # u => updater'[v] = [updater[v] EXCEPT !.alone = FALSE]
    BY <1>2 DEF Seen
  <2>4. release' = release /\ release \in Int BY DEF UpdateDies, UpdateInv
  <2> QED BY <2>2, <2>3, <2>4, GoneKnows, WriteKeepsKit
<1> QED BY <1>1, <1>2 DEF UpdateDies

LEMMA AroundKeeps ==
  ASSUME UpdateInv, PullSource \/ \E f \in Paths : EditFile(f)
  PROVE  UpdateInv'
<1>1. /\ updater' = [v \in Updater |-> updater'[v]]
      /\ \A v \in Updater : updater'[v] = [updater[v] EXCEPT !.alone = FALSE]
  BY DEF PullSource, EditFile
<1>2. CASE PullSource
  <2>1. release' \in Int /\ disk' = disk BY <1>2 DEF PullSource, UpdateInv
  <2> QED BY <1>1, <2>1, WriteKeepsKit DEF UpdateInv, BlockedNeverWritten
<1>3. ASSUME NEW f \in Paths, EditFile(f) PROVE UpdateInv'
  <2>1. /\ disk' = [disk EXCEPT ![f] = Mine] /\ release' = release /\ Mine \in Int
        /\ disk \in [Paths -> Int] /\ release \in Int
    BY <1>3 DEF EditFile, UpdateInv, Mine
  <2>2. disk' \in [Paths -> Int] /\ \A g \in Paths : disk'[g] = IF g = f THEN Mine ELSE disk[g]
    BY <2>1
  <2>3. BlockedNeverWritten'
    BY <2>2, KitPlaces DEF BlockedNeverWritten, UpdateInv
  <2> QED BY <1>1, <2>1, <2>2, <2>3, WriteKeepsKit
<1> QED BY <1>2, <1>3

LEMMA UpdateInvHolds == UpdateSpec => []UpdateInv
<1>1. UpdateInit => UpdateInv
  <2> SUFFICES ASSUME UpdateInit PROVE UpdateInv OBVIOUS
  <2> DEFINE me == [pc |-> "idle", mode |-> "check", installed |-> FALSE, n |-> 1,
                    plan |-> NoPlan, alone |-> TRUE, exit |-> -1]
  <2>1. me \in UpdaterState BY NoPlanIsCareful DEF UpdaterState
  <2>2. me.pc = "idle" /\ me.plan = NoPlan /\ me.exit = -1 /\ me.n = 1 OBVIOUS
  <2>3. updater = [u \in Updater |-> me] BY DEF UpdateInit
  <2> HIDE DEF me
  <2>4. UpdaterKnows(me, disk, release)
    BY <2>1, <2>2, NoPlanIsCareful DEF UpdaterKnows, PlanIsTrue
  <2>5. disk \in [Paths -> Int] /\ BlockedNeverWritten
    BY KitPlaces DEF UpdateInit, Old, Absent, BlockedNeverWritten
  <2>6. release \in Int BY DEF UpdateInit
  <2> QED BY <2>1, <2>3, <2>4, <2>5, <2>6 DEF UpdateInv
<1>2. UpdateInv /\ [UpdateNext]_updateVars => UpdateInv'
  <2> SUFFICES ASSUME UpdateInv, [UpdateNext]_updateVars PROVE UpdateInv' OBVIOUS
  <2>1. CASE UNCHANGED updateVars BY <2>1 DEF updateVars, UpdateInv, BlockedNeverWritten
  <2>2. ASSUME NEW u \in Updater, ReportUpdate(u) PROVE UpdateInv'
    BY <2>2, LeaveKeeps DEF ReportUpdate
  <2> QED BY <2>1, <2>2, StartKeeps, JudgeFileKeeps, PlanMadeKeeps, CopyFileKeeps,
             UpdateDiesKeeps, AroundKeeps
      DEF UpdateNext, UpdaterStep
<1> QED BY <1>1, <1>2, PTL DEF UpdateSpec

LEMMA ReviewedFileStays ==
  ASSUME UpdateInv, UpdateNext, NEW f \in Files, KindOf(f) \in {"local", "manual"},
         disk'[f] # disk[f]
  PROVE  disk'[f] = Mine \/ \E u \in Updater : updater[u].plan[f] = "add"
<1>1. ASSUME NEW u \in Updater, updater[u].plan[f] \in Safe
      PROVE  updater[u].plan[f] = "add"
  BY <1>1 DEF UpdateInv, UpdaterKnows, PlanIsCareful, Safe
<1>2. ASSUME NEW u \in Updater, CopyFile(u) \/ UpdateDies(u)
      PROVE  updater[u].plan[f] \in Safe
  <2>1. PICK c : updater[u].plan[File(u)] \in Safe /\ disk' = [disk EXCEPT ![File(u)] = c]
    BY <1>2 DEF CopyFile, UpdateDies
  <2>2. File(u) = f BY <2>1, KitPlaces DEF UpdateInv
  <2> QED BY <2>1, <2>2
<1>3. ASSUME NEW g \in Paths, EditFile(g) PROVE disk'[f] = Mine
  BY <1>3, KitPlaces DEF EditFile, UpdateInv
<1>4. \/ \E u \in Updater : CopyFile(u) \/ UpdateDies(u)
      \/ \E g \in Paths : EditFile(g)
  BY DEF UpdateNext, UpdaterStep, SourceIsTarget, UpdateStart, JudgeFile, PlanMade,
         ReportUpdate, PullSource
<1> QED BY <1>1, <1>2, <1>3, <1>4

LEMMA PassIsCurrent ==
  ASSUME UpdateInv, UpdateNext, NEW u \in Updater, updater'[u].exit = 0,
         updater[u].pc = "copy", updater[u].alone, NEW f \in Files, KindOf(f) = "plain"
  PROVE  disk'[f] = release'
<1>0. /\ updater[u] \in UpdaterState /\ UpdaterKnows(updater[u], disk, release)
      /\ updater[u].exit = -1 /\ updater \in [Updater -> UpdaterState]
  BY DEF UpdateInv, UpdaterKnows
<1>1. ASSUME NEW v \in Updater, UpdaterStep(v) \/ UpdateDies(v) PROVE v = u
  <2> SUFFICES ASSUME v # u PROVE FALSE OBVIOUS
  <2>1. updater'[u] = updater[u] \/ updater'[u] = [updater[u] EXCEPT !.alone = FALSE]
    BY <1>0, <1>1 DEF UpdaterStep, SourceIsTarget, UpdateStart, JudgeFile, PlanMade, CopyFile,
       ReportUpdate, UpdateDies, Moves, Leave, Seen
  <2>2. updater'[u].exit = -1 BY <1>0, <2>1 DEF UpdaterState
  <2> QED BY <2>2
<1>2. ~PullSource /\ \A g \in Paths : ~EditFile(g)
  <2> SUFFICES ASSUME PullSource \/ \E g \in Paths : EditFile(g) PROVE FALSE OBVIOUS
  <2>1. updater'[u] = [updater[u] EXCEPT !.alone = FALSE] BY DEF PullSource, EditFile
  <2>2. updater'[u].exit = -1 BY <1>0, <2>1 DEF UpdaterState
  <2> QED BY <2>2
<1>3. UpdaterStep(u) \/ UpdateDies(u) BY <1>1, <1>2 DEF UpdateNext
<1>4. ~CopyFile(u)
  <2> SUFFICES ASSUME CopyFile(u) PROVE FALSE OBVIOUS
  <2> DEFINE to == [updater[u] EXCEPT !.n = updater[u].n + 1]
  <2>1. updater'[u] = to BY <1>0 DEF CopyFile, Moves, Seen
  <2>2. to.exit = -1 BY <1>0 DEF UpdaterState
  <2> QED BY <2>1, <2>2
<1>5. ~UpdateDies(u)
  <2> SUFFICES ASSUME UpdateDies(u) PROVE FALSE OBVIOUS
  <2>1. updater'[u] = Gone(1) BY <1>0 DEF UpdateDies, Leave, Moves, Seen
  <2> QED BY <2>1 DEF Gone
<1>6. ReportUpdate(u)
  BY <1>3, <1>4, <1>5 DEF UpdaterStep, SourceIsTarget, UpdateStart, JudgeFile, PlanMade
<1>7. updater[u].n > Len(KitFiles) /\ updater[u].n \in Nat /\ disk' = disk /\ release' = release
  BY <1>0, <1>6 DEF ReportUpdate, UpdaterState
<1>8. PICK k \in DOMAIN KitFiles : KitFiles[k] = f BY DEF Files
<1>9. ~(k >= updater[u].n) BY <1>7, KitPlaces
<1>10. IsCurrent(disk, release, f) BY <1>0, <1>8, <1>9 DEF UpdaterKnows, PlanIsTrue
<1> QED BY <1>7, <1>10 DEF IsCurrent

(* For any kit, any number of updaters, pulls and edits, and wherever a run  *)
(* dies: what is blocked is never written, what is to be reviewed is only    *)
(* replaced by a run that had found it absent, and a run that exits with 0   *)
(* after an apply nobody disturbed has left the plain files of the kit as    *)
(* the clone has them (classifyChange, applyCompanyOsUpdate).                *)
THEOREM UpdatesStayFaithful == UpdateSpec => UpdateIsFaithful
<1>1. UpdateInv => BlockedNeverWritten BY DEF UpdateInv
<1>2. UpdateInv /\ [UpdateNext]_updateVars =>
        [\A f \in Files : /\ KindOf(f) \in {"local", "manual"}
                          /\ disk[f] \in {Old, Mine} /\ disk'[f] # disk[f]
            => disk'[f] = Mine \/ \E u \in Updater : updater[u].plan[f] = "add"]_updateVars
  BY ReviewedFileStays
<1>3. UpdateInv /\ [UpdateNext]_updateVars =>
        [\A u \in Updater :
            /\ updater[u].pc # "done" /\ updater'[u].exit = 0
            /\ updater[u].pc = "copy" /\ updater[u].alone
            => \A f \in Files : KindOf(f) = "plain" => disk'[f] = release']_updateVars
  BY PassIsCurrent
<1> QED BY <1>1, <1>2, <1>3, UpdateInvHolds, PTL
    DEF UpdateSpec, UpdateIsFaithful, ReviewedFilesStay, PassMeansCurrent

-----------------------------------------------------------------------------
(* GitMirror: what a run that was left alone knows of the repositories       *)

RepoState ==
  [head : {"main", "feature", "detached"}, main : SUBSET Commit, tracking : SUBSET Commit,
   at : SUBSET Commit, feature : SUBSET Commit, dirty : BOOLEAN, stash : BOOLEAN]
SyncPlans == {"unread", "skip", "sync", "noop", "synced"}
MirrorState ==
  [pc : {"idle", "done"}, plan : [Workspace -> SyncPlans], now : SUBSET Workspace,
   step : 1..4, alone : BOOLEAN, exit : Int]
CloserState ==
  [pc : {"idle", "done"}, read : SUBSET Workspace, blocked : BOOLEAN, alone : BOOLEAN,
   exit : Int]

Mirrored(r) == r.head = "main" /\ r.main = r.tracking
WorkSettled(r) == ~r.dirty /\ ~r.stash /\ Mirrored(r)

(* What a mirror run has finished is mirrored, and before the last command   *)
(* of a workspace the branch is where it is to be.                           *)
MirrorKnows(me, rs) ==
  /\ me.pc = "idle" => me.exit = -1
  /\ me.now = {} => me.step = 1
  /\ (\E w \in Workspace : me.plan[w] = "unread") => me.now = {}
  /\ me.alone => \A w \in Workspace : me.plan[w] = "synced" => Mirrored(rs[w])
  /\ me.alone /\ me.step = 4 => \A w \in me.now : rs[w].main = rs[w].tracking

(* What a session close has read without a blocker is settled.               *)
CloserKnows(me, rs) ==
  /\ me.pc = "idle" => me.exit = -1
  /\ me.alone /\ ~me.blocked => \A w \in me.read : WorkSettled(rs[w])

GitTypeOK ==
  /\ repo \in [Workspace -> RepoState] /\ server \in [Workspace -> SUBSET Commit]
  /\ mirror \in [Mirror -> MirrorState] /\ closer \in [Closer -> CloserState]
GitInv ==
  /\ GitTypeOK
  /\ \A p \in Mirror : MirrorKnows(mirror[p], repo)
  /\ \A p \in Closer : CloserKnows(closer[p], repo)

LEMMA MirrorDisturbed ==
  ASSUME NEW me \in MirrorState, NEW rs, NEW new, MirrorKnows(me, rs)
  PROVE  /\ [me EXCEPT !.alone = FALSE] \in MirrorState
         /\ MirrorKnows([me EXCEPT !.alone = FALSE], new)
<1> DEFINE to == [me EXCEPT !.alone = FALSE]
<1>1. /\ to \in MirrorState /\ to.pc = me.pc /\ to.plan = me.plan /\ to.now = me.now
      /\ to.step = me.step /\ to.exit = me.exit /\ ~to.alone
  BY DEF MirrorState
<1> HIDE DEF to
<1>2. MirrorKnows(to, new) BY <1>1 DEF MirrorKnows
<1> QED BY <1>1, <1>2 DEF to

LEMMA CloserDisturbed ==
  ASSUME NEW me \in CloserState, NEW rs, NEW new, CloserKnows(me, rs)
  PROVE  /\ [me EXCEPT !.alone = FALSE] \in CloserState
         /\ CloserKnows([me EXCEPT !.alone = FALSE], new)
<1> DEFINE to == [me EXCEPT !.alone = FALSE]
<1>1. /\ to \in CloserState /\ to.pc = me.pc /\ to.exit = me.exit /\ ~to.alone
  BY DEF CloserState
<1> HIDE DEF to
<1>2. CloserKnows(to, new) BY <1>1 DEF CloserKnows
<1> QED BY <1>1, <1>2 DEF to

(* Every run either knows where it stands after a step, or has been disturbed. *)
LEMMA GitStepKeeps ==
  ASSUME GitInv, repo' \in [Workspace -> RepoState],
         server' \in [Workspace -> SUBSET Commit],
         mirror' = [q \in Mirror |-> mirror'[q]], closer' = [q \in Closer |-> closer'[q]],
         \A q \in Mirror : \/ mirror'[q] = [mirror[q] EXCEPT !.alone = FALSE]
                           \/ mirror'[q] \in MirrorState /\ MirrorKnows(mirror'[q], repo'),
         \A q \in Closer : \/ closer'[q] = [closer[q] EXCEPT !.alone = FALSE]
                           \/ closer'[q] \in CloserState /\ CloserKnows(closer'[q], repo')
  PROVE  GitInv'
<1>1. \A q \in Mirror : mirror'[q] \in MirrorState /\ MirrorKnows(mirror'[q], repo')
  <2> SUFFICES ASSUME NEW q \in Mirror, mirror'[q] = [mirror[q] EXCEPT !.alone = FALSE]
               PROVE  mirror'[q] \in MirrorState /\ MirrorKnows(mirror'[q], repo')
    OBVIOUS
  <2>1. mirror[q] \in MirrorState /\ MirrorKnows(mirror[q], repo) BY DEF GitInv, GitTypeOK
  <2> QED BY <2>1, MirrorDisturbed
<1>2. \A q \in Closer : closer'[q] \in CloserState /\ CloserKnows(closer'[q], repo')
  <2> SUFFICES ASSUME NEW q \in Closer, closer'[q] = [closer[q] EXCEPT !.alone = FALSE]
               PROVE  closer'[q] \in CloserState /\ CloserKnows(closer'[q], repo')
    OBVIOUS
  <2>1. closer[q] \in CloserState /\ CloserKnows(closer[q], repo) BY DEF GitInv, GitTypeOK
  <2> QED BY <2>1, CloserDisturbed
<1>3. mirror' \in [Mirror -> MirrorState] BY <1>1
<1>4. closer' \in [Closer -> CloserState] BY <1>2
<1> QED BY <1>1, <1>2, <1>3, <1>4 DEF GitInv, GitTypeOK

LEMMA AllSeeIt ==
  ASSUME GitInv, OthersSee(mirror, closer)
  PROVE  /\ mirror' = [q \in Mirror |-> mirror'[q]] /\ closer' = [q \in Closer |-> closer'[q]]
         /\ \A q \in Mirror : mirror'[q] = [mirror[q] EXCEPT !.alone = FALSE]
         /\ \A q \in Closer : closer'[q] = [closer[q] EXCEPT !.alone = FALSE]
  BY DEF OthersSee

LEMMA NobodyMoves ==
  ASSUME GitInv, UNCHANGED <<repo, mirror>>
  PROVE  /\ mirror' = [q \in Mirror |-> mirror'[q]]
         /\ \A q \in Mirror : mirror'[q] \in MirrorState /\ MirrorKnows(mirror'[q], repo')
  BY DEF GitInv, GitTypeOK
LEMMA NobodyCloses ==
  ASSUME GitInv, UNCHANGED <<repo, closer>>
  PROVE  /\ closer' = [q \in Closer |-> closer'[q]]
         /\ \A q \in Closer : closer'[q] \in CloserState /\ CloserKnows(closer'[q], repo')
  BY DEF GitInv, GitTypeOK

-----------------------------------------------------------------------------
LEMMA WorkingKeeps ==
  ASSUME GitInv, NEW w \in Workspace, NEW r \in RepoState, Working(w, r)
  PROVE  GitInv'
<1>1. repo' \in [Workspace -> RepoState] /\ server' \in [Workspace -> SUBSET Commit]
  BY DEF Working, GitInv, GitTypeOK
<1>2. OthersSee(mirror, closer) BY DEF Working
<1> QED BY <1>1, <1>2, AllSeeIt, GitStepKeeps

LEMMA PeopleKeep ==
  ASSUME GitInv, NEW w \in Workspace,
         \/ EditWorktree(w) \/ CommitWork(w) \/ StashWork(w) \/ SwitchBranch(w)
         \/ PushMain(w) \/ OthersPush(w)
  PROVE  GitInv'
<1> DEFINE r == repo[w]
<1>0. r \in RepoState BY DEF GitInv, GitTypeOK
<1>1. CASE EditWorktree(w)
  <2>1. [r EXCEPT !.dirty = TRUE] \in RepoState BY <1>0 DEF RepoState
  <2> QED BY <1>1, <2>1, WorkingKeeps DEF EditWorktree
<1>2. CASE CommitWork(w)
  <2>1. PICK c \in Commit \ Made, branch \in {"main", "at", "feature"} :
          Working(w, [r EXCEPT ![branch] = @ \cup {c}, !.dirty = FALSE])
    BY <1>2 DEF CommitWork
  <2>2. c \in Commit OBVIOUS
  <2>3. [r EXCEPT ![branch] = @ \cup {c}, !.dirty = FALSE] \in RepoState
    <3>1. CASE branch = "main"
      <4>1. r.main \cup {c} \in SUBSET Commit BY <1>0, <2>2 DEF RepoState
      <4> QED BY <1>0, <3>1, <4>1 DEF RepoState
    <3>2. CASE branch = "at"
      <4>1. r.at \cup {c} \in SUBSET Commit BY <1>0, <2>2 DEF RepoState
      <4> QED BY <1>0, <3>2, <4>1 DEF RepoState
    <3>3. CASE branch = "feature"
      <4>1. r.feature \cup {c} \in SUBSET Commit BY <1>0, <2>2 DEF RepoState
      <4> QED BY <1>0, <3>3, <4>1 DEF RepoState
    <3> QED BY <3>1, <3>2, <3>3
  <2> QED BY <2>1, <2>3, WorkingKeeps
<1>3. CASE StashWork(w)
  <2>1. [r EXCEPT !.dirty = FALSE, !.stash = TRUE] \in RepoState BY <1>0 DEF RepoState
  <2> QED BY <1>3, <2>1, WorkingKeeps DEF StashWork
<1>4. CASE SwitchBranch(w)
  <2>1. PICK branch \in {"main", "feature"} : Working(w, [r EXCEPT !.head = branch, !.at = {}])
    BY <1>4 DEF SwitchBranch
  <2>2. [r EXCEPT !.head = branch, !.at = {}] \in RepoState BY <1>0 DEF RepoState
  <2> QED BY <2>1, <2>2, WorkingKeeps
<1>5. CASE PushMain(w)
  <2>1. r.main \in SUBSET Commit BY <1>0 DEF RepoState
  <2>2. [r EXCEPT !.tracking = r.main] \in RepoState BY <1>0, <2>1 DEF RepoState
  <2>3. repo' = [repo EXCEPT ![w] = [r EXCEPT !.tracking = r.main]]
    BY <1>5 DEF PushMain, GitInv, GitTypeOK
  <2>4. repo' \in [Workspace -> RepoState] BY <2>2, <2>3 DEF GitInv, GitTypeOK
  <2>5. server' \in [Workspace -> SUBSET Commit] BY <1>5, <2>1 DEF PushMain, GitInv, GitTypeOK
  <2>6. OthersSee(mirror, closer) BY <1>5 DEF PushMain
  <2> QED BY <2>4, <2>5, <2>6, AllSeeIt, GitStepKeeps
<1>6. CASE OthersPush(w)
  <2>1. PICK c \in Commit : server' = [server EXCEPT ![w] = @ \cup {c}]
    BY <1>6 DEF OthersPush
  <2>2. server' \in [Workspace -> SUBSET Commit] BY <2>1 DEF GitInv, GitTypeOK
  <2> QED BY <1>6, <2>2, NobodyMoves, NobodyCloses DEF OthersPush, GitInv, GitTypeOK
<1> QED BY <1>1, <1>2, <1>3, <1>4, <1>5, <1>6

-----------------------------------------------------------------------------
(* The mirror run *)

LEMMA OwnMirrorKeeps ==
  ASSUME GitInv, NEW p \in Mirror, NEW to \in MirrorState, mirror' = [mirror EXCEPT ![p] = to],
         UNCHANGED <<repo, server, closer>>, MirrorKnows(to, repo)
  PROVE  GitInv'
<1>1. \A q \in Mirror : mirror'[q] = IF q = p THEN to ELSE mirror[q] BY DEF GitInv, GitTypeOK
<1>2. mirror' \in [Mirror -> MirrorState] BY DEF GitInv, GitTypeOK
<1> QED BY <1>1, <1>2 DEF GitInv, GitTypeOK

LEMMA PlansToSync == \A g : PlanWorkspaceSync(g) \in {"skip", "sync", "noop"}
  BY DEF PlanWorkspaceSync

LEMMA MirrorInspectsKeeps ==
  ASSUME GitInv, NEW p \in Mirror, NEW w \in Workspace, MirrorInspects(p, w)
  PROVE  GitInv'
<1> DEFINE me == mirror[p]
           first == \A v \in Workspace : mirror[p].plan[v] = "unread"
<1>1. PICK broken \in SUBSET Reads :
        mirror' = [mirror EXCEPT ![p].plan[w] = PlanWorkspaceSync(InspectGit(repo[w], broken)),
                                 ![p].alone = @ \/ first]
  BY DEF MirrorInspects
<1> DEFINE s == PlanWorkspaceSync(InspectGit(repo[w], broken))
           plan == [me.plan EXCEPT ![w] = s]
           alone == me.alone \/ first
           to == [me EXCEPT !.plan = plan, !.alone = alone]
<1>0. /\ me \in MirrorState /\ MirrorKnows(me, repo) /\ me.pc = "idle"
      /\ me.plan[w] = "unread" /\ mirror \in [Mirror -> MirrorState]
  BY DEF GitInv, GitTypeOK, MirrorInspects
<1>2. s \in {"skip", "sync", "noop"} BY PlansToSync
<1> HIDE DEF s
<1>3. /\ plan \in [Workspace -> SyncPlans] /\ me.plan \in [Workspace -> SyncPlans]
      /\ \A v \in Workspace : plan[v] = IF v = w THEN s ELSE me.plan[v]
  BY <1>0, <1>2 DEF MirrorState, SyncPlans
<1>4. mirror' = [mirror EXCEPT ![p] = to] BY <1>0, <1>1 DEF MirrorState, s
<1>5. alone \in BOOLEAN /\ (alone => me.alone \/ first) BY <1>0 DEF MirrorState
<1>6. first => \A v \in Workspace : me.plan[v] # "synced" OBVIOUS
<1> HIDE DEF plan, alone, first
<1>7. /\ to \in MirrorState /\ to.pc = "idle" /\ to.plan = plan /\ to.now = me.now
      /\ to.step = me.step /\ to.alone = alone /\ to.exit = me.exit
  BY <1>0, <1>3, <1>5 DEF MirrorState
<1> HIDE DEF to
<1>8. me.now = {} /\ me.step = 1 /\ me.exit = -1 BY <1>0 DEF MirrorKnows
<1>9. alone => \A v \in Workspace : plan[v] = "synced" => Mirrored(repo[v])
  BY <1>0, <1>2, <1>3, <1>5, <1>6 DEF MirrorKnows
<1>10. MirrorKnows(to, repo) BY <1>7, <1>8, <1>9 DEF MirrorKnows
<1> QED BY <1>4, <1>7, <1>10, OwnMirrorKeeps DEF MirrorInspects

LEMMA MirrorStopsKeeps ==
  ASSUME GitInv, NEW p \in Mirror, NEW code \in {0, 2},
         mirror' = [mirror EXCEPT ![p].pc = "done", ![p].exit = code],
         UNCHANGED <<repo, server, closer>>
  PROVE  GitInv'
<1> DEFINE me == mirror[p]
           to == [me EXCEPT !.pc = "done", !.exit = code]
<1>0. me \in MirrorState /\ MirrorKnows(me, repo) /\ mirror \in [Mirror -> MirrorState]
  BY DEF GitInv, GitTypeOK
<1>1. mirror' = [mirror EXCEPT ![p] = to] BY <1>0 DEF MirrorState
<1> HIDE DEF me
<1>e. code \in Int OBVIOUS
<1>m. to \in MirrorState BY <1>0, <1>e DEF MirrorState
<1>n. /\ to.pc = "done" /\ to.plan = me.plan /\ to.now = me.now
      /\ to.step = me.step /\ to.alone = me.alone
  BY <1>0 DEF MirrorState
<1>2. /\ to \in MirrorState /\ to.pc = "done" /\ to.plan = me.plan /\ to.now = me.now
      /\ to.step = me.step /\ to.alone = me.alone
  BY <1>m, <1>n
<1> HIDE DEF to
<1>3. MirrorKnows(to, repo) BY <1>0, <1>2 DEF MirrorKnows
<1> QED BY <1>1, <1>2, <1>3, OwnMirrorKeeps

(* What one of the four commands does to the repository it runs in.           *)
LEMMA CommandRuns ==
  ASSUME GitInv, NEW w \in Workspace, NEW n \in 1..4, GitAllows(MainMirrorCommands[n], repo[w])
  PROVE  LET r == GitRuns(MainMirrorCommands[n], w)
         IN  /\ r \in RepoState
             /\ n = 3 => r.main = r.tracking
             /\ n = 4 => r.head = "main" /\ r.main = repo[w].main /\ r.tracking = repo[w].tracking
<1> DEFINE r == repo[w]
<1>0. /\ r \in RepoState /\ server[w] \in SUBSET Commit BY DEF GitInv, GitTypeOK
<1>f. r.tracking \in SUBSET Commit BY <1>0 DEF RepoState
<1>1. CASE n = 1
  <2>1. GitRuns(MainMirrorCommands[n], w) = [r EXCEPT !.tracking = server[w]]
    BY <1>1 DEF GitRuns, MainMirrorCommands
  <2>2. [r EXCEPT !.tracking = server[w]] \in RepoState BY <1>0 DEF RepoState
  <2> QED BY <1>1, <2>1, <2>2
<1>2. CASE n = 2
  <2>1. GitRuns(MainMirrorCommands[n], w) = [r EXCEPT !.head = "detached", !.at = r.tracking]
    BY <1>2 DEF GitRuns, MainMirrorCommands
  <2>2. [r EXCEPT !.head = "detached", !.at = r.tracking] \in RepoState
    BY <1>0, <1>f DEF RepoState
  <2> QED BY <1>2, <2>1, <2>2
<1>3. CASE n = 3
  <2> DEFINE to == [r EXCEPT !.main = r.tracking]
  <2>1. GitRuns(MainMirrorCommands[n], w) = to
    BY <1>3 DEF GitRuns, MainMirrorCommands
  <2>2. to \in RepoState /\ to.main = to.tracking BY <1>0, <1>f DEF RepoState
  <2> QED BY <1>3, <2>1, <2>2
<1>4. CASE n = 4
  <2> DEFINE to == [r EXCEPT !.head = "main", !.at = {}]
  <2>1. GitRuns(MainMirrorCommands[n], w) = to
    BY <1>4 DEF GitRuns, MainMirrorCommands
  <2>2. to \in RepoState /\ to.head = "main" /\ to.main = r.main /\ to.tracking = r.tracking
    BY <1>0 DEF RepoState
  <2> QED BY <1>4, <2>1, <2>2
<1> QED BY <1>1, <1>2, <1>3, <1>4

LEMMA MirrorCommandKeeps ==
  ASSUME GitInv, NEW p \in Mirror, NEW w \in Workspace, MirrorCommand(p, w)
  PROVE  GitInv'
<1> DEFINE me == mirror[p]
           n == me.step
           command == MainMirrorCommands[n]
           r == GitRuns(command, w)
           step == IF n = 4 THEN 1 ELSE n + 1
           now == IF n = 4 THEN {} ELSE {w}
           plan == [me.plan EXCEPT ![w] = IF n = 4 THEN "synced" ELSE @]
           to == [me EXCEPT !.step = step, !.now = now, !.plan = plan]
           ok == [mirror EXCEPT ![p].step = IF @ = 4 THEN 1 ELSE @ + 1,
                                ![p].now = IF mirror[p].step = 4 THEN {} ELSE {w},
                                ![p].plan[w] = IF mirror[p].step = 4 THEN "synced" ELSE @]
<1>0. /\ me \in MirrorState /\ MirrorKnows(me, repo) /\ me.pc = "idle"
      /\ me.now \in {{}, {w}} /\ me.plan[w] = "sync"
      /\ mirror \in [Mirror -> MirrorState]
      /\ \A v \in Workspace : me.plan[v] # "unread"
      /\ n \in 1..4 /\ me.plan \in [Workspace -> SyncPlans]
      /\ UNCHANGED server
  BY DEF GitInv, GitTypeOK, MirrorCommand, MirrorState
<1>1. CASE /\ mirror' = [mirror EXCEPT ![p].pc = "done", ![p].exit = 2]
           /\ UNCHANGED <<repo, closer>>
  BY <1>0, <1>1, MirrorStopsKeeps
<1>2. CASE /\ GitAllows(command, repo[w])
           /\ repo' = [repo EXCEPT ![w] = r]
           /\ OthersSee(ok, closer)
  <2>1. /\ r \in RepoState /\ (n = 3 => r.main = r.tracking)
        /\ n = 4 => r.head = "main" /\ r.main = repo[w].main /\ r.tracking = repo[w].tracking
    BY <1>0, <1>2, CommandRuns
  <2>o. ok = [mirror EXCEPT ![p] = to] BY <1>0 DEF MirrorState
  <2>s. OthersSee(ok, closer) BY <1>2
  <2> HIDE DEF r, ok
  <2>2. /\ repo' \in [Workspace -> RepoState] /\ repo'[w] = r
        /\ \A v \in Workspace : v # w => repo'[v] = repo[v]
        /\ server' \in [Workspace -> SUBSET Commit]
    BY <1>0, <1>2, <2>1 DEF GitInv, GitTypeOK
  <2>3. /\ step \in 1..4 /\ step # n /\ now \in SUBSET Workspace /\ (now = {} => step = 1)
        /\ step = 4 => n = 3 /\ now = {w}
    BY <1>0
  <2>4. /\ plan \in [Workspace -> SyncPlans]
        /\ plan[w] = IF n = 4 THEN "synced" ELSE "sync"
        /\ \A v \in Workspace : v # w => plan[v] = me.plan[v]
    BY <1>0 DEF SyncPlans
  <2>5. /\ n = 4 => now = {} /\ step = 1
        /\ n # 4 => now = {w}
    OBVIOUS
  <2> HIDE DEF step, now, plan
  <2>6. /\ to \in MirrorState /\ to.pc = "idle" /\ to.exit = me.exit /\ to.alone = me.alone
        /\ to.step = step /\ to.now = now /\ to.plan = plan /\ to # me
    BY <1>0, <2>3, <2>4 DEF MirrorState
  <2>7. to = [to EXCEPT !.alone = to.alone /\ to # me]
    BY <2>6 DEF MirrorState
  <2> HIDE DEF to
  <2>8. /\ mirror'[p] = to
        /\ \A q \in Mirror : q # p => mirror'[q] = [mirror[q] EXCEPT !.alone = FALSE]
        /\ mirror' = [q \in Mirror |-> mirror'[q]]
    <3>1. mirror' = [q \in Mirror |-> [ok[q] EXCEPT !.alone = ok[q].alone /\ ok[q] # mirror[q]]]
      BY <2>s DEF OthersSee
    <3>2. ok[p] = to /\ \A q \in Mirror : q # p => ok[q] = mirror[q] BY <1>0, <2>o
    <3>3. mirror'[p] = [to EXCEPT !.alone = to.alone /\ to # me] BY <3>1, <3>2
    <3>4. \A q \in Mirror : q # p => mirror'[q] = [mirror[q] EXCEPT !.alone = FALSE]
      BY <3>1, <3>2
    <3> QED BY <2>7, <3>1, <3>3, <3>4
  <2>9. /\ \A q \in Closer : closer'[q] = [closer[q] EXCEPT !.alone = FALSE]
        /\ closer' = [q \in Closer |-> closer'[q]]
    BY <2>s DEF OthersSee
  <2>10. \A v \in Workspace : plan[v] # "unread"
    BY <1>0, <2>4
  <2>11. me.alone => \A v \in Workspace : plan[v] = "synced" => Mirrored(repo'[v])
    <3> SUFFICES ASSUME me.alone, NEW v \in Workspace, plan[v] = "synced"
                 PROVE  Mirrored(repo'[v])
      OBVIOUS
    <3>1. CASE v # w BY <1>0, <2>2, <2>4, <3>1 DEF MirrorKnows
    <3>2. CASE v = w
      <4>1. n = 4 BY <2>4, <3>2
      <4>2. me.now = {w} BY <1>0, <4>1 DEF MirrorKnows
      <4>3. repo[w].main = repo[w].tracking BY <1>0, <4>1, <4>2 DEF MirrorKnows
      <4> QED BY <2>1, <2>2, <3>2, <4>1, <4>3 DEF Mirrored
    <3> QED BY <3>1, <3>2
  <2>12. step = 4 => \A v \in now : repo'[v].main = repo'[v].tracking
    BY <2>1, <2>2, <2>3
  <2>13. MirrorKnows(to, repo')
    BY <1>0, <2>3, <2>6, <2>10, <2>11, <2>12 DEF MirrorKnows
  <2> QED BY <2>2, <2>6, <2>8, <2>9, <2>13, GitStepKeeps
<1> QED BY <1>1, <1>2 DEF MirrorCommand

-----------------------------------------------------------------------------
(* Closing a session *)

LEMMA OwnCloserKeeps ==
  ASSUME GitInv, NEW p \in Closer, NEW to \in CloserState, closer' = [closer EXCEPT ![p] = to],
         UNCHANGED <<repo, server, mirror>>, CloserKnows(to, repo)
  PROVE  GitInv'
<1>1. \A q \in Closer : closer'[q] = IF q = p THEN to ELSE closer[q] BY DEF GitInv, GitTypeOK
<1>2. closer' \in [Closer -> CloserState] BY DEF GitInv, GitTypeOK
<1> QED BY <1>1, <1>2 DEF GitInv, GitTypeOK

LEMMA UnblockedIsSettled ==
  ASSUME NEW r \in RepoState, Blockers(InspectGit(r, {}), TRUE) = {}
  PROVE  WorkSettled(r)
<1> DEFINE g == InspectGit(r, {})
<1>1. ~g.dirty /\ ~g.stash /\ g.branch \notin {"detached", "feature"} /\ g.upstream
      /\ ~g.ahead /\ ~g.behind
  BY DEF Blockers
<1>2. /\ g.branch = r.head /\ g.dirty = r.dirty /\ g.stash = r.stash
  BY DEF InspectGit, RepoState
<1>3. r.head = "main" BY <1>1, <1>2 DEF RepoState
<1>4. r.main \ r.tracking = {} /\ r.tracking \ r.main = {}
  BY <1>1, <1>3 DEF InspectGit
<1>5. r.main = r.tracking BY <1>4
<1> QED BY <1>1, <1>2, <1>3, <1>5 DEF WorkSettled, Mirrored

LEMMA CloserInspectsKeeps ==
  ASSUME GitInv, NEW p \in Closer, NEW w \in Workspace, CloserInspects(p, w)
  PROVE  GitInv'
<1> DEFINE me == closer[p]
<1>1. PICK broken \in SUBSET Reads :
          closer' = [closer EXCEPT ![p].read = @ \cup {w},
              ![p].blocked = @ \/ Blockers(InspectGit(repo[w], broken), TRUE) # {},
              ![p].alone = (@ \/ closer[p].read = {}) /\ broken = {}]
  BY DEF CloserInspects
<1> DEFINE read == me.read \cup {w}
           found == Blockers(InspectGit(repo[w], broken), TRUE) # {}
           blocked == me.blocked \/ found
           alone == (me.alone \/ me.read = {}) /\ broken = {}
           to == [me EXCEPT !.read = read, !.blocked = blocked, !.alone = alone]
<1>0. /\ me \in CloserState /\ CloserKnows(me, repo) /\ me.pc = "idle"
      /\ closer \in [Closer -> CloserState] /\ repo[w] \in RepoState
  BY DEF GitInv, GitTypeOK, CloserInspects
<1>2. closer' = [closer EXCEPT ![p] = to] BY <1>0, <1>1 DEF CloserState
<1>3. /\ read \in SUBSET Workspace /\ blocked \in BOOLEAN /\ alone \in BOOLEAN
  BY <1>0 DEF CloserState
<1>4. ASSUME alone, ~blocked PROVE \A v \in read : WorkSettled(repo[v])
  <2>1. WorkSettled(repo[w]) BY <1>0, <1>4, UnblockedIsSettled
  <2>2. \A v \in me.read : WorkSettled(repo[v]) BY <1>0, <1>4 DEF CloserKnows
  <2> QED BY <2>1, <2>2
<1> HIDE DEF read, blocked, alone
<1>5. /\ to \in CloserState /\ to.pc = "idle" /\ to.read = read /\ to.blocked = blocked
      /\ to.alone = alone /\ to.exit = me.exit
  BY <1>0, <1>3 DEF CloserState
<1> HIDE DEF to
<1>6. CloserKnows(to, repo) BY <1>0, <1>4, <1>5 DEF CloserKnows
<1> QED BY <1>2, <1>5, <1>6, OwnCloserKeeps DEF CloserInspects

LEMMA CloserEndsKeeps ==
  ASSUME GitInv, NEW p \in Closer, CloserEnds(p)
  PROVE  GitInv'
<1> DEFINE me == closer[p]
           code == IF closer[p].blocked \/ SandboxBlockers # {} THEN 2 ELSE 0
           to == [me EXCEPT !.pc = "done", !.exit = code]
<1>0. /\ me \in CloserState /\ CloserKnows(me, repo) /\ closer \in [Closer -> CloserState]
  BY DEF GitInv, GitTypeOK
<1>1. closer' = [closer EXCEPT ![p] = to] BY <1>0 DEF CloserEnds, CloserState
<1>2. code \in Int OBVIOUS
<1> HIDE DEF code
<1>3. /\ to \in CloserState /\ to.pc = "done" /\ to.read = me.read /\ to.blocked = me.blocked
      /\ to.alone = me.alone
  BY <1>0, <1>2 DEF CloserState
<1> HIDE DEF to
<1>4. CloserKnows(to, repo) BY <1>0, <1>3 DEF CloserKnows
<1> QED BY <1>1, <1>3, <1>4, OwnCloserKeeps DEF CloserEnds

-----------------------------------------------------------------------------
LEMMA GitInvHolds == MirrorSpec => []GitInv
<1>1. MirrorInit => GitInv
  <2> SUFFICES ASSUME MirrorInit PROVE GitInv OBVIOUS
  <2> DEFINE m == [pc |-> "idle", plan |-> [w \in Workspace |-> "unread"], now |-> {}, step |-> 1,
                   alone |-> TRUE, exit |-> -1]
             c == [pc |-> "idle", read |-> {}, blocked |-> FALSE, alone |-> TRUE, exit |-> -1]
  <2>1. mirror = [p \in Mirror |-> m] /\ closer = [p \in Closer |-> c] BY DEF MirrorInit
  <2>2. [w \in Workspace |-> "unread"] \in [Workspace -> SyncPlans] BY DEF SyncPlans
  <2>3. m \in MirrorState BY <2>2 DEF MirrorState
  <2>4. c \in CloserState BY DEF CloserState
  <2>5. MirrorKnows(m, repo) BY DEF MirrorKnows
  <2>6. CloserKnows(c, repo) BY DEF CloserKnows
  <2>7. FreshRepo \in RepoState BY DEF FreshRepo, RepoState
  <2>8. repo \in [Workspace -> RepoState] /\ server \in [Workspace -> SUBSET Commit]
    BY <2>7 DEF MirrorInit
  <2> HIDE DEF m, c
  <2> QED BY <2>1, <2>3, <2>4, <2>5, <2>6, <2>8 DEF GitInv, GitTypeOK
<1>2. GitInv /\ [MirrorNext]_mirrorVars => GitInv'
  <2> SUFFICES ASSUME GitInv, [MirrorNext]_mirrorVars PROVE GitInv' OBVIOUS
  <2>1. CASE UNCHANGED mirrorVars BY <2>1 DEF mirrorVars, GitInv, GitTypeOK
  <2>2. ASSUME NEW p \in Mirror, MirrorEnds(p) PROVE GitInv'
    BY <2>2, MirrorStopsKeeps DEF MirrorEnds
  <2>3. CASE SandboxWork
    <3>1. OthersSee(mirror, closer) /\ UNCHANGED <<repo, server>> BY <2>3 DEF SandboxWork
    <3>2. repo' \in [Workspace -> RepoState] /\ server' \in [Workspace -> SUBSET Commit]
      BY <3>1 DEF GitInv, GitTypeOK
    <3> QED BY <3>1, <3>2, AllSeeIt, GitStepKeeps
  <2> QED BY <2>1, <2>2, <2>3, PeopleKeep, MirrorInspectsKeeps, MirrorCommandKeeps,
             CloserInspectsKeeps, CloserEndsKeeps
      DEF MirrorNext
<1> QED BY <1>1, <1>2, PTL DEF MirrorSpec

(* Whoever comes to exit code 0 takes its last step.                          *)
LEMMA OnlyOwnMirrorEnds ==
  ASSUME GitInv, MirrorNext, NEW p \in Mirror, mirror[p].pc = "idle", mirror'[p].exit = 0
  PROVE  MirrorEnds(p)
<1>0. /\ mirror \in [Mirror -> MirrorState] /\ mirror[p] \in MirrorState /\ mirror[p].exit = -1
      /\ mirror[p] = [mirror[p] EXCEPT !.alone = mirror[p].alone]
  BY DEF GitInv, GitTypeOK, MirrorKnows, MirrorState
<1>1. ASSUME OthersSee(mirror, closer) PROVE FALSE
  <2>1. mirror'[p] = [mirror[p] EXCEPT !.alone = FALSE] BY <1>1, AllSeeIt
  <2> QED BY <1>0, <2>1 DEF MirrorState
<1>2. mirror' # mirror BY <1>0
<1>3. ASSUME NEW q \in Mirror, NEW w \in Workspace, MirrorInspects(q, w) PROVE FALSE
  BY <1>0, <1>3 DEF MirrorInspects, MirrorState
<1>4. ASSUME NEW q \in Mirror, NEW w \in Workspace, MirrorCommand(q, w) PROVE FALSE
  <2>1. CASE mirror' = [mirror EXCEPT ![q].pc = "done", ![q].exit = 2]
    BY <1>0, <2>1 DEF MirrorState
  <2> DEFINE ok == [mirror EXCEPT ![q].step = IF @ = 4 THEN 1 ELSE @ + 1,
                                  ![q].now = IF mirror[q].step = 4 THEN {} ELSE {w},
                                  ![q].plan[w] = IF mirror[q].step = 4 THEN "synced" ELSE @]
  <2>2. CASE OthersSee(ok, closer)
    <3>1. ok[p].exit = -1 /\ DOMAIN ok[p] = DOMAIN mirror[p] BY <1>0 DEF MirrorState
    <3>2. "exit" \in DOMAIN mirror[p] BY <1>0 DEF MirrorState
    <3>3. mirror'[p] = [ok[p] EXCEPT !.alone = ok[p].alone /\ ok[p] # mirror[p]]
      BY <2>2 DEF OthersSee
    <3> HIDE DEF ok
    <3>4. mirror'[p].exit = -1 BY <3>1, <3>2, <3>3
    <3> QED BY <3>4
  <2> QED BY <1>4, <2>1, <2>2 DEF MirrorCommand
<1>5. ASSUME NEW q \in Mirror, MirrorEnds(q) PROVE q = p
  BY <1>0, <1>5 DEF MirrorEnds, MirrorState
<1>6. ~SandboxWork BY <1>1 DEF SandboxWork
<1>7. \A w \in Workspace : ~(EditWorktree(w) \/ CommitWork(w) \/ StashWork(w) \/ SwitchBranch(w)
                             \/ PushMain(w) \/ OthersPush(w))
  BY <1>1, <1>2 DEF EditWorktree, CommitWork, StashWork, SwitchBranch, PushMain, OthersPush,
     Working
<1>8. \A q \in Closer : ~CloserEnds(q) /\ \A w \in Workspace : ~CloserInspects(q, w)
  BY <1>2 DEF CloserEnds, CloserInspects
<1> QED BY <1>3, <1>4, <1>5, <1>6, <1>7, <1>8 DEF MirrorNext

LEMMA OnlyOwnCloserEnds ==
  ASSUME GitInv, MirrorNext, NEW p \in Closer, closer[p].pc = "idle", closer'[p].exit = 0
  PROVE  CloserEnds(p)
<1>0. /\ closer \in [Closer -> CloserState] /\ closer[p] \in CloserState /\ closer[p].exit = -1
  BY DEF GitInv, GitTypeOK, CloserKnows, CloserState
<1>1. ASSUME NEW b, closer'[p] = [closer[p] EXCEPT !.alone = b] PROVE FALSE
  BY <1>0, <1>1 DEF CloserState
<1>2. ASSUME NEW m, OthersSee(m, closer) PROVE FALSE
  <2>1. closer'[p] = [closer[p] EXCEPT !.alone = closer[p].alone /\ closer[p] # closer[p]]
    BY <1>2 DEF OthersSee
  <2> QED BY <1>1, <2>1
<1>3. closer' # closer BY <1>0
<1>4. ASSUME NEW q \in Closer, NEW w \in Workspace, CloserInspects(q, w) PROVE FALSE
  <2>1. PICK broken \in SUBSET Reads :
            closer' = [closer EXCEPT ![q].read = @ \cup {w},
                ![q].blocked = @ \/ Blockers(InspectGit(repo[w], broken), TRUE) # {},
                ![q].alone = (@ \/ closer[q].read = {}) /\ broken = {}]
    BY <1>4 DEF CloserInspects
  <2> DEFINE blocked == closer[q].blocked \/ Blockers(InspectGit(repo[w], broken), TRUE) # {}
             alone == (closer[q].alone \/ closer[q].read = {}) /\ broken = {}
             read == closer[q].read \cup {w}
             to == [closer[q] EXCEPT !.read = read, !.blocked = blocked, !.alone = alone]
  <2>2. closer' = [closer EXCEPT ![q] = to] BY <1>0, <2>1 DEF CloserState
  <2> HIDE DEF blocked, alone, read
  <2>3. closer[q] \in CloserState BY <1>0
  <2>4. to.exit = closer[q].exit BY <2>3 DEF CloserState
  <2> HIDE DEF to
  <2> QED BY <1>0, <2>2, <2>4
<1>5. ASSUME NEW q \in Closer, CloserEnds(q) PROVE q = p
  BY <1>0, <1>5 DEF CloserEnds, CloserState
<1>6. ~SandboxWork BY <1>2 DEF SandboxWork
<1>7. \A w \in Workspace : ~(EditWorktree(w) \/ CommitWork(w) \/ StashWork(w) \/ SwitchBranch(w)
                             \/ PushMain(w) \/ OthersPush(w))
  BY <1>2, <1>3 DEF EditWorktree, CommitWork, StashWork, SwitchBranch, PushMain, OthersPush,
     Working
<1>8. \A q \in Mirror : ~MirrorEnds(q)
  BY <1>3 DEF MirrorEnds
<1>9. \A q \in Mirror, w \in Workspace : ~MirrorInspects(q, w) /\ ~MirrorCommand(q, w)
  BY <1>2, <1>3 DEF MirrorInspects, MirrorCommand
<1> QED BY <1>4, <1>5, <1>6, <1>7, <1>8, <1>9 DEF MirrorNext

(* For any workspaces, commits, mirror and close runs, and whatever command  *)
(* fails: a mirror run that exits 0 undisturbed leaves what it synced on an   *)
(* integration branch that equals the fetched one, and a session that closes  *)
(* with 0 leaves no work unsettled (sync-main's main, inspectGitDirectory).   *)
THEOREM ExitZeroStaysSettled == MirrorSpec => ExitZeroIsSettled
<1>1. GitInv /\ [MirrorNext]_mirrorVars =>
        [\A p \in Mirror : mirror[p].pc = "idle" /\ mirror'[p].exit = 0 /\ mirror[p].alone =>
            \A w \in Workspace : mirror[p].plan[w] = "synced" =>
               repo'[w].head = "main" /\ repo'[w].main = repo'[w].tracking]_mirrorVars
  <2> SUFFICES ASSUME GitInv, MirrorNext, NEW p \in Mirror, mirror[p].pc = "idle",
                      mirror'[p].exit = 0, mirror[p].alone, NEW w \in Workspace,
                      mirror[p].plan[w] = "synced"
               PROVE  repo'[w].head = "main" /\ repo'[w].main = repo'[w].tracking
    OBVIOUS
  <2>1. repo' = repo BY OnlyOwnMirrorEnds DEF MirrorEnds
  <2>2. Mirrored(repo[w]) BY DEF GitInv, MirrorKnows
  <2> QED BY <2>1, <2>2 DEF Mirrored
<1>2. GitInv /\ [MirrorNext]_mirrorVars =>
        [\A p \in Closer : closer[p].pc = "idle" /\ closer'[p].exit = 0 /\ closer[p].alone =>
            /\ \A w \in Workspace : /\ ~repo[w].dirty /\ ~repo[w].stash
                                    /\ repo[w].head = "main" /\ repo[w].main = repo[w].tracking
            /\ sandbox # "dirty"]_mirrorVars
  <2> SUFFICES ASSUME GitInv, MirrorNext, NEW p \in Closer, closer[p].pc = "idle",
                      closer'[p].exit = 0, closer[p].alone
               PROVE  /\ \A w \in Workspace : WorkSettled(repo[w])
                      /\ sandbox # "dirty"
    BY DEF WorkSettled, Mirrored
  <2>1. /\ closer[p].read = Workspace
        /\ closer' = [closer EXCEPT ![p].pc = "done",
             ![p].exit = IF closer[p].blocked \/ SandboxBlockers # {} THEN 2 ELSE 0]
    BY OnlyOwnCloserEnds DEF CloserEnds
  <2>2. ~closer[p].blocked /\ SandboxBlockers = {}
    <3>1. closer[p] \in CloserState /\ closer \in [Closer -> CloserState] BY DEF GitInv, GitTypeOK
    <3> QED BY <2>1, <3>1 DEF CloserState
  <2>3. sandbox # "dirty" BY <2>2 DEF SandboxBlockers
  <2> QED BY <2>1, <2>2, <2>3 DEF GitInv, CloserKnows
<1> QED BY <1>1, <1>2, GitInvHolds, PTL
    DEF MirrorSpec, ExitZeroIsSettled, ExitZeroMirrors, CloseIsSettled

-----------------------------------------------------------------------------
(* PublicRelease: what a script knows of the copy it makes                   *)

FileStates == Texts \cup {NoFile, "rewritten"}
Trees == [TreeFiles -> FileStates]
DirState == [files : Trees, index : UNION {[S -> FileStates] : S \in SUBSET TreeFiles},
             manifest : BOOLEAN]
ExitCodes == {"none", "0", "0 dry", "1", "2", "3", "4", "killed"}
LabelState == [head : Trees, dirty : BOOLEAN]
ReleaserState ==
  [pc : {"idle", "plan", "copy", "verify", "push", "judge", "bootstrap", "done"},
   tool : {"none", "build", "fresh", "clone"}, verify : BOOLEAN,
   label : LabelState, left : SUBSET TreeFiles, clone : DirState,
   alone : BOOLEAN, exit : ExitCodes]

InScope(held) == \A p \in TreeFiles : held[p] # NoFile => p \in Included \ Stripped

(* What holds of a script whatever the others do: only it writes its run     *)
(* root, and the clone is a copy of that.                                    *)
StaysClean(me, root) ==
  /\ me.pc # "done" => me.exit = "none"
  /\ me.pc = "idle" => me.tool = "none"
  /\ me.pc \in {"plan", "copy", "verify"} => me.tool \in {"build", "fresh"}
  /\ me.pc \in {"push", "bootstrap"} => me.tool = "fresh"
  /\ me.pc = "judge" => me.tool \in {"clone", "fresh"}
  /\ me.tool = "fresh" => me.verify \/ me.pc = "done"
  /\ me.left \subseteq Included \ Stripped
  /\ me.tool = "fresh" /\ me.pc \in {"plan", "copy", "verify", "push"} => InScope(root.files)
  /\ me.pc = "push" => ~Detected(root.files)
  /\ me.tool = "fresh" /\ me.pc \in {"judge", "bootstrap"} =>
       /\ ~Detected(me.clone.files) /\ InScope(me.clone.files)
       /\ Tracked(me.clone.files) = me.clone.files
  /\ me.pc = "bootstrap" => me.clone.index = IndexOf(me.clone.files)

(* The mirror of a tree, but for the files that are still to be copied.      *)
MirrorBut(held, left) == [p \in TreeFiles |-> IF p \in left THEN NoFile ELSE MirrorOf(held)[p]]

(* What holds as long as nobody else wrote: the tree is still the one whose  *)
(* commit was noted and whose files are being copied.                        *)
StaysTrue(me, dir, held, commit) ==
  me.alone =>
    /\ me.tool = "fresh" /\ me.pc \notin {"idle", "done"} =>
         me.label = [head |-> commit, dirty |-> held # commit]
    /\ me.pc \in {"copy", "verify", "push"} => dir.files = MirrorBut(held, me.left)
    /\ me.pc = "copy" => me.left \subseteq Copied(held)
    /\ me.pc \in {"verify", "push"} => me.left = {}
    /\ me.tool = "fresh" /\ me.pc \in {"judge", "bootstrap"} =>
         me.clone.files = Tracked(MirrorOf(held))

WritesTo(me, r) == IF me.tool = "fresh" THEN r ELSE "out"
ReleaseInv ==
  /\ tree \in Trees /\ head \in Trees
  /\ output \in [{"out"} \cup Releaser -> DirState]
  /\ releaser \in [Releaser -> ReleaserState]
  /\ \A r \in Releaser : /\ StaysClean(releaser[r], output[r])
                         /\ StaysTrue(releaser[r], output[WritesTo(releaser[r], r)], tree, head)

-----------------------------------------------------------------------------
LEMMA EmptyIsDir == EmptyDir \in DirState /\ InScope(EmptyDir.files)
  BY DEF EmptyDir, DirState, Trees, FileStates, NoIndex, InScope

LEMMA RestingIsState == Resting \in ReleaserState
<1>1. NoLabel \in LabelState BY DEF NoLabel, LabelState, Trees, FileStates
<1>2. EmptyDir \in DirState BY EmptyIsDir
<1> QED BY <1>1, <1>2 DEF Resting, ReleaserState, ExitCodes

LEMMA RestingKnows ==
  ASSUME NEW me \in ReleaserState, me.left = {}, me.pc = "done" \/ me.pc = "idle",
         me.pc = "idle" => me.tool = "none" /\ me.exit = "none", NEW root, NEW dir, NEW f, NEW c
  PROVE  StaysClean(me, root) /\ StaysTrue(me, dir, f, c)
  BY DEF StaysClean, StaysTrue

(* The loss of "alone" is all that others do to a script.                    *)
LEMMA OnlyAloneChanges ==
  ASSUME NEW me \in ReleaserState, NEW b \in BOOLEAN, b => me.alone,
         NEW root, NEW dir, NEW f, NEW c
  PROVE  LET to == [me EXCEPT !.alone = b]
         IN  /\ to \in ReleaserState /\ to.exit = me.exit /\ to.tool = me.tool
             /\ to.pc = me.pc /\ to.alone = b
             /\ StaysClean(me, root) => StaysClean(to, root)
             /\ StaysTrue(me, dir, f, c) => StaysTrue(to, dir, f, c)
<1> DEFINE to == [me EXCEPT !.alone = b]
<1>1. to \in ReleaserState BY DEF ReleaserState
<1>2. /\ to.pc = me.pc /\ to.tool = me.tool /\ to.verify = me.verify /\ to.label = me.label
      /\ to.left = me.left /\ to.clone = me.clone /\ to.alone = b /\ to.exit = me.exit
  BY DEF ReleaserState
<1> HIDE DEF to
<1>3. StaysClean(me, root) => StaysClean(to, root) BY <1>2 DEF StaysClean
<1>4. StaysTrue(me, dir, f, c) => StaysTrue(to, dir, f, c) BY <1>2 DEF StaysTrue
<1> QED BY <1>1, <1>2, <1>3, <1>4 DEF to

(* A script writes its run root or --out, and tells the others of --out only.*)
OwnWrites(r, wrote) ==
  /\ output' \in [{"out"} \cup Releaser -> DirState]
  /\ \A q \in Releaser \ {r} : output'[q] = output[q]
  /\ wrote \/ output'["out"] = output["out"]

LEMMA ScriptStepKeeps ==
  ASSUME ReleaseInv, NEW r \in Releaser, NEW wrote \in BOOLEAN, NEW to \in ReleaserState,
         Acts(r, wrote, to), OwnWrites(r, wrote), UNCHANGED <<tree, head>>,
         StaysClean(to, output'[r]), StaysTrue(to, output'[WritesTo(to, r)], tree, head)
  PROVE  ReleaseInv'
<1>1. ASSUME NEW q \in Releaser
      PROVE  /\ releaser'[q] \in ReleaserState
             /\ StaysClean(releaser'[q], output'[q])
             /\ StaysTrue(releaser'[q], output'[WritesTo(releaser'[q], q)], tree, head)
  <2>1. CASE q = r
    <3>1. releaser'[q] = to BY <2>1 DEF Acts
    <3> QED BY <2>1, <3>1
  <2>2. CASE q # r
    <3> DEFINE me == releaser[q]
               b == me.alone /\ ~(wrote /\ Releasing(q))
    <3>1. releaser'[q] = [me EXCEPT !.alone = b] BY <2>2 DEF Acts
    <3>2. /\ me \in ReleaserState /\ StaysClean(me, output[q])
          /\ StaysTrue(me, output[WritesTo(me, q)], tree, head)
      BY DEF ReleaseInv
    <3>3. b \in BOOLEAN /\ (b => me.alone) BY <3>2 DEF ReleaserState
    <3>4. output'[q] = output[q] BY <2>2 DEF OwnWrites
    <3>5. StaysTrue(me, output'[WritesTo(me, q)], tree, head) \/ ~b
      <4>1. CASE ~wrote
        <5>1. output'[WritesTo(me, q)] = output[WritesTo(me, q)]
          BY <3>4, <4>1 DEF OwnWrites, WritesTo
        <5> QED BY <3>2, <5>1
      <4>2. CASE wrote /\ b
        <5>1. me.pc \in {"idle", "done"} BY <4>2 DEF Releasing
        <5> QED BY <5>1 DEF StaysTrue
      <4> QED BY <4>1, <4>2
    <3> HIDE DEF b, me
    <3> DEFINE to2 == [me EXCEPT !.alone = b]
    <3>6. /\ to2 \in ReleaserState /\ to2.tool = me.tool /\ to2.alone = b
          /\ StaysClean(to2, output[q])
          /\ StaysTrue(me, output'[WritesTo(me, q)], tree, head)
               => StaysTrue(to2, output'[WritesTo(me, q)], tree, head)
      BY <3>2, <3>3, OnlyAloneChanges
    <3>7. releaser'[q] = to2 BY <3>1
    <3> HIDE DEF to2
    <3>8. WritesTo(to2, q) = WritesTo(me, q) BY <3>6 DEF WritesTo
    <3>9. StaysTrue(to2, output'[WritesTo(to2, q)], tree, head)
      <4>1. CASE b BY <3>5, <3>6, <3>8, <4>1
      <4>2. CASE ~b BY <3>6, <4>2 DEF StaysTrue
      <4> QED BY <4>1, <4>2
    <3> QED BY <3>4, <3>6, <3>7, <3>9
  <2> QED BY <2>1, <2>2
<1>2. releaser' \in [Releaser -> ReleaserState]
  <2>1. releaser' = [q \in Releaser |-> releaser'[q]] BY DEF Acts
  <2> QED BY <1>1, <2>1
<1> QED BY <1>1, <1>2 DEF ReleaseInv, OwnWrites

(* Nobody is alone any more once the tree or --out was touched.              *)
LEMMA TouchedKeeps ==
  ASSUME ReleaseInv, releaser' = Touched, tree' \in Trees, head' \in Trees,
         output' \in [{"out"} \cup Releaser -> DirState],
         \A q \in Releaser : output'[q] = output[q]
  PROVE  ReleaseInv'
<1>1. ASSUME NEW q \in Releaser
      PROVE  /\ releaser'[q] \in ReleaserState
             /\ StaysClean(releaser'[q], output'[q])
             /\ StaysTrue(releaser'[q], output'[WritesTo(releaser'[q], q)], tree', head')
  <2> DEFINE me == releaser[q]
             b == me.alone /\ ~Releasing(q)
             to == [me EXCEPT !.alone = b]
  <2>1. releaser'[q] = to BY DEF Touched
  <2>2. me \in ReleaserState /\ StaysClean(me, output[q]) BY DEF ReleaseInv
  <2>3. b \in BOOLEAN /\ (b => me.alone) BY <2>2 DEF ReleaserState
  <2>4. /\ to \in ReleaserState /\ to.pc = me.pc /\ to.alone = b /\ StaysClean(to, output[q])
    BY <2>2, <2>3, OnlyAloneChanges
  <2>5. b => me.pc \in {"idle", "done"} BY DEF Releasing
  <2> HIDE DEF to, b
  <2>6. StaysTrue(to, output'[WritesTo(releaser'[q], q)], tree', head')
    BY <2>4, <2>5 DEF StaysTrue
  <2> QED BY <2>1, <2>4, <2>6
<1>2. releaser' \in [Releaser -> ReleaserState]
  <2>1. releaser' = [q \in Releaser |-> releaser'[q]] BY DEF Touched
  <2> QED BY <1>1, <2>1
<1> QED BY <1>1, <1>2 DEF ReleaseInv

LEMMA OverKeeps ==
  ASSUME ReleaseInv, NEW r \in Releaser, NEW wrote \in BOOLEAN, NEW code \in ExitCodes,
         Over(r, wrote, code), OwnWrites(r, wrote), UNCHANGED <<tree, head>>
  PROVE  ReleaseInv'
<1> DEFINE to == [Resting EXCEPT !.pc = "done", !.tool = releaser[r].tool, !.exit = code]
<1>1. releaser[r] \in ReleaserState BY DEF ReleaseInv
<1>2. releaser[r].tool \in {"none", "build", "fresh", "clone"} BY <1>1 DEF ReleaserState
<1>3. to \in ReleaserState
  <2> HIDE DEF Resting
  <2> QED BY <1>2, RestingIsState DEF ReleaserState, ExitCodes
<1>4. to.pc = "done" /\ to.left = {} BY DEF Resting
<1>5. Acts(r, wrote, to) BY DEF Over
<1> HIDE DEF to
<1>6. StaysClean(to, output'[r]) /\ StaysTrue(to, output'[WritesTo(to, r)], tree, head)
  BY <1>3, <1>4, RestingKnows
<1> QED BY <1>3, <1>5, <1>6, ScriptStepKeeps

LEMMA NothingWritten ==
  ASSUME ReleaseInv, NEW r \in Releaser, UNCHANGED output
  PROVE  OwnWrites(r, FALSE)
  BY DEF OwnWrites, ReleaseInv

-----------------------------------------------------------------------------
(* A mirror of what is stripped has nothing; one of what is included may.    *)
LEMMA MirrorIsTree ==
  ASSUME NEW f \in Trees
  PROVE  /\ Copied(f) \subseteq Included \ Stripped /\ Copied(f) \subseteq TreeFiles
         /\ MirrorOf(f) \in Trees /\ InScope(MirrorOf(f))
         /\ Tracked(f) \in Trees /\ Tracked(Tracked(f)) = Tracked(f)
         /\ InScope(f) => InScope(Tracked(f))
         /\ ~Detected(f) => ~Detected(Tracked(f))
         /\ \A p \in TreeFiles : Sanitized(p, f[p]) \in FileStates
<1>1. Copied(f) \subseteq Included \ Stripped /\ Copied(f) \subseteq TreeFiles
  BY DEF Copied
<1>2. \A p \in TreeFiles : Sanitized(p, f[p]) \in FileStates
  BY DEF Sanitized, Trees, FileStates
<1>3. MirrorOf(f) \in Trees /\ InScope(MirrorOf(f))
  BY <1>1, <1>2 DEF MirrorOf, Trees, FileStates, InScope
<1>4. Tracked(f) \in Trees /\ Tracked(Tracked(f)) = Tracked(f)
  BY DEF Tracked, Trees, FileStates
<1>5. /\ InScope(f) => InScope(Tracked(f))
      /\ ~Detected(f) => ~Detected(Tracked(f))
  BY DEF Tracked, InScope, Detected, NoFile
<1> QED BY <1>1, <1>2, <1>3, <1>4, <1>5

LEMMA IndexIsState ==
  ASSUME NEW f \in Trees
  PROVE  IndexOf(f) \in UNION {[S -> FileStates] : S \in SUBSET TreeFiles}
<1> DEFINE S == {q \in Markdown : f[q] # NoFile}
<1>1. S \in SUBSET TreeFiles BY ReleaseSets
<1>2. IndexOf(f) \in [S -> FileStates] BY <1>1 DEF IndexOf, Trees
<1> QED BY <1>1, <1>2

LEMMA BeginBuildKeeps ==
  ASSUME ReleaseInv, NEW r \in Releaser, BeginBuild(r)
  PROVE  ReleaseInv'
<1>0. /\ tree \in Trees /\ head \in Trees /\ UNCHANGED <<tree, head>>
      /\ HeadSha \in LabelState /\ Snapshot \in LabelState
      /\ output \in [{"out"} \cup Releaser -> DirState]
  BY DEF ReleaseInv, BeginBuild, HeadSha, Snapshot, LabelState
<1>1. ASSUME NEW verify \in BOOLEAN, UNCHANGED output,
             Acts(r, FALSE, [Resting EXCEPT !.pc = "plan", !.tool = "build",
                                            !.verify = verify, !.label = HeadSha])
      PROVE  ReleaseInv'
  <2> DEFINE to == [Resting EXCEPT !.pc = "plan", !.tool = "build", !.verify = verify,
                                   !.label = HeadSha]
  <2>1. to \in ReleaserState
    <3> HIDE DEF Resting
    <3> QED BY <1>0, RestingIsState DEF ReleaserState
  <2>2. to.pc = "plan" /\ to.tool = "build" /\ to.left = {} /\ to.exit = "none"
    BY DEF Resting
  <2> HIDE DEF to
  <2>3. StaysClean(to, output'[r]) /\ StaysTrue(to, output'[WritesTo(to, r)], tree, head)
    BY <2>2 DEF StaysClean, StaysTrue
  <2>4. OwnWrites(r, FALSE) BY <1>1, NothingWritten
  <2>5. Acts(r, FALSE, to) BY <1>1 DEF to
  <2> QED BY <1>0, <2>1, <2>3, <2>4, <2>5, ScriptStepKeeps
<1>2. ASSUME output' = [output EXCEPT ![r] = EmptyDir],
             Acts(r, FALSE, [Resting EXCEPT !.pc = "plan", !.tool = "fresh",
                                            !.verify = TRUE, !.label = Snapshot])
      PROVE  ReleaseInv'
  <2> DEFINE to == [Resting EXCEPT !.pc = "plan", !.tool = "fresh", !.verify = TRUE,
                                   !.label = Snapshot]
  <2>1. to \in ReleaserState
    <3> HIDE DEF Resting
    <3> QED BY <1>0, RestingIsState DEF ReleaserState
  <2>2. /\ to.pc = "plan" /\ to.tool = "fresh" /\ to.left = {} /\ to.exit = "none"
        /\ to.verify = TRUE /\ to.label = Snapshot
    BY DEF Resting
  <2> HIDE DEF to
  <2>3. output'[r] = EmptyDir BY <1>0, <1>2
  <2>4. StaysClean(to, output'[r]) /\ StaysTrue(to, output'[WritesTo(to, r)], tree, head)
    BY <2>2, <2>3, EmptyIsDir DEF StaysClean, StaysTrue, Snapshot
  <2>5. OwnWrites(r, FALSE)
    BY <1>0, <1>2, EmptyIsDir, ReleaseSets DEF OwnWrites
  <2>6. Acts(r, FALSE, to) BY <1>2 DEF to
  <2> QED BY <1>0, <2>1, <2>4, <2>5, <2>6, ScriptStepKeeps
<1> QED BY <1>1, <1>2 DEF BeginBuild

LEMMA BeginCleanCloneKeeps ==
  ASSUME ReleaseInv, NEW r \in Releaser, BeginCleanClone(r)
  PROVE  ReleaseInv'
<1> DEFINE to == [Resting EXCEPT !.pc = "judge", !.tool = "clone", !.clone = output["out"]]
<1>0. UNCHANGED <<tree, head, output>> /\ output["out"] \in DirState
  BY DEF ReleaseInv, BeginCleanClone
<1>1. to \in ReleaserState
  <2> HIDE DEF Resting
  <2> QED BY <1>0, RestingIsState DEF ReleaserState
<1>2. to.pc = "judge" /\ to.tool = "clone" /\ to.left = {} /\ to.exit = "none" BY DEF Resting
<1>3. Acts(r, FALSE, to) BY DEF BeginCleanClone
<1> HIDE DEF to
<1>4. StaysClean(to, output'[r]) /\ StaysTrue(to, output'[WritesTo(to, r)], tree, head)
  BY <1>2 DEF StaysClean, StaysTrue
<1> QED BY <1>0, <1>1, <1>3, <1>4, NothingWritten, ScriptStepKeeps

LEMMA PlanMirrorKeeps ==
  ASSUME ReleaseInv, NEW r \in Releaser, PlanMirror(r)
  PROVE  ReleaseInv'
<1>0. UNCHANGED <<tree, head, output>> /\ OwnWrites(r, FALSE)
  BY NothingWritten DEF PlanMirror
<1>1. ASSUME NEW code \in {"0 dry", "1", "2"}, Over(r, FALSE, code) PROVE ReleaseInv'
  <2>1. code \in ExitCodes BY DEF ExitCodes
  <2> QED BY <1>0, <1>1, <2>1, OverKeeps
<1>2. ASSUME MayCopyInto(output[Dir(r)]),
             Acts(r, FALSE, [releaser[r] EXCEPT !.left = Copied(tree), !.pc = "copy"])
      PROVE  ReleaseInv'
  <2> DEFINE me == releaser[r]
             to == [me EXCEPT !.left = Copied(tree), !.pc = "copy"]
  <2>0. /\ me \in ReleaserState /\ tree \in Trees /\ me.pc = "plan"
        /\ StaysClean(me, output[r]) /\ StaysTrue(me, output[WritesTo(me, r)], tree, head)
        /\ output[WritesTo(me, r)] = EmptyDir
    BY <1>2 DEF ReleaseInv, PlanMirror, MayCopyInto, Dir, WritesTo
  <2> HIDE DEF me
  <2>1. to \in ReleaserState BY <2>0, MirrorIsTree DEF ReleaserState
  <2>2. /\ to.pc = "copy" /\ to.left = Copied(tree) /\ to.tool = me.tool
        /\ to.verify = me.verify /\ to.label = me.label /\ to.clone = me.clone
        /\ to.alone = me.alone /\ to.exit = me.exit
    BY <2>0 DEF ReleaserState
  <2> HIDE DEF to
  <2>3. StaysClean(to, output[r])
    BY <2>0, <2>2, MirrorIsTree DEF StaysClean
  <2>4. EmptyDir.files = MirrorBut(tree, to.left)
    BY <2>2 DEF EmptyDir, MirrorBut, MirrorOf
  <2>5. WritesTo(to, r) = WritesTo(me, r) BY <2>2 DEF WritesTo
  <2>6. StaysTrue(to, output[WritesTo(to, r)], tree, head)
    BY <2>0, <2>2, <2>4, <2>5 DEF StaysTrue
  <2>7. Acts(r, FALSE, to) BY <1>2 DEF to, me
  <2> QED BY <1>0, <2>1, <2>3, <2>6, <2>7, ScriptStepKeeps
<1> QED BY <1>1, <1>2 DEF PlanMirror

(* What a script does to the directory it writes.                            *)
LEMMA DirWritten ==
  ASSUME ReleaseInv, NEW r \in Releaser, NEW d \in DirState, NEW wrote \in BOOLEAN,
         output' = [output EXCEPT ![Dir(r)] = d], wrote \/ releaser[r].tool = "fresh"
  PROVE  /\ OwnWrites(r, wrote) /\ output'[Dir(r)] = d /\ Dir(r) = WritesTo(releaser[r], r)
         /\ releaser[r].tool # "fresh" => output'[r] = output[r]
         /\ releaser[r].tool = "fresh" => output'[r] = d
         /\ Dir(r) \in {"out"} \cup Releaser
  BY ReleaseSets DEF ReleaseInv, Dir, WritesTo, OwnWrites

LEMMA CopyNextKeeps ==
  ASSUME ReleaseInv, NEW r \in Releaser, CopyNext(r)
  PROVE  ReleaseInv'
<1> DEFINE me == releaser[r]
           dir == output[Dir(r)]
<1>0. /\ me \in ReleaserState /\ tree \in Trees /\ UNCHANGED <<tree, head>>
      /\ StaysClean(me, output[r]) /\ StaysTrue(me, dir, tree, head)
      /\ me.pc = "copy" /\ dir \in DirState /\ dir.files \in Trees
      /\ output \in [{"out"} \cup Releaser -> DirState]
  <2>1. /\ me \in ReleaserState /\ tree \in Trees /\ UNCHANGED <<tree, head>>
        /\ StaysClean(me, output[r]) /\ StaysTrue(me, dir, tree, head)
        /\ me.pc = "copy" /\ output \in [{"out"} \cup Releaser -> DirState]
        /\ dir \in DirState
    BY DEF ReleaseInv, CopyNext, Dir, WritesTo
  <2> HIDE DEF dir, me
  <2>2. dir.files \in Trees BY <2>1 DEF DirState
  <2> QED BY <2>1, <2>2
<1>1. PICK p \in TreeFiles :
         /\ IsNext(p, me.left)
         /\ IF tree[p] = NoFile
            THEN /\ Over(r, FALSE, IF me.tool = "fresh" THEN "1" ELSE "2")
                 /\ UNCHANGED output
            ELSE /\ output' = [output EXCEPT ![Dir(r)].files[p] = Sanitized(p, tree[p])]
                 /\ Acts(r, TRUE, [me EXCEPT !.left = @ \ {p}])
  BY DEF CopyNext
<1>2. CASE tree[p] = NoFile
  <2>1. (IF me.tool = "fresh" THEN "1" ELSE "2") \in ExitCodes BY DEF ExitCodes
  <2> QED BY <1>0, <1>1, <1>2, <2>1, NothingWritten, OverKeeps
<1>3. CASE tree[p] # NoFile
  <2> DEFINE held == [dir.files EXCEPT ![p] = Sanitized(p, tree[p])]
             d == [dir EXCEPT !.files = held]
             left == me.left \ {p}
             to == [me EXCEPT !.left = left]
  <2>0. p \in me.left BY <1>1 DEF IsNext
  <2>1. Acts(r, TRUE, to) BY <1>1, <1>3
  <2>2. Dir(r) \in {"out"} \cup Releaser BY DEF Dir
  <2>3. output' = [output EXCEPT ![Dir(r)] = d] BY <1>0, <1>1, <1>3, <2>2 DEF DirState
  <2>4. held \in Trees
    <3>1. Sanitized(p, tree[p]) \in FileStates BY <1>0, MirrorIsTree
    <3> QED BY <1>0, <3>1 DEF Trees
  <2>f. \A q \in TreeFiles : held[q] = IF q = p THEN Sanitized(p, tree[p]) ELSE dir.files[q]
    BY <1>0 DEF Trees
  <2> HIDE DEF held, dir
  <2>5. d \in DirState /\ d.files = held BY <1>0, <2>4 DEF DirState
  <2> HIDE DEF d
  <2>6. /\ OwnWrites(r, TRUE) /\ output'[Dir(r)] = d /\ Dir(r) = WritesTo(me, r)
        /\ me.tool # "fresh" => output'[r] = output[r]
    BY <2>3, <2>5, DirWritten
  <2>7. me.left \subseteq TreeFiles /\ me.left \subseteq Included \ Stripped
    BY <1>0 DEF ReleaserState, StaysClean
  <2>r. me.tool = "fresh" => Dir(r) = r /\ dir = output[r] BY DEF Dir, dir
  <2> HIDE DEF me
  <2>8. to \in ReleaserState BY <1>0, <2>7 DEF ReleaserState
  <2>9. /\ to.pc = "copy" /\ to.left = left /\ to.tool = me.tool
        /\ to.verify = me.verify /\ to.label = me.label /\ to.clone = me.clone
        /\ to.alone = me.alone /\ to.exit = me.exit
    BY <1>0 DEF ReleaserState
  <2> HIDE DEF to
  <2>10. InScope(dir.files) => InScope(held)
    BY <2>0, <2>7, <2>f DEF InScope
  <2>11. StaysClean(to, output'[r])
    <3>1. to.tool = "fresh" => InScope(output'[r].files)
      BY <1>0, <2>5, <2>6, <2>9, <2>10, <2>r DEF StaysClean
    <3> QED BY <1>0, <2>7, <2>9, <3>1 DEF StaysClean
  <2>12. StaysTrue(to, d, tree, head)
    <3> SUFFICES ASSUME me.alone PROVE StaysTrue(to, d, tree, head)
      BY <2>9 DEF StaysTrue
    <3>1. dir.files = MirrorBut(tree, me.left) /\ me.left \subseteq Copied(tree)
      BY <1>0 DEF StaysTrue
    <3>2. MirrorOf(tree)[p] = Sanitized(p, tree[p])
      BY <2>0, <3>1 DEF MirrorOf
    <3>3. \A q \in TreeFiles : held[q] = IF q \in left THEN NoFile ELSE MirrorOf(tree)[q]
      BY <2>f, <3>1, <3>2 DEF MirrorBut
    <3>4. held = MirrorBut(tree, left)
      <4>1. held = [q \in TreeFiles |-> held[q]] BY <2>4 DEF Trees
      <4> HIDE DEF left
      <4> QED BY <3>3, <4>1 DEF MirrorBut
    <3>5. left \subseteq Copied(tree) BY <3>1
    <3> HIDE DEF left
    <3> QED BY <1>0, <2>5, <2>9, <3>4, <3>5 DEF StaysTrue
  <2>13. WritesTo(to, r) = Dir(r) BY <2>6, <2>9 DEF WritesTo
  <2> QED BY <1>0, <2>1, <2>6, <2>8, <2>11, <2>12, <2>13, ScriptStepKeeps
<1> QED BY <1>2, <1>3

LEMMA WriteIndexKeeps ==
  ASSUME ReleaseInv, NEW r \in Releaser, WriteIndex(r)
  PROVE  ReleaseInv'
<1> DEFINE me == releaser[r]
           dir == output[Dir(r)]
           d == [dir EXCEPT !.index = IndexOf(dir.files)]
           to == [me EXCEPT !.pc = "verify"]
<1>0. /\ me \in ReleaserState /\ UNCHANGED <<tree, head>>
      /\ StaysClean(me, output[r]) /\ StaysTrue(me, dir, tree, head)
      /\ me.pc = "copy" /\ me.left = {} /\ dir \in DirState
      /\ output \in [{"out"} \cup Releaser -> DirState]
      /\ me.tool = "fresh" => dir = output[r]
      /\ Acts(r, TRUE, to)
  BY DEF ReleaseInv, WriteIndex, Dir, WritesTo, Stage
<1>2. Dir(r) \in {"out"} \cup Releaser BY DEF Dir
<1>3. output' = [output EXCEPT ![Dir(r)] = d] BY <1>0, <1>2 DEF WriteIndex, DirState
<1> HIDE DEF dir
<1>4. dir.files \in Trees BY <1>0 DEF DirState
<1>5. d \in DirState /\ d.files = dir.files
  <2>1. IndexOf(dir.files) \in UNION {[S -> FileStates] : S \in SUBSET TreeFiles}
    BY <1>4, IndexIsState
  <2> QED BY <1>0, <2>1 DEF DirState
<1> HIDE DEF d
<1>6. /\ OwnWrites(r, TRUE) /\ output'[Dir(r)] = d /\ Dir(r) = WritesTo(me, r)
      /\ me.tool # "fresh" => output'[r] = output[r]
      /\ me.tool = "fresh" => output'[r] = d
  BY <1>3, <1>5, DirWritten
<1> HIDE DEF me
<1>7. to \in ReleaserState BY <1>0 DEF ReleaserState
<1>8. /\ to.pc = "verify" /\ to.left = {} /\ to.tool = me.tool
      /\ to.verify = me.verify /\ to.label = me.label /\ to.clone = me.clone
      /\ to.alone = me.alone /\ to.exit = me.exit
  BY <1>0 DEF ReleaserState
<1> HIDE DEF to
<1>9. StaysClean(to, output'[r]) BY <1>0, <1>5, <1>6, <1>8 DEF StaysClean
<1>10. StaysTrue(to, d, tree, head) BY <1>0, <1>5, <1>8 DEF StaysTrue
<1>11. WritesTo(to, r) = Dir(r) BY <1>6, <1>8 DEF WritesTo
<1> QED BY <1>0, <1>6, <1>7, <1>9, <1>10, <1>11, ScriptStepKeeps

LEMMA VerifyMirrorKeeps ==
  ASSUME ReleaseInv, NEW r \in Releaser, VerifyMirror(r)
  PROVE  ReleaseInv'
<1> DEFINE me == releaser[r]
           dir == output[Dir(r)]
           d == [dir EXCEPT !.manifest = TRUE]
           detected == me.verify /\ Detected(dir.files)
           to == [me EXCEPT !.pc = "push"]
<1>0. /\ me \in ReleaserState /\ UNCHANGED <<tree, head>>
      /\ StaysClean(me, output[r]) /\ StaysTrue(me, dir, tree, head)
      /\ me.pc = "verify" /\ dir \in DirState
      /\ output \in [{"out"} \cup Releaser -> DirState]
      /\ me.tool = "fresh" => dir = output[r]
  BY DEF ReleaseInv, VerifyMirror, Dir, WritesTo
<1>1. \/ me.tool = "fresh" /\ detected /\ Over(r, TRUE, "1")
      \/ me.tool = "fresh" /\ ~detected /\ Acts(r, TRUE, to)
      \/ Over(r, TRUE, IF detected THEN "3" ELSE "0")
  BY DEF VerifyMirror, Stage
<1>2. Dir(r) \in {"out"} \cup Releaser BY DEF Dir
<1>3. output' = [output EXCEPT ![Dir(r)] = d] BY <1>0, <1>2 DEF VerifyMirror, DirState
<1> HIDE DEF dir
<1>5. d \in DirState /\ d.files = dir.files BY <1>0 DEF DirState
<1> HIDE DEF d
<1>6. /\ OwnWrites(r, TRUE) /\ output'[Dir(r)] = d /\ Dir(r) = WritesTo(me, r)
      /\ me.tool = "fresh" => output'[r] = d
  BY <1>3, <1>5, DirWritten
<1>7. ASSUME NEW code \in {"0", "1", "3"}, Over(r, TRUE, code) PROVE ReleaseInv'
  <2>1. code \in ExitCodes BY DEF ExitCodes
  <2> QED BY <1>0, <1>6, <1>7, <2>1, OverKeeps
<1>8. CASE me.tool = "fresh" /\ ~detected /\ Acts(r, TRUE, to)
  <2>1. me.verify /\ ~Detected(dir.files) /\ InScope(dir.files)
    BY <1>0, <1>8 DEF StaysClean, ReleaserState
  <2> HIDE DEF me, detected
  <2>2. to \in ReleaserState BY <1>0 DEF ReleaserState
  <2>3. /\ to.pc = "push" /\ to.left = me.left /\ to.tool = "fresh"
        /\ to.verify = me.verify /\ to.label = me.label /\ to.clone = me.clone
        /\ to.alone = me.alone /\ to.exit = me.exit
    BY <1>0, <1>8 DEF ReleaserState
  <2> HIDE DEF to
  <2>4. StaysClean(to, output'[r]) BY <1>0, <1>5, <1>6, <1>8, <2>1, <2>3 DEF StaysClean
  <2>5. StaysTrue(to, d, tree, head) BY <1>0, <1>5, <1>8, <2>3 DEF StaysTrue
  <2>6. WritesTo(to, r) = Dir(r) BY <1>6, <1>8, <2>3 DEF WritesTo
  <2> QED BY <1>0, <1>6, <1>8, <2>2, <2>4, <2>5, <2>6, ScriptStepKeeps
<1> QED BY <1>1, <1>7, <1>8

LEMMA PushAndCloneKeeps ==
  ASSUME ReleaseInv, NEW r \in Releaser, PushAndClone(r)
  PROVE  ReleaseInv'
<1> DEFINE me == releaser[r]
           clone == [output[r] EXCEPT !.files = Tracked(output[r].files)]
           to == [me EXCEPT !.pc = "judge", !.clone = clone]
<1>0. /\ me \in ReleaserState /\ UNCHANGED <<tree, head, output>> /\ tree \in Trees
      /\ StaysClean(me, output[r]) /\ StaysTrue(me, output[WritesTo(me, r)], tree, head)
      /\ me.pc = "push" /\ output[r] \in DirState
  BY DEF ReleaseInv, PushAndClone
<1>t. me.tool = "fresh" BY <1>0 DEF StaysClean
<1>u. WritesTo(me, r) = r BY <1>t DEF WritesTo
<1>1. output[r].files \in Trees BY <1>0 DEF DirState
<1>2. Over(r, FALSE, "2") \/ Acts(r, FALSE, to) BY <1>0 DEF PushAndClone, DirState
<1>3. CASE Over(r, FALSE, "2")
  <2>1. "2" \in ExitCodes BY DEF ExitCodes
  <2> QED BY <1>0, <1>3, <2>1, NothingWritten, OverKeeps
<1>4. CASE Acts(r, FALSE, to)
  <2>1. clone \in DirState /\ clone.files = Tracked(output[r].files)
    BY <1>0, <1>1, MirrorIsTree DEF DirState
  <2> HIDE DEF clone, me
  <2>2. to \in ReleaserState BY <1>0, <2>1 DEF ReleaserState
  <2>3. /\ to.pc = "judge" /\ to.left = me.left /\ to.tool = "fresh"
        /\ to.verify = me.verify /\ to.label = me.label /\ to.clone = clone
        /\ to.alone = me.alone /\ to.exit = me.exit
    BY <1>0, <1>t DEF ReleaserState
  <2> HIDE DEF to
  <2>4. /\ ~Detected(clone.files) /\ InScope(clone.files)
        /\ Tracked(clone.files) = clone.files
    <3>1. ~Detected(output[r].files) /\ InScope(output[r].files)
      BY <1>0, <1>t DEF StaysClean
    <3> QED BY <1>1, <2>1, <3>1, MirrorIsTree
  <2>5. StaysClean(to, output'[r]) BY <1>0, <2>3, <2>4 DEF StaysClean
  <2>6. me.alone => clone.files = Tracked(MirrorOf(tree))
    <3> HAVE me.alone
    <3>1. output[r].files = MirrorBut(tree, {}) BY <1>0, <1>u DEF StaysTrue
    <3>2. MirrorBut(tree, {}) = MirrorOf(tree) BY DEF MirrorBut, MirrorOf
    <3> QED BY <2>1, <3>1, <3>2
  <2>7. StaysTrue(to, output'[WritesTo(to, r)], tree, head)
    BY <1>0, <1>t, <2>3, <2>6 DEF StaysTrue
  <2> QED BY <1>0, <1>4, <2>2, <2>5, <2>7, NothingWritten, ScriptStepKeeps
<1> QED BY <1>2, <1>3, <1>4

(* A judgement of "0" says that the index is that of the tracked files.      *)
LEMMA StatusIsCode ==
  ASSUME NEW clone, NEW other
  PROVE  /\ CloneStatus(clone, other) \in ExitCodes
         /\ CloneStatus(clone, other) = "0" => ~IndexIsStale(clone)
  BY DEF CloneStatus, ExitCodes

LEMMA JudgeCloneKeeps ==
  ASSUME ReleaseInv, NEW r \in Releaser, JudgeClone(r)
  PROVE  ReleaseInv'
<1> DEFINE me == releaser[r]
           to == [me EXCEPT !.pc = "bootstrap"]
<1>0. /\ me \in ReleaserState /\ UNCHANGED <<tree, head, output>>
      /\ StaysClean(me, output[r]) /\ StaysTrue(me, output[WritesTo(me, r)], tree, head)
      /\ me.pc = "judge"
  BY DEF ReleaseInv, JudgeClone
<1>1. \/ \E code \in ExitCodes : Over(r, FALSE, code)
      \/ me.tool = "fresh" /\ ~IndexIsStale(me.clone) /\ Acts(r, FALSE, to)
  <2>1. PICK other \in OtherResults :
          LET code == CloneStatus(me.clone, other)
          IN  IF me.tool = "clone" THEN Over(r, FALSE, code)
              ELSE IF code = "0" THEN Stage(r, FALSE, "bootstrap") ELSE Over(r, FALSE, "3")
    BY DEF JudgeClone
  <2>2. me.tool \in {"clone", "fresh"} BY <1>0 DEF StaysClean
  <2>3. "3" \in ExitCodes BY DEF ExitCodes
  <2> QED BY <2>1, <2>2, <2>3, StatusIsCode DEF Stage
<1>2. CASE \E code \in ExitCodes : Over(r, FALSE, code)
  BY <1>0, <1>2, NothingWritten, OverKeeps
<1>3. CASE me.tool = "fresh" /\ ~IndexIsStale(me.clone) /\ Acts(r, FALSE, to)
  <2>1. me.clone.index = IndexOf(me.clone.files)
    BY <1>0, <1>3 DEF IndexIsStale, StaysClean
  <2> HIDE DEF me
  <2>2. to \in ReleaserState BY <1>0 DEF ReleaserState
  <2>3. /\ to.pc = "bootstrap" /\ to.left = me.left /\ to.tool = "fresh"
        /\ to.verify = me.verify /\ to.label = me.label /\ to.clone = me.clone
        /\ to.alone = me.alone /\ to.exit = me.exit
    BY <1>0, <1>3 DEF ReleaserState
  <2> HIDE DEF to
  <2>4. StaysClean(to, output'[r]) BY <1>0, <1>3, <2>1, <2>3 DEF StaysClean
  <2>5. StaysTrue(to, output'[WritesTo(to, r)], tree, head)
    BY <1>0, <1>3, <2>3 DEF StaysTrue
  <2> QED BY <1>0, <1>3, <2>2, <2>4, <2>5, NothingWritten, ScriptStepKeeps
<1> QED BY <1>1, <1>2, <1>3

LEMMA ReleaseAgainKeeps ==
  ASSUME ReleaseInv, NEW r \in Releaser, ReleaseAgain(r)
  PROVE  ReleaseInv'
<1>1. StaysClean(Resting, output[r]) /\ StaysTrue(Resting, output["out"], tree, head)
  <2>1. Resting.pc = "idle" /\ Resting.left = {} /\ Resting.tool = "none" /\ Resting.exit = "none"
    BY DEF Resting
  <2> QED BY <2>1, RestingIsState, RestingKnows
<1>2. WritesTo(Resting, r) = "out" BY DEF WritesTo, Resting
<1> QED BY <1>1, <1>2, RestingIsState DEF ReleaseInv, ReleaseAgain

(* Others edit and commit the tree, and clear the directory.                 *)
LEMMA OthersKeep ==
  ASSUME ReleaseInv,
         \/ \E p \in TreeFiles, text \in Texts \cup {NoFile} : EditTree(p, text)
         \/ CommitTree \/ ClearOut
  PROVE  ReleaseInv'
<1>0. /\ tree \in Trees /\ head \in Trees /\ output \in [{"out"} \cup Releaser -> DirState]
      /\ releaser' = Touched
  BY DEF ReleaseInv, EditTree, CommitTree, ClearOut
<1>1. ASSUME NEW p \in TreeFiles, NEW text \in Texts \cup {NoFile}, EditTree(p, text)
      PROVE  ReleaseInv'
  <2>1. text \in FileStates BY DEF FileStates
  <2>2. tree' \in Trees BY <1>0, <1>1, <2>1 DEF EditTree, Trees
  <2> QED BY <1>0, <1>1, <2>2, TouchedKeeps DEF EditTree
<1>2. CASE CommitTree BY <1>0, <1>2, TouchedKeeps DEF CommitTree
<1>3. CASE ClearOut
  <2>1. output' \in [{"out"} \cup Releaser -> DirState] BY <1>0, <1>3, EmptyIsDir DEF ClearOut
  <2>2. \A q \in Releaser : output'[q] = output[q] BY <1>0, <1>3, ReleaseSets DEF ClearOut
  <2> QED BY <1>0, <1>3, <2>1, <2>2, TouchedKeeps DEF ClearOut
<1> QED BY <1>1, <1>2, <1>3

LEMMA ReleaseStays == ReleaseSpec => []ReleaseInv
<1>1. ReleaseInit => ReleaseInv
  <2> SUFFICES ASSUME ReleaseInit PROVE ReleaseInv OBVIOUS
  <2>1. tree \in Trees /\ head \in Trees BY DEF ReleaseInit, Trees, FileStates, Texts
  <2>2. output \in [{"out"} \cup Releaser -> DirState] BY EmptyIsDir DEF ReleaseInit
  <2>3. releaser \in [Releaser -> ReleaserState] BY RestingIsState DEF ReleaseInit
  <2>4. /\ Resting.pc = "idle" /\ Resting.left = {} /\ Resting.tool = "none"
        /\ Resting.exit = "none"
    BY DEF Resting
  <2>5. \A r \in Releaser : releaser[r] = Resting BY DEF ReleaseInit
  <2> HIDE DEF Resting
  <2>6. \A r \in Releaser : /\ StaysClean(Resting, output[r])
                            /\ StaysTrue(Resting, output[WritesTo(Resting, r)], tree, head)
    BY <2>4, RestingIsState, RestingKnows
  <2> QED BY <2>1, <2>2, <2>3, <2>5, <2>6 DEF ReleaseInv
<1>2. ReleaseInv /\ [ReleaseNext]_releaseVars => ReleaseInv'
  <2> SUFFICES ASSUME ReleaseInv, [ReleaseNext]_releaseVars PROVE ReleaseInv' OBVIOUS
  <2>1. CASE UNCHANGED releaseVars BY <2>1 DEF releaseVars, ReleaseInv
  <2>2. ASSUME NEW r \in Releaser, BootstrapClone(r) PROVE ReleaseInv'
    <3>1. {"0", "4"} \subseteq ExitCodes BY DEF ExitCodes
    <3> QED BY <2>2, <3>1, NothingWritten, OverKeeps DEF BootstrapClone
  <2>3. ASSUME NEW r \in Releaser, ReleaserDies(r) PROVE ReleaseInv'
    <3>1. "killed" \in ExitCodes BY DEF ExitCodes
    <3> QED BY <2>3, <3>1, NothingWritten, OverKeeps DEF ReleaserDies
  <2>4. ASSUME NEW r \in Releaser, ReleaserStep(r) PROVE ReleaseInv'
    BY <2>2, <2>4, BeginBuildKeeps, PlanMirrorKeeps, CopyNextKeeps, WriteIndexKeeps,
       VerifyMirrorKeeps, PushAndCloneKeeps, BeginCleanCloneKeeps, JudgeCloneKeeps,
       ReleaseAgainKeeps
    DEF ReleaserStep
  <2> QED BY <2>1, <2>3, <2>4, OthersKeep DEF ReleaseNext
<1> QED BY <1>1, <1>2, PTL DEF ReleaseSpec

-----------------------------------------------------------------------------
(* Who passes has taken a step of its own.                                   *)
LEMMA OthersDoNotPass ==
  ASSUME ReleaseInv, NEW r \in Releaser, NEW q \in Releaser, NEW wrote, NEW to, q # r,
         Acts(q, wrote, to)
  PROVE  releaser'[r].exit = releaser[r].exit
<1>1. releaser[r] \in ReleaserState BY DEF ReleaseInv
<1>2. releaser'[r] = [releaser[r] EXCEPT !.alone = @ /\ ~(wrote /\ Releasing(r))]
  BY DEF Acts
<1> QED BY <1>1, <1>2 DEF ReleaserState

LEMMA OnlyOwnStepPasses ==
  ASSUME ReleaseInv, ReleaseNext, NEW r \in Releaser, Releasing(r), releaser'[r].exit = "0"
  PROVE  ReleaserStep(r)
<1>0. releaser[r] \in ReleaserState /\ releaser[r].exit = "none"
  BY DEF ReleaseInv, StaysClean, Releasing
<1>1. ASSUME releaser' = Touched PROVE FALSE
  <2>1. releaser'[r] = [releaser[r] EXCEPT !.alone = @ /\ ~Releasing(r)] BY <1>1 DEF Touched
  <2> QED BY <1>0, <2>1 DEF ReleaserState
<1>2. ASSUME NEW q \in Releaser, NEW wrote, NEW to, Acts(q, wrote, to) PROVE q = r
  BY <1>0, <1>2, OthersDoNotPass
<1>3. ~ReleaserDies(r)
  <2> SUFFICES ASSUME ReleaserDies(r) PROVE FALSE OBVIOUS
  <2>1. releaser'[r] = [Resting EXCEPT !.pc = "done", !.tool = releaser[r].tool, !.exit = "killed"]
    BY DEF ReleaserDies, Over, Acts
  <2>2. releaser'[r].exit = "killed" BY <2>1 DEF Resting
  <2> QED BY <2>2
<1>4. ASSUME NEW q \in Releaser, ReleaserDies(q) PROVE q = r
  BY <1>2, <1>4 DEF ReleaserDies, Over
<1>5. ASSUME NEW q \in Releaser, ReleaseAgain(q) PROVE q = r
  BY <1>0, <1>5 DEF ReleaseAgain, ReleaseInv
<1>6. ASSUME NEW q \in Releaser, ReleaserStep(q) PROVE q = r
  BY <1>2, <1>5, <1>6
  DEF ReleaserStep, BeginBuild, PlanMirror, CopyNext, WriteIndex, VerifyMirror, PushAndClone,
      BeginCleanClone, JudgeClone, BootstrapClone, Over, Stage
<1>7. ~\E p \in TreeFiles, text \in Texts \cup {NoFile} : EditTree(p, text)
  BY <1>1 DEF EditTree
<1>8. ~CommitTree /\ ~ClearOut BY <1>1 DEF CommitTree, ClearOut
<1> QED BY <1>3, <1>4, <1>6, <1>7, <1>8 DEF ReleaseNext

(* Only two steps end with code 0: a build's last one and a bootstrap's, as   *)
(* a clean clone that passes is neither a build nor a fresh-history run.      *)
LEMMA PassesAtTheEnd ==
  ASSUME ReleaseInv, NEW r \in Releaser, ReleaserStep(r), Releasing(r), releaser'[r].exit = "0",
         releaser[r].tool \in {"fresh", "build"}
  PROVE  \/ releaser[r].tool = "fresh" /\ releaser[r].pc = "bootstrap"
         \/ releaser[r].tool = "build" /\ releaser[r].pc = "verify"
<1> DEFINE me == releaser[r]
<1>0. me \in ReleaserState /\ StaysClean(me, output[r]) /\ me.exit = "none"
  BY DEF ReleaseInv, StaysClean, Releasing
<1>1. ASSUME NEW wrote, NEW code, Over(r, wrote, code) PROVE code = "0"
  <2>1. releaser'[r] = [Resting EXCEPT !.pc = "done", !.tool = releaser[r].tool, !.exit = code]
    BY <1>1 DEF Over, Acts
  <2>2. releaser'[r].exit = code BY <2>1 DEF Resting
  <2> QED BY <2>2
<1>2. ASSUME NEW wrote, NEW pc, Stage(r, wrote, pc) PROVE FALSE
  <2>1. releaser'[r] = [me EXCEPT !.pc = pc] BY <1>2 DEF Stage, Acts
  <2> QED BY <1>0, <2>1 DEF ReleaserState
<1>3. ASSUME NEW wrote, NEW left, NEW pc, Acts(r, wrote, [me EXCEPT !.left = left, !.pc = pc])
      PROVE  FALSE
  <2>1. releaser'[r] = [me EXCEPT !.left = left, !.pc = pc] BY <1>3 DEF Acts
  <2> QED BY <1>0, <2>1 DEF ReleaserState
<1>4. ASSUME NEW wrote, NEW left, Acts(r, wrote, [me EXCEPT !.left = left]) PROVE FALSE
  <2>1. releaser'[r] = [me EXCEPT !.left = left] BY <1>4 DEF Acts
  <2> QED BY <1>0, <2>1 DEF ReleaserState
<1>5. ASSUME NEW wrote, NEW clone, Acts(r, wrote, [me EXCEPT !.pc = "judge", !.clone = clone])
      PROVE  FALSE
  <2>1. releaser'[r] = [me EXCEPT !.pc = "judge", !.clone = clone] BY <1>5 DEF Acts
  <2> QED BY <1>0, <2>1 DEF ReleaserState
<1>6. ~BeginBuild(r) /\ ~BeginCleanClone(r) /\ ~ReleaseAgain(r)
  BY DEF BeginBuild, BeginCleanClone, ReleaseAgain, Releasing
<1>7. ~PlanMirror(r) BY <1>1, <1>3 DEF PlanMirror
<1>8. ~CopyNext(r)
  <2> SUFFICES ASSUME CopyNext(r) PROVE FALSE OBVIOUS
  <2>1. \/ Over(r, FALSE, IF me.tool = "fresh" THEN "1" ELSE "2")
        \/ \E p : Acts(r, TRUE, [me EXCEPT !.left = me.left \ {p}])
    BY <1>0 DEF CopyNext, ReleaserState
  <2> QED BY <1>1, <1>4, <2>1
<1>9. ~WriteIndex(r) BY <1>2 DEF WriteIndex
<1>10. ~PushAndClone(r)
  <2> SUFFICES ASSUME PushAndClone(r) PROVE FALSE OBVIOUS
  <2>1. Over(r, FALSE, "2") \/ \E clone : Acts(r, FALSE, [me EXCEPT !.pc = "judge", !.clone = clone])
    BY DEF PushAndClone
  <2> QED BY <1>1, <1>5, <2>1
<1>11. ~JudgeClone(r)
  <2> SUFFICES ASSUME JudgeClone(r) PROVE FALSE OBVIOUS
  <2>1. me.tool = "fresh" BY <1>0 DEF JudgeClone, StaysClean
  <2> QED BY <1>1, <1>2, <2>1 DEF JudgeClone
<1>12. CASE VerifyMirror(r)
  <2>1. me.pc = "verify" BY <1>12 DEF VerifyMirror
  <2>2. CASE me.tool = "fresh" BY <1>1, <1>2, <1>12, <2>2 DEF VerifyMirror
  <2> QED BY <2>1, <2>2
<1>13. CASE BootstrapClone(r)
  <2>1. me.pc = "bootstrap" BY <1>13 DEF BootstrapClone
  <2> QED BY <1>0, <2>1 DEF StaysClean
<1> QED BY <1>6, <1>7, <1>8, <1>9, <1>10, <1>11, <1>12, <1>13 DEF ReleaserStep

(* For any files, rules, scripts and edits: what a fresh-history run passes   *)
(* holds no private text, no stripped file and a true index; when nobody      *)
(* edited, it is the mirror of the commit it names, and what a build leaves    *)
(* is the whole mirror (runVerifyFreshHistoryRemote, runBuildPublicMirror).   *)
THEOREM ReleasesStayHonest == ReleaseSpec => ReleaseIsHonest
<1>1. ReleaseInv /\ [ReleaseNext]_releaseVars =>
        [\A r \in Releaser : Passes(r, "fresh") =>
            LET clone == releaser[r].clone
            IN  /\ ~Detected(clone.files)
                /\ \A p \in TreeFiles : clone.files[p] # NoFile => p \in Included \ Stripped
                /\ clone.index = IndexOf(clone.files)]_releaseVars
  <2> SUFFICES ASSUME ReleaseInv, [ReleaseNext]_releaseVars, releaseVars' # releaseVars,
                      NEW r \in Releaser, Passes(r, "fresh")
               PROVE  LET clone == releaser[r].clone
                      IN  /\ ~Detected(clone.files)
                          /\ \A p \in TreeFiles : clone.files[p] # NoFile => p \in Included \ Stripped
                          /\ clone.index = IndexOf(clone.files)
    OBVIOUS
  <2>1. releaser[r].tool = "fresh" /\ releaser[r].pc = "bootstrap"
    BY OnlyOwnStepPasses, PassesAtTheEnd DEF Passes
  <2>2. StaysClean(releaser[r], output[r]) BY DEF ReleaseInv
  <2> QED BY <2>1, <2>2 DEF StaysClean, InScope
<1>2. ReleaseInv /\ [ReleaseNext]_releaseVars =>
        [\A r \in Releaser :
            Passes(r, "fresh") /\ releaser[r].alone /\ ~releaser[r].label.dirty
            => releaser[r].clone.files = Tracked(MirrorOf(releaser[r].label.head))]_releaseVars
  <2> SUFFICES ASSUME ReleaseInv, [ReleaseNext]_releaseVars, releaseVars' # releaseVars,
                      NEW r \in Releaser, Passes(r, "fresh"), releaser[r].alone,
                      ~releaser[r].label.dirty
               PROVE  releaser[r].clone.files = Tracked(MirrorOf(releaser[r].label.head))
    OBVIOUS
  <2>1. releaser[r].tool = "fresh" /\ releaser[r].pc = "bootstrap"
    BY OnlyOwnStepPasses, PassesAtTheEnd DEF Passes
  <2>2. StaysTrue(releaser[r], output[WritesTo(releaser[r], r)], tree, head) BY DEF ReleaseInv
  <2>3. /\ releaser[r].label = [head |-> head, dirty |-> tree # head]
        /\ releaser[r].clone.files = Tracked(MirrorOf(tree))
    BY <2>1, <2>2 DEF StaysTrue
  <2>4. releaser[r].label.head = head /\ releaser[r].label.dirty = (tree # head)
    BY <2>3
  <2> QED BY <2>3, <2>4
<1>3. ReleaseInv /\ [ReleaseNext]_releaseVars =>
        [\A r \in Releaser :
            Passes(r, "build") /\ releaser[r].alone
            => output["out"].files = MirrorOf(tree)]_releaseVars
  <2> SUFFICES ASSUME ReleaseInv, [ReleaseNext]_releaseVars, releaseVars' # releaseVars,
                      NEW r \in Releaser, Passes(r, "build"), releaser[r].alone
               PROVE  output["out"].files = MirrorOf(tree)
    OBVIOUS
  <2>1. releaser[r].tool = "build" /\ releaser[r].pc = "verify"
    BY OnlyOwnStepPasses, PassesAtTheEnd DEF Passes
  <2>2. WritesTo(releaser[r], r) = "out" BY <2>1 DEF WritesTo
  <2>3. StaysTrue(releaser[r], output["out"], tree, head) BY <2>2 DEF ReleaseInv
  <2>4. output["out"].files = MirrorBut(tree, {}) BY <2>1, <2>3 DEF StaysTrue
  <2> QED BY <2>4 DEF MirrorBut, MirrorOf
<1> QED BY <1>1, <1>2, <1>3, ReleaseStays, PTL
        DEF ReleaseSpec, ReleaseIsHonest, PublishedIsClean, LabelIsHonest, BuildIsWhole

-----------------------------------------------------------------------------
(* EveShell: what a command knows of the sidecar while it is left alone      *)

BuiltStates == {<<>>} \cup (Nat \X Nat \X Nat)
UiState ==
  [kind : {"none", "git", "dir"}, tag : Nat, patch : Nat, repairs : 0..3, assets : Nat,
   locale : Nat, brand : Nat, core : Nat, built : BuiltStates]
HomeState ==
  [hermes : BOOLEAN, soul : {"none", "founder", "generated"}, saved : BOOLEAN,
   wrote : BOOLEAN, context : Nat, launchers : BOOLEAN, killswitch : BOOLEAN]
SessionState ==
  [status : {"none", "open", "closed", "polluted"}, markers : BOOLEAN, generation : Nat,
   old : BOOLEAN]
OpState ==
  [pc : {"idle", "source", "core", "hermes", "overlay", "build", "prepare", "preflight",
         "inspect", "brand", "session", "register", "close", "done"},
   kind : {"none", "install", "start", "close"}, force : BOOLEAN,
   release : DOMAIN Releases, read : SessionState, alone : BOOLEAN,
   result : {"none", "blocked", "pass", "polluted", "ready", "closed", "died"}]

(* What a tree is to release number "src".                                   *)
AppliedFor(t, src) ==
  /\ t.patch # 0
  /\ \E i \in DOMAIN Releases :
       Releases[i].patch = t.patch /\ Releases[i].marks = Releases[src].marks
  /\ t.repairs = 3 /\ t.locale = Releases[src].assets
ConflictsWith(t, src) == t.assets \notin {0, Releases[src].assets}

(* Which steps are whose.                                                    *)
OpClean(me) ==
  /\ me.pc # "done" => me.result = "none"
  /\ me.pc = "idle" => me.kind = "none"
  /\ me.pc \in {"source", "core", "hermes", "overlay", "build"} => me.kind = "install"
  /\ me.pc \in {"inspect", "brand", "session", "register"} => me.kind = "start"
  /\ me.pc \in {"prepare", "preflight"} => me.kind \in {"install", "start"}

(* A forced install that was left alone has the tree it cloned, and that has *)
(* only what the install did to it since.                                    *)
InstallKnows(me, t, src) ==
  /\ me.pc # "done" => me.release = src
  /\ me.pc \in {"core", "hermes", "overlay", "build", "prepare", "preflight"} =>
       t.kind = "git" /\ t.tag = Releases[src].tag
  /\ me.pc \in {"core", "hermes", "overlay"} => t.patch = 0 /\ t.repairs = 0 /\ t.assets = 0
  /\ me.pc = "core" => t.core = 0
  /\ me.pc \in {"hermes", "overlay", "build", "prepare", "preflight"} =>
       t.core = Releases[src].core
  /\ me.pc \in {"core", "hermes", "overlay", "build"} => t.built = <<>>
  /\ me.pc \in {"build", "prepare", "preflight"} =>
       AppliedFor(t, src) /\ t.patch = Releases[src].patch /\ t.assets = Releases[src].assets
  /\ me.pc \in {"prepare", "preflight"} =>
       t.built = <<Releases[src].tag, Releases[src].patch, Releases[src].assets>>

(* A start that was left alone still has what it found in order.             *)
StartKnows(me, t, h, s, src) ==
  /\ me.pc \in {"brand", "prepare", "preflight", "session", "register"} =>
       t.kind # "none" /\ AppliedFor(t, src) /\ ~ConflictsWith(t, src)
  /\ me.pc \in {"prepare", "preflight", "session", "register"} => t.brand = src
  /\ me.pc \in {"preflight", "session", "register"} => h.context = src
  /\ me.pc = "register" => me.read = s /\ ~Polluted(s)

OpTrue(me, t, h, s, src) ==
  me.alone => /\ me.kind = "install" /\ me.force => InstallKnows(me, t, src)
              /\ me.kind = "start" => StartKnows(me, t, h, s, src)

ShellInv ==
  /\ source \in DOMAIN Releases /\ ui \in UiState /\ home \in HomeState
  /\ session \in SessionState /\ op \in [Operator -> OpState]
  /\ FounderSoulKept
  /\ \A p \in Operator : OpClean(op[p]) /\ OpTrue(op[p], ui, home, session, source)

-----------------------------------------------------------------------------
LEMMA PinsAreNumbers ==
  /\ DOMAIN Releases \subseteq Nat /\ 1 \in DOMAIN Releases
  /\ DOMAIN Releases = 1..Len(Releases) /\ Len(Releases) \in Nat
  /\ \A i \in DOMAIN Releases :
       /\ Releases[i].tag \in Nat \ {0} /\ Releases[i].core \in Nat \ {0}
       /\ Releases[i].patch \in Nat \ {0} /\ Releases[i].marks \in Nat
       /\ Releases[i].assets \in Nat \ {0}
<1> DEFINE Pin == [tag : Nat \ {0}, core : Nat \ {0}, patch : Nat \ {0},
                   marks : Nat, assets : Nat \ {0}]
<1>1. Releases \in Seq(Pin) /\ Releases # <<>> BY ReleasePins
<1>2. \A r \in Pin : /\ r.tag \in Nat \ {0} /\ r.core \in Nat \ {0} /\ r.patch \in Nat \ {0}
                     /\ r.marks \in Nat /\ r.assets \in Nat \ {0}
  OBVIOUS
<1> HIDE DEF Pin
<1>3. Len(Releases) \in Nat /\ DOMAIN Releases = 1..Len(Releases) BY <1>1
<1>4. \A i \in DOMAIN Releases : Releases[i] \in Pin BY <1>1, <1>3
<1>5. Len(Releases) # 0 BY <1>1
<1> QED BY <1>2, <1>3, <1>4, <1>5

LEMMA OverlayIsOfRelease ==
  ASSUME NEW t
  PROVE  /\ OverlayApplied(t) <=> AppliedFor(t, source)
         /\ AssetConflict(t) <=> ConflictsWith(t, source)
         /\ Patched(t) <=> t.patch # 0 /\ \E i \in DOMAIN Releases :
                Releases[i].patch = t.patch /\ Releases[i].marks = Releases[source].marks
  BY DEF OverlayApplied, Patched, AssetConflict, AppliedFor, ConflictsWith, Release

LEMMA NotRunIsState == NoSession \in SessionState /\ NotRun \in OpState
<1>1. NoSession \in SessionState BY DEF NoSession, SessionState
<1> QED BY <1>1, PinsAreNumbers DEF NotRun, OpState

LEMMA IdleKnows ==
  ASSUME NEW me \in OpState, me.pc = "done" \/ (me.pc = "idle" /\ me.result = "none"),
         me.kind = "none", NEW t, NEW h, NEW s, NEW src
  PROVE  OpClean(me) /\ OpTrue(me, t, h, s, src)
  BY DEF OpClean, OpTrue

(* The loss of "alone" is all that others do to a command.                   *)
LEMMA CommandGoesOn ==
  ASSUME NEW me \in OpState, NEW b \in BOOLEAN, OpClean(me),
         NEW t, NEW h, NEW s, NEW src, b => me.alone /\ OpTrue(me, t, h, s, src)
  PROVE  LET to == [me EXCEPT !.alone = b]
         IN  to \in OpState /\ OpClean(to) /\ OpTrue(to, t, h, s, src)
<1> DEFINE to == [me EXCEPT !.alone = b]
<1>1. to \in OpState BY DEF OpState
<1>2. /\ to.pc = me.pc /\ to.kind = me.kind /\ to.force = me.force /\ to.release = me.release
      /\ to.read = me.read /\ to.alone = b /\ to.result = me.result
  BY DEF OpState
<1> HIDE DEF to
<1>3. OpClean(to) BY <1>2 DEF OpClean
<1>4. OpTrue(to, t, h, s, src)
  <2>1. CASE ~b BY <1>2, <2>1 DEF OpTrue
  <2>2. CASE b
    <3>1. InstallKnows(me, t, src) => InstallKnows(to, t, src) BY <1>2 DEF InstallKnows
    <3>2. StartKnows(me, t, h, s, src) => StartKnows(to, t, h, s, src)
      BY <1>2 DEF StartKnows
    <3> QED BY <1>2, <2>2, <3>1, <3>2 DEF OpTrue
  <2> QED BY <2>1, <2>2
<1> QED BY <1>1, <1>3, <1>4 DEF to

LEMMA NobodyRunning ==
  ASSUME NEW me, me.pc \in {"idle", "done"}, OpTrue(me, ui, home, session, source),
         me.pc = "idle" => me.kind = "none", NEW t, NEW h, NEW s, NEW src
  PROVE  OpTrue(me, t, h, s, src)
  BY DEF OpTrue, InstallKnows, StartKnows

LEMMA ShellStepKeeps ==
  ASSUME ShellInv, NEW p \in Operator, NEW wrote \in BOOLEAN, NEW to \in OpState,
         Steps(p, wrote, to), UNCHANGED source,
         ui' \in UiState, home' \in HomeState, session' \in SessionState, FounderSoulKept',
         wrote \/ UNCHANGED <<ui, home, session>>,
         OpClean(to), OpTrue(to, ui', home', session', source)
  PROVE  ShellInv'
<1>1. ASSUME NEW q \in Operator
      PROVE  /\ op'[q] \in OpState /\ OpClean(op'[q])
             /\ OpTrue(op'[q], ui', home', session', source)
  <2>1. CASE q = p
    <3>1. op'[q] = to BY <2>1 DEF Steps
    <3> QED BY <3>1
  <2>2. CASE q # p
    <3> DEFINE me == op[q]
               b == me.alone /\ ~(wrote /\ Runs(q))
    <3>1. op'[q] = [me EXCEPT !.alone = b] BY <2>2 DEF Steps
    <3>2. me \in OpState /\ OpClean(me) /\ OpTrue(me, ui, home, session, source)
      BY DEF ShellInv
    <3>3. b \in BOOLEAN BY <3>2 DEF OpState
    <3>4. b => me.alone /\ OpTrue(me, ui', home', session', source)
      <4> HAVE b
      <4>0. me.alone OBVIOUS
      <4>1. CASE ~wrote
        <5>1. ui' = ui /\ home' = home /\ session' = session BY <4>1
        <5> QED BY <3>2, <4>0, <5>1
      <4>2. CASE wrote
        <5>1. me.pc \in {"idle", "done"} BY <4>2 DEF Runs
        <5> QED BY <3>2, <4>0, <5>1, NobodyRunning DEF OpClean
      <4> QED BY <4>1, <4>2
    <3> HIDE DEF b, me
    <3> QED BY <3>1, <3>2, <3>3, <3>4, CommandGoesOn
  <2> QED BY <2>1, <2>2
<1>2. op' \in [Operator -> OpState]
  <2>1. op' = [q \in Operator |-> op'[q]] BY DEF Steps
  <2> QED BY <1>1, <2>1
<1> QED BY <1>1, <1>2 DEF ShellInv
(* Whatever happens around the commands, nobody is alone in it.              *)
LEMMA ShellEventKeeps ==
  ASSUME ShellInv, Around, source' \in DOMAIN Releases, ui' \in UiState, home' \in HomeState,
         session' \in SessionState, FounderSoulKept'
  PROVE  ShellInv'
<1>1. ASSUME NEW q \in Operator
      PROVE  /\ op'[q] \in OpState /\ OpClean(op'[q])
             /\ OpTrue(op'[q], ui', home', session', source')
  <2> DEFINE me == op[q]
             b == me.alone /\ ~Runs(q)
  <2>1. op'[q] = [me EXCEPT !.alone = b] BY DEF Around
  <2>2. me \in OpState /\ OpClean(me) /\ OpTrue(me, ui, home, session, source)
    BY DEF ShellInv
  <2>3. b \in BOOLEAN BY <2>2 DEF OpState
  <2>4. b => me.alone /\ OpTrue(me, ui', home', session', source')
    <3> HAVE b
    <3>1. me.alone /\ me.pc \in {"idle", "done"} BY DEF Runs
    <3> QED BY <2>2, <3>1, NobodyRunning DEF OpClean
  <2> HIDE DEF b, me
  <2> QED BY <2>1, <2>2, <2>3, <2>4, CommandGoesOn
<1>2. op' \in [Operator -> OpState]
  <2>1. op' = [q \in Operator |-> op'[q]] BY DEF Around
  <2> QED BY <1>1, <2>1
<1> QED BY <1>1, <1>2 DEF ShellInv

Results == {"blocked", "pass", "polluted", "ready", "closed", "died"}
LEMMA StopsKeep ==
  ASSUME ShellInv, NEW p \in Operator, NEW result \in Results, Stops(p, result),
         UNCHANGED source, ui' \in UiState, home' \in HomeState, session' \in SessionState,
         FounderSoulKept'
  PROVE  ShellInv'
<1> DEFINE to == [NotRun EXCEPT !.pc = "done", !.result = result]
<1>1. to \in OpState
  <2> HIDE DEF NotRun
  <2> QED BY NotRunIsState DEF OpState, Results
<1>2. to.pc = "done" /\ to.kind = "none" BY DEF NotRun
<1>3. Steps(p, TRUE, to) BY DEF Stops
<1> HIDE DEF to
<1>4. OpClean(to) BY <1>2 DEF OpClean
<1>a. OpTrue(to, ui', home', session', source) BY <1>2 DEF OpTrue
<1> QED BY <1>1, <1>3, <1>4, <1>a, ShellStepKeeps

(* Steps that move only a command on: "to" as the model writes it.           *)
LEMMA MovesOn ==
  ASSUME NEW me \in OpState, NEW pc
  PROVE  LET to == [me EXCEPT !.pc = pc]
         IN  /\ pc \in {"core", "hermes", "overlay", "build", "prepare", "preflight", "brand",
                        "session"} => to \in OpState
             /\ to.pc = pc /\ to.kind = me.kind /\ to.force = me.force
             /\ to.release = me.release /\ to.read = me.read /\ to.alone = me.alone
             /\ to.result = me.result
  BY DEF OpState

LEMMA ToKeeps ==
  ASSUME ShellInv, NEW p \in Operator, NEW wrote \in BOOLEAN,
         NEW pc \in {"core", "hermes", "overlay", "build", "prepare", "preflight", "brand",
                     "session"},
         To(p, wrote, pc), UNCHANGED source, ui' \in UiState, home' \in HomeState,
         UNCHANGED session, FounderSoulKept', wrote \/ UNCHANGED <<ui, home>>,
         op[p].pc \notin {"idle", "done"},
         pc \in {"core", "hermes", "overlay", "build"} => op[p].kind = "install",
         pc \in {"brand", "session"} => op[p].kind = "start",
         pc \in {"prepare", "preflight"} => op[p].kind \in {"install", "start"},
         \A me : /\ me.pc = pc /\ me.release = op[p].release /\ op[p].alone
                => /\ op[p].kind = "install" /\ op[p].force => InstallKnows(me, ui', source)
                   /\ op[p].kind = "start" => StartKnows(me, ui', home', session, source)
  PROVE  ShellInv'
<1> DEFINE me == op[p]
           to == [me EXCEPT !.pc = pc]
<1>0. me \in OpState /\ OpClean(me) /\ session \in SessionState BY DEF ShellInv
<1>1. Steps(p, wrote, to) BY DEF To
<1>2. /\ to \in OpState
      /\ to.pc = pc /\ to.kind = me.kind /\ to.force = me.force
      /\ to.release = me.release /\ to.read = me.read /\ to.alone = me.alone
      /\ to.result = me.result
  <2> HIDE DEF me
  <2> QED BY <1>0, MovesOn
<1> HIDE DEF to
<1>3. OpClean(to) BY <1>0, <1>2 DEF OpClean
<1>4. OpTrue(to, ui', home', session, source) BY <1>2 DEF OpTrue
<1>5. session' = session /\ session' \in SessionState BY <1>0
<1>6. wrote \/ UNCHANGED <<ui, home, session>> BY <1>5
<1> QED BY <1>1, <1>2, <1>3, <1>4, <1>5, <1>6, ShellStepKeeps

-----------------------------------------------------------------------------
(* The repairs rewrite one file after the other.                             *)
LEMMA RepairedIsSame ==
  ASSUME NEW t \in UiState, NEW u \in Repaired(t)
  PROVE  \E n \in 0..3 : u = [t EXCEPT !.repairs = n]
<1>1. ASSUME NEW v \in UiState, NEW w \in ChatRepair(v) \cup GuidRepair(v) \cup AcpRepair(v)
      PROVE  \E n \in 0..3 : w = [v EXCEPT !.repairs = n]
  <2>1. v.repairs \in 0..3 /\ v = [v EXCEPT !.repairs = v.repairs] BY DEF UiState
  <2>2. \/ w = v \/ w = [v EXCEPT !.repairs = 1] \/ w = [v EXCEPT !.repairs = 2]
        \/ w = [v EXCEPT !.repairs = 3]
    BY DEF ChatRepair, GuidRepair, AcpRepair
  <2> QED BY <2>1, <2>2
<1>2. \A n \in 0..3 : [t EXCEPT !.repairs = n] \in UiState BY DEF UiState
<1>3. \A m, n \in 0..3 : [[t EXCEPT !.repairs = m] EXCEPT !.repairs = n] = [t EXCEPT !.repairs = n]
  BY DEF UiState
<1>4. PICK a, b : a \in ChatRepair(t) /\ b \in GuidRepair(a) /\ u \in AcpRepair(b)
  BY DEF Repaired
<1>5. PICK m \in 0..3 : a = [t EXCEPT !.repairs = m] BY <1>1, <1>4
<1>a. a \in UiState BY <1>2, <1>5
<1>6. PICK n \in 0..3 : b = [a EXCEPT !.repairs = n] BY <1>1, <1>4, <1>a
<1>7. b = [t EXCEPT !.repairs = n] BY <1>3, <1>5, <1>6
<1>b. b \in UiState BY <1>2, <1>7
<1>8. PICK k \in 0..3 : u = [b EXCEPT !.repairs = k] BY <1>1, <1>4, <1>b
<1> QED BY <1>3, <1>7, <1>8

(* What an overlay of a tree leaves, when it says that it went well.         *)
LEMMA OverlaidIsApplied ==
  ASSUME ShellInv, NEW t \in UiState, NEW r \in Overlaid(t)
  PROVE  /\ r.tree \in UiState /\ r.tree.kind = t.kind /\ r.tree.tag = t.tag
         /\ r.tree.core = t.core /\ r.tree.built = t.built
         /\ r.ok => /\ r.tree.repairs = 3 /\ r.tree.locale = Releases[source].assets
                    /\ AppliedFor(r.tree, source)
                    /\ t.patch = 0 => r.tree.patch = Releases[source].patch
                    /\ ~ConflictsWith(t, source) => r.tree.assets = Releases[source].assets
<1> DEFINE n == IF AssetConflict(t) THEN t.assets ELSE Release.assets
           copied == [t EXCEPT !.assets = n, !.brand = source]
           k == IF Patched(t) THEN t.patch ELSE Release.patch
           patched == [copied EXCEPT !.patch = k]
           done(u) == [u EXCEPT !.locale = IF u.repairs = 3 THEN Release.assets ELSE u.locale]
<1>0. /\ source \in DOMAIN Releases /\ source \in Nat /\ Release.assets \in Nat
      /\ Release.patch \in Nat \ {0} /\ Release = Releases[source]
  BY PinsAreNumbers DEF ShellInv, Release
<1>1. n \in Nat /\ k \in Nat BY <1>0 DEF UiState
<1>2. /\ ~ConflictsWith(t, source) => n = Releases[source].assets
      /\ t.patch = 0 => k = Releases[source].patch
      /\ k # 0
      /\ \E i \in DOMAIN Releases :
           Releases[i].patch = k /\ Releases[i].marks = Releases[source].marks
  BY <1>0, OverlayIsOfRelease
<1>3. \/ ~Patched(t) /\ r = [ok |-> FALSE, tree |-> copied]
      \/ \E u \in Repaired(patched) : r = [ok |-> u.repairs = 3, tree |-> done(u)]
  BY <1>0 DEF Overlaid, UiState
<1> HIDE DEF n, k
<1>4. /\ copied \in UiState /\ copied.kind = t.kind /\ copied.tag = t.tag
      /\ copied.core = t.core /\ copied.built = t.built /\ copied.assets = n
  BY <1>0, <1>1 DEF UiState
<1> HIDE DEF copied
<1>5. /\ patched \in UiState /\ patched.kind = t.kind /\ patched.tag = t.tag
      /\ patched.core = t.core /\ patched.built = t.built /\ patched.assets = n
      /\ patched.patch = k
  BY <1>1, <1>4 DEF UiState
<1> HIDE DEF patched
<1>6. CASE r = [ok |-> FALSE, tree |-> copied]
  <2>1. r.tree = copied /\ ~r.ok BY <1>6
  <2> QED BY <1>4, <2>1
<1>7. CASE \E u \in Repaired(patched) : r = [ok |-> u.repairs = 3, tree |-> done(u)]
  <2>1. PICK u \in Repaired(patched) : r = [ok |-> u.repairs = 3, tree |-> done(u)]
    BY <1>7
  <2>2. PICK m \in 0..3 : u = [patched EXCEPT !.repairs = m] BY <1>5, RepairedIsSame
  <2>3. /\ u \in UiState /\ u.kind = t.kind /\ u.tag = t.tag /\ u.core = t.core
        /\ u.built = t.built /\ u.assets = n /\ u.patch = k
    BY <1>5, <2>2 DEF UiState
  <2> DEFINE l == IF u.repairs = 3 THEN Release.assets ELSE u.locale
             w == [u EXCEPT !.locale = l]
  <2>4. l \in Nat BY <1>0, <2>3 DEF UiState
  <2>5. r.tree = w /\ r.ok = (u.repairs = 3) BY <2>1
  <2>6. r.ok => l = Releases[source].assets BY <1>0, <2>5
  <2> HIDE DEF l
  <2>7. /\ w \in UiState /\ w.kind = t.kind /\ w.tag = t.tag /\ w.core = t.core
        /\ w.built = t.built /\ w.assets = n /\ w.patch = k /\ w.repairs = u.repairs
        /\ w.locale = l
    BY <2>3, <2>4 DEF UiState
  <2> HIDE DEF w
  <2>8. r.ok => AppliedFor(w, source) BY <1>2, <2>5, <2>6, <2>7 DEF AppliedFor
  <2> QED BY <1>2, <2>5, <2>6, <2>7, <2>8
<1> QED BY <1>3, <1>6, <1>7


-----------------------------------------------------------------------------
LEMMA FreshTree ==
  ASSUME ShellInv, NEW p \in Operator
  PROVE  /\ NoTree \in UiState /\ Cloned(p) \in UiState
         /\ Cloned(p).kind = "git" /\ Cloned(p).tag = Releases[op[p].release].tag
         /\ Cloned(p).patch = 0 /\ Cloned(p).repairs = 0 /\ Cloned(p).assets = 0
         /\ Cloned(p).core = 0 /\ Cloned(p).built = <<>>
<1>1. <<>> \in BuiltStates BY DEF BuiltStates
<1>2. NoTree \in UiState BY <1>1 DEF NoTree, UiState
<1>3. op[p] \in OpState BY DEF ShellInv
<1>4. op[p].release \in DOMAIN Releases BY <1>3 DEF OpState
<1>5. Pinned(p) = Releases[op[p].release] /\ Pinned(p).tag \in Nat
  BY <1>4, PinsAreNumbers DEF Pinned
<1>6. Cloned(p) \in UiState /\ Cloned(p).tag = Pinned(p).tag
  <2>1. Cloned(p) = [NoTree EXCEPT !.kind = "git", !.tag = Pinned(p).tag] BY DEF Cloned
  <2> QED BY <1>2, <1>5, <2>1 DEF UiState
<1>7. /\ Cloned(p).kind = "git" /\ Cloned(p).patch = 0 /\ Cloned(p).repairs = 0
      /\ Cloned(p).assets = 0 /\ Cloned(p).core = 0 /\ Cloned(p).built = <<>>
  BY DEF Cloned, NoTree
<1> QED BY <1>2, <1>5, <1>6, <1>7

LEMMA ShellTypes ==
  ASSUME ShellInv, NEW p \in Operator
  PROVE  /\ source \in DOMAIN Releases /\ source \in Nat /\ ui \in UiState /\ home \in HomeState
         /\ session \in SessionState /\ op[p] \in OpState /\ OpClean(op[p])
         /\ OpTrue(op[p], ui, home, session, source) /\ FounderSoulKept
         /\ op[p].release \in DOMAIN Releases
         /\ UNCHANGED home => FounderSoulKept'
  BY PinsAreNumbers DEF ShellInv, OpState, FounderSoulKept

LEMMA BeginInstallKeeps ==
  ASSUME ShellInv, NEW p \in Operator, BeginInstall(p)
  PROVE  ShellInv'
<1>0. /\ UNCHANGED <<source, ui, home, session>> /\ UNCHANGED home
      /\ ui' \in UiState /\ home' \in HomeState /\ session' \in SessionState /\ FounderSoulKept'
  BY ShellTypes DEF BeginInstall
<1>1. CASE Stops(p, "blocked") BY <1>0, <1>1, StopsKeep DEF Results
<1>2. ASSUME NEW force \in BOOLEAN,
             Steps(p, FALSE, [NotRun EXCEPT !.pc = "source", !.kind = "install",
                                            !.force = force, !.release = source])
      PROVE  ShellInv'
  <2> DEFINE to == [NotRun EXCEPT !.pc = "source", !.kind = "install", !.force = force,
                                  !.release = source]
  <2>1. to \in OpState
    <3> HIDE DEF NotRun
    <3>1. source \in DOMAIN Releases BY DEF ShellInv
    <3> QED BY <3>1, NotRunIsState DEF OpState
  <2>2. to.pc = "source" /\ to.kind = "install" /\ to.result = "none" /\ to.release = source
    BY DEF NotRun
  <2>3. Steps(p, FALSE, to) BY <1>2
  <2> HIDE DEF to
  <2>4. OpClean(to) BY <2>2 DEF OpClean
  <2>5. OpTrue(to, ui', home', session', source) BY <2>2 DEF OpTrue, InstallKnows
  <2> QED BY <1>0, <2>1, <2>3, <2>4, <2>5, ShellStepKeeps
<1> QED BY <1>1, <1>2 DEF BeginInstall

LEMMA GetSourceKeepsIt ==
  ASSUME ShellInv, NEW p \in Operator, GetSource(p)
  PROVE  ShellInv'
<1>0. /\ UNCHANGED source /\ UNCHANGED home /\ UNCHANGED session
      /\ ui \in UiState /\ home' \in HomeState /\ session' \in SessionState /\ FounderSoulKept'
      /\ op[p].pc = "source" /\ op[p].kind = "install"
      /\ op[p].alone /\ op[p].force => op[p].release = source
  BY ShellTypes DEF GetSource, OpClean, OpTrue, InstallKnows
<1>1. /\ \/ UNCHANGED ui \/ ui' = NoTree \/ ui' = Cloned(p)
      /\ Stops(p, "blocked") \/ To(p, TRUE, "core")
      /\ To(p, TRUE, "core") /\ op[p].force => ui' = Cloned(p) \/ Stops(p, "blocked")
  BY DEF GetSource
<1>2. ui' \in UiState BY <1>0, <1>1, FreshTree
<1>3. CASE Stops(p, "blocked") BY <1>0, <1>2, <1>3, StopsKeep DEF Results
<1>4. CASE To(p, TRUE, "core") /\ ~Stops(p, "blocked")
  <2>1. \A me : /\ me.pc = "core" /\ me.release = op[p].release /\ op[p].alone
               => /\ op[p].kind = "install" /\ op[p].force => InstallKnows(me, ui', source)
                  /\ op[p].kind = "start" => StartKnows(me, ui', home', session, source)
    BY <1>0, <1>1, <1>4, FreshTree DEF InstallKnows
  <2> QED BY <1>0, <1>2, <1>4, <2>1, ToKeeps
<1> QED BY <1>1, <1>3, <1>4

LEMMA PrepareCoreKeeps ==
  ASSUME ShellInv, NEW p \in Operator, PrepareCore(p)
  PROVE  ShellInv'
<1>0. /\ UNCHANGED source /\ UNCHANGED home /\ UNCHANGED session
      /\ ui \in UiState /\ home' \in HomeState /\ session' \in SessionState /\ FounderSoulKept'
      /\ op[p].pc = "core" /\ op[p].kind = "install" /\ op[p].release \in DOMAIN Releases
      /\ op[p].alone /\ op[p].force => InstallKnows(op[p], ui, source)
  BY ShellTypes DEF PrepareCore, OpClean, OpTrue
<1>1. ASSUME NEW core \in Nat, ui' = [ui EXCEPT !.core = core]
      PROVE  /\ ui' \in UiState /\ ui'.core = core /\ ui'.kind = ui.kind /\ ui'.tag = ui.tag
             /\ ui'.patch = ui.patch /\ ui'.repairs = ui.repairs /\ ui'.assets = ui.assets
             /\ ui'.built = ui.built
  BY <1>0, <1>1 DEF UiState
<1>2. CASE ui.core # 0 /\ UNCHANGED ui /\ To(p, TRUE, "hermes")
  <2>1. \A me : /\ me.pc = "hermes" /\ me.release = op[p].release /\ op[p].alone
               => /\ op[p].kind = "install" /\ op[p].force => InstallKnows(me, ui', source)
                  /\ op[p].kind = "start" => StartKnows(me, ui', home', session, source)
    BY <1>0, <1>2 DEF InstallKnows
  <2> QED BY <1>0, <1>2, <2>1, ToKeeps
<1>3. CASE ui.core = 0 /\ \E core \in AionCores(p) :
                /\ ui' = [ui EXCEPT !.core = core]
                /\ IF core = 0 THEN Stops(p, "blocked") ELSE To(p, TRUE, "hermes")
  <2>1. PICK core \in AionCores(p) :
                /\ ui' = [ui EXCEPT !.core = core]
                /\ IF core = 0 THEN Stops(p, "blocked") ELSE To(p, TRUE, "hermes")
    BY <1>3
  <2>2. core \in Nat /\ (core # 0 => core = Releases[op[p].release].core)
    BY <1>0, PinsAreNumbers DEF AionCores, Pinned
  <2>3. CASE core = 0 BY <1>0, <1>1, <2>1, <2>2, <2>3, StopsKeep DEF Results
  <2>4. CASE core # 0
    <3>1. \A me : /\ me.pc = "hermes" /\ me.release = op[p].release /\ op[p].alone
                 => /\ op[p].kind = "install" /\ op[p].force => InstallKnows(me, ui', source)
                    /\ op[p].kind = "start" => StartKnows(me, ui', home', session, source)
      BY <1>0, <1>1, <2>1, <2>2, <2>4 DEF InstallKnows
    <3> QED BY <1>0, <1>1, <2>1, <2>2, <2>4, <3>1, ToKeeps
  <2> QED BY <2>3, <2>4
<1> QED BY <1>2, <1>3 DEF PrepareCore

LEMMA InstallHermesKeeps ==
  ASSUME ShellInv, NEW p \in Operator, InstallHermes(p)
  PROVE  ShellInv'
<1>0. /\ UNCHANGED source /\ UNCHANGED ui /\ UNCHANGED session
      /\ ui' \in UiState /\ home \in HomeState /\ session' \in SessionState /\ FounderSoulKept
      /\ op[p].pc = "hermes" /\ op[p].kind = "install"
      /\ op[p].alone /\ op[p].force => InstallKnows(op[p], ui, source)
  BY ShellTypes DEF InstallHermes, OpClean, OpTrue
<1>1. CASE home' = [home EXCEPT !.hermes = TRUE] /\ To(p, TRUE, "overlay")
  <2>1. home' \in HomeState /\ FounderSoulKept' BY <1>0, <1>1 DEF HomeState, FounderSoulKept
  <2>2. \A me : /\ me.pc = "overlay" /\ me.release = op[p].release /\ op[p].alone
               => /\ op[p].kind = "install" /\ op[p].force => InstallKnows(me, ui', source)
                  /\ op[p].kind = "start" => StartKnows(me, ui', home', session, source)
    BY <1>0, <1>1 DEF InstallKnows
  <2> QED BY <1>0, <1>1, <2>1, <2>2, ToKeeps
<1>2. CASE UNCHANGED home /\ Stops(p, "blocked")
  BY <1>0, <1>2, StopsKeep DEF Results, FounderSoulKept
<1> QED BY <1>1, <1>2 DEF InstallHermes

LEMMA InstallOverlayKeeps ==
  ASSUME ShellInv, NEW p \in Operator, InstallOverlay(p)
  PROVE  ShellInv'
<1>0. /\ UNCHANGED source /\ UNCHANGED home /\ UNCHANGED session
      /\ ui \in UiState /\ home' \in HomeState /\ session' \in SessionState /\ FounderSoulKept'
      /\ op[p].pc = "overlay" /\ op[p].kind = "install"
      /\ op[p].alone /\ op[p].force => InstallKnows(op[p], ui, source)
  BY ShellTypes DEF InstallOverlay, OpClean, OpTrue
<1>1. \/ UNCHANGED ui /\ Stops(p, "blocked")
      \/ ui.kind = "none" /\ UNCHANGED ui /\ To(p, TRUE, "build")
      \/ \E result \in Overlaid(ui) :
            /\ ui' = result.tree
            /\ IF result.ok THEN To(p, TRUE, "build") ELSE Stops(p, "blocked")
  BY DEF InstallOverlay
<1>2. CASE UNCHANGED ui /\ Stops(p, "blocked") BY <1>0, <1>2, StopsKeep DEF Results
<1>3. CASE ui.kind = "none" /\ UNCHANGED ui /\ To(p, TRUE, "build")
  <2>1. \A me : /\ me.pc = "build" /\ me.release = op[p].release /\ op[p].alone
               => /\ op[p].kind = "install" /\ op[p].force => InstallKnows(me, ui', source)
                  /\ op[p].kind = "start" => StartKnows(me, ui', home', session, source)
    BY <1>0, <1>3 DEF InstallKnows
  <2> QED BY <1>0, <1>3, <2>1, ToKeeps
<1>4. ASSUME NEW result \in Overlaid(ui), ui' = result.tree,
             IF result.ok THEN To(p, TRUE, "build") ELSE Stops(p, "blocked")
      PROVE  ShellInv'
  <2>1. /\ ui' \in UiState /\ ui'.kind = ui.kind /\ ui'.tag = ui.tag
        /\ ui'.core = ui.core /\ ui'.built = ui.built
        /\ result.ok => /\ AppliedFor(ui', source)
                        /\ ui.patch = 0 => ui'.patch = Releases[source].patch
                        /\ ~ConflictsWith(ui, source) => ui'.assets = Releases[source].assets
    BY <1>0, <1>4, OverlaidIsApplied
  <2>2. CASE ~result.ok BY <1>0, <1>4, <2>1, <2>2, StopsKeep DEF Results
  <2>3. CASE result.ok
    <3>1. ui.assets = 0 => ~ConflictsWith(ui, source) BY DEF ConflictsWith
    <3>2. \A me : /\ me.pc = "build" /\ me.release = op[p].release /\ op[p].alone
                 => /\ op[p].kind = "install" /\ op[p].force => InstallKnows(me, ui', source)
                    /\ op[p].kind = "start" => StartKnows(me, ui', home', session, source)
      BY <1>0, <2>1, <2>3, <3>1 DEF InstallKnows
    <3> QED BY <1>0, <1>4, <2>1, <2>3, <3>2, ToKeeps
  <2> QED BY <2>2, <2>3
<1> QED BY <1>1, <1>2, <1>3, <1>4

LEMMA BuildRendererKeeps ==
  ASSUME ShellInv, NEW p \in Operator, BuildRenderer(p)
  PROVE  ShellInv'
<1>0. /\ UNCHANGED source /\ UNCHANGED home /\ UNCHANGED session
      /\ ui \in UiState /\ home' \in HomeState /\ session' \in SessionState /\ FounderSoulKept'
      /\ op[p].pc = "build" /\ op[p].kind = "install"
      /\ op[p].alone /\ op[p].force => InstallKnows(op[p], ui, source)
  BY ShellTypes DEF BuildRenderer, OpClean, OpTrue
<1>1. CASE UNCHANGED ui /\ Stops(p, "blocked") BY <1>0, <1>1, StopsKeep DEF Results
<1>2. CASE ui.built # <<>> /\ UNCHANGED ui /\ To(p, TRUE, "prepare")
  <2>1. \A me : /\ me.pc = "prepare" /\ me.release = op[p].release /\ op[p].alone
               => /\ op[p].kind = "install" /\ op[p].force => InstallKnows(me, ui', source)
                  /\ op[p].kind = "start" => StartKnows(me, ui', home', session, source)
    BY <1>0, <1>2 DEF InstallKnows
  <2> QED BY <1>0, <1>2, <2>1, ToKeeps
<1>3. CASE /\ ui' = [ui EXCEPT !.built = <<ui.tag, ui.patch, ui.assets>>]
           /\ To(p, TRUE, "prepare")
  <2> DEFINE built == <<ui.tag, ui.patch, ui.assets>>
  <2>1. ui.tag \in Nat /\ ui.patch \in Nat /\ ui.assets \in Nat BY <1>0 DEF UiState
  <2>2. built \in BuiltStates BY <2>1 DEF BuiltStates
  <2> HIDE DEF built
  <2>3. ui' = [ui EXCEPT !.built = built] BY <1>3 DEF built
  <2>4. /\ ui' \in UiState /\ ui'.core = ui.core /\ ui'.kind = ui.kind /\ ui'.tag = ui.tag
        /\ ui'.patch = ui.patch /\ ui'.repairs = ui.repairs /\ ui'.assets = ui.assets
        /\ ui'.locale = ui.locale /\ ui'.built = built
    BY <1>0, <2>2, <2>3 DEF UiState
  <2>5. \A me : /\ me.pc = "prepare" /\ me.release = op[p].release /\ op[p].alone
               => /\ op[p].kind = "install" /\ op[p].force => InstallKnows(me, ui', source)
                  /\ op[p].kind = "start" => StartKnows(me, ui', home', session, source)
    <3>1. AppliedFor(ui, source) => AppliedFor(ui', source) BY <2>4 DEF AppliedFor
    <3>2. op[p].alone /\ op[p].force =>
            built = <<Releases[source].tag, Releases[source].patch, Releases[source].assets>>
      BY <1>0 DEF InstallKnows, built
    <3> QED BY <1>0, <2>4, <3>1, <3>2 DEF InstallKnows
  <2> QED BY <1>0, <1>3, <2>4, <2>5, ToKeeps
<1> QED BY <1>1, <1>2, <1>3 DEF BuildRenderer

LEMMA PrepareKeeps ==
  ASSUME ShellInv, NEW p \in Operator, Prepare(p)
  PROVE  ShellInv'
<1>0. /\ UNCHANGED source /\ UNCHANGED ui /\ UNCHANGED session
      /\ ui' \in UiState /\ home \in HomeState /\ session' \in SessionState /\ FounderSoulKept
      /\ op[p].pc = "prepare" /\ op[p].kind \in {"install", "start"} /\ source \in Nat
      /\ op[p].alone /\ op[p].force /\ op[p].kind = "install" => InstallKnows(op[p], ui, source)
      /\ op[p].alone /\ op[p].kind = "start" => StartKnows(op[p], ui, home, session, source)
  BY ShellTypes DEF Prepare, OpClean, OpTrue
<1>1. CASE UNCHANGED home /\ Stops(p, "blocked")
  BY <1>0, <1>1, StopsKeep DEF Results, FounderSoulKept
<1>2. CASE home' = Prepared /\ To(p, TRUE, "preflight")
  <2> DEFINE saved == home.saved \/ BackupIfNeeded(home.soul)
  <2>1. saved \in BOOLEAN BY <1>0 DEF HomeState, BackupIfNeeded
  <2>2. home' = [home EXCEPT !.saved = saved, !.soul = "generated", !.context = source]
    BY <1>0, <1>2 DEF Prepared, HomeState
  <2>3. home.soul = "founder" => saved BY DEF BackupIfNeeded
  <2>4. home.saved => saved OBVIOUS
  <2> HIDE DEF saved
  <2>5. /\ home' \in HomeState /\ home'.context = source /\ home'.saved = saved
        /\ home'.wrote = home.wrote
    BY <1>0, <2>1, <2>2 DEF HomeState
  <2>6. FounderSoulKept' BY <1>0, <2>3, <2>4, <2>5 DEF FounderSoulKept
  <2>7. \A me : /\ me.pc = "preflight" /\ me.release = op[p].release /\ op[p].alone
               => /\ op[p].kind = "install" /\ op[p].force => InstallKnows(me, ui', source)
                  /\ op[p].kind = "start" => StartKnows(me, ui', home', session, source)
    BY <1>0, <2>5 DEF InstallKnows, StartKnows
  <2> QED BY <1>0, <1>2, <2>5, <2>6, <2>7, ToKeeps
<1> QED BY <1>1, <1>2 DEF Prepare

LEMMA PreflightKeeps ==
  ASSUME ShellInv, NEW p \in Operator, Preflight(p)
  PROVE  ShellInv'
<1>0. /\ UNCHANGED source /\ UNCHANGED ui /\ UNCHANGED session
      /\ ui' \in UiState /\ home \in HomeState /\ session' \in SessionState /\ FounderSoulKept
      /\ op[p].pc = "preflight" /\ op[p].kind \in {"install", "start"}
      /\ op[p].alone /\ op[p].kind = "start" => StartKnows(op[p], ui, home, session, source)
  BY ShellTypes DEF Preflight, OpClean, OpTrue
<1>1. ASSUME home' = [home EXCEPT !.launchers = TRUE] \/ UNCHANGED home,
             NEW result \in Results, Stops(p, result)
      PROVE  ShellInv'
  <2>1. home' \in HomeState /\ FounderSoulKept' BY <1>0, <1>1 DEF HomeState, FounderSoulKept
  <2> QED BY <1>0, <1>1, <2>1, StopsKeep
<1>2. ASSUME op[p].kind = "start", UNCHANGED home, To(p, FALSE, "session") PROVE ShellInv'
  <2>1. \A me : /\ me.pc = "session" /\ me.release = op[p].release /\ op[p].alone
               => /\ op[p].kind = "install" /\ op[p].force => InstallKnows(me, ui', source)
                  /\ op[p].kind = "start" => StartKnows(me, ui', home', session, source)
    BY <1>0, <1>2 DEF StartKnows
  <2>2. home' \in HomeState /\ FounderSoulKept' BY <1>0, <1>2 DEF FounderSoulKept
  <2> QED BY <1>0, <1>2, <2>1, <2>2, ToKeeps
<1> QED BY <1>0, <1>1, <1>2 DEF Preflight, Results

-----------------------------------------------------------------------------
LEMMA BeginStartKeeps ==
  ASSUME ShellInv, NEW p \in Operator, BeginStart(p)
  PROVE  ShellInv'
<1>0. /\ UNCHANGED <<source, ui, home, session>> /\ UNCHANGED home
      /\ ui' \in UiState /\ home' \in HomeState /\ session' \in SessionState /\ FounderSoulKept'
  BY ShellTypes DEF BeginStart
<1>1. PICK apply \in BOOLEAN :
          Steps(p, FALSE, [NotRun EXCEPT !.pc = "inspect", !.kind = "start", !.force = apply])
  BY DEF BeginStart
<1> DEFINE to == [NotRun EXCEPT !.pc = "inspect", !.kind = "start", !.force = apply]
<1>2. to \in OpState
  <2> HIDE DEF NotRun
  <2> QED BY NotRunIsState DEF OpState
<1>3. to.pc = "inspect" /\ to.kind = "start" /\ to.result = "none" BY DEF NotRun
<1>4. Steps(p, FALSE, to) BY <1>1
<1> HIDE DEF to
<1>5. OpClean(to) BY <1>3 DEF OpClean
<1>6. OpTrue(to, ui', home', session', source) BY <1>3 DEF OpTrue, StartKnows
<1> QED BY <1>0, <1>2, <1>4, <1>5, <1>6, ShellStepKeeps

LEMMA StartOverlayKeeps ==
  ASSUME ShellInv, NEW p \in Operator, StartOverlay(p)
  PROVE  ShellInv'
<1>0. /\ UNCHANGED source /\ UNCHANGED home /\ UNCHANGED session
      /\ ui \in UiState /\ home' \in HomeState /\ session' \in SessionState /\ FounderSoulKept'
      /\ op[p].pc = "inspect" /\ op[p].kind = "start"
  BY ShellTypes DEF StartOverlay, OpClean, OpTrue
<1>1. PICK found \in Inspection(ui) :
          CASE found = "applied" -> UNCHANGED ui /\ To(p, FALSE, "brand")
            [] found = "ready" /\ op[p].force /\ ~home.killswitch ->
                  \E result \in Overlaid(ui) :
                     /\ ui' = result.tree
                     /\ IF result.ok /\ OverlayApplied(ui') THEN To(p, TRUE, "brand")
                        ELSE Stops(p, "blocked")
            [] OTHER -> UNCHANGED ui /\ Stops(p, "blocked")
  BY DEF StartOverlay
<1>2. \/ found = "applied" /\ UNCHANGED ui /\ To(p, FALSE, "brand")
      \/ found = "ready" /\ \E result \in Overlaid(ui) :
            /\ ui' = result.tree
            /\ \/ result.ok /\ To(p, TRUE, "brand")
               \/ Stops(p, "blocked")
      \/ UNCHANGED ui /\ Stops(p, "blocked")
  BY <1>1
<1>3. found # "blocked" => ui.kind # "none" /\ ~ConflictsWith(ui, source)
  BY OverlayIsOfRelease DEF Inspection
<1>4. found = "applied" => AppliedFor(ui, source)
  BY OverlayIsOfRelease DEF Inspection
<1>5. CASE found = "applied" /\ UNCHANGED ui /\ To(p, FALSE, "brand")
  <2>1. \A me : /\ me.pc = "brand" /\ me.release = op[p].release /\ op[p].alone
               => /\ op[p].kind = "install" /\ op[p].force => InstallKnows(me, ui', source)
                  /\ op[p].kind = "start" => StartKnows(me, ui', home', session, source)
    BY <1>0, <1>3, <1>4, <1>5 DEF StartKnows
  <2> QED BY <1>0, <1>5, <2>1, ToKeeps
<1>6. ASSUME found = "ready", NEW result \in Overlaid(ui), ui' = result.tree,
             (result.ok /\ To(p, TRUE, "brand")) \/ Stops(p, "blocked")
      PROVE  ShellInv'
  <2>1. /\ ui' \in UiState /\ ui'.kind = ui.kind
        /\ result.ok => /\ AppliedFor(ui', source)
                        /\ ~ConflictsWith(ui, source) => ui'.assets = Releases[source].assets
    BY <1>0, <1>6, OverlaidIsApplied
  <2>2. CASE Stops(p, "blocked") BY <1>0, <2>1, <2>2, StopsKeep DEF Results
  <2>3. CASE result.ok /\ To(p, TRUE, "brand")
    <3>1. ~ConflictsWith(ui', source) BY <1>3, <1>6, <2>1, <2>3 DEF ConflictsWith
    <3>2. \A me : /\ me.pc = "brand" /\ me.release = op[p].release /\ op[p].alone
                 => /\ op[p].kind = "install" /\ op[p].force => InstallKnows(me, ui', source)
                    /\ op[p].kind = "start" => StartKnows(me, ui', home', session, source)
      BY <1>0, <1>3, <1>6, <2>1, <2>3, <3>1 DEF StartKnows
    <3> QED BY <1>0, <2>1, <2>3, <3>2, ToKeeps
  <2> QED BY <1>6, <2>2, <2>3
<1>7. CASE UNCHANGED ui /\ Stops(p, "blocked") BY <1>0, <1>7, StopsKeep DEF Results
<1> QED BY <1>2, <1>5, <1>6, <1>7

LEMMA RefreshBrandKeeps ==
  ASSUME ShellInv, NEW p \in Operator, RefreshBrand(p)
  PROVE  ShellInv'
<1>0. /\ UNCHANGED source /\ UNCHANGED home /\ UNCHANGED session
      /\ ui \in UiState /\ home' \in HomeState /\ session' \in SessionState /\ FounderSoulKept'
      /\ op[p].pc = "brand" /\ op[p].kind = "start" /\ source \in Nat /\ To(p, TRUE, "prepare")
      /\ op[p].alone => StartKnows(op[p], ui, home, session, source)
  BY ShellTypes DEF RefreshBrand, OpClean, OpTrue
<1>1. ui' = IF ui.kind = "none" THEN ui ELSE [ui EXCEPT !.brand = source] BY DEF RefreshBrand
<1>2. /\ ui' \in UiState /\ ui'.kind = ui.kind /\ ui'.patch = ui.patch
      /\ ui'.repairs = ui.repairs /\ ui'.locale = ui.locale /\ ui'.assets = ui.assets
      /\ ui.kind # "none" => ui'.brand = source
  BY <1>0, <1>1 DEF UiState
<1>3. /\ AppliedFor(ui, source) => AppliedFor(ui', source)
      /\ ConflictsWith(ui', source) <=> ConflictsWith(ui, source)
  BY <1>2 DEF AppliedFor, ConflictsWith
<1>4. \A me : /\ me.pc = "prepare" /\ me.release = op[p].release /\ op[p].alone
             => /\ op[p].kind = "install" /\ op[p].force => InstallKnows(me, ui', source)
                /\ op[p].kind = "start" => StartKnows(me, ui', home', session, source)
  BY <1>0, <1>2, <1>3 DEF StartKnows
<1> QED BY <1>0, <1>2, <1>4, ToKeeps

LEMMA SessionsAreStates ==
  ASSUME NEW s \in SessionState
  PROVE  SessionFor(s) \in SessionState /\ ClosedSession(s) \in SessionState
<1>1. s.generation \in Nat BY DEF SessionState
<1>2. ASSUME NEW n \in {0, 1} PROVE s.generation + n \in Nat BY <1>1
<1>3. SessionFor(s) \in SessionState BY <1>2 DEF SessionFor, SessionState
<1>4. ClosedSession(s) \in SessionState BY DEF ClosedSession, SessionState
<1> QED BY <1>3, <1>4

LEMMA ReadSessionKeeps ==
  ASSUME ShellInv, NEW p \in Operator, ReadSession(p)
  PROVE  ShellInv'
<1> DEFINE me == op[p]
           to == [me EXCEPT !.pc = "register", !.read = session]
<1>0. /\ UNCHANGED <<source, ui, home, session>> /\ UNCHANGED source /\ UNCHANGED home
      /\ ui' \in UiState /\ home' \in HomeState /\ session' \in SessionState /\ FounderSoulKept'
      /\ session \in SessionState
      /\ me.pc = "session" /\ me.kind = "start" /\ me \in OpState /\ OpClean(me)
      /\ me.alone => StartKnows(me, ui, home, session, source)
  BY ShellTypes DEF ReadSession, OpClean, OpTrue
<1>1. \/ Stops(p, "blocked") \/ Stops(p, "polluted")
      \/ ~Polluted(session) /\ Steps(p, FALSE, to)
  BY DEF ReadSession
<1>2. ASSUME NEW result \in {"blocked", "polluted"}, Stops(p, result) PROVE ShellInv'
  BY <1>0, <1>2, StopsKeep DEF Results
<1>3. CASE ~Polluted(session) /\ Steps(p, FALSE, to)
  <2> HIDE DEF me
  <2>1. to \in OpState BY <1>0 DEF OpState
  <2>2. /\ to.pc = "register" /\ to.kind = me.kind /\ to.read = session
        /\ to.alone = me.alone /\ to.result = me.result
    BY <1>0 DEF OpState
  <2> HIDE DEF to
  <2>3. OpClean(to) BY <1>0, <2>2 DEF OpClean
  <2>4. OpTrue(to, ui', home', session', source)
    BY <1>0, <1>3, <2>2 DEF OpTrue, StartKnows
  <2> QED BY <1>0, <1>3, <2>1, <2>3, <2>4, ShellStepKeeps
<1> QED BY <1>1, <1>2, <1>3

LEMMA WriteSessionKeeps ==
  ASSUME ShellInv, NEW p \in Operator, WriteSession(p) \/ WriteClosed(p)
  PROVE  ShellInv'
<1>0. /\ UNCHANGED source /\ ui' \in UiState /\ home' \in HomeState /\ FounderSoulKept'
  BY ShellTypes DEF WriteSession, WriteClosed
<1>1. op[p].read \in SessionState BY ShellTypes DEF OpState
<1>2. session' \in SessionState
  BY <1>1, SessionsAreStates DEF WriteSession, WriteClosed
<1>3. \E result \in Results : Stops(p, result) BY DEF WriteSession, WriteClosed, Results
<1> QED BY <1>0, <1>2, <1>3, StopsKeep

LEMMA BeginCloseKeeps ==
  ASSUME ShellInv, NEW p \in Operator, BeginClose(p)
  PROVE  ShellInv'
<1> DEFINE to == [NotRun EXCEPT !.pc = "close", !.kind = "close", !.read = session]
<1>0. /\ UNCHANGED <<source, ui, home, session>> /\ UNCHANGED home
      /\ ui' \in UiState /\ home' \in HomeState /\ session' \in SessionState /\ FounderSoulKept'
      /\ session \in SessionState
  BY ShellTypes DEF BeginClose
<1>2. to \in OpState
  <2> HIDE DEF NotRun
  <2> QED BY <1>0, NotRunIsState DEF OpState
<1>3. to.pc = "close" /\ to.kind = "close" /\ to.result = "none" BY DEF NotRun
<1>4. Steps(p, FALSE, to) BY DEF BeginClose
<1> HIDE DEF to
<1>5. OpClean(to) BY <1>3 DEF OpClean
<1>6. OpTrue(to, ui', home', session', source) BY <1>3 DEF OpTrue
<1> QED BY <1>0, <1>2, <1>4, <1>5, <1>6, ShellStepKeeps

LEMMA OperatorDiesKeeps ==
  ASSUME ShellInv, NEW p \in Operator, OperatorDies(p)
  PROVE  ShellInv'
<1>0. /\ UNCHANGED source /\ ui' \in UiState /\ home' \in HomeState
      /\ session' \in SessionState /\ FounderSoulKept'
  BY ShellTypes DEF OperatorDies
<1> QED BY <1>0, StopsKeep DEF OperatorDies, Results

LEMMA RunAgainKeeps ==
  ASSUME ShellInv, NEW p \in Operator, RunAgain(p)
  PROVE  ShellInv'
<1>1. /\ UNCHANGED <<source, ui, home, session>> /\ op' = [op EXCEPT ![p] = NotRun]
      /\ UNCHANGED home
  BY DEF RunAgain
<1>2. NotRun.pc = "idle" /\ NotRun.result = "none" /\ NotRun.kind = "none" BY DEF NotRun
<1>3. OpClean(NotRun) BY <1>2 DEF OpClean
<1>4. OpTrue(NotRun, ui, home, session, source) BY <1>2 DEF OpTrue
<1> QED BY <1>1, <1>3, <1>4, NotRunIsState DEF ShellInv, FounderSoulKept

(* What is done around the commands.                                         *)
LEMMA EventsKeep ==
  ASSUME ShellInv, \/ PullRelease \/ FounderSoul \/ FlipKillswitch \/ PlainDirectory
                   \/ DaysGoBy \/ MarkPolluted
  PROVE  ShellInv'
<1>0. /\ source \in DOMAIN Releases /\ ui \in UiState /\ home \in HomeState
      /\ session \in SessionState /\ FounderSoulKept
  BY DEF ShellInv
<1>1. Around
  BY DEF PullRelease, FounderSoul, FlipKillswitch, PlainDirectory, DaysGoBy, MarkPolluted
<1>2. source' \in DOMAIN Releases
  BY <1>0, PinsAreNumbers
  DEF PullRelease, FounderSoul, FlipKillswitch, PlainDirectory, DaysGoBy, MarkPolluted
<1>3. ui' \in UiState
  BY <1>0
  DEF PullRelease, FounderSoul, FlipKillswitch, PlainDirectory, DaysGoBy, MarkPolluted, UiState
<1>4. home' \in HomeState /\ FounderSoulKept'
  BY <1>0
  DEF PullRelease, FounderSoul, FlipKillswitch, PlainDirectory, DaysGoBy, MarkPolluted, HomeState,
      FounderSoulKept
<1>5. session' \in SessionState
  BY <1>0
  DEF PullRelease, FounderSoul, FlipKillswitch, PlainDirectory, DaysGoBy, MarkPolluted,
      SessionState
<1> QED BY <1>1, <1>2, <1>3, <1>4, <1>5, ShellEventKeeps

LEMMA ShellStays == ShellSpec => []ShellInv
<1>1. ShellInit => ShellInv
  <2> SUFFICES ASSUME ShellInit PROVE ShellInv OBVIOUS
  <2>1. source \in DOMAIN Releases BY PinsAreNumbers DEF ShellInit
  <2>2. ui \in UiState BY DEF ShellInit, NoTree, UiState, BuiltStates
  <2>3. home \in HomeState /\ FounderSoulKept BY DEF ShellInit, HomeState, FounderSoulKept
  <2>4. session \in SessionState /\ op \in [Operator -> OpState]
    BY NotRunIsState DEF ShellInit
  <2>5. NotRun.pc = "idle" /\ NotRun.result = "none" /\ NotRun.kind = "none" BY DEF NotRun
  <2>6. \A p \in Operator : op[p] = NotRun BY DEF ShellInit
  <2> HIDE DEF NotRun
  <2>7. OpClean(NotRun) /\ OpTrue(NotRun, ui, home, session, source)
    BY <2>5 DEF OpClean, OpTrue
  <2> QED BY <2>1, <2>2, <2>3, <2>4, <2>6, <2>7 DEF ShellInv
<1>2. ShellInv /\ [ShellNext]_shellVars => ShellInv'
  <2> SUFFICES ASSUME ShellInv, [ShellNext]_shellVars PROVE ShellInv' OBVIOUS
  <2>1. CASE UNCHANGED shellVars BY <2>1 DEF shellVars, ShellInv, FounderSoulKept
  <2>2. CASE LaunchEve BY <2>2 DEF LaunchEve, ShellInv, FounderSoulKept
  <2> QED BY <2>1, <2>2, BeginInstallKeeps, GetSourceKeepsIt, PrepareCoreKeeps,
             InstallHermesKeeps, InstallOverlayKeeps, BuildRendererKeeps, PrepareKeeps,
             PreflightKeeps, BeginStartKeeps, StartOverlayKeeps, RefreshBrandKeeps,
             ReadSessionKeeps, WriteSessionKeeps, BeginCloseKeeps, OperatorDiesKeeps,
             RunAgainKeeps, EventsKeep
      DEF ShellNext
<1> QED BY <1>1, <1>2, PTL DEF ShellSpec


-----------------------------------------------------------------------------
(* What ends with "pass" or "ready" has taken its own last step.             *)
LEMMA StepsResult ==
  ASSUME ShellInv, NEW p \in Operator
  PROVE  /\ \A q \in Operator : q # p =>
              \A wrote, to : Steps(q, wrote, to) => op'[p].result = op[p].result
         /\ \A result : Stops(p, result) => op'[p].result = result
         /\ \A wrote, pc : To(p, wrote, pc) => op'[p].result = op[p].result
         /\ Around => op'[p].result = op[p].result
<1>0. op[p] \in OpState BY DEF ShellInv
<1>1. ASSUME NEW q \in Operator, NEW wrote, NEW to, q # p, Steps(q, wrote, to)
      PROVE  op'[p].result = op[p].result
  <2>1. op'[p] = [op[p] EXCEPT !.alone = @ /\ ~(wrote /\ Runs(p))] BY <1>1 DEF Steps
  <2> QED BY <1>0, <2>1 DEF OpState
<1>2. ASSUME NEW result, Stops(p, result) PROVE op'[p].result = result
  <2>1. op'[p] = [NotRun EXCEPT !.pc = "done", !.result = result] BY <1>2 DEF Stops, Steps
  <2> QED BY <2>1 DEF NotRun
<1>3. ASSUME NEW wrote, NEW pc, To(p, wrote, pc) PROVE op'[p].result = op[p].result
  <2>1. op'[p] = [op[p] EXCEPT !.pc = pc] BY <1>3 DEF To, Steps
  <2> QED BY <1>0, <2>1 DEF OpState
<1>4. ASSUME Around PROVE op'[p].result = op[p].result
  <2>1. op'[p] = [op[p] EXCEPT !.alone = @ /\ ~Runs(p)] BY <1>4 DEF Around
  <2> QED BY <1>0, <2>1 DEF OpState
<1> QED BY <1>1, <1>2, <1>3, <1>4

CommandStep(p) ==
  \/ BeginInstall(p) \/ GetSource(p) \/ PrepareCore(p) \/ InstallHermes(p)
  \/ InstallOverlay(p) \/ BuildRenderer(p) \/ Prepare(p) \/ Preflight(p)
  \/ BeginStart(p) \/ StartOverlay(p) \/ RefreshBrand(p) \/ ReadSession(p)
  \/ WriteSession(p) \/ BeginClose(p) \/ WriteClosed(p) \/ OperatorDies(p)
  \/ RunAgain(p)

LEMMA OnlyOwnCommandFinishes ==
  ASSUME ShellInv, ShellNext, NEW p \in Operator, op[p].result = "none", op'[p].result # "none"
  PROVE  CommandStep(p)
<1>1. ASSUME NEW q \in Operator, NEW wrote, NEW to, Steps(q, wrote, to) PROVE q = p
  BY <1>1, StepsResult
<1>2. ~Around BY StepsResult
<1>3. ASSUME NEW q \in Operator, RunAgain(q) PROVE q = p BY <1>3 DEF RunAgain, ShellInv
<1>4. ASSUME NEW q \in Operator, CommandStep(q) PROVE q = p
  <2>1. ASSUME NEW result, Stops(q, result) PROVE q = p BY <1>1, <2>1 DEF Stops
  <2>2. ASSUME NEW wrote, NEW pc, To(q, wrote, pc) PROVE q = p BY <1>1, <2>2 DEF To
  <2>3. CASE BeginInstall(q) BY <1>1, <2>1, <2>3 DEF BeginInstall
  <2>4. CASE GetSource(q) BY <2>1, <2>2, <2>4 DEF GetSource
  <2>5. CASE PrepareCore(q) BY <2>1, <2>2, <2>5 DEF PrepareCore
  <2>6. CASE InstallHermes(q) BY <2>1, <2>2, <2>6 DEF InstallHermes
  <2>7. CASE InstallOverlay(q) BY <2>1, <2>2, <2>7 DEF InstallOverlay
  <2>8. CASE BuildRenderer(q) BY <2>1, <2>2, <2>8 DEF BuildRenderer
  <2>9. CASE Prepare(q) BY <2>1, <2>2, <2>9 DEF Prepare
  <2>10. CASE Preflight(q) BY <2>1, <2>2, <2>10 DEF Preflight
  <2>11. CASE BeginStart(q) BY <1>1, <2>11 DEF BeginStart
  <2>12. CASE StartOverlay(q) BY <2>1, <2>2, <2>12 DEF StartOverlay
  <2>13. CASE RefreshBrand(q) BY <2>2, <2>13 DEF RefreshBrand
  <2>14. CASE ReadSession(q) BY <1>1, <2>1, <2>14 DEF ReadSession
  <2>15. CASE WriteSession(q) BY <2>1, <2>15 DEF WriteSession
  <2>16. CASE BeginClose(q) BY <1>1, <2>16 DEF BeginClose
  <2>17. CASE WriteClosed(q) BY <2>1, <2>17 DEF WriteClosed
  <2>18. CASE OperatorDies(q) BY <2>1, <2>18 DEF OperatorDies
  <2> QED BY <1>3, <1>4, <2>3, <2>4, <2>5, <2>6, <2>7, <2>8, <2>9, <2>10, <2>11, <2>12,
             <2>13, <2>14, <2>15, <2>16, <2>17, <2>18
      DEF CommandStep
<1>5. ~LaunchEve BY DEF LaunchEve
<1>6. ~PullRelease /\ ~FounderSoul /\ ~FlipKillswitch /\ ~PlainDirectory /\ ~DaysGoBy /\ ~MarkPolluted
  BY <1>2 DEF PullRelease, FounderSoul, FlipKillswitch, PlainDirectory, DaysGoBy, MarkPolluted
<1> QED BY <1>4, <1>5, <1>6 DEF ShellNext, CommandStep

LEMMA FinishesAtTheEnd ==
  ASSUME ShellInv, NEW p \in Operator, CommandStep(p), op[p].result = "none",
         op'[p].result \in {"pass", "ready"}
  PROVE  \/ op'[p].result = "pass" /\ op[p].pc = "preflight" /\ op[p].kind = "install"
            /\ home' = [home EXCEPT !.launchers = TRUE]
         \/ op'[p].result = "ready" /\ op[p].pc = "register" /\ op[p].kind = "start"
            /\ session' = SessionFor(op[p].read)
<1>1. /\ \A result : Stops(p, result) => result = op'[p].result
      /\ ~Stops(p, "blocked") /\ ~Stops(p, "polluted") /\ ~Stops(p, "closed")
      /\ ~Stops(p, "died")
  BY StepsResult
<1>2. /\ \A wrote, pc : ~To(p, wrote, pc)
      /\ \A wrote \in BOOLEAN :
           ~To(p, wrote, "core") /\ ~To(p, wrote, "hermes") /\ ~To(p, wrote, "overlay")
           /\ ~To(p, wrote, "build") /\ ~To(p, wrote, "prepare") /\ ~To(p, wrote, "preflight")
           /\ ~To(p, wrote, "brand") /\ ~To(p, wrote, "session")
  BY StepsResult
<1>3. ASSUME NEW wrote, NEW to, Steps(p, wrote, to) PROVE to.result \in {"pass", "ready"}
  BY <1>3 DEF Steps
<1>0. op[p] \in OpState /\ OpClean(op[p]) BY DEF ShellInv
<1>4. ~BeginInstall(p) /\ ~BeginStart(p) /\ ~BeginClose(p) /\ ~RunAgain(p)
  <2>1. ASSUME NEW force, NEW r, Steps(p, FALSE, [NotRun EXCEPT !.pc = "source", !.kind = "install",
                                                 !.force = force, !.release = r])
        PROVE  FALSE
    <3>1. [NotRun EXCEPT !.pc = "source", !.kind = "install", !.force = force,
                         !.release = r].result = "none" BY DEF NotRun
    <3> QED BY <1>3, <2>1, <3>1
  <2>2. ASSUME NEW apply, Steps(p, FALSE, [NotRun EXCEPT !.pc = "inspect", !.kind = "start",
                                                         !.force = apply])
        PROVE  FALSE
    <3>1. [NotRun EXCEPT !.pc = "inspect", !.kind = "start", !.force = apply].result = "none"
      BY DEF NotRun
    <3> QED BY <1>3, <2>2, <3>1
  <2>3. ~BeginClose(p)
    <3>1. [NotRun EXCEPT !.pc = "close", !.kind = "close", !.read = session].result = "none"
      BY DEF NotRun
    <3> QED BY <1>3, <3>1 DEF BeginClose
  <2>4. ~RunAgain(p)
    <3> SUFFICES ASSUME RunAgain(p) PROVE FALSE OBVIOUS
    <3>1. op'[p] = NotRun BY DEF RunAgain, ShellInv
    <3> QED BY <3>1 DEF NotRun
  <2> QED BY <1>1, <2>1, <2>2, <2>3, <2>4 DEF BeginInstall, BeginStart
<1>5. ~GetSource(p) BY <1>1, <1>2 DEF GetSource
<1>6. ~PrepareCore(p) BY <1>1, <1>2 DEF PrepareCore
<1>7. ~InstallHermes(p) BY <1>1, <1>2 DEF InstallHermes
<1>8. ~InstallOverlay(p) BY <1>1, <1>2 DEF InstallOverlay
<1>9. ~BuildRenderer(p) BY <1>1, <1>2 DEF BuildRenderer
<1>10. ~Prepare(p) BY <1>1, <1>2 DEF Prepare
<1>11. ~StartOverlay(p) BY <1>1, <1>2 DEF StartOverlay
<1>12. ~RefreshBrand(p) BY <1>2 DEF RefreshBrand
<1>13. ~ReadSession(p)
  <2> SUFFICES ASSUME ReadSession(p) PROVE FALSE OBVIOUS
  <2>1. [op[p] EXCEPT !.pc = "register", !.read = session].result = "none"
    BY <1>0 DEF OpState
  <2> QED BY <1>1, <1>3, <2>1 DEF ReadSession
<1>14. ~WriteClosed(p) /\ ~OperatorDies(p) BY <1>1 DEF WriteClosed, OperatorDies
<1>15. CASE Preflight(p)
  <2>1. PICK passes \in BOOLEAN :
          /\ op[p].pc = "preflight"
          /\ IF op[p].kind = "install"
             THEN /\ home' = [home EXCEPT !.launchers = TRUE]
                  /\ Stops(p, IF passes THEN "pass" ELSE "blocked")
             ELSE IF passes THEN To(p, FALSE, "session") ELSE Stops(p, "blocked")
    BY <1>15 DEF Preflight
  <2>2. op[p].kind = "install" BY <1>1, <1>2, <2>1
  <2>3. CASE passes BY <1>1, <2>1, <2>2, <2>3
  <2>4. CASE ~passes BY <1>1, <2>1, <2>2, <2>4
  <2> QED BY <2>3, <2>4
<1>16. CASE WriteSession(p) BY <1>0, <1>1, <1>16 DEF WriteSession, OpClean
<1> QED BY <1>4, <1>5, <1>6, <1>7, <1>8, <1>9, <1>10, <1>11, <1>12, <1>13, <1>14, <1>15, <1>16
        DEF CommandStep

(* For any releases, commands and events: a forced install that passes with   *)
(* nobody else at work leaves what its release pins (runCommandEveInstall).   *)
THEOREM PassesStayPinned == ShellSpec => PassIsPinned
<1>1. ShellInv /\ [ShellNext]_shellVars =>
        [\A p \in Operator : Finishes(p, "pass") /\ op[p].force =>
            /\ ui.tag = Release.tag /\ ui.core = Release.core /\ ui.patch = Release.patch
            /\ ui.built = <<Release.tag, Release.patch, Release.assets>>
            /\ OverlayApplied(ui) /\ home'.launchers]_shellVars
  <2> SUFFICES ASSUME ShellInv, [ShellNext]_shellVars, shellVars' # shellVars,
                      NEW p \in Operator, Finishes(p, "pass"), op[p].force
               PROVE  /\ ui.tag = Release.tag /\ ui.core = Release.core /\ ui.patch = Release.patch
                      /\ ui.built = <<Release.tag, Release.patch, Release.assets>>
                      /\ OverlayApplied(ui) /\ home'.launchers
    OBVIOUS
  <2>1. /\ op[p].pc = "preflight" /\ op[p].kind = "install"
        /\ home' = [home EXCEPT !.launchers = TRUE] /\ op[p].alone
    BY OnlyOwnCommandFinishes, FinishesAtTheEnd DEF Finishes
  <2>2. InstallKnows(op[p], ui, source) BY <2>1 DEF ShellInv, OpTrue
  <2>3. home'.launchers BY <2>1 DEF ShellInv, HomeState
  <2> QED BY <2>1, <2>2, <2>3, OverlayIsOfRelease DEF InstallKnows, Release
<1> QED BY <1>1, ShellStays, PTL DEF ShellSpec, PassIsPinned

(* For any releases, commands and events: a start that ends ready with nobody *)
(* else at work has found an applied overlay and opened a clean session, and  *)
(* no command loses the founder's SOUL.md (runStartEve, prepareEveSidecar).    *)
THEOREM StartsStaySound == ShellSpec => StartIsSound
<1>1. ShellInv /\ [ShellNext]_shellVars =>
        [\A p \in Operator : Finishes(p, "ready") =>
            /\ OverlayApplied(ui) /\ ~AssetConflict(ui)
            /\ ui.brand = source /\ home.context = source
            /\ session'.status = "open" /\ ~session.markers /\ ~session'.old
            /\ session.old /\ session.status = "open" =>
                  session'.generation > session.generation]_shellVars
  <2> SUFFICES ASSUME ShellInv, [ShellNext]_shellVars, shellVars' # shellVars,
                      NEW p \in Operator, Finishes(p, "ready")
               PROVE  /\ OverlayApplied(ui) /\ ~AssetConflict(ui)
                      /\ ui.brand = source /\ home.context = source
                      /\ session'.status = "open" /\ ~session.markers /\ ~session'.old
                      /\ session.old /\ session.status = "open" =>
                            session'.generation > session.generation
    OBVIOUS
  <2>1. /\ op[p].pc = "register" /\ op[p].kind = "start"
        /\ session' = SessionFor(op[p].read) /\ op[p].alone
    BY OnlyOwnCommandFinishes, FinishesAtTheEnd DEF Finishes
  <2>2. StartKnows(op[p], ui, home, session, source) BY <2>1 DEF ShellInv, OpTrue
  <2>3. session' = SessionFor(session) /\ ~Polluted(session) /\ session \in SessionState
    BY <2>1, <2>2 DEF StartKnows, ShellInv
  <2>4. /\ session'.status = "open" /\ ~session'.old
        /\ session'.generation =
             session.generation + IF session = NoSession \/ StaleSession(session) THEN 1 ELSE 0
    BY <2>3 DEF SessionFor
  <2>5. session.old /\ session.status = "open" => session'.generation > session.generation
    BY <2>3, <2>4 DEF StaleSession, SessionState
  <2>6. ~session.markers BY <2>3 DEF Polluted, SessionState
  <2> QED BY <2>1, <2>2, <2>4, <2>5, <2>6, OverlayIsOfRelease DEF StartKnows
<1>2. ShellInv => FounderSoulKept BY DEF ShellInv
<1> QED BY <1>1, <1>2, ShellStays, PTL DEF ShellSpec, StartIsSound, ReadyIsSound
=============================================================================
