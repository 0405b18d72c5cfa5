---------------------------- MODULE FirstInstall ----------------------------
(* How a company's directory gets its first Company.OS files: bootstrap.mjs    *)
(* copies the kit, first-company-packet.mjs turns an intake into a packet, and  *)
(* public-rc.mjs, self-serve-smoke.mjs and command-eve-self-install.mjs do both *)
(* in stages. Each may be cut off between two files and started again, while    *)
(* the founder works in the same directory.                                    *)
EXTENDS Integers, Sequences

CONSTANTS Inputs,       \* intakes: [company, complete, pack, confirmed, verified], the
                        \* dates as ages in days or Unset; one per company
          Registries,   \* sets of packs: [id, finance, sends, gate, mode, money], gates
                        \* in tenths of HG
          Installer,    \* invocations of the five commands
          MaxFounderEdits      \* the founder's own edits and removals

\* A company is not one of the other things a file can be.
ASSUME InstallInputs == /\ \A i \in Inputs : i.company \notin {"missing", "kit", "edited"}
                        /\ MaxFounderEdits \in Nat

VARIABLES files,        \* the target: file -> Missing, "kit", "edited" or a company
          draft,        \* the child of the newest Plane draft, or NoDraft
          installer,
          founderEdits
installVars == <<files, draft, installer, founderEdits>>

Unset == 999
FreshDays == 30
Missing == "missing"
NoDraft == [pack |-> "none"]
NoInput == [company |-> "none"]

\* listFilesRecursive of the kit, then GENERATED_FILE_SPECS; the packet's files.
ScaffoldFiles == <<"guide">>
Generated == <<"gates", "brief">>
PacketFiles == <<"brief", "record", "boot", "draft">>
TargetFiles == {"guide", "gates", "brief", "intake", "record", "boot", "draft"}
Named(q) == {q[n] : n \in DOMAIN q}

Waiting == [pc |-> "idle", kind |-> "none", force |-> FALSE, input |-> NoInput,
            registry |-> {}, todo |-> <<>>, before |-> {}, alone |-> TRUE,
            result |-> "none"]
InstallInit ==
    /\ files = [f \in TargetFiles |-> Missing]
    /\ draft = NoDraft
    /\ installer = [p \in Installer |-> Waiting]
    /\ founderEdits = 0

-----------------------------------------------------------------------------
(* What a packet is made of.                                                  *)
\* validatePack.
\* Mutant: a finance pack passes with any gate a founder stands behind.
PackValidLow(p) ==
    /\ p.gate \in {10, 20, 25, 30, 35, 40}
    /\ p.finance => p.gate >= 25 /\ p.money
    /\ p.sends => p.mode = "draft-only"
PackValid(p) ==
    /\ p.gate \in {10, 20, 25, 30, 35, 40}
    /\ p.finance => p.gate >= 30 /\ p.money
    /\ p.sends => p.mode = "draft-only"
RegistryValid(registry) ==
    \A p, q \in registry : PackValid(p) /\ (p.id = q.id => p = q)

\* buildIntakeRecord: the company and the pack are confirmed, and verified when the
\* intake says so, else when it was confirmed, else today.
ConfirmedAge(i) == IF i.confirmed = Unset THEN 0 ELSE i.confirmed
VerifiedAge(i) == IF i.verified = Unset THEN ConfirmedAge(i) ELSE i.verified
\* evaluateFreshness, with the confirmation date for now.
Stale(i) == VerifiedAge(i) - ConfirmedAge(i) > FreshDays

\* buildFirstCompanyPacket: the Plane child it drafts, or nothing.
ChildOf(i, registry) ==
    {[pack |-> p.id, finance |-> p.finance, sends |-> p.sends, gate |-> p.gate,
      mode |-> p.mode, money |-> p.money, age |-> VerifiedAge(i)] :
        p \in {q \in registry : q.id = i.pack}}
Packet(i, registry) ==
    IF i.complete /\ ~Stale(i) /\ RegistryValid(registry) THEN ChildOf(i, registry) ELSE {}

-----------------------------------------------------------------------------
Active(p) == installer[p].pc \notin {"idle", "done"}
\* The process goes on; what it writes is news to the others.
Goes(p, changed, steps) ==
    installer' = [q \in Installer |->
        IF q = p THEN steps
        ELSE [installer[q] EXCEPT !.alone = @ /\ (changed => ~Active(q))]]
\* What a finished command leaves behind is in the target; only its result is kept.
Ends(r, result) == [Waiting EXCEPT !.pc = "done", !.result = result]
Finish(p, result) ==
    /\ Goes(p, FALSE, Ends(installer[p], result))
    /\ UNCHANGED <<files, draft, founderEdits>>

Composed == {"public-rc", "self-install"}
Begin(p) ==
    /\ installer[p].pc = "idle"
    /\ \E kind \in {"bootstrap", "packet", "smoke"} \cup Composed,
          force \in BOOLEAN, i \in Inputs, registry \in Registries :
          /\ kind = "smoke" => ~force
          /\ LET r == [Waiting EXCEPT !.kind = kind, !.force = force, !.input = i,
                          !.registry = registry,
                          !.before = {f \in TargetFiles : files[f] # Missing}]
             IN  \/ /\ kind \in Composed => i.complete
                    /\ Goes(p, FALSE,
                            [r EXCEPT !.pc = IF kind = "packet" THEN "packet" ELSE "bootstrap"])
                 \/ /\ kind \in Composed         \* input.validate, source.check, ...
                    /\ Goes(p, FALSE, Ends(r, "error"))
    /\ UNCHANGED <<files, draft, founderEdits>>

\* runBootstrap: its dry run and its apply look for collisions alike.
\* Mutant: only the copied files are looked for, not the generated ones.
CollisionsCopied(present) == present \cap Named(ScaffoldFiles)
Collisions(present) == present \cap (Named(ScaffoldFiles) \cup Named(Generated))
BeginCopy(p) ==
    /\ installer[p].pc = "bootstrap"
    /\ LET found == Collisions({f \in TargetFiles : files[f] # Missing})
       IN  IF found # {} /\ ~installer[p].force THEN Finish(p, "blocked")
           ELSE \/ /\ Goes(p, FALSE, [installer[p] EXCEPT !.pc = "copy",
                                                          !.todo = ScaffoldFiles \o Generated])
                   /\ UNCHANGED <<files, draft, founderEdits>>
                \/ Finish(p, "error")             \* the source has no kit, or no template

\* One file is written; after the last one the next stage is due.
WriteNext(p, content, next) ==
    LET r == installer[p]
        rest == Tail(r.todo)
    IN  /\ files' = [files EXCEPT ![Head(r.todo)] = content]
        /\ Goes(p, TRUE, IF rest # <<>> THEN [r EXCEPT !.todo = rest]
                         ELSE IF next = "done" THEN Ends(r, "pass")
                         ELSE [r EXCEPT !.todo = <<>>, !.pc = next])
CopyKitFile(p) ==
    /\ installer[p].pc = "copy"
    /\ WriteNext(p, "kit", IF installer[p].kind = "bootstrap" THEN "done" ELSE "intake")
    /\ UNCHANGED <<draft, founderEdits>>

\* ensureSmokeIntake keeps an intake that is there and goes on with it.
SmokeIntake == CHOOSE i \in Inputs : i.company = files["intake"]

\* Mutant: the staged installs keep an intake that is there, and go on with theirs.
WriteIntakeKeeps(p) ==
    /\ installer[p].pc = "intake"
    /\ LET r == installer[p]
           there == files["intake"] # Missing
       IN  CASE r.kind = "smoke" /\ there ->
                   /\ Goes(p, FALSE, [r EXCEPT !.pc = "packet", !.input = SmokeIntake])
                   /\ UNCHANGED files
             [] r.kind # "smoke" /\ there ->
                   Goes(p, FALSE, [r EXCEPT !.pc = "packet"]) /\ UNCHANGED files
             [] OTHER ->
                   /\ files' = [files EXCEPT !["intake"] = r.input.company]
                   /\ Goes(p, TRUE, [r EXCEPT !.pc = "packet"])
    /\ UNCHANGED <<draft, founderEdits>>
\* writeCompanyIntake, and the smoke test's intake.
WriteIntake(p) ==
    /\ installer[p].pc = "intake"
    /\ LET r == installer[p]
           there == files["intake"] # Missing
       IN  CASE r.kind = "smoke" /\ there ->
                   /\ Goes(p, FALSE, [r EXCEPT !.pc = "packet", !.input = SmokeIntake])
                   /\ UNCHANGED files
             [] r.kind # "smoke" /\ there /\ ~r.force ->
                   Goes(p, FALSE, Ends(r, "blocked")) /\ UNCHANGED files
             [] OTHER ->
                   /\ files' = [files EXCEPT !["intake"] = r.input.company]
                   /\ Goes(p, TRUE, [r EXCEPT !.pc = "packet"])
    /\ UNCHANGED <<draft, founderEdits>>

\* buildFirstCompanyPacket and the collisions of writeFirstCompanyPacket: the CLI's
\* force allows all, the stages' force only the brief that bootstrap has just copied.
BlockedFiles(kind, force, present) ==
    IF kind = "packet" THEN {f \in present : ~force} ELSE present \ {"brief"}
BuildPacket(p) ==
    /\ installer[p].pc = "packet"
    /\ LET r == installer[p]
           present == {f \in Named(PacketFiles) : files[f] # Missing}
       IN  CASE Packet(r.input, r.registry) = {} -> Finish(p, "error")
             [] Packet(r.input, r.registry) # {}
                   /\ BlockedFiles(r.kind, r.force, present) # {} -> Finish(p, "blocked")
             [] OTHER -> /\ Goes(p, FALSE, [r EXCEPT !.pc = "write", !.todo = PacketFiles])
                         /\ UNCHANGED <<files, draft, founderEdits>>
WritePacketFile(p) ==
    /\ installer[p].pc = "write"
    /\ WriteNext(p, installer[p].input.company,
                 IF installer[p].kind = "packet" THEN "done" ELSE "check")
    /\ IF Head(installer[p].todo) = "draft"
       THEN draft' \in Packet(installer[p].input, installer[p].registry)
       ELSE UNCHANGED draft
    /\ UNCHANGED founderEdits

\* update.check and update.apply_dry_run look and do not write; then the handoff, or
\* the operator shell.
CheckUpdate(p) ==
    /\ installer[p].pc = "check"
    /\ \/ Finish(p, "error")
       \/ /\ installer[p].kind # "self-install" /\ Finish(p, "pass")
       \/ /\ installer[p].kind = "self-install"
          /\ Goes(p, FALSE, [installer[p] EXCEPT !.pc = "shell"])
          /\ UNCHANGED <<files, draft, founderEdits>>
InstallShell(p) ==
    /\ installer[p].pc = "shell"
    /\ \E result \in {"pass", "error"} : Finish(p, result)

InstallerDies(p) == Active(p) /\ Finish(p, "died")

\* The operator runs one of the commands again.
InstallAgain(p) ==
    /\ installer[p].pc = "done"
    /\ installer' = [installer EXCEPT ![p] = Waiting]
    /\ UNCHANGED <<files, draft, founderEdits>>

\* The founder edits what the kit brought, or clears a file away.
FounderEdits(f) ==
    /\ founderEdits < MaxFounderEdits
    /\ founderEdits' = founderEdits + 1
    /\ \/ /\ f \in {"guide", "gates", "brief"}
          /\ files[f] # "edited"
          /\ files' = [files EXCEPT ![f] = "edited"]
       \/ /\ files[f] # Missing
          /\ files' = [files EXCEPT ![f] = Missing]
    /\ installer' = [q \in Installer |-> [installer[q] EXCEPT !.alone = @ /\ ~Active(q)]]
    /\ UNCHANGED draft

InstallNext ==
    \/ \E p \in Installer :
          \/ Begin(p) \/ BeginCopy(p) \/ CopyKitFile(p) \/ WriteIntake(p) \/ BuildPacket(p)
          \/ WritePacketFile(p) \/ CheckUpdate(p) \/ InstallShell(p) \/ InstallerDies(p)
          \/ InstallAgain(p)
    \/ \E f \in TargetFiles : FounderEdits(f)
InstallSpec == InstallInit /\ [][InstallNext]_installVars

-----------------------------------------------------------------------------
\* Without --force no command replaces a file that was there when it began, as long
\* as nobody else writes (fresh-company-setup.md:144; the collision checks).
FounderFilesStay ==
    [][\A p \in Installer : \A f \in installer[p].before :
          /\ installer[p].alone /\ ~installer[p].force
          /\ <<installer'[p].pc, installer'[p].todo>> # <<installer[p].pc, installer[p].todo>>
          => files'[f] = files[f]
      ]_installVars

\* When a staged install ends with "pass" and nobody else wrote, all its files are
\* there, and brief, record, boot packet and draft are of the company of the intake.
InstalledIsWhole ==
    [][\A p \in Installer :
          /\ installer[p].result = "none" /\ installer'[p].result = "pass"
          /\ installer[p].alone /\ installer[p].kind \in Composed \cup {"smoke"}
          => /\ \A f \in TargetFiles : files[f] # Missing
             /\ \A f \in Named(PacketFiles) : files[f] = files["intake"]
      ]_installVars

\* An install takes nothing that was there, and a pass leaves all of itself.
InstallIsSound == FounderFilesStay /\ InstalledIsWhole

\* A drafted child of a finance pack waits for HG-3 or more and blocks bank, payment
\* and accounting actions; one that can send stays in draft-only mode
\* (validatePack, packChild*).
DraftsAreGuarded ==
    draft # NoDraft => /\ draft.finance => draft.gate >= 30 /\ draft.money
                       /\ draft.sends => draft.mode = "draft-only"

\* "Confirmed facts without a fresh `last_verified` (or fresh `confirmed_at` fallback)
\* are rejected by the stale-fact guard" (adaptive-company-onboarding-domain-packs.md:661).
FreshFacts == draft # NoDraft => draft.age <= FreshDays

\* "--force  Allow overwriting target collisions after operator review"
\* (public-rc.mjs:98): a forced public-rc run that nobody disturbs is never blocked.
ForceOverwrites ==
    [][\A p \in Installer :
          installer[p].kind = "public-rc" /\ installer[p].force /\ installer[p].alone =>
             installer'[p].result # "blocked"
      ]_installVars
=============================================================================
