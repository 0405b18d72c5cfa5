------------------------------- MODULE MCLocal -------------------------------
(* What the kit's tools do on one machine and its repositories, for TLC.  The *)
(* parts share no state: a behaviour runs one of them, the others stand still.*)
EXTENDS KitUpdate, GitMirror, EveShell, PlaneToken, FirstInstall, PublicRelease

VARIABLE part      \* which part this behaviour is about

(* KitUpdate: a file of every kind but one that is a secret *)
KindOfFile(f) == CASE f = "a.md" -> "plain"
                   [] f = "stack.md" -> "local"
                   [] f = "soul.md" -> "manual"
                   [] f \in {"record", "gates.md"} -> "blocked"
                   [] OTHER -> "secret"
Kit == <<"a.md", "gates.md", "soul.md", "stack.md">>

(* EveShell: the second release moves everything but what the overlay looks for *)
Pins(t, c, p, m, a) == [tag |-> t, core |-> c, patch |-> p, marks |-> m, assets |-> a]
TwoReleases == <<Pins(1, 1, 1, 1, 1), Pins(1, 2, 2, 1, 2)>>

(* PlaneToken: no token in the environment, or one with or without its expiry *)
SomeEnvs == {[token |-> 0, expiry |-> 0], [token |-> 2, expiry |-> 0],
             [token |-> 4, expiry |-> 4]}

(* FirstInstall *)
Intake(company, pack) == [company |-> company, complete |-> TRUE, pack |-> pack,
                          confirmed |-> Unset, verified |-> Unset]
TwoIntakes == {Intake("acme", "finance-ops"), Intake("birch", "sales-crm")}
Finance(gate) == [id |-> "finance-ops", finance |-> TRUE, sends |-> FALSE, gate |-> gate,
                  mode |-> "draft-only", money |-> TRUE]
Sales == [id |-> "sales-crm", finance |-> FALSE, sends |-> TRUE, gate |-> 20,
          mode |-> "draft-only", money |-> FALSE]
TwoRegistries == {{Finance(30), Sales}, {Finance(25)}}

(* PublicRelease *)
ThreeFiles == <<"doc", "log", "film">>

-------------------------------------------------------------------------------
MCInit ==
  /\ part \in {"update", "git", "shell", "token", "install", "release"}
  /\ UpdateInit /\ MirrorInit /\ ShellInit /\ TokenInit /\ InstallInit /\ ReleaseInit

MCNext ==
  /\ UNCHANGED part
  /\ \/ /\ part = "update" /\ UpdateNext
        /\ UNCHANGED <<mirrorVars, shellVars, tokenVars, installVars, releaseVars>>
     \/ /\ part = "git" /\ MirrorNext
        /\ UNCHANGED <<updateVars, shellVars, tokenVars, installVars, releaseVars>>
     \/ /\ part = "shell" /\ ShellNext
        /\ UNCHANGED <<updateVars, mirrorVars, tokenVars, installVars, releaseVars>>
     \/ /\ part = "token" /\ TokenNext
        /\ UNCHANGED <<updateVars, mirrorVars, shellVars, installVars, releaseVars>>
     \/ /\ part = "install" /\ InstallNext
        /\ UNCHANGED <<updateVars, mirrorVars, shellVars, tokenVars, releaseVars>>
     \/ /\ part = "release" /\ ReleaseNext
        /\ UNCHANGED <<updateVars, mirrorVars, shellVars, tokenVars, installVars>>
===============================================================================
