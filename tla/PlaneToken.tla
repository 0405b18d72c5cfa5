----------------------------- MODULE PlaneToken -----------------------------
(* The Plane App's bot token: plane-app-token-rotation.mjs keeps it fresh,        *)
(* plane-app-oauth.mjs exchanges and saves it, plane-app-oauth-local-repair.mjs   *)
(* does so for a new installation id, and every Plane command reads it once when  *)
(* it starts (resolvePlaneAuth). Token and expiry are two keychain entries, each  *)
(* of which the environment may hide.                                             *)
EXTENDS Integers, Sequences

CONSTANTS Rotator,      \* invocations of the three scripts
          Life,         \* how long a token lives
          Window,       \* --refresh-window
          Envs,         \* what PLANE_APP_BOT_TOKEN and .._EXPIRES_AT hold: [token, expiry]
          MaxTime       \* the clock's bound

\* A token is the moment the server stops taking it; NoToken is none.
NoToken == 0
ASSUME TokenTimes == /\ Life \in Nat \ {0} /\ Window \in Nat /\ MaxTime \in Nat
                     /\ Envs \subseteq [token : Nat, expiry : Nat]

VARIABLES clock,        \* now, from 1
          keychain,     \* [token, expiry]
          rotator,
          overlapped    \* history: one saved while another was about to
tokenVars == <<clock, keychain, rotator, overlapped>>

Fresh == [pc |-> "idle", mode |-> "none", env |-> [token |-> NoToken, expiry |-> NoToken],
          token |-> NoToken, expiry |-> NoToken, minted |-> NoToken, left |-> <<>>,
          exit |-> "none", alone |-> TRUE]
TokenInit ==
    /\ clock = 1
    /\ keychain = [token |-> NoToken, expiry |-> NoToken]
    /\ rotator = [r \in Rotator |-> Fresh]
    /\ overlapped = FALSE

Rotating(r) == rotator[r].pc \notin {"idle", "done"}
Turn(r, wrote, to) ==
    rotator' = [q \in Rotator |->
        IF q = r THEN to ELSE [rotator[q] EXCEPT !.alone = @ /\ ~(wrote /\ Rotating(q))]]
Phase(r, wrote, pc) == Turn(r, wrote, [rotator[r] EXCEPT !.pc = pc])
Exits(r, wrote, code) ==
    Turn(r, wrote, [Fresh EXCEPT !.pc = "done", !.exit = code])

-----------------------------------------------------------------------------
\* evaluateTokenState.
\* Mutant: a token whose expiry is not known is taken as valid.
TokenStateUnknown(token, expiry) ==
    CASE token = NoToken -> "missing-token"
      [] token # NoToken /\ expiry # NoToken /\ expiry <= clock -> "expired"
      [] token # NoToken /\ expiry > clock /\ expiry - clock <= Window -> "expiring-soon"
      [] OTHER -> "valid"
TokenState(token, expiry) ==
    CASE token = NoToken -> "missing-token"
      [] token # NoToken /\ expiry = NoToken -> "missing-expiry"
      [] token # NoToken /\ expiry # NoToken /\ expiry <= clock -> "expired"
      [] token # NoToken /\ expiry > clock /\ expiry - clock <= Window -> "expiring-soon"
      [] OTHER -> "valid"
ShouldRefresh(state) == state # "valid"

\* What the environment does not give comes from the keychain, each by itself.
Given(fromEnv, kept) == IF fromEnv # NoToken THEN fromEnv ELSE kept

-----------------------------------------------------------------------------
BeginRotation(r) ==
    /\ rotator[r].pc = "idle"
    /\ \E mode \in {"check", "ensure", "force", "bot-token"}, env \in Envs :
          Turn(r, FALSE, [Fresh EXCEPT !.mode = mode, !.env = env,
                                       !.pc = IF mode = "bot-token" THEN "exchange"
                                              ELSE "before"])
    /\ UNCHANGED <<clock, keychain, overlapped>>

\* plane-app-oauth-local-repair: a callback with an installation id, or an error, or none
\* in time; then the exchange for that installation.
BeginRepair(r) ==
    /\ rotator[r].pc = "idle"
    /\ \/ Turn(r, FALSE, [Fresh EXCEPT !.mode = "repair", !.pc = "exchange"])
       \/ Turn(r, FALSE, [Fresh EXCEPT !.mode = "repair", !.pc = "done", !.exit = "1"])
    /\ UNCHANGED <<clock, keychain, overlapped>>

\* readTokenSnapshot asks the keychain twice.
ReadToken(r) ==
    /\ rotator[r].pc \in {"before", "after"}
    /\ Turn(r, FALSE, [rotator[r] EXCEPT
             !.token = Given(rotator[r].env.token, keychain.token),
             !.pc = IF @ = "before" THEN "judge" ELSE "verify"])
    /\ UNCHANGED <<clock, keychain, overlapped>>
Judged(r) == TokenState(rotator[r].token, Given(rotator[r].env.expiry, keychain.expiry))

\* main, up to the refresh: check only tells, a valid token is read once more.
JudgeToken(r) ==
    /\ rotator[r].pc = "judge"
    /\ CASE rotator[r].mode = "check" ->
                Exits(r, FALSE, IF ShouldRefresh(Judged(r)) THEN "2" ELSE "0")
         [] rotator[r].mode = "force" \/ (rotator[r].mode = "ensure" /\ ShouldRefresh(Judged(r))) ->
                Phase(r, FALSE, "exchange")
         [] OTHER -> Phase(r, FALSE, "after")
    /\ UNCHANGED <<clock, keychain, overlapped>>

\* Mutant: the expiry is saved before the token.
EntriesExpiryFirst == <<"expiry", "token">>
\* writeKeychainSecret, entry by entry.
Entries == <<"token", "expiry">>
SaveEntry(r) ==
    /\ rotator[r].pc = "save"
    /\ LET entry == Head(rotator[r].left)
           rest == Tail(rotator[r].left)
       IN  /\ keychain' = [keychain EXCEPT ![entry] = IF entry = "token" THEN rotator[r].minted
                                                      ELSE rotator[r].expiry]
           /\ IF rest # <<>> THEN Turn(r, TRUE, [rotator[r] EXCEPT !.left = rest])
              ELSE IF rotator[r].mode \in {"bot-token", "repair"} THEN Exits(r, TRUE, "0")
              ELSE Turn(r, TRUE, [rotator[r] EXCEPT !.left = rest, !.pc = "after"])
    /\ overlapped' = (overlapped \/ \E q \in Rotator \ {r} : rotator[q].pc = "save")
    /\ UNCHANGED clock

\* requestBotToken: the grant may be refused, or tell no expires_in.
ExchangeToken(r) ==
    /\ rotator[r].pc = "exchange"
    /\ \/ Exits(r, FALSE, "1")
       \/ \E expiry \in {clock, clock + Life} :
             Turn(r, FALSE, [rotator[r] EXCEPT !.pc = "save", !.minted = clock + Life,
                                               !.expiry = expiry, !.left = Entries])
    /\ UNCHANGED <<clock, keychain, overlapped>>

\* The second evaluation decides.
VerifyToken(r) ==
    /\ rotator[r].pc = "verify"
    /\ Exits(r, FALSE, IF ShouldRefresh(Judged(r)) THEN "1" ELSE "0")
    /\ UNCHANGED <<clock, keychain, overlapped>>

RotatorDies(r) ==
    /\ Rotating(r)
    /\ Exits(r, FALSE, "killed")
    /\ UNCHANGED <<clock, keychain, overlapped>>
RotateAgain(r) ==
    /\ rotator[r].pc = "done"
    /\ rotator' = [rotator EXCEPT ![r] = Fresh]
    /\ UNCHANGED <<clock, keychain, overlapped>>
Tick ==
    /\ clock < MaxTime
    /\ clock' = clock + 1
    /\ UNCHANGED <<keychain, rotator, overlapped>>

RotatorStep(r) ==
    \/ BeginRotation(r) \/ BeginRepair(r) \/ ReadToken(r) \/ JudgeToken(r)
    \/ ExchangeToken(r) \/ SaveEntry(r) \/ VerifyToken(r)
    \/ RotateAgain(r)
TokenNext == \/ \E r \in Rotator : RotatorStep(r) \/ RotatorDies(r)
             \/ Tick
TokenSpec == TokenInit /\ [][TokenNext]_tokenVars

-----------------------------------------------------------------------------
\* A rotation that exits 0 without a token in its environment, while nobody else wrote,
\* leaves a token the server takes for longer than the window, and an expiry that says
\* so, whatever crash or missing expires_in came before
\* (plane-app-control-plane.md:126), unless two ever saved at the same time.
ExitZeroIsFresh ==
    [][\A r \in Rotator :
          /\ rotator[r].mode \in {"check", "ensure", "force"}
          /\ rotator[r].env.token = NoToken /\ rotator[r].env.expiry = NoToken
          /\ rotator[r].alone /\ ~overlapped /\ rotator'[r].exit = "0"
          => keychain.token > clock + Window /\ keychain.expiry > clock + Window
      ]_tokenVars

\* As long as no two saved at the same time, nothing a rotator does, and no crash of it,
\* makes the keychain promise a token for longer than the server takes it (the order of
\* the writes in plane-app-oauth.mjs).
ExpiryIsHonest ==
    ~overlapped /\ keychain.token # NoToken => keychain.expiry <= keychain.token

\* What the keychain and the exit code say of the token is true.
TokenIsTrue == []ExpiryIsHonest /\ ExitZeroIsFresh
=============================================================================
