----------------------- MODULE ServiceLifecycleProofs -----------------------
(***************************************************************************)
(* What holds of the deployment for every set of callers, configurations   *)
(* and tokens: types, that nobody is served on a token that does not earn  *)
(* it, that a handler finds its pool, and that production mints nothing.   *)
(***************************************************************************)
EXTENDS ServiceLifecycle, TLAPS

(* The state a process can be in: requests only while it serves or drains, *)
(* and with STORAGE_TYPE=postgres a pool as long as it does.               *)
CallsNeedProcess ==
  phase \notin {"serving", "draining"} => \A c \in Caller : call[c] = None

PoolFollowsStorage ==
  phase \in {"serving", "draining"} /\ cfg.storage = "postgres" => pool = "open"

PingedPoolIsOpen == phase = "pinging" => pool = "open"

ConnectingMeansPostgres ==
  phase \in {"connecting", "pinging"} => cfg.storage = "postgres"

SettingsAreValid == phase /= "down" => ValidSettings(cfg)

GuardHeard ==
  \A c \in Caller : call[c] /= None =>
    /\ call[c].token \in tokens \cup Foreign \cup {None}
    /\ call[c].guard = None => call[c].answer = None
    /\ call[c].guard /= None =>
         /\ call[c].at \in Nat
         /\ call[c].guard = Guard(cfg, call[c].token, call[c].route, call[c].at)

(* A minted token has an expiry, a subject and a list of permissions, so   *)
(* only its secret and the time can make it invalid.                       *)
WellMinted(token) ==
  token.subject /= EmptySubject /\ token.permissions /= None /\ token.expires /= None

TokensAreWellMinted == \A token \in tokens : WellMinted(token)

Inv ==
  /\ TypeOK
  /\ CallsNeedProcess
  /\ PoolFollowsStorage
  /\ PingedPoolIsOpen
  /\ ConnectingMeansPostgres
  /\ SettingsAreValid
  /\ TokensAreWellMinted
  /\ GuardHeard

-----------------------------------------------------------------------------

Said == {"admitted", "missing", "invalid", "expired", "forbidden"}

LEMMA GuardSays ==
  ASSUME NEW k, NEW token, NEW route, NEW time
  PROVE  Guard(k, token, route, time) \in Said
BY DEF Guard, Verdict, Said

LEMMA MintedIsToken ==
  ASSUME NEW k \in Config, NEW m \in Minted, NEW time \in Nat
  PROVE  Issue(k, m.subject, m.permissions, m.ttl, time) \in Token
<1>1. /\ k.secret \in Secret
      /\ k.ttl \in Int
  BY DEF Config
<1>2. /\ m.subject \in Subject
      /\ m.permissions \in SUBSET Claim
      /\ m.ttl \in Nat \cup {None}
  BY LifecycleAssumption, TokenAssumption DEF IssueTokenRequest
<1>3. time + (IF m.ttl = None THEN k.ttl ELSE m.ttl) \in Int
  BY <1>1, <1>2
<1> QED
  BY <1>1, <1>2, <1>3 DEF Issue, Token

LEMMA MintedIsWellMinted ==
  ASSUME NEW k \in Config, NEW m \in Minted, NEW time \in Nat
  PROVE  WellMinted(Issue(k, m.subject, m.permissions, m.ttl, time))
<1>1. /\ k.ttl \in Int
      /\ m.subject \in Subject \ {EmptySubject}
      /\ m.permissions \in SUBSET Claim
      /\ m.ttl \in Nat \cup {None}
  BY LifecycleAssumption, TokenAssumption DEF Config, IssueTokenRequest
<1>2. time + (IF m.ttl = None THEN k.ttl ELSE m.ttl) \in Int
  BY <1>1
<1>3. None \notin Int
  BY TokenAssumption
<1>4. m.permissions /= None
  BY <1>1, TokenAssumption
<1> DEFINE token == Issue(k, m.subject, m.permissions, m.ttl, time)
<1>5. /\ token.subject = m.subject
      /\ token.permissions = m.permissions
      /\ token.expires = time + (IF m.ttl = None THEN k.ttl ELSE m.ttl)
  BY DEF Issue
<1> HIDE DEF token
<1>6. token.expires /= None
  BY <1>2, <1>3, <1>5
<1> QED
  BY <1>1, <1>4, <1>5, <1>6 DEF WellMinted, token

LEMMA InFlightIsCall ==
  ASSUME TypeOK, NEW c \in InFlight
  PROVE  c \in Caller /\ call[c] \in Call /\ call[c] /= None
BY DEF TypeOK, InFlight

LEMMA ProcessHasConfig ==
  ASSUME TypeOK, phase /= "down"
  PROVE  cfg \in Config
BY DEF TypeOK

(* While no request is there, nothing is to be shown of requests. *)
LEMMA NoCalls ==
  ASSUME Inv, phase \notin {"serving", "draining"}, UNCHANGED call
  PROVE  CallsNeedProcess' /\ GuardHeard'
BY DEF Inv, CallsNeedProcess, GuardHeard

LEMMA GoneDown ==
  ASSUME Inv, GoDown, UNCHANGED <<clock, tokens>>
  PROVE  Inv'
<1>1. TypeOK'
  BY LifecycleAssumption DEF Inv, TypeOK, GoDown
<1>2. CallsNeedProcess' /\ GuardHeard'
  BY DEF GoDown, CallsNeedProcess, GuardHeard
<1>3. PoolFollowsStorage' /\ PingedPoolIsOpen' /\ ConnectingMeansPostgres' /\ SettingsAreValid'
  BY DEF GoDown, PoolFollowsStorage, PingedPoolIsOpen, ConnectingMeansPostgres, SettingsAreValid
<1>4. TokensAreWellMinted'
  BY DEF Inv, TokensAreWellMinted
<1> QED
  BY <1>1, <1>2, <1>3, <1>4 DEF Inv

(* A step of one request leaves the process alone, and needs one. *)
LEMMA CallSteps ==
  ASSUME Inv, phase \in {"serving", "draining"},
         UNCHANGED <<cfg, phase, pool, clock, tokens>>,
         NEW c \in Caller, NEW r \in Call \cup {None},
         call' = [call EXCEPT ![c] = r],
         r /= None =>
           /\ r.token \in tokens \cup Foreign \cup {None}
           /\ r.guard = None => r.answer = None
           /\ r.guard /= None =>
                r.at \in Nat /\ r.guard = Guard(cfg, r.token, r.route, r.at)
  PROVE  Inv'
<1>1. TypeOK'
  BY DEF Inv, TypeOK
<1>2. CallsNeedProcess'
  BY DEF CallsNeedProcess
<1>3. PoolFollowsStorage' /\ PingedPoolIsOpen' /\ ConnectingMeansPostgres' /\ SettingsAreValid'
  BY DEF Inv, PoolFollowsStorage, PingedPoolIsOpen, ConnectingMeansPostgres, SettingsAreValid
<1>4. TokensAreWellMinted'
  BY DEF Inv, TokensAreWellMinted
<1>5. GuardHeard'
  <2> SUFFICES ASSUME NEW d \in Caller, call'[d] /= None
               PROVE  /\ call'[d].token \in tokens \cup Foreign \cup {None}
                      /\ call'[d].guard = None => call'[d].answer = None
                      /\ call'[d].guard /= None =>
                           /\ call'[d].at \in Nat
                           /\ call'[d].guard =
                                Guard(cfg, call'[d].token, call'[d].route, call'[d].at)
    BY DEF GuardHeard, Guard, Verdict
  <2>1. CASE d = c
    <3>1. call'[d] = r
      BY <2>1 DEF Inv, TypeOK
    <3> QED
      BY <3>1
  <2>2. CASE d /= c
    <3>1. call'[d] = call[d]
      BY <2>2 DEF Inv, TypeOK
    <3> QED
      BY <3>1 DEF Inv, GuardHeard
  <2> QED
    BY <2>1, <2>2
<1> QED
  BY <1>1, <1>2, <1>3, <1>4, <1>5 DEF Inv

LEMMA InitInv == Init => Inv
BY LifecycleAssumption
DEF Init, Inv, TypeOK, CallsNeedProcess, PoolFollowsStorage, PingedPoolIsOpen,
    ConnectingMeansPostgres, SettingsAreValid, TokensAreWellMinted, GuardHeard

LEMMA StepInv == Inv /\ [Next]_vars => Inv'
<1> SUFFICES ASSUME Inv, [Next]_vars PROVE Inv'
  OBVIOUS
<1> USE DEF Inv
<1>1. CASE Boot
  <2>1. TypeOK'
    BY <1>1, LifecycleAssumption DEF Boot, TypeOK
  <2>2. CallsNeedProcess' /\ GuardHeard'
    BY <1>1, NoCalls DEF Boot
  <2>3. PoolFollowsStorage' /\ PingedPoolIsOpen' /\ ConnectingMeansPostgres'
    BY <1>1 DEF Boot, PoolFollowsStorage, PingedPoolIsOpen, ConnectingMeansPostgres
  <2>4. SettingsAreValid'
    BY <1>1 DEF Boot, SettingsAreValid, ValidSettings
  <2>5. TokensAreWellMinted'
    BY <1>1 DEF Boot, TokensAreWellMinted
  <2> QED
    BY <2>1, <2>2, <2>3, <2>4, <2>5
<1>2. CASE Connect
  <2>1. TypeOK'
    BY <1>2, LifecycleAssumption DEF Connect, TypeOK, ConnectingMeansPostgres
  <2>2. CallsNeedProcess' /\ GuardHeard'
    BY <1>2, NoCalls DEF Connect
  <2>3. PoolFollowsStorage' /\ PingedPoolIsOpen' /\ ConnectingMeansPostgres'
    BY <1>2 DEF Connect, PoolFollowsStorage, PingedPoolIsOpen, ConnectingMeansPostgres
  <2>4. SettingsAreValid'
    BY <1>2 DEF Connect, SettingsAreValid
  <2>5. TokensAreWellMinted'
    BY <1>2 DEF Connect, TokensAreWellMinted
  <2> QED
    BY <2>1, <2>2, <2>3, <2>4, <2>5
<1>3. CASE Ping
  <2>1. TypeOK'
    BY <1>3 DEF Ping, TypeOK
  <2>2. CallsNeedProcess' /\ GuardHeard'
    BY <1>3, NoCalls DEF Ping
  <2>3. PoolFollowsStorage' /\ PingedPoolIsOpen' /\ ConnectingMeansPostgres'
    BY <1>3 DEF Ping, PoolFollowsStorage, PingedPoolIsOpen, ConnectingMeansPostgres
  <2>4. SettingsAreValid'
    BY <1>3 DEF Ping, SettingsAreValid
  <2>5. TokensAreWellMinted'
    BY <1>3 DEF Ping, TokensAreWellMinted
  <2> QED
    BY <2>1, <2>2, <2>3, <2>4, <2>5
<1>4. CASE Exit
  BY <1>4, GoneDown DEF Exit
<1>5. CASE Stop
  <2>1. TypeOK'
    BY <1>5 DEF Stop, TypeOK
  <2>2. CallsNeedProcess' /\ GuardHeard'
    BY <1>5 DEF Stop, CallsNeedProcess, GuardHeard
  <2>3. PoolFollowsStorage' /\ PingedPoolIsOpen' /\ ConnectingMeansPostgres'
    BY <1>5 DEF Stop, PoolFollowsStorage, PingedPoolIsOpen, ConnectingMeansPostgres
  <2>4. SettingsAreValid'
    BY <1>5 DEF Stop, SettingsAreValid
  <2>5. TokensAreWellMinted'
    BY <1>5 DEF Stop, TokensAreWellMinted
  <2> QED
    BY <2>1, <2>2, <2>3, <2>4, <2>5
<1>6. CASE Disconnect
  BY <1>6, GoneDown DEF Disconnect
<1>7. CASE Crash
  BY <1>7, GoneDown DEF Crash
<1>8. CASE Mint
  <2>1. PICK m \in Minted :
          tokens' = tokens \cup {Issue(cfg, m.subject, m.permissions, m.ttl, clock)}
    BY <1>8 DEF Mint
  <2>2. cfg \in Config /\ clock \in Nat
    BY <1>8, ProcessHasConfig DEF Mint, TypeOK
  <2>3. TypeOK'
    BY <1>8, <2>1, <2>2, MintedIsToken DEF Mint, TypeOK
  <2>4. CallsNeedProcess' /\ GuardHeard'
    BY <1>8, <2>1 DEF Mint, CallsNeedProcess, GuardHeard
  <2>5. PoolFollowsStorage' /\ PingedPoolIsOpen' /\ ConnectingMeansPostgres'
    BY <1>8 DEF Mint, PoolFollowsStorage, PingedPoolIsOpen, ConnectingMeansPostgres
  <2>6. SettingsAreValid'
    BY <1>8 DEF Mint, SettingsAreValid
  <2>7. TokensAreWellMinted'
    BY <2>1, <2>2, MintedIsWellMinted DEF TokensAreWellMinted
  <2> QED
    BY <2>3, <2>4, <2>5, <2>6, <2>7
<1>9. CASE Tick
  <2>1. TypeOK'
    BY <1>9 DEF Tick, TypeOK
  <2>2. CallsNeedProcess' /\ GuardHeard'
    BY <1>9 DEF Tick, CallsNeedProcess, GuardHeard
  <2>3. PoolFollowsStorage' /\ PingedPoolIsOpen' /\ ConnectingMeansPostgres'
    BY <1>9 DEF Tick, PoolFollowsStorage, PingedPoolIsOpen, ConnectingMeansPostgres
  <2>4. SettingsAreValid'
    BY <1>9 DEF Tick, SettingsAreValid
  <2>5. TokensAreWellMinted'
    BY <1>9 DEF Tick, TokensAreWellMinted
  <2> QED
    BY <2>1, <2>2, <2>3, <2>4, <2>5
<1>10. ASSUME NEW c \in Caller, Send(c) PROVE Inv'
  <2>1. PICK token \in tokens \cup Foreign \cup {None}, route \in Asked :
          call' = [call EXCEPT ![c] =
            [token |-> token, route |-> route, at |-> None, guard |-> None, answer |-> None]]
    BY <1>10 DEF Send
  <2> DEFINE r == [token |-> token, route |-> route, at |-> None, guard |-> None, answer |-> None]
  <2>2. r \in Call
    BY <2>1, LifecycleAssumption DEF TypeOK, Call
  <2>3. /\ phase \in {"serving", "draining"}
        /\ UNCHANGED <<cfg, phase, pool, clock, tokens>>
        /\ r.token \in tokens \cup Foreign \cup {None}
        /\ r.guard = None /\ r.answer = None
    BY <1>10, <2>1 DEF Send
  <2> HIDE DEF r
  <2>4. call' = [call EXCEPT ![c] = r]
    BY <2>1 DEF r
  <2> QED
    BY <2>2, <2>3, <2>4, CallSteps
<1>11. ASSUME NEW c \in Caller, Check(c) PROVE Inv'
  <2> DEFINE said == Guard(cfg, call[c].token, call[c].route, clock)
             r == [call[c] EXCEPT !.at = clock, !.guard = said,
                                  !.answer = IF said = "admitted" THEN None ELSE "refused"]
  <2>1. /\ call[c] \in Call /\ call[c] /= None
        /\ phase \in {"serving", "draining"}
        /\ UNCHANGED <<cfg, phase, pool, clock, tokens>>
        /\ call' = [call EXCEPT ![c] = r]
        /\ clock \in Nat
    BY <1>11, InFlightIsCall DEF Check, CallsNeedProcess, TypeOK
  <2>2. said \in Said
    BY GuardSays
  <2>3. said /= None
    BY <2>2, LifecycleAssumption DEF Said
  <2> HIDE DEF said
  <2>4. /\ r \in Call
        /\ r.token = call[c].token /\ r.route = call[c].route
        /\ r.at = clock /\ r.guard = said
    BY <2>1, <2>2 DEF Call, Said
  <2>5. r.token \in tokens \cup Foreign \cup {None}
    BY <2>1, <2>4 DEF GuardHeard
  <2>6. r.guard = Guard(cfg, r.token, r.route, r.at)
    BY <2>4 DEF said
  <2> HIDE DEF r
  <2> QED
    BY <2>1, <2>3, <2>4, <2>5, <2>6, CallSteps
<1>12. ASSUME NEW c \in Caller, Handle(c) PROVE Inv'
  <2> DEFINE outcome == IF cfg.storage = "postgres" /\ call[c].route /= "me" /\ pool = None
                        THEN "error" ELSE "served"
             r == [call[c] EXCEPT !.answer = outcome]
  <2>1. /\ call[c] \in Call /\ call[c] /= None
        /\ phase \in {"serving", "draining"}
        /\ UNCHANGED <<cfg, phase, pool, clock, tokens>>
        /\ call' = [call EXCEPT ![c] = r]
        /\ call[c].guard = "admitted"
    BY <1>12, InFlightIsCall DEF Handle, CallsNeedProcess
  <2>2. outcome \in {"served", "error"}
    OBVIOUS
  <2> HIDE DEF outcome
  <2>3. /\ r \in Call
        /\ r.token = call[c].token /\ r.route = call[c].route
        /\ r.at = call[c].at /\ r.guard = "admitted"
    BY <2>1, <2>2 DEF Call
  <2>4. "admitted" /= None
    BY LifecycleAssumption
  <2>5. /\ r.token \in tokens \cup Foreign \cup {None}
        /\ r.at \in Nat /\ r.guard = Guard(cfg, r.token, r.route, r.at)
    BY <2>1, <2>3, <2>4 DEF GuardHeard
  <2> HIDE DEF r
  <2> QED
    BY <2>1, <2>3, <2>4, <2>5, CallSteps
<1>13. ASSUME NEW c \in Caller, Receive(c) PROVE Inv'
  BY <1>13, CallSteps DEF Receive, CallsNeedProcess
<1>14. CASE UNCHANGED vars
  BY <1>14 DEF vars, TypeOK, CallsNeedProcess, PoolFollowsStorage, PingedPoolIsOpen,
               ConnectingMeansPostgres, SettingsAreValid, TokensAreWellMinted, GuardHeard
<1> QED
  BY <1>1, <1>2, <1>3, <1>4, <1>5, <1>6, <1>7, <1>8, <1>9, <1>10, <1>11, <1>12, <1>13, <1>14
  DEF Next, Process

-----------------------------------------------------------------------------
(* The theorems                                                            *)

LEMMA AlwaysInv == Spec => []Inv
<1>1. Init => Inv
  BY InitInv
<1>2. Inv /\ [Next]_vars => Inv'
  BY StepInv
<1> QED
  BY <1>1, <1>2, PTL DEF Spec

(* Types, with a configuration exactly while there is a process and a pool *)
(* only under STORAGE_TYPE=postgres, however the deployment is started,    *)
(* stopped and killed.                                                     *)
THEOREM TypeCorrectness == Spec => []TypeOK
<1>1. Inv => TypeOK
  BY DEF Inv
<1> QED
  BY <1>1, AlwaysInv, PTL

(* AuthGuard lets through only whom a token of the present secret entitles *)
(* to the route, not expired when it was looked at.                        *)
THEOREM NobodyServedUnearned == Spec => []NothingUnearned
<1>1. Inv => NothingUnearned
  <2> SUFFICES ASSUME Inv, NEW c \in InFlight, call[c].guard = "admitted", cfg.auth_enabled
               PROVE  /\ call[c].token \in tokens \cup Foreign
                      /\ call[c].token.secret = cfg.secret
                      /\ Requires(call[c].route) \subseteq call[c].token.permissions
                      /\ \/ call[c].token.expires = None
                         \/ call[c].at < call[c].token.expires
    BY DEF NothingUnearned
  <2>1. /\ c \in Caller /\ call[c] /= None /\ call[c] \in Call
    BY InFlightIsCall DEF Inv
  <2>2. "admitted" /= None
    BY LifecycleAssumption
  <2>3. /\ call[c].token \in tokens \cup Foreign \cup {None}
        /\ call[c].at \in Nat
        /\ Guard(cfg, call[c].token, call[c].route, call[c].at) = "admitted"
    BY <2>1, <2>2 DEF Inv, GuardHeard
  <2>4. /\ call[c].token /= None
        /\ Verdict(call[c].token, cfg.secret, call[c].at) = "valid"
        /\ Requires(call[c].route) \subseteq Granted(call[c].token)
    BY <2>3 DEF Guard, Verdict
  <2>5. call[c].token \in Token
    BY <2>3, <2>4, LifecycleAssumption DEF Inv, TypeOK
  <2>6. /\ call[c].token.secret = cfg.secret
        /\ call[c].token.expires = None \/ ~(call[c].token.expires <= call[c].at)
    BY <2>4 DEF Verdict
  <2>7. call[c].token.expires \in Int \cup {None}
    BY <2>5 DEF Token
  <2> QED
    BY <2>3, <2>4, <2>6, <2>7 DEF Granted
<1> QED
  BY <1>1, AlwaysInv, PTL

(* A token of POST /auth/token is turned away as invalid or expired only   *)
(* for another secret or outside its time, never for its form.             *)
THEOREM MintedTokensHonoured == Spec => []FreshTokenIsHonoured
<1>1. Inv => FreshTokenIsHonoured
  <2> SUFFICES ASSUME Inv, NEW c \in Caller, call[c] /= None, call[c].token \in tokens,
                      call[c].answer = "refused", call[c].guard \in {"invalid", "expired"}
               PROVE  \/ call[c].token.secret /= cfg.secret
                      \/ call[c].at < call[c].token.issued
                      \/ call[c].at >= call[c].token.expires
    BY DEF FreshTokenIsHonoured
  <2>1. call[c].guard /= None
    BY LifecycleAssumption
  <2>2. /\ call[c].at \in Nat
        /\ Guard(cfg, call[c].token, call[c].route, call[c].at) \in {"invalid", "expired"}
    BY <2>1 DEF Inv, GuardHeard
  <2>3. Verdict(call[c].token, cfg.secret, call[c].at) /= "valid"
    BY <2>2 DEF Guard
  <2>4. call[c].token \in Token /\ WellMinted(call[c].token)
    BY DEF Inv, TypeOK, TokensAreWellMinted
  <2>5. /\ call[c].token.issued \in Nat
        /\ call[c].token.expires \in Int
    BY <2>4 DEF Token, WellMinted
  <2> QED
    BY <2>2, <2>3, <2>4, <2>5 DEF Verdict, WellMinted
<1> QED
  BY <1>1, AlwaysInv, PTL

(* Database.pool never raises under a request: it is open before the first *)
(* and until after the last.                                               *)
THEOREM PoolIsThere == Spec => []PoolThereWhenNeeded
<1>1. Inv => PoolThereWhenNeeded
  BY InFlightIsCall DEF Inv, PoolThereWhenNeeded, PoolFollowsStorage, CallsNeedProcess
<1> QED
  BY <1>1, AlwaysInv, PTL

(* validate_auth_settings keeps a production that checks tokens from       *)
(* starting with POST /auth/token switched on.                             *)
THEOREM NoMintingInProduction == Spec => ProductionNeverMints
<1>1. Inv /\ [Next]_vars
        => [tokens' /= tokens => ~(cfg.auth_enabled /\ cfg.environment = "production")]_vars
  <2> SUFFICES ASSUME Inv, Next, tokens' /= tokens
               PROVE  ~(cfg.auth_enabled /\ cfg.environment = "production")
    OBVIOUS
  <2>1. Mint
    BY DEF Next, Process, Boot, Connect, Ping, Exit, Stop, Disconnect, Crash, Tick,
           Send, Check, Handle, Receive
  <2>2. ValidSettings(cfg) /\ cfg.dev_token
    BY <2>1 DEF Mint, Inv, SettingsAreValid
  <2> QED
    BY <2>2 DEF ValidSettings
<1> QED
  BY <1>1, AlwaysInv, PTL DEF Spec, ProductionNeverMints

=============================================================================
