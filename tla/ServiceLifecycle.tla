-------------------------- MODULE ServiceLifecycle --------------------------
(***************************************************************************)
(* One deployment of the service through its starts and stops: create_app  *)
(* with its configuration checks, the lifespan with its pool, and requests *)
(* that carry tokens from before the last restart.                         *)
(*                                                                         *)
(* uvicorn stops accepting when told to stop, lets the requests in flight  *)
(* finish, and then runs the end of the lifespan.                          *)
(***************************************************************************)
EXTENDS AuthTokens

CONSTANTS
  Caller,      \* clients with one request each
  Deployed,    \* the configurations the service is started with
  Foreign,     \* tokens of other issuers
  Minted,      \* what callers ask of POST /auth/token
  Asked,       \* the routes they call
  LastTime,    \* bound: the latest reading of the clock
  MaxTokens    \* bound: tokens minted in all

ASSUME LifecycleAssumption ==
  /\ Deployed \subseteq Config
  /\ Foreign \subseteq Token
  /\ Minted \subseteq IssueTokenRequest
  /\ Asked \subseteq Route
  /\ LastTime \in Nat
  /\ MaxTokens \in Nat
  /\ None \notin Config \cup {"open", "admitted", "missing", "invalid", "expired", "forbidden"}

VARIABLES
  cfg,       \* the configuration of the running process
  phase,     \* down, connecting, pinging, failed, serving, draining
  pool,      \* Database._pool: "open" or None
  clock,     \* datetime.now(UTC)
  tokens,    \* the tokens callers have from POST /auth/token
  call       \* the request of each caller, or None

vars == <<cfg, phase, pool, clock, tokens, call>>

Init ==
  /\ cfg = None
  /\ phase = "down"
  /\ pool = None
  /\ clock = 0
  /\ tokens = {}
  /\ call = [c \in Caller |-> None]

-----------------------------------------------------------------------------
(* The process                                                             *)

InFlight == {c \in Caller : call[c] /= None /\ call[c].answer = None}

GoDown == phase' = "down" /\ cfg' = None /\ pool' = None /\ call' = [c \in Caller |-> None]

(* Variant: the lifespan does not look at STORAGE_TYPE. *)
BootConnecting ==
  /\ phase = "down"
  /\ \E c \in Deployed :
       /\ ValidSettings(c) /\ c.storage /= "other"
       /\ cfg' = c
       /\ phase' = "connecting"
  /\ UNCHANGED <<pool, clock, tokens, call>>

(* create_app raises on bad settings, and on a STORAGE_TYPE the selector   *)
(* of the repository does not know; the process is gone before it serves.  *)
Boot ==
  /\ phase = "down"
  /\ \E c \in Deployed :
       /\ ValidSettings(c) /\ c.storage /= "other"
       /\ cfg' = c
       /\ phase' = IF c.storage = "postgres" THEN "connecting" ELSE "serving"
  /\ UNCHANGED <<pool, clock, tokens, call>>

(* Variant: a database that cannot be reached is passed over. *)
ConnectDegrading ==
  /\ phase = "connecting"
  /\ \/ pool' = "open" /\ phase' = "pinging"
     \/ pool' = None /\ phase' = "serving"
  /\ UNCHANGED <<cfg, clock, tokens, call>>

(* create_pool, which may raise, *)
Connect ==
  /\ phase = "connecting"
  /\ \/ pool' = "open" /\ phase' = "pinging"
     \/ pool' = None /\ phase' = "failed"
  /\ UNCHANGED <<cfg, clock, tokens, call>>

(* and the ping, which may raise too and then leaves the pool open. *)
Ping ==
  /\ phase = "pinging"
  /\ phase' \in {"serving", "failed"}
  /\ UNCHANGED <<cfg, pool, clock, tokens, call>>

(* The exception ends the lifespan, and the process. *)
Exit ==
  /\ phase = "failed"
  /\ GoDown
  /\ UNCHANGED <<clock, tokens>>

Stop ==
  /\ phase = "serving"
  /\ phase' = "draining"
  /\ UNCHANGED <<cfg, pool, clock, tokens, call>>

(* The lifespan goes on after its yield: disconnect.  Every answer is out. *)
Disconnect ==
  /\ phase = "draining" /\ InFlight = {}
  /\ GoDown
  /\ UNCHANGED <<clock, tokens>>

(* The process is killed; its requests are lost with it. *)
Crash ==
  /\ phase /= "down"
  /\ GoDown
  /\ UNCHANGED <<clock, tokens>>

-----------------------------------------------------------------------------
(* The requests                                                            *)

(* POST /auth/token, which is there only when it is switched on. *)
Mint ==
  /\ phase = "serving" /\ cfg.dev_token
  /\ Cardinality(tokens) < MaxTokens
  /\ \E m \in Minted :
       tokens' = tokens \cup {Issue(cfg, m.subject, m.permissions, m.ttl, clock)}
  /\ UNCHANGED <<cfg, phase, pool, clock, call>>

(* at: when the guard looked.  guard: what it said.  answer: what came back. *)
Send(c) ==
  /\ phase = "serving" /\ call[c] = None
  /\ \E token \in tokens \cup Foreign \cup {None}, route \in Asked :
       call' = [call EXCEPT ![c] =
         [token |-> token, route |-> route, at |-> None, guard |-> None, answer |-> None]]
  /\ UNCHANGED <<cfg, phase, pool, clock, tokens>>

(* Variant: a refusal is not answered. *)
CheckSilently(c) ==
  /\ c \in InFlight /\ call[c].guard = None
  /\ LET said == Guard(cfg, call[c].token, call[c].route, clock)
     IN  call' = [call EXCEPT ![c].at = clock, ![c].guard = said]
  /\ UNCHANGED <<cfg, phase, pool, clock, tokens>>

(* The guard runs as a dependency of the route, before the handler. *)
Check(c) ==
  /\ c \in InFlight /\ call[c].guard = None
  /\ LET said == Guard(cfg, call[c].token, call[c].route, clock)
     IN  call' = [call EXCEPT ![c].at = clock, ![c].guard = said,
                              ![c].answer = IF said = "admitted" THEN None ELSE "refused"]
  /\ UNCHANGED <<cfg, phase, pool, clock, tokens>>

(* The handler.  Database.pool raises when there is no pool. *)
Handle(c) ==
  /\ c \in InFlight /\ call[c].guard = "admitted"
  /\ call' = [call EXCEPT ![c].answer =
       IF cfg.storage = "postgres" /\ call[c].route /= "me" /\ pool = None
       THEN "error" ELSE "served"]
  /\ UNCHANGED <<cfg, phase, pool, clock, tokens>>

Receive(c) ==
  /\ call[c] /= None /\ call[c].answer /= None
  /\ call' = [call EXCEPT ![c] = None]
  /\ UNCHANGED <<cfg, phase, pool, clock, tokens>>

Tick ==
  /\ clock < LastTime
  /\ clock' = clock + 1
  /\ UNCHANGED <<cfg, phase, pool, tokens, call>>

Process == Boot \/ Connect \/ Ping \/ Exit \/ Stop \/ Disconnect \/ Crash

Next ==
  \/ Process
  \/ Mint
  \/ Tick
  \/ \E c \in Caller : Send(c) \/ Check(c) \/ Handle(c) \/ Receive(c)

Spec == Init /\ [][Next]_vars

(* Start-up and shutdown go on by themselves, and a request in flight is   *)
(* taken further.  Nobody has to start, stop, call or fail.                *)
FairSpec ==
  /\ Spec
  /\ WF_vars(Connect) /\ WF_vars(Ping) /\ WF_vars(Exit) /\ WF_vars(Disconnect)
  /\ \A c \in Caller : WF_vars(Check(c)) /\ WF_vars(Handle(c))

-----------------------------------------------------------------------------
(* Properties                                                              *)

Call ==
  [token : Token \cup {None}, route : Route, at : Nat \cup {None},
   guard : {"admitted", "missing", "invalid", "expired", "forbidden", None},
   answer : {"served", "refused", "error", None}]

(* Every variable has its type; there is a configuration while there is a  *)
(* process, and a pool only with STORAGE_TYPE=postgres.                    *)
TypeOK ==
  /\ phase \in {"down", "connecting", "pinging", "failed", "serving", "draining"}
  /\ cfg \in Config \cup {None}
  /\ cfg = None <=> phase = "down"
  /\ pool \in {"open", None}
  /\ pool = "open" => phase /= "down" /\ cfg.storage = "postgres"
  /\ clock \in Nat
  /\ tokens \in SUBSET Token
  /\ call \in [Caller -> Call \cup {None}]

(* Whoever is being served under a configuration that checks tokens has a  *)
(* token of the secret now configured, which lists what the route requires *)
(* and had not expired when it was looked at: no token survives a restart  *)
(* with another secret.                                                    *)
NothingUnearned ==
  \A c \in InFlight : call[c].guard = "admitted" /\ cfg.auth_enabled =>
    LET token == call[c].token
    IN  /\ token \in tokens \cup Foreign
        /\ token.secret = cfg.secret
        /\ Requires(call[c].route) \subseteq token.permissions
        /\ token.expires = None \/ call[c].at < token.expires

(* A token the service minted is honoured from the moment it is issued to  *)
(* its expiry, through restarts that keep the secret.                      *)
FreshTokenIsHonoured ==
  \A c \in Caller :
    /\ call[c] /= None
    /\ call[c].token \in tokens /\ call[c].answer = "refused"
    /\ call[c].guard \in {"invalid", "expired"}
    => \/ call[c].token.secret /= cfg.secret
       \/ call[c].at < call[c].token.issued
       \/ call[c].at >= call[c].token.expires

(* POST /auth/token mints nothing in a production that checks tokens.      *)
ProductionNeverMints ==
  [][tokens' /= tokens => ~(cfg.auth_enabled /\ cfg.environment = "production")]_vars

(* A handler that needs the pool finds it: requests are let in after it    *)
(* was opened and pinged, and it is closed after the last of them.         *)
PoolThereWhenNeeded ==
  \A c \in InFlight : cfg.storage = "postgres" => pool = "open"

(* A request is answered, or lost with its process. *)
CallsEnd == \A c \in Caller : c \in InFlight ~> c \notin InFlight

(* A start ends in service or in an exit, and a stop ends: neither hangs.  *)
StartAndStopEnd ==
  /\ phase \in {"connecting", "pinging", "failed"} ~> phase \in {"serving", "down"}
  /\ phase = "draining" ~> phase = "down"

=============================================================================
