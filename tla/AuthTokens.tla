----------------------------- MODULE AuthTokens -----------------------------
(***************************************************************************)
(* Tokens as JwtTokenValidatorImpl issues and validates them, the guard    *)
(* that AuthGuard puts before a route, and the configuration both depend   *)
(* on.  A token is what its claims and its signing secret say; the         *)
(* signature itself is PyJWT's.  Times are in units of the clock.          *)
(***************************************************************************)
EXTENDS Integers, FiniteSets

CONSTANTS
  Secret,        \* the signing secrets configured at one time or another
  Blank,         \* those of them that strip to nothing
  Placeholder,   \* those that strip to DEFAULT_JWT_SECRET
  Long,          \* those of at least JWT_SECRET_MIN_LENGTH characters
  Subject, EmptySubject,
  Claim,         \* the strings found in a permissions claim
  None

(* One member per route that a permission guards, and "me", which takes any *)
(* valid token.                                                             *)
Route == {"me", "list", "get", "create", "update", "delete"}

Permission == {"user:read", "user:create", "user:update", "user:delete"}

Requires(route) ==
  CASE route = "me" -> {}
    [] route \in {"list", "get"} -> {"user:read"}
    [] route = "create" -> {"user:create"}
    [] route = "update" -> {"user:update"}
    [] route = "delete" -> {"user:delete"}

(* Other issuers may leave out the expiry, or send no list of permissions. *)
Token ==
  [secret : Secret, subject : Subject, permissions : {None} \cup SUBSET Claim,
   issued : Nat, expires : Int \cup {None}]

Config ==
  [environment : {"production", "development"}, auth_enabled : BOOLEAN,
   secret : Secret, dev_token : BOOLEAN, ttl : Int, storage : {"memory", "postgres", "other"}]

(* What POST /auth/token lets through; the expiry may be left out. *)
IssueTokenRequest ==
  [subject : Subject \ {EmptySubject}, permissions : (SUBSET Permission) \ {{}},
   ttl : (Nat \ {0}) \cup {None}]

ASSUME TokenAssumption ==
  /\ Blank \cup Placeholder \cup Long \subseteq Secret
  /\ EmptySubject \in Subject
  /\ Permission \subseteq Claim
  /\ None \notin Token \cup Int
  /\ \A claims \in SUBSET Claim : claims /= None

-----------------------------------------------------------------------------

(* Variant: production may mint tokens. *)
ValidSettingsMinting(cfg) ==
  \/ ~cfg.auth_enabled
  \/ /\ cfg.secret \notin Blank
     /\ cfg.environment = "production" => cfg.secret \in Long \ Placeholder

(* validate_auth_settings raises nothing. *)
ValidSettings(cfg) ==
  \/ ~cfg.auth_enabled
  \/ /\ cfg.secret \notin Blank
     /\ cfg.environment = "production" =>
          cfg.secret \in Long \ Placeholder /\ ~cfg.dev_token

Issue(cfg, subject, permissions, ttl, time) ==
  [secret |-> cfg.secret, subject |-> subject, permissions |-> permissions, issued |-> time,
   expires |-> time + (IF ttl = None THEN cfg.ttl ELSE ttl)]

(* Variants: the token still counts at the second of its expiry, or does   *)
(* not yet count at the second of its issue.                               *)
VerdictLate(token, secret, time) ==
  IF token.secret /= secret \/ token.issued > time THEN "invalid"
  ELSE IF token.expires /= None /\ token.expires < time THEN "expired"
  ELSE IF token.subject = EmptySubject \/ token.permissions = None THEN "invalid"
  ELSE "valid"

VerdictEarly(token, secret, time) ==
  IF token.secret /= secret \/ token.issued >= time THEN "invalid"
  ELSE IF token.expires /= None /\ token.expires <= time THEN "expired"
  ELSE IF token.subject = EmptySubject \/ token.permissions = None THEN "invalid"
  ELSE "valid"

(* validate: jwt.decode looks at the signature, iat and exp; then come the *)
(* subject and the form of the permissions.                                *)
Verdict(token, secret, time) ==
  IF token.secret /= secret \/ token.issued > time THEN "invalid"
  ELSE IF token.expires /= None /\ token.expires <= time THEN "expired"
  ELSE IF token.subject = EmptySubject \/ token.permissions = None THEN "invalid"
  ELSE "valid"

(* Permissions this version does not know are passed over. *)
Granted(token) == token.permissions \cap Permission

(* resolve_user and require_permissions: what the guard says of a request. *)
Guard(cfg, token, route, time) ==
  IF ~cfg.auth_enabled THEN "admitted"
  ELSE IF token = None THEN "missing"
  ELSE IF Verdict(token, cfg.secret, time) /= "valid" THEN Verdict(token, cfg.secret, time)
  ELSE IF Requires(route) \subseteq Granted(token) THEN "admitted"
  ELSE "forbidden"

=============================================================================
