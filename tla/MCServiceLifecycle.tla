------------------------- MODULE MCServiceLifecycle -------------------------
(* A small instance: a development service whose secret is also used in    *)
(* production, one with the placeholder, a production that is refused, and *)
(* tokens that outlive a restart.                                          *)
EXTENDS ServiceLifecycle

MCSecret == {"", "change-me", "strong", "rotated"}
MCClaim == Permission \cup {"billing:read"}

Settings(environment, auth_enabled, secret, dev_token, ttl, storage) ==
  [environment |-> environment, auth_enabled |-> auth_enabled, secret |-> secret,
   dev_token |-> dev_token, ttl |-> ttl, storage |-> storage]

MCDeployed ==
  {Settings("development", TRUE, "strong", TRUE, 1, "memory"),
   Settings("development", FALSE, "change-me", TRUE, 1, "memory"),
   Settings("development", TRUE, "rotated", TRUE, 2, "other"),
   Settings("production", TRUE, "strong", TRUE, 1, "postgres"),
   Settings("production", TRUE, "strong", FALSE, 1, "postgres"),
   Settings("production", TRUE, "rotated", FALSE, 1, "postgres"),
   Settings("production", TRUE, "change-me", FALSE, 1, "memory")}

MCForeign ==
  {[secret |-> "rotated", subject |-> "partner", permissions |-> {"user:read", "billing:read"},
    issued |-> 1, expires |-> None],
   [secret |-> "strong", subject |-> "partner", permissions |-> None, issued |-> 0, expires |-> 2]}

MCMinted ==
  {[subject |-> "ann", permissions |-> {"user:read"}, ttl |-> None],
   [subject |-> "ann", permissions |-> {"user:delete"}, ttl |-> 2]}
=============================================================================
