------------------------- MODULE PostgresUserService -------------------------
(***************************************************************************)
(* UserUsecaseImpl over UserRepositoryPostgres.  Every repository call     *)
(* takes a connection from the pool, runs one statement in a transaction   *)
(* of its own, and gives the connection back when the reply is in.  Tasks  *)
(* interleave at each of these points, and a connection may be lost before *)
(* the statement ran or after it took effect.                              *)
(***************************************************************************)
EXTENDS UserDomain

CONSTANTS
  Task,       \* the requests in flight
  Seed,       \* the rows at start
  Offered,    \* the requests clients make
  PoolSize,   \* DB_POOL_MAX
  LastId,     \* bound: the highest id given out
  LastTime    \* bound: the latest reading of the clock

(* What a usecase method returns or raises. *)
Answer == [code : {"ok"}, user : User \cup {None}]
            \cup [code : {"bad_request", "not_found", "already_exists", "conflict", "error"},
                  user : {None}]

ASSUME ServiceAssumption ==
  /\ None \notin Task \cup Answer
  /\ DOMAIN Seed \subseteq Nat \ {0}
  /\ Seed \in [DOMAIN Seed -> User]
  /\ \E m \in DOMAIN Seed \cup {0} : \A i \in DOMAIN Seed : i <= m
  /\ Offered \subseteq AnyRequest
  /\ PoolSize \in Nat \ {0}
  /\ LastId \in Nat
  /\ LastTime \in Nat

VARIABLES
  rows,       \* the users table, without its timestamps
  stamps,     \* created_at and updated_at of each row
  seq,        \* the next value of the id sequence
  clock,      \* datetime.now(UTC)
  held,       \* the tasks that hold a connection of the pool
  pc,         \* the repository call each task is in
  stage,      \* how far that call is
  req,        \* the request the task serves
  now,        \* the local variable of create and update
  result,     \* the user the statement returned, or None
  number,     \* the id get_by_email found, or the rows DELETE removed
  answer,     \* what the usecase returned or raised
  written     \* history: how many rows the request wrote

vars == <<rows, stamps, seq, clock, held, pc, stage, req, now, result, number, answer, written>>

table == <<rows, stamps, seq, written>>

At(t, call, step) == pc[t] = call /\ stage[t] = step

(* Variant: the clock is read once, when the request comes in. *)
CallStampedOnEntry(t, method) ==
  /\ pc' = [pc EXCEPT ![t] = method]
  /\ stage' = [stage EXCEPT ![t] = "acquire"]
  /\ now' = [now EXCEPT ![t] = IF pc[t] = "call" THEN clock ELSE @]
  /\ result' = [result EXCEPT ![t] = None]
  /\ number' = [number EXCEPT ![t] = 0]
  /\ UNCHANGED answer

(* Enter a repository method; create and update read the clock first. *)
Call(t, method) ==
  /\ pc' = [pc EXCEPT ![t] = method]
  /\ stage' = [stage EXCEPT ![t] = "acquire"]
  /\ now' = [now EXCEPT ![t] = IF method \in {"create", "update"} THEN clock ELSE 0]
  /\ result' = [result EXCEPT ![t] = None]
  /\ number' = [number EXCEPT ![t] = 0]
  /\ UNCHANGED answer

Return(t, code, user) ==
  /\ answer' = [answer EXCEPT ![t] = [code |-> code, user |-> user]]
  /\ pc' = [pc EXCEPT ![t] = "answered"]
  /\ stage' = [stage EXCEPT ![t] = "none"]
  /\ now' = [now EXCEPT ![t] = 0]
  /\ result' = [result EXCEPT ![t] = None]
  /\ number' = [number EXCEPT ![t] = 0]

Raise(t, code) == Return(t, code, None)

-----------------------------------------------------------------------------

Init ==
  /\ rows = Seed
  /\ stamps = [i \in DOMAIN Seed |-> [created |-> 0, updated |-> 0]]
  /\ seq = 1 + (CHOOSE m \in DOMAIN Seed \cup {0} : \A i \in DOMAIN Seed : i <= m)
  /\ clock = 0
  /\ held = {}
  /\ pc = [t \in Task |-> "idle"]
  /\ stage = [t \in Task |-> "none"]
  /\ req = [t \in Task |-> None]
  /\ now = [t \in Task |-> 0]
  /\ result = [t \in Task |-> None]
  /\ number = [t \in Task |-> 0]
  /\ answer = [t \in Task |-> None]
  /\ written = [t \in Task |-> 0]

(* Bound: the creates under way still get an id up to LastId. *)
CreatesUnderWay ==
  {t \in Task : req[t] \in CreateUserParams /\ answer[t] = None}

Submit(t) ==
  /\ pc[t] = "idle"
  /\ \E r \in Offered :
       /\ r.op = "create" => seq + Cardinality(CreatesUnderWay) <= LastId
       /\ req' = [req EXCEPT ![t] = r]
  /\ pc' = [pc EXCEPT ![t] = "call"]
  /\ UNCHANGED <<table, clock, held, stage, now, result, number, answer>>

(* The usecase method runs to its first await. *)
Enter(t) ==
  /\ pc[t] = "call"
  /\ IF req[t].op /= "create" THEN Call(t, "get_by_id")
     ELSE IF WellFormedCreate(req[t]) THEN Call(t, "get_by_email")
     ELSE Raise(t, "bad_request")
  /\ UNCHANGED <<table, clock, held, req>>

(* pool.acquire() waits for a connection, without a timeout. *)
Acquire(t) ==
  /\ stage[t] = "acquire"
  /\ Cardinality(held) < PoolSize
  /\ held' = held \cup {t}
  /\ stage' = [stage EXCEPT ![t] = "query"]
  /\ UNCHANGED <<table, clock, pc, req, now, result, number, answer>>

Reply(t, user, n) ==
  /\ stage' = [stage EXCEPT ![t] = "reply"]
  /\ result' = [result EXCEPT ![t] = user]
  /\ number' = [number EXCEPT ![t] = n]
  /\ UNCHANGED <<clock, held, pc, req, now, answer>>

(* The statements, as the server runs them. *)
SelectById(t) ==
  /\ At(t, "get_by_id", "query")
  /\ Reply(t, IF req[t].id \in DOMAIN rows THEN rows[req[t].id] ELSE None, 0)
  /\ UNCHANGED table

(* No ORDER BY: any one of the matching rows comes back. *)
SelectByEmail(t) ==
  /\ At(t, "get_by_email", "query")
  /\ LET matches == EmailMatches(rows, req[t].email)
     IN  \E found \in IF matches = {} THEN {0} ELSE matches : Reply(t, None, found)
  /\ UNCHANGED table

Wrote(t) == written' = [written EXCEPT ![t] = @ + 1]

Insert(t) ==
  /\ At(t, "create", "query")
  /\ rows' = Stored(rows, seq, FromParams(req[t]))
  /\ stamps' = Stored(stamps, seq, [created |-> now[t], updated |-> now[t]])
  /\ seq' = seq + 1
  /\ Wrote(t)
  /\ Reply(t, FromParams(req[t]), 0)

(* Variant: the UPDATE lacks its WHERE. *)
UpdateEveryRow(t) ==
  /\ At(t, "update", "query")
  /\ IF req[t].id \in DOMAIN rows
     THEN /\ rows' = [i \in DOMAIN rows |-> WithUpdates(rows[i], req[t])]
          /\ stamps' = [i \in DOMAIN rows |-> [stamps[i] EXCEPT !.updated = now[t]]]
          /\ Wrote(t)
          /\ Reply(t, WithUpdates(rows[req[t].id], req[t]), 0)
     ELSE Reply(t, None, 0) /\ UNCHANGED <<rows, stamps, written>>
  /\ UNCHANGED seq

UpdateRow(t) ==
  /\ At(t, "update", "query")
  /\ IF req[t].id \in DOMAIN rows
     THEN LET updated == WithUpdates(rows[req[t].id], req[t])
          IN  /\ rows' = Stored(rows, req[t].id, updated)
              /\ stamps' = [stamps EXCEPT ![req[t].id].updated = now[t]]
              /\ Wrote(t)
              /\ Reply(t, updated, 0)
     ELSE Reply(t, None, 0) /\ UNCHANGED <<rows, stamps, written>>
  /\ UNCHANGED seq

(* The command tag "DELETE n" tells how many rows went. *)
DeleteRow(t) ==
  /\ At(t, "delete", "query")
  /\ IF req[t].id \in DOMAIN rows
     THEN /\ rows' = Removed(rows, req[t].id)
          /\ stamps' = Removed(stamps, req[t].id)
          /\ Wrote(t)
          /\ Reply(t, None, 1)
     ELSE Reply(t, None, 0) /\ UNCHANGED <<rows, stamps, written>>
  /\ UNCHANGED seq

(* Variant: a missing row is reported before the connection goes back. *)
ResumeLeaksConnection(t, method) ==
  /\ At(t, method, "reply")
  /\ held' = IF method = "get_by_id" /\ result[t] = None THEN held ELSE held \ {t}
  /\ UNCHANGED <<table, clock, req>>

(* The reply is in: the connection goes back and the usecase goes on. *)
Resume(t, method) ==
  /\ At(t, method, "reply")
  /\ held' = held \ {t}
  /\ UNCHANGED <<table, clock, req>>

CheckStatusThenUpdate(t) ==
  IF WellFormedStatus(req[t]) THEN Call(t, "update") ELSE Raise(t, "bad_request")

AfterGetById(t) ==
  /\ Resume(t, "get_by_id")
  /\ \/ result[t] = None /\ Raise(t, "not_found")
     \/ result[t] /= None /\ req[t].op = "get" /\ Return(t, "ok", result[t])
     \/ result[t] /= None /\ req[t].op = "delete"
          /\ IF CanBeDeleted(result[t]) THEN Call(t, "delete") ELSE Raise(t, "conflict")
     \/ result[t] /= None /\ req[t].op = "update"
          /\ IF ~WellFormedEmail(req[t]) THEN Raise(t, "bad_request")
             ELSE IF req[t].email /= None THEN Call(t, "get_by_email")
             ELSE CheckStatusThenUpdate(t)

(* Variants: update does not look whose address it is, or refuses its own. *)
AfterGetByEmailTrustsUpdates(t) ==
  /\ Resume(t, "get_by_email")
  /\ \/ req[t].op = "create"
          /\ IF number[t] = 0 THEN Call(t, "create") ELSE Raise(t, "already_exists")
     \/ req[t].op = "update" /\ CheckStatusThenUpdate(t)

AfterGetByEmailRefusesOwn(t) ==
  /\ Resume(t, "get_by_email")
  /\ IF number[t] /= 0 THEN Raise(t, "already_exists")
     ELSE \/ req[t].op = "create" /\ Call(t, "create")
          \/ req[t].op = "update" /\ CheckStatusThenUpdate(t)

AfterGetByEmail(t) ==
  /\ Resume(t, "get_by_email")
  /\ \/ req[t].op = "create"
          /\ IF number[t] = 0 THEN Call(t, "create") ELSE Raise(t, "already_exists")
     \/ req[t].op = "update"
          /\ IF number[t] \in {0, req[t].id} THEN CheckStatusThenUpdate(t)
                                                ELSE Raise(t, "already_exists")

AfterCreate(t) == Resume(t, "create") /\ Return(t, "ok", result[t])

AfterUpdate(t) ==
  /\ Resume(t, "update")
  /\ IF result[t] = None THEN Raise(t, "not_found") ELSE Return(t, "ok", result[t])

(* Variant: the command tag is not looked at. *)
AfterDeleteIgnoresTag(t) == Resume(t, "delete") /\ Return(t, "ok", None)

AfterDelete(t) ==
  /\ Resume(t, "delete")
  /\ IF number[t] = 0 THEN Raise(t, "not_found") ELSE Return(t, "ok", None)

(* The connection breaks before the statement ran, or before its reply is  *)
(* in.  asyncpg raises, the pool takes the connection back, and the        *)
(* handler answers 500.                                                    *)
ConnectionLost(t) ==
  /\ stage[t] \in {"query", "reply"}
  /\ held' = held \ {t}
  /\ Raise(t, "error")
  /\ UNCHANGED <<table, clock, req>>

Receive(t) ==
  /\ pc[t] = "answered"
  /\ pc' = [pc EXCEPT ![t] = "idle"]
  /\ req' = [req EXCEPT ![t] = None]
  /\ answer' = [answer EXCEPT ![t] = None]
  /\ written' = [written EXCEPT ![t] = 0]
  /\ UNCHANGED <<rows, stamps, seq, clock, held, stage, now, result, number>>

Tick ==
  /\ clock < LastTime
  /\ clock' = clock + 1
  /\ UNCHANGED <<table, held, pc, stage, req, now, result, number, answer>>

Run(t) ==
  \/ Enter(t)
  \/ SelectById(t)
  \/ SelectByEmail(t)
  \/ Insert(t)
  \/ UpdateRow(t)
  \/ DeleteRow(t)
  \/ AfterGetById(t)
  \/ AfterGetByEmail(t)
  \/ AfterCreate(t)
  \/ AfterUpdate(t)
  \/ AfterDelete(t)

Next ==
  \/ \E t \in Task : Submit(t) \/ Acquire(t) \/ Run(t) \/ ConnectionLost(t) \/ Receive(t)
  \/ Tick

Spec == Init /\ [][Next]_vars

(* The server answers, and the pool hands connections to waiting tasks     *)
(* first come, first served.  Clients and failures owe nothing.             *)
Fairness == \A t \in Task : SF_vars(Acquire(t)) /\ WF_vars(Run(t))

FairSpec == Spec /\ Fairness

-----------------------------------------------------------------------------
(* Properties                                                              *)

Method == {"get_by_id", "get_by_email", "create", "update", "delete"}

(* Every variable has its type, and ids are below the sequence. *)
TypeOK ==
  /\ seq \in Nat \ {0}
  /\ DOMAIN rows \subseteq 1 .. (seq - 1)
  /\ rows \in [DOMAIN rows -> User]
  /\ stamps \in [DOMAIN rows -> [created : Nat, updated : Nat]]
  /\ clock \in Nat
  /\ held \in SUBSET Task
  /\ pc \in [Task -> Method \cup {"idle", "call", "answered"}]
  /\ stage \in [Task -> {"none", "acquire", "query", "reply"}]
  /\ req \in [Task -> AnyRequest \cup {None}]
  /\ now \in [Task -> Nat]
  /\ result \in [Task -> User \cup {None}]
  /\ number \in [Task -> Nat]
  /\ answer \in [Task -> Answer \cup {None}]
  /\ written \in [Task -> {0, 1}]

(* A connection is out of the pool exactly while a statement of its task   *)
(* is in flight, so no early return leaks one, no task waits for a         *)
(* connection while it holds another, and the pool's maximum is kept.      *)
ConnectionsAccountedFor ==
  /\ held = {t \in Task : stage[t] \in {"query", "reply"}}
  /\ Cardinality(held) <= PoolSize

(* No row is updated before it was created, although create and update     *)
(* read the clock long before their statement runs and other tasks write   *)
(* in between.                                                             *)
CreatedBeforeUpdated ==
  \A i \in DOMAIN rows : stamps[i].created <= stamps[i].updated

(* A client told "ok" to a write made exactly one, a client turned away    *)
(* made none, whoever else wrote or deleted the row between the usecase's  *)
(* checks and its statement.  Only after a 500 is the outcome unknown.     *)
AnswerMatchesEffect ==
  \A t \in Task : pc[t] = "answered" =>
    \/ answer[t].code = "ok" /\ written[t] = IF req[t].op = "get" THEN 0 ELSE 1
    \/ answer[t].code \notin {"ok", "error"} /\ written[t] = 0
    \/ answer[t].code = "error" /\ written[t] \in {0, 1}

(* A field of a row changes only to a value that a client asked for in an  *)
(* update of that row which is in flight: concurrent updates of different  *)
(* fields of one row never undo each other.                                *)
Asked(t, i, field, value) ==
  /\ pc[t] = "update" /\ req[t].id = i
  /\ req[t][field] = value /\ value /= None

FieldsChangeAsAsked ==
  [][\A i \in DOMAIN rows \cap DOMAIN rows' : \A field \in {"name", "email", "status"} :
       rows'[i][field] /= rows[i][field] =>
         \E t \in Task : Asked(t, i, field, rows'[i][field])]_vars

(* The contract of the port, with the in-memory repository as reference:   *)
(* no two users share an address, and no active user is deleted.           *)
UniqueEmails == DistinctEmails(rows)

ActiveNeverDeleted ==
  [][\A i \in DOMAIN rows : rows[i].status = "active" => i \in DOMAIN rows']_vars

(* What a reply to t's statement decides of its answer: all of it when the *)
(* statement was the request's last or the usecase will turn the reply     *)
(* away, and nothing (None) otherwise.                                     *)
Outcome(code, user) == [code |-> code, user |-> user]

Verdict(method, r, user, n) ==
  CASE method \in {"get_by_id", "update"} /\ user = None -> Outcome("not_found", None)
    [] method = "get_by_id" /\ user /= None /\ r.op = "get" -> Outcome("ok", user)
    [] method = "get_by_id" /\ user /= None /\ r.op = "delete" /\ ~CanBeDeleted(user) ->
         Outcome("conflict", None)
    [] method = "get_by_email" /\ n /= 0 /\ (r.op = "create" \/ n /= r.id) ->
         Outcome("already_exists", None)
    [] method = "create" \/ (method = "update" /\ user /= None) -> Outcome("ok", user)
    [] method = "delete" /\ n = 0 -> Outcome("not_found", None)
    [] method = "delete" /\ n /= 0 -> Outcome("ok", None)
    [] OTHER -> None

Decided(t) ==
  IF stage[t] = "reply" THEN Verdict(pc[t], req[t], result[t], number[t]) ELSE answer[t]

(* The rows no longer allow what the usecase checked before t's statement. *)
Outdated(t) ==
  \/ pc[t] = "create" /\ EmailMatches(rows, req[t].email) /= {}
  \/ pc[t] = "update" /\ req[t].id \in DOMAIN rows /\ req[t].email /= None
       /\ EmailMatches(rows, req[t].email) \ {req[t].id} /= {}
  \/ pc[t] = "delete" /\ req[t].id \in DOMAIN rows /\ ~CanBeDeleted(rows[req[t].id])

WritesOutdated == \E t \in Task : Outdated(t) /\ (Insert(t) \/ UpdateRow(t) \/ DeleteRow(t))

(* The behaviours in which no request writes on an outdated check. *)
FreshSpec == Init /\ [][Next /\ ~WritesOutdated]_vars

(* Two requests that are about the same row or ask for the same address. *)
Clash(r, s) ==
  \/ r.op /= "create" /\ s.op /= "create" /\ r.id = s.id
  \/ /\ {r.op, s.op} \subseteq {"create", "update"}
     /\ None \notin {r.email, s.email}
     /\ SameEmail(r.email, s.email)

InFlight(t) == pc[t] \notin {"idle", "answered"}

RequestsApart ==
  \A t, u \in Task : t /= u /\ InFlight(t) /\ InFlight(u) => ~Clash(req[t], req[u])

(* The behaviours in which no two requests in flight clash. *)
ApartSpec == Init /\ [][Next /\ RequestsApart']_vars

(* Only Submit is held back, of which no fairness is asked. *)
FairApartSpec == ApartSpec /\ Fairness

(* Requests that do not clash find the store of UserStore here too,        *)
(* however they overlap and whatever connections break.                    *)
Store == INSTANCE UserStore WITH
  used <- 1 .. (seq - 1), answer <- [t \in Task |-> Decided(t)], MayFail <- TRUE
ImplementsStore == Store!Spec

(* Every request is answered, even with fewer connections than tasks. *)
EveryRequestAnswered ==
  \A t \in Task : pc[t] = "call" ~> pc[t] = "answered"

=============================================================================
