# Verification of the user BFF

TLA+ models, TLC runs and TLAPS proofs for the FastAPI service under `src/`:
a clean/hexagonal backend-for-frontend with one business feature (users), one
supporting feature (auth), and two interchangeable storage backends behind one
port. This document says what the system is, which module models which part of
it, what each run and each theorem shows, and what is left.

Contents: 1 the system; 2 the modules; 3 the runs; 4 the proofs; 5 findings;
6 what is not modelled; 7 plan.

## 1. The system

Paths are relative to `src/app/`. A request travels from the top of this list to
the bottom and its answer travels back.

| Part | State it keeps | Operations | What makes it correct |
|---|---|---|---|
| `main.py`, `di/container.py` (composition root, lifespan) | the wired usecases, one `Database` | start-up: validate the configuration, connect, ping, serve; shutdown: disconnect; exception handlers | nothing is served before storage answers; every failure has the envelope |
| `pkg/config/config.py` | immutable settings | load, `validate_auth_settings` | a service never runs with a forgeable secret outside development |
| `internal/middleware/` (request_context, access_log, body_log) | a `ContextVar` per task, a body buffer per request | stamp a request id, log a line, buffer and redact bodies | ids never cross requests; no secret reaches the log; the buffer is bounded |
| `internal/feature/auth/` | none (secret and clock are read) | issue, validate, guard, require permissions | a token is honoured exactly while it is valid and for what it grants |
| `internal/feature/user/delivery/http/` | none | list, get, create, update, delete; mapping of errors to answers | the answer says what happened |
| `.../user/usecase/user_usecase.py` | none | the same five, with the business rules | the rules hold of what is stored, not only of what was read |
| `.../user/infra/db/user_repository.py` (in memory) | `_rows`, `_next_id`, `_lock` | get_by_id, get_by_email, list, create, update, delete | one contract, two implementations: the port `UserRepository` |
| `.../user/infra/db/user_repository_postgres.py`, `pkg/database.py` | the `users` table, the asyncpg pool | the same six; connect, ping, disconnect | as above, and no connection is lost |
| `utils/pagination.py` | none | normalise a page request, whitelist a sort | pages partition what is listed |

How they interact. Handler, usecase and repository call each other directly, in
one asyncio task per request; nothing else runs in the background. Requests
meet in three places only: the storage (rows), the pool (connections), and the
event loop (which task runs). The usecase is written as *check, then act*: it
reads through the repository, decides, and writes through the repository, each
of these being an `await`. So the hard question of this system is what another
request can do between a check and the write it is for, and the answer differs
between the two backends although both claim the same contract:

- In memory, no repository method suspends, except for a lock somebody else
  holds, and nobody is ever seen holding it. Check and write are one step of
  the event loop. That is an argument about scheduling, not visible in any line
  of the code: it is what the `memory` run checks and `MemoryUserServiceProofs`
  proves.
- Over PostgreSQL every statement suspends, takes its own connection and commits
  on its own. Other requests do run in between. Some properties survive that
  and some do not.

The hard behaviours, with the line where each bites, are listed under `hazards`
in `PROJECT.json`. In short: check-then-act over two statements; a row that
disappears between a check and a write; two writers of one row; a clock read
before a wait; a connection lost before or after its statement took effect; a
pool with fewer connections than tasks; a lock or a connection not given back on
an early return; ids after deletes; two statements that make one page, rows that
move between two pages or appear out of the order of their ids, sort keys with ties; tokens at their second of expiry and
after a restart with another secret; start-up that fails half way, shutdown under
load; exceptions through middlewares and request ids of overlapping requests; bodies
that come in pieces around the cap of a buffer; sensitive values deep in a body; and two
layers that check the same parameters by different rules.

## 2. The modules

```
UserDomain                         entity, parameters, pure rules
 |-- UserDomainProofs              what the rules preserve
 |-- UserRequests                  what the HTTP routes make of a call, or refuse
 |-- UserStore                     abstract: what the feature promises
 |-- MemoryUserService             usecase + in-memory repository   -- implements UserStore
 |    |-- MemoryUserServiceProofs  theorems
 |    '-- UserApi                  with UserRequests in front
 |         |-- MCMemoryUserService instance for TLC
 |         '-- UserApiProofs       theorems
 |-- PostgresUserService           usecase + PostgreSQL repository  -- implements UserStore
 |    |-- MCPostgresUserService    instance for TLC                    unless requests clash
 |    '-- PostgresUserServiceProofs theorems
 '-- UserListing                   pagination, list over either backend, a paging client
      |-- MCUserListing            instance for TLC
      '-- UserListingProofs        theorems
AuthTokens                         tokens, guard, settings: pure rules
 '-- ServiceLifecycle              start-up, lifespan, restarts, guarded requests
      |-- MCServiceLifecycle       instance for TLC
      '-- ServiceLifecycleProofs   theorems
RequestPipeline                    middlewares, request ids, exceptions, envelope
 |-- MCRequestPipeline             instance for TLC
 '-- RequestPipelineProofs         theorems
BodyRendering                      redaction, truncation, the text in the line
 '-- BodyLog                       the wrappers and buffers of the body log, and its line
      |-- MCBodyLog                instance for TLC
      '-- BodyLogProofs            theorems
```

### UserDomain

The vocabulary, translated from `domain/entity`, `domain/port` and the two
`UserModel` constructors: a user (without id and timestamps), the three kinds of
request, `CanBeDeleted`, `FromParams`, `WithUpdates` and the validity checks of
the usecase. Rows are a function from ids to users.

Texts are abstract. A name is empty or not. An e-mail has an `@` or not
(`HasAt`), and `EmailKey` maps it to what a case-insensitive comparison sees of
it, which stands for `casefold()` in memory and `lower()` in SQL; the two agree
on every address of the instances. The seven constants are constrained by
`DomainAssumption` only.

### UserRequests and UserApi

A call of the HTTP API has a path id and a body in which each field may be absent,
null, of another type, or any text (`Call`). `CreateUserRequest`, `UpdateUserRequest` and
`PathId` say which the two DTOs and `Path(ge=1)` refuse; of the others the handler makes the
parameter object that the usecase gets (`Bound`). `EmailStr` is a subset of the texts with
an `@` (`Deliverable`) with the address it normalises to. `UserApi` puts this before the
in-memory service: both layers check the same things by different rules, and the
question is whether they agree. `HttpRequest` is the set of parameter objects that can
come by this way; other callers of the usecase (its tests) may pass anything.

### UserStore

The promise to a client, independent of the storage. A request is pending from
`Submit` until it has an answer, and takes effect at one instant in between:
either it is rejected with a code that it deserves *on the rows of that instant*
(malformed, target missing, address taken, target protected), or it deserves
none and creates, updates, deletes or reads. Ids given out are remembered in
`used` and never given out again. With `MayFail`, an answer may be lost and
replaced by `error`, before or after the effect, as a broken connection does.

### MemoryUserService

| In the model | In the code |
|---|---|
| `rows`, `next_id`, `lock` | `_rows`, `_next_id`, `_lock` of `UserRepositoryImpl` |
| `running` | the task that has the event loop |
| `pc[t]` | `call` (entering the usecase), `get_by_email`, `acquire` (waiting at `async with self._lock`), `locked` (inside), `answered` |
| `Submit`, `Receive` | the client; `Resume` is the event loop |
| `EnterCreate`, `EnterUpdate`, `EnterDelete`, `Get` | the usecase up to its second await |
| `CheckEmailForCreate`, `CheckEmailForUpdate` | `get_by_email` and the decision on it |
| `Acquire`; `Create`, `Update`, `Delete` | the lock; the section under it, its release on return and on raise |

Each await of the usecase is a step, but a step gives the loop away (`running' =
None`) only where the code really suspends: at the end of the request, and at a
lock that is taken. Everything else keeps the loop. The variants next to the
actions (`CheckEmailForCreateYields`, `EnterDeleteYields`, `AcquireThenYields`)
are the same actions with one extra suspension; each breaks a property, so the
properties do depend on where the code suspends.

The order of checks is the code's: `update` looks for the row first, then at the
form of the address, then whether it is taken, then at the status.

### PostgresUserService

| In the model | In the code |
|---|---|
| `rows`, `stamps`, `seq` | the `users` table, its two timestamps, the id sequence |
| `held` | connections out of the pool; `PoolSize` is `DB_POOL_MAX` |
| `pc[t]`, `stage[t]` | the repository method, and in it: waiting for a connection, about to run the statement, with its reply under way |
| `now`, `result`, `number` | the local variables of the method |
| `SelectById`, `SelectByEmail`, `Insert`, `UpdateRow`, `DeleteRow` | the five statements, each atomic in the server |
| `AfterGetById`, ..., `AfterDelete` | the reply arrives, the connection goes back, the usecase decides |
| `ConnectionLost` | asyncpg raises, before or after the statement took effect; the handler answers 500 |
| `Tick` | the clock, which is assumed not to be set back |

`written` is the one history variable: how many rows the present request wrote.
`SelectByEmail` has no `ORDER BY`, so it may return any match. The statement
`UPDATE ... SET` names only the fields that are given, hence `WithUpdates` on
the row as it is when the statement runs, not as it was read. An update with
nothing to change still writes `updated_at`. `Insert` draws its id and shows its row in one
step: no property of this module looks at the order in which ids appear. The lists
do, so `UserListing` has the two apart.

### UserListing

| In the model | In the code |
|---|---|
| `Normalize`, `OrderClause` | `Query.normalize`, `Query.order_clause` of `pagination.py` |
| `Selected` | the filter of the in-memory `list`, and the `WHERE` of the other |
| `Sorted` | `sorted()` with `reverse`, which is stable both ways |
| `Arrangements` | every order that `ORDER BY` one column allows |
| `ListInMemory` | the in-memory `list`, one step of the loop, and the handler's answer |
| `Count`, `Select` | the two statements of the PostgreSQL `list` |
| `Respond` | `UserHandler.list`, which normalises the request again for its echo |
| `Begin`, `NextPage` | a client that goes on at `offset + limit` until `total` |
| `UserModel`, `ModelOf` | a row with its timestamps; what create and update make of one |
| `CreateInMemory` | `create` under the lock: id and row in one step |
| `DrawId`, `CommitInsert`, `AbandonInsert` | an `INSERT`: it evaluates the default of `id BIGSERIAL`, its row is seen when it commits, or it fails and the id is lost |
| `taken` | the ids of the INSERTs under way, any number of them |
| `ChangeRow` | `update` and `delete`, one statement each |
| `Interfere` | a write of another request, as rows see it, at any reading of the clock |

One module covers both backends (`storage`), because the question is the same: what a
client that goes through the pages is shown. `Sorted` is defined by rank (the n-th
row has n - 1 rows before it); `MCUserListing` assumes, and TLC evaluates, that it is one of
the `Arrangements` for every column, direction and set of rows of the instance.
Four history variables serve the properties: `mark` (the rows that were there when the client
began), `changed` (a row was changed or removed since), `overtaken` (a row appeared below
one that was there, since) and `stale` (a row was written between the two statements of
the present page). Texts
have a rank (`TextRank`) and a relation of needles (`Matching`) instead of characters.

### AuthTokens and ServiceLifecycle

`AuthTokens` has the pure part: which settings `validate_auth_settings` accepts, what
`issue` puts in a token, what `validate` says of one at a time, in the order of its
checks (signature, issue time, expiry, then subject and form of the permissions), and
what `AuthGuard` makes of it for a route. Secrets are opaque but for the three
things the code asks of them: blank, the placeholder, long enough.

| In `ServiceLifecycle` | In the code |
|---|---|
| `cfg` | the settings of the running process |
| `pool` | `Database._pool` |
| `phase` | how far `create_app`, the lifespan and uvicorn have come |
| `Boot` | `create_app`, which raises on bad settings and unknown storage |
| `Connect`, `Ping`, `Exit` | `Database.connect`, which may raise at either; the exception ends the process |
| `Stop`, `Disconnect` | uvicorn stops accepting and drains; the lifespan goes on after its `yield` |
| `Crash` | the process is killed in any phase |
| `Mint` | `POST /auth/token`, where it is switched on |
| `Send`, `Check`, `Handle`, `Receive` | a request: it arrives, the guard runs, the handler runs, the answer is taken |
| `Tick` | the clock |

Tokens outlive processes: `tokens` and the clock survive `Crash` and `Disconnect`, while
every `Boot` may choose other settings, another secret among them. `Foreign` holds
tokens of other issuers with a secret the service also uses, which may leave out their expiry
or carry a malformed permission claim. The guard looks at the clock once; the
handler runs later, maybe after the expiry. What the handler does with users is in the
other modules; here it only has to find its pool.

### RequestPipeline

| In the model | In the code |
|---|---|
| `Stack` | the layers, outermost first: `add_middleware` prepends; Starlette puts the handler of `Exception` outside of all and the other handlers inside |
| `req[r].at` | the layer the request is at, on its way in or, with something in `carries`, on its way out |
| `ctx[r]` | the `ContextVar` of `utils/request_context.py` in each task of the request |
| `lines[r]` | what is logged for it, with the id that `RequestIdFilter` stamps |
| `EnterRequestContext`, `EnterAccessLog` | the two `dispatch` methods up to `call_next`, which starts a task with a copy of the context |
| `Route` | the handler, or an exception on the way to it; `_map_error` |
| `HandleException`, `LeaveServerError` | the three exception handlers, at the layers where Starlette puts them |
| `LeaveAccessLog`, `LeaveRequestContext` | the two `dispatch` methods after `call_next`, or the exception through them |
| `RouteAnswer`, `Outcomes` | what the inner application comes to: an answer of a handler, or an exception on the way |
| `LeaveBodyLog`, `LogBodies` | the pure ASGI layer, whose line comes when the body has left it, beside the outer layers |

An error is its code (`AppError`); `HttpStatus` is the status of its class. An
answer keeps what the properties tell apart: status, code, the id in the
envelope and the id in the header; without envelope, code and id are `None`. One status
stands for all successes, and 404 for what the router raises (405 is treated alike).
A request arrives in a context that may already hold an id: uvicorn starts a
pipelined request from within the task of the one before it. The start and the
body of an answer travel together, except that the line of `BodyLogMiddleware` is
a step of its own.

### BodyRendering and BodyLog

| In the model | In the code |
|---|---|
| `call[c]` | the locals of one `__call__` of `BodyLogMiddleware`: `req_buf`, `res_buf`, `content_type`, and what flowed by |
| `Receive`, `Start`, `Send` | `receive_wrapper`, `send_wrapper` at the start of the answer, and at a piece of its body |
| `Extend` | the test on the length before the chunk, and the extension |
| `Return`, `Raise` | the application returns and the line is written, or raises and there is none |
| `Rendered` | `_render`: nothing, JSON that is redacted and truncated, or the placeholder |
| `Placeholder` | the number of bytes and the content type as the client sent it, uncut; "unknown" if it sent none |
| `Cut` | the truncation in `_render` |
| `Walk`, `Redacted` | `_walk` of `redact.py`, one call of it and all, with `FullKeys`, `PartialKeys` of `sensitive_keys.py` |
| `Dump`, `Dumped` | `json.dumps`, as a sequence of tokens |

A body is known by its size; its bytes are their positions, so that a gap, a repetition
or bytes of another request show. The kept bytes parse if they are
all of a body that is JSON: an object or a list, of which no proper beginning is JSON.
A content type is the sequence of its words (`application/json`, `; `, `charset=utf-8`),
so that it can say more than the type, and be longer than the limit.
Lengths of texts are counted in tokens, punctuation is left out, and `MaxBytes` is
`LOG_BODY_MAX_BYTES` both in that measure and in bytes of the buffer. `MayBeShown` is a
second definition, by the paths in a document, of what redaction may leave visible:
`Redacted` is held against it.

What recurses in the code is a recursive function here, over a set `Value` of JSON values
with the values in them, and one call of it is an operator (`Walk`, `Dump`) that is given
the function for the parts. `Depth` says how deep a value is nested; that a part is less deep
than what it is in (`ValueAssumption`) is all that is assumed of it, and true of whatever
`json.loads` returns. `MCBodyLog` computes both constants from its documents.

## 3. The runs

| Run | Instance | Checks | Distinct states |
|---|---|---|---|
| `memory` | 2 tasks, the three seeded rows, requests of HTTP calls and of other callers, ids up to 5 | `TypeOK`, `UniqueEmails`, `Inv`, `LockIsFree`, `ActiveNeverDeleted`, `HttpNeverMalformed`, `ImplementsStore`, `EveryRequestAnswered` | 102,114 |
| `postgres_apart` | 3 tasks, pool of 1, 6 requests of which two that clash never overlap, connections lost anywhere | `ImplementsStore`, `EveryRequestAnswered` | 411,270 |
| `postgres_race` | 2 tasks, pool of 2, clock 0..2, 6 colliding requests, symmetric tasks | `TypeOK`, `ConnectionsAccountedFor`, `CreatedBeforeUpdated`, `AnswerMatchesEffect`, `FieldsChangeAsAsked` | 995,528 |
| `postgres_duplicate` | as `postgres_race` | `UniqueEmails` is violated | |
| `postgres_delete_active` | as `postgres_race` | `ActiveNeverDeleted` is violated | |
| `listing` | both backends, 2 rows of one name and two newcomers, at most 4 ids, 5 page requests, 1 update, a clock of 2 readings | `TypeOK`, `PageFitsTotal`, `QuietTraversalIsExact`, `CreatesDontDisturb`, `TraversalEnds` | 149,801 |
| `listing_ties` | as `listing` | `NoRowTwice` is violated | |
| `lifecycle` | 2 callers, 7 configurations, 2 foreign tokens, 1 minted, clock 0..2 | `TypeOK`, `NothingUnearned`, `FreshTokenIsHonoured`, `PoolThereWhenNeeded`, `ProductionNeverMints`, `CallsEnd`, `StartAndStopEnd` | 185,769 |
| `pipeline` | 2 overlapping requests, one id from clients, two new ones, `LOG_BODIES` on and off, 14 outcomes | `TypeOK`, `IdsNeverCross`, `AccessLineTellsAnswer`, `ErrorLoggedOnce`, `AnswerTellsOutcome`, `EveryRequestEnds` | 200,124 |
| `pipeline_envelope` | as `pipeline` | `EveryAnswerHasEnvelope` is violated | |
| `pipeline_access_line` | as `pipeline` | `OneAccessLinePerRequest` is violated | |
| `body_log` | 2 overlapping requests (symmetric), 5 exchanges of 7 bodies, 5 content types, chunks of 4, 12 and 28 bytes, a limit of 7 and a cap of 28, `LOG_REDACT` on and off | `TypeOK`, `StreamUntouched`, `BuffersHoldTheBeginning`, `BufferWithinOneChunk`, `LineTellsBody`, `NothingSensitiveLogged`, `LineWithinLimit` | 220,430 |

What they show.

- `memory`: for two overlapping requests the in-memory service is a refinement
  of the atomic store. `Inv` holds the argument: while a task is past its first
  await it has the loop, so what it checked of the rows is still true. And no client of the
  HTTP routes is told 400 by the usecase: what the DTOs let through passes its checks.
- `postgres_apart`: as long as no two requests in flight are about the same user or ask for
  the same address (`ApartSpec`), PostgreSQL implements the *same* abstract store, up to
  answers of 500. The refinement mapping decides an answer at the request's last statement,
  or at the reply that the usecase will turn away (`Decided`), because a connection
  lost after a write loses the answer and not the effect. This is the substitutability of
  the two backends, for the part of the contract that does hold. And with three tasks
  on one connection everybody is answered. The one connection keeps statements from
  overlapping in this instance; that they may is in `postgres_race`, and in the theorem
  `ApartRequestsImplementStore`, which is about any pool and any requests.
- `postgres_race`: what survives overlap. The answer a client gets still says
  what its request did to the table, whoever deleted or changed the row since
  the usecase looked (`AnswerMatchesEffect`: two deletes of one row are
  not both told "deleted"); concurrent updates of different fields never undo
  each other (`FieldsChangeAsAsked`); no connection leaks and nobody waits for
  one while holding one; `created_at <= updated_at`.
- `listing`: an answer's `items`, `limit`, `offset` and `total` fit each other unless,
  over PostgreSQL, a write fell between the two statements (`PageFitsTotal`). Going
  through an unchanged table shows every selected row once and in order, in memory
  for every sort, over PostgreSQL for a sort without ties. Users created meanwhile hide
  nobody from a client that is half way (`CreatesDontDisturb`): in memory for every
  sort; in the default order over both backends, and there no row is shown twice either.
  Over PostgreSQL this needs that no INSERT is overtaken by one with a higher id
  (`overtaken`): a row that appears below one that is there shifts what follows it. Without
  that premise TLC finds a row missed, when the late INSERT commits between the two
  statements of a page. It takes three INSERTs under way for a row to be shown twice (one
  to be shown, a later one that keeps the total above its offset, an earlier one that
  commits between two pages), which is one more than the instance has; the theorem
  `CreatesNeverDisturb` has the premise for any number of them. For other sorts the PostgreSQL list promises
  less: sorted by name, two to a page, a newcomer that commits between count and SELECT
  pushes a row off the only page that the client, told a total of two, will ask for.
  And whatever is written, a client that
  follows the echo comes to an end: the second normalisation in the handler is what
  makes this true of a limit of 0 or one beyond the maximum.
- `lifecycle`: through any sequence of starts, stops, crashes and changes of settings,
  nobody is served on a token that does not earn it, a minted token is good from its
  first second to its last, production does not mint, a handler that needs the
  pool finds it open, and neither requests, starts nor stops hang.
- `pipeline`: every line, envelope and header of a request bears its id, whatever its
  neighbours do and whatever context it was started in. Whichever of the three
  places makes an answer of an error, its status and code are those of the error,
  and the service logs it once; of an exception that nobody handled uvicorn then logs a
  second line of its own, `uvicorn.error`, which `ErrorLoggedOnce` does not count. No request
  has two access lines, or one with another status than its client got, and only
  an exception that goes through the middlewares leaves a request with none: see
  `pipeline_access_line` in section 5. Such an answer also has no `X-Request-Id` header,
  which `IdsNeverCross` allows, although it has the envelope and the id in it.
- `body_log`: the middleware passes both bodies on untouched, keeps the beginning of each
  without a gap and without a byte of another request, passes the cap by less than one chunk,
  and writes one line where the application returned. With `LOG_REDACT` the line shows no
  scalar that a sensitive key leads to, at any depth, in any spelling of the key, and
  also where the text is cut: redaction comes before truncation, and a body that does
  not parse is not shown at all. A text is within the limit and the mark unless it is the
  placeholder of such a body (`LineWithinLimit`): `body_log.py` line 62 repeats the
  client's content type and cuts nothing, so "output is truncated to `max_bytes`" (line 11)
  is true of JSON only. The instance has a content type beyond the limit.
- the five violations: section 5.

Bounds. Two tasks are enough for a race between a check and its write, since each
property relates one request to one interfering step; `postgres_apart` has three, so
that two wait for one connection, and its requests reach every statement and every kind of
answer; refusals of a malformed create or address are left to the theorem. `LastId` caps creates (one in each task beyond
the seeded rows), `LastTime` the clock readings that create/update timestamps
can tell apart, `Offered` the requests: valid and invalid ones for every
branch, two spellings of one address, rows that exist, do not exist, or come
to exist in the run. `LastId` and `LastTime` guard `Submit` and `Tick` and
disable nothing else.

`listing` shrinks `DEFAULT_LIMIT` and `MAX_LIMIT` to 1 and 2, so that four rows (two
and two newcomers, `LastId`) need up to four pages, and two INSERTs are enough for one to
overtake the other (a third, which a row shown twice needs, is left to the theorem); its requests cover a limit of zero, a negative
one and one beyond the maximum, a negative offset, an unknown column, an unknown
direction, a column with ties, a search, a status that nothing has, and the time of the
last update, which a write meanwhile may set to one of two instants (`Instant`). `lifecycle` has
two callers, so that a stop finds one request before the guard and one after; one
minted token (`MaxTokens`), since each property is about one token at a time; and a
clock of three readings (`LastTime`), so that a token with a lifetime of one is
looked at before, at and after its expiry. `pipeline` has two requests, one to bear an id
and one to bear it wrongly, and as many new ids (`Generated`) as requests, since `uuid4`
does not repeat itself. `body_log` has two requests, whose buffers could be taken for one
another; its bodies are empty, within the cap, exactly as long as it (28), and
longer by one piece (32) and by several (60); a chunk may be a part of the cap, all of it, or
cross it. Its content types are JSON with and without a charset, none at all, and one that
alone is longer than the limit. Its documents have sensitive keys at the top, in a list of lists, under an
innocent key, in capitals, and in both sets of keys at once.

There is no deadlock in any instance: a client may always
take its answer and ask again.

Fairness. Nothing is assumed of clients, of the clock, or of failures. In memory,
strong fairness of `Resume(t)`: the event loop's ready queue is first in, first
out, so a ready task is not passed over for ever although others run in
between; weak fairness of `Run(t)`: the task that has the loop goes on. Over
PostgreSQL, strong fairness of `Acquire(t)`: the pool hands out connections
through an `asyncio.LifoQueue`, whose *waiters* are served first come, first
served; weak fairness of `Run(t)`: the server answers a statement (`FairApartSpec` asks the same, and
what it holds back, `Submit`, is owed by nobody). In `listing`, weak
fairness of the answers and of `NextPage`: the promise is to a client that goes
on. In `lifecycle`, weak fairness of `Connect`, `Ping`, `Exit`, `Disconnect`, `Check` and
`Handle`: each is the next thing a coroutine does; `Connect` ends because asyncpg applies
`DB_CONNECT_TIMEOUT_SEC`, and of `Ping` and `Handle` it is assumed, as above, that the
server answers a statement or breaks the connection. In `pipeline`, weak fairness of
each request's steps: the event loop runs every task that is ready. Nobody is obliged to start, stop, call, take
an answer or fail.

Every property of a passing run has a variant of one mapped definition (the
definitions marked `Variant` in the modules) under which TLC finds it violated.

## 4. The proofs

`MemoryUserServiceProofs` proves, for any set of tasks, any names, addresses,
seed and offered requests that satisfy `DomainAssumption` and `ServiceAssumption`
(finiteness is not needed):

| Theorem | Statement |
|---|---|
| `TypeCorrectness` | `Spec => []TypeOK` |
| `ChecksHoldUntilWritten` | `Spec => []Inv` |
| `EmailsStayUnique` | `Spec => []UniqueEmails` |
| `LockNeverWaitedFor` | `Spec => []LockIsFree` |
| `ActiveUsersStay` | `Spec => ActiveNeverDeleted` |
| `ServiceImplementsStore` | `Spec => ImplementsStore` |

`UniqueEmails` alone is not inductive: in a state where a task stands inside the
lock with an address somebody else has, `Create` breaks it. The strengthening
says of each place a task can be at what it has already checked
(`CheckedParameters`, `CheckedRequest`), and that these checks are still true of
the *present* rows. They stay true because whoever stands between a check and a
write has the loop (`LoopIsKept`), so there is at most one such task, and a task
that runs changes rows only in its last step, which leaves that place.
`LockIsHeldInside` ties the lock to the same place, whence `LockIsFree`. The
inductive invariant is `TypeOK /\ Inv`; the proof has a step per action and,
under it, a step per conjunct that the action can disturb, on top of lemmas on
`Stored`, `Removed` and the shape of a step of `Run`. `ServiceImplementsStore` maps
each step: the locked sections to the atomic effect, an early return to `Reject`,
everything between to stuttering.

Assumptions on the constants: the seed has distinct addresses, positive ids and
a greatest one; `None` differs from every other value; the three statuses are
among the texts that clients offer.

`ServiceLifecycleProofs` proves, for any callers, configurations, tokens and routes
that satisfy `TokenAssumption` and `LifecycleAssumption`, and without a bound on the
clock or on the tokens (the proofs do not use `LastTime` and `MaxTokens`):

| Theorem | Statement |
|---|---|
| `TypeCorrectness` | `Spec => []TypeOK` |
| `NobodyServedUnearned` | `Spec => []NothingUnearned` |
| `MintedTokensHonoured` | `Spec => []FreshTokenIsHonoured` |
| `PoolIsThere` | `Spec => []PoolThereWhenNeeded` |
| `NoMintingInProduction` | `Spec => ProductionNeverMints` |

Its inductive invariant `Inv` says what each phase has behind it: no request exists
before service (`CallsNeedProcess`), a serving process with PostgreSQL has an open pool
(`PoolFollowsStorage`, which needs `PingedPoolIsOpen` and `ConnectingMeansPostgres` on
the way there), a running process passed validation (`SettingsAreValid`), minted tokens
are well formed (`TokensAreWellMinted`), and what is recorded of a request is what the
guard says under the *present* settings (`GuardHeard`). The last one is the heart: it would fail
if a request could outlive its process, and `NothingUnearned` alone does not
say that the settings under which the guard looked are those under which the
handler runs.

`PostgresUserServiceProofs` proves, for any tasks, pool, rows and clock and with connections
lost at any statement:

| Theorem | Statement |
|---|---|
| `TypeCorrectness` | `Spec => []TypeOK` |
| `ConnectionsNeverLeak` | `Spec => []ConnectionsAccountedFor` |
| `TimestampsAreOrdered` | `Spec => []CreatedBeforeUpdated` |
| `AnswersMatchEffects` | `Spec => []AnswerMatchesEffect` |
| `FieldsOnlyChangeAsAsked` | `Spec => FieldsChangeAsAsked` |
| `FreshWritesImplementStore` | `FreshSpec => ImplementsStore` |
| `ApartRequestsImplementStore` | `DistinctEmails(Seed) /\ ApartSpec => ImplementsStore` |
| `ApartEmailsStayUnique` | `DistinctEmails(Seed) /\ ApartSpec => []UniqueEmails` |
| `ApartActiveUsersStay` | `ApartSpec => ActiveNeverDeleted` |

None of the first four is inductive alone. `Inv` adds what each task knows at the place
where it is: that it runs a method its request has (`Placed`), what the usecase has
checked of the parameters (`Checked`), what a reply that is under way says (`Known`: a clock
reading that waits in a method is not older than the row it is for, as long as
that row is there, since ids are never given out again), and how many rows it has
written by now (`Effect`). `TimestampsAreOrdered` is the one that needs all of them:
an update reads its clock before it waits for a connection, and only because it found the
row earlier is that reading not before the row's creation.

The last four are about what overlap breaks. `Spec` does not implement `UserStore`, and
`FreshWritesImplementStore` says why, exactly: `FreshSpec` leaves out the steps of `Next` that
write although the rows no longer allow what the usecase has checked (`WritesOutdated`: the
address is taken by now, or the user to be deleted is active by now), and nothing else. Every
other step maps to one of the store, or to none: a reply that decides the request
(`Verdict`) to the rejection or to the read, the three writes to the three effects, a lost
connection to `Fail`. So the two findings of section 5 are the only ways in which the
backend departs from the store.

`ApartSpec` states the same from the clients' side: it bounds what they ask for, and no
step of the service. The argument is that what a usecase has seen and will act on stays
true until its statement runs. `AddressFree` and `TargetFree` say what that is at each
place between the SELECT and the write: no row stands in the way of the address, the row
to be deleted is still one that may be. A write of another task changes one row, of its
own id or its own address (`RowsChangeFor`), and `RequestsApart` keeps these away from
what the first task looks at (`AddressStays`, `TargetStays`); hence no write is
outdated (`ApartWritesAreFresh`), and the refinement follows from that of `FreshSpec`. An
address is unique because `get_by_email` returns one match of any and, with unique
addresses so far, one match is all there is.

`UserListingProofs` proves, for any table, any page request at the front, any limits, any
order of texts and any writes meanwhile:

| Theorem | Statement |
|---|---|
| `SortedIsArranged` | `Sorted(table, c, ids) \in Arrangements(table, c, ids)` for every finite table |
| `TypeCorrectness` | `Spec => []TypeOK` |
| `PagesFitTotals` | `Spec => []PageFitsTotal` |
| `QuietTraversalsAreExact` | `Spec => []QuietTraversalIsExact` |
| `CreatesNeverDisturb` | `Spec => []CreatesDontDisturb` |

`SortedIsArranged` rests on the pigeonhole principle: different rows have different numbers
of rows before them, all of these numbers are below the number of rows, so each of them
is taken by exactly one row and the `CHOOSE` in `Sorted` has one to choose. By id the
arrangement is unique (`OnlyOneById`), which is what the PostgreSQL half of the
traversal needs. Two invariants carry the traversal. `ShownSoFar` is about an order in which
rows have their place: while nothing has been changed
or removed, and either the order is the default and no row appeared below another or
nothing was created at all (`Steady`),
what the client was shown is a beginning of the present list, as long as the offset of its
next page; and no total it gets is below the number of rows that were there when it began.
`CreateComesLast` carries this over a create that overtakes nobody: in the default order
the new row comes last and every other keeps its place. `NoneLost` is about the
in-memory backend and any order: a row that was there and has not been shown has at least
as many rows before it as the client has passed, and it is still within the total. A create
keeps that, because it can only add to the rows before another (`RanksOnlyGrow`), and a page
shows exactly the rows with its ranks (`PageCoversRanks`). How long an INSERT takes from its
id to its row, how many are under way and which of them fail is open in all of this.

`UserApiProofs` proves, for any calls and bodies, that `HttpRequest` holds well-formed
parameters only (`HttpRequestsAreWellFormed`) and, from the inductive invariant of
the in-memory service, `Spec => []HttpNeverMalformed` (`DtosCoverTheChecks`).

`RequestPipelineProofs` proves, for any number of overlapping requests, any ids and any context
they start in:

| Theorem | Statement |
|---|---|
| `TypeCorrectness` | `Spec => []TypeOK` |
| `IdsStayApart` | `Spec => []IdsNeverCross` |
| `AccessLinesAreTrue` | `Spec => []AccessLineTellsAnswer` |
| `ErrorsAreLoggedOnce` | `Spec => []ErrorLoggedOnce` |
| `AnswersAreTrue` | `Spec => []AnswerTellsOutcome` |

Its invariant speaks of one request at a time: on its way in (`Coming`) it has a context for
each task, holding its own id from the request context on, and no line; on its way
out (`Going`) what it carries says what its outcome says (`CarriesOutcome`) and the error and
the access line are there exactly where the layers that write them have been passed
(`LinesTell`). That no step of one request touches another is a step of its own.

`BodyLogProofs` proves, for any bodies and documents, any keys, any pieces and any limit, one
that is zero or negative included:

| Theorem | Statement |
|---|---|
| `TypeCorrectness` | `Spec => []TypeOK` |
| `StreamsPassUntouched` | `Spec => []StreamUntouched` |
| `BuffersHaveNoGap` | `Spec => []BuffersHoldTheBeginning` |
| `BuffersAreBounded` | `Spec => []BufferWithinOneChunk` |
| `LinesTellBodies` | `Spec => []LineTellsBody` |
| `RedactedIsHarmless` | `\A value \in Value : Dumped[Redacted[value]] \in Seq(Harmless(value))` |
| `NothingSensitiveShows` | `Spec => []NothingSensitiveLogged` |
| `LinesAreBounded` | `Spec => []LineWithinLimit` |

The argument of the first five is about one buffer (`ExtendHoldsTheBeginning`): a chunk is
taken whole or not at all, and once one was not taken the buffer is at its cap and none will
be. The invariant is `Inv`: of each call its two buffers and streams (`Sound`), and that its
lines are what `Rendered` makes of buffers (`Lined`).

The last three are about every document, at any depth. Of a recursive function TLA+ knows
only that it is a `CHOOSE`, so it is first proved that `Redacted`, `Dumped` and `Places` do
what their bodies say (`RedactedStep`, `DumpedStep`, `PlacesStep`): a step that looks at
values of lower rank only has a solution, by induction on the rank (`SomeSolve`, and for
`Redacted`, whose values no set bounds beforehand, in `RedactedStep` itself). The rank of
a document is its depth; that of what `json.dumps` is given is `Height`, the least depth of a
document it can come from. The library's induction takes an operator as a parameter; here
`NatSets` and `RankInduction` say the same of sets, from the least element that
`WFMin` gives. Then `RedactedIsHarmless` goes by induction on the depth: an entry of a dict
is masked, or its ends are shown under a key that allows it, or its text is that of the
value redacted, and what may be shown of a part under a key that is not sensitive
may be shown of the whole (`ShownBelowKey`, `ShownBelowItem`). Truncation and a limit at or below zero
do no harm: a cut text is a beginning of the text, and without room nothing is kept (`NoRoom`).
A placeholder shows nothing of the body (`PlaceholderShowsNothing`), and `LinesAreBounded` is
as exact as the code: whatever is beyond the limit is a placeholder with the whole content type of
that body and a number of bytes that the body has.

The assumptions on the constants are those named in the modules (`DomainAssumption`,
`RequestAssumption`, `ServiceAssumption`, `ListingAssumption`,
`PipelineAssumption`, `BodyAssumption`, ...); TLC evaluates each of them on its instance.

`ValueAssumption` is the one on documents. Only model-checked is liveness
(`EveryRequestAnswered`, `TraversalEnds`, `CallsEnd`, `StartAndStopEnd`, `EveryRequestEnds`),
which the prover does not reach; every safety property of a passing run is a theorem.

## 5. Findings

- `postgres_duplicate`: two overlapping requests both find an address free and
  both write it. Nothing in the statements, and no constraint assumed of the
  table, prevents it, while the in-memory backend of the same port does.
- `postgres_delete_active`: `delete` decides on a status it read one statement
  earlier; an `update` that activates the user in between is deleted with the row,
  against "Delete a user (blocked while `active`)".

Both are the same hazard, a check and its write in two transactions, and they are the only
departures from the atomic store (`FreshWritesImplementStore`).

- `listing_ties`: over PostgreSQL, `ORDER BY` one column and `LIMIT`/`OFFSET`
  leave rows with equal keys in any order, anew for each statement. In the run a client
  searches two users with equal `updated_at`, sorted by it, descending, one row to a page: both
  pages show the first user, and the second is never shown although the total is 2 and nobody
  writes. In memory the sort is stable and this cannot happen.
- `pipeline_envelope`: what the router raises for an unknown path or method is answered by
  FastAPI's own handler, without code and request id.
- `pipeline_access_line`: "One line per request" (`access_log.py` line 3, `ARCHITECTURE.md`
  line 786) does not hold of a request that ends in an unhandled exception:
  `await call_next(request)` lets it through, past the line that logs.

## 6. Not modelled, and why

- Log formatting and OpenAPI texts: no state that a property depends on.
- `User.deactivate` is called by nothing.
- Timestamps in `MemoryUserService`: no rule of the usecase reads them. `UserListing`, which
  sorts by them, has them.
- Cancellation of a request task by a disconnecting client: the code has no
  handling of its own; uvicorn and Starlette decide whether a handler is cancelled.
- Pool options other than the maximum, statement timeouts: asyncpg's.
- How FastAPI and pydantic parse: `UserRequests` has which bodies and ids they refuse, not
  the texts of the refusals. Over PostgreSQL and in the lists requests are offered as the usecase
  gets them, parameters the DTOs would refuse among them, as its tests do.
- `DEFAULT_PAGE_SIZE` and `MAX_PAGE_SIZE` are read, passed to the usecase and used by nothing:
  `normalize` has constants of its own.
- The depth of a body: `json.loads` and `redact` recurse, and a `RecursionError` is no
  `ValueError` (`body_log.py` line 53), so a body nested beyond Python's limit ends in an
  exception after the answer was sent and leaves no line. The model renders documents of any
  depth.
- JSON bodies that are a bare number, and what `json.dumps` makes of characters.
- uvicorn is taken to drain requests before it lets the lifespan go on, which is its
  documented order; a forced exit is a `Crash`.
- The signature and the truncation of times to seconds are PyJWT's; the clock is not set back.
- `%` and `_` in a search are wildcards of `ILIKE` and plain characters in memory:
  `Matching` is one relation for both backends, so this difference is not in the model.
  Neither are collations (one `TextRank`) nor offsets beyond 64 bits.
- In `PostgresUserService` failed inserts leave no gaps in the id sequence and ids appear in
  order; there ids only have to be new. `UserListing` has both.
- Messages and data of an envelope; a client that disconnects in the middle of an answer.

## 7. Plan

Every part of the system that keeps state is modelled. What is left would widen the
instances or deepen single rules rather than add a component:

- the PostgreSQL service behind `UserRequests`, for which `HttpNeverMalformed` should hold by
  the same argument;
- wildcards of `ILIKE` in a search, where the two backends differ.
