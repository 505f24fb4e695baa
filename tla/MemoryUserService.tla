-------------------------- MODULE MemoryUserService --------------------------
(***************************************************************************)
(* UserUsecaseImpl over the in-memory UserRepositoryImpl, on the one       *)
(* thread of the asyncio event loop.                                       *)
(*                                                                         *)
(* A task keeps the loop (running) until it awaits something that really   *)
(* suspends.  No repository method does, except for the lock when another  *)
(* task holds it; so a call runs from its first line to its answer unless  *)
(* the lock is taken.  Every await of the usecase is nevertheless a step   *)
(* of its own, which shows what a storage that suspends would change.      *)
(***************************************************************************)
EXTENDS UserDomain

CONSTANTS
  Task,      \* the requests in flight
  Seed,      \* the rows of _seed_rows
  Offered,   \* the requests clients make
  LastId     \* bound: the highest id given out

(* What a usecase method returns or raises. *)
Answer == [code : {"ok"}, user : User \cup {None}]
            \cup [code : {"bad_request", "not_found", "already_exists", "conflict"},
                  user : {None}]

ASSUME ServiceAssumption ==
  /\ None \notin Task \cup Answer
  /\ DOMAIN Seed \subseteq Nat \ {0}
  /\ Seed \in [DOMAIN Seed -> User]
  /\ DistinctEmails(Seed)
  /\ \E m \in DOMAIN Seed \cup {0} : \A i \in DOMAIN Seed : i <= m
  /\ Offered \subseteq AnyRequest
  /\ LastId \in Nat

VARIABLES
  rows,      \* _rows
  next_id,   \* _next_id
  lock,      \* the task that holds _lock, or None
  running,   \* the task that has the event loop, or None
  pc,        \* where each task is
  req,       \* the request it serves
  answer     \* what the usecase returned or raised

vars == <<rows, next_id, lock, running, pc, req, answer>>

(* Task t has the loop and stands at the given await. *)
At(t, place) == running = t /\ pc[t] = place

Goto(t, place) ==
  /\ pc' = [pc EXCEPT ![t] = place]
  /\ UNCHANGED <<running, req, answer>>

(* The usecase ends; sending the response gives the loop away. *)
Return(t, code, user) ==
  /\ answer' = [answer EXCEPT ![t] = [code |-> code, user |-> user]]
  /\ pc' = [pc EXCEPT ![t] = "answered"]
  /\ running' = None
  /\ UNCHANGED req

Raise(t, code) == Return(t, code, None)

-----------------------------------------------------------------------------

Init ==
  /\ rows = Seed
  /\ next_id = 1 + (CHOOSE m \in DOMAIN Seed \cup {0} : \A i \in DOMAIN Seed : i <= m)
  /\ lock = None
  /\ running = None
  /\ pc = [t \in Task |-> "idle"]
  /\ req = [t \in Task |-> None]
  /\ answer = [t \in Task |-> None]

(* Bound: the creates under way still get an id up to LastId. *)
CreatesUnderWay ==
  {t \in Task : req[t] /= None /\ answer[t] = None /\ req[t] \in CreateUserParams}

Submit(t) ==
  /\ pc[t] = "idle"
  /\ \E r \in Offered :
       /\ r.op = "create" => next_id + Cardinality(CreatesUnderWay) <= LastId
       /\ req' = [req EXCEPT ![t] = r]
  /\ pc' = [pc EXCEPT ![t] = "call"]
  /\ UNCHANGED <<rows, next_id, lock, running, answer>>

(* The loop picks a ready task; only one runs at a time. *)
Resume(t) ==
  /\ running = None
  /\ pc[t] \notin {"idle", "answered"}
  /\ running' = t
  /\ UNCHANGED <<rows, next_id, lock, pc, req, answer>>

(* create: the checks on the parameters. *)
EnterCreate(t) ==
  /\ At(t, "call") /\ req[t].op = "create"
  /\ IF WellFormedCreate(req[t]) THEN Goto(t, "get_by_email")
                                 ELSE Raise(t, "bad_request")
  /\ UNCHANGED <<rows, next_id, lock>>

(* get: get_by_id. *)
Get(t) ==
  /\ At(t, "call") /\ req[t].op = "get"
  /\ IF req[t].id \in DOMAIN rows THEN Return(t, "ok", rows[req[t].id])
                                  ELSE Raise(t, "not_found")
  /\ UNCHANGED <<rows, next_id, lock>>

(* update: get_by_id, then the e-mail if one is given, else the status. *)
CheckStatusThen(t, place) ==
  IF WellFormedStatus(req[t]) THEN Goto(t, place) ELSE Raise(t, "bad_request")

(* Variant: the status is checked only where an e-mail is given. *)
EnterUpdateForgetsStatus(t) ==
  /\ At(t, "call") /\ req[t].op = "update"
  /\ IF req[t].id \notin DOMAIN rows THEN Raise(t, "not_found")
     ELSE IF ~WellFormedEmail(req[t]) THEN Raise(t, "bad_request")
     ELSE Goto(t, IF req[t].email /= None THEN "get_by_email" ELSE "acquire")
  /\ UNCHANGED <<rows, next_id, lock>>

EnterUpdate(t) ==
  /\ At(t, "call") /\ req[t].op = "update"
  /\ IF req[t].id \notin DOMAIN rows THEN Raise(t, "not_found")
     ELSE IF ~WellFormedEmail(req[t]) THEN Raise(t, "bad_request")
     ELSE IF req[t].email /= None THEN Goto(t, "get_by_email")
     ELSE CheckStatusThen(t, "acquire")
  /\ UNCHANGED <<rows, next_id, lock>>

(* Variant: a get_by_id that suspends between its read and the check. *)
EnterDeleteYields(t) ==
  /\ At(t, "call") /\ req[t].op = "delete"
  /\ IF req[t].id \notin DOMAIN rows THEN Raise(t, "not_found")
     ELSE IF CanBeDeleted(rows[req[t].id])
          THEN /\ pc' = [pc EXCEPT ![t] = "acquire"]
               /\ running' = None
               /\ UNCHANGED <<req, answer>>
          ELSE Raise(t, "conflict")
  /\ UNCHANGED <<rows, next_id, lock>>

(* delete: get_by_id, then the entity's own rule. *)
EnterDelete(t) ==
  /\ At(t, "call") /\ req[t].op = "delete"
  /\ IF req[t].id \notin DOMAIN rows THEN Raise(t, "not_found")
     ELSE IF CanBeDeleted(rows[req[t].id]) THEN Goto(t, "acquire")
     ELSE Raise(t, "conflict")
  /\ UNCHANGED <<rows, next_id, lock>>

(* get_by_email returns the first match in insertion order, which is the   *)
(* order of the ids.                                                       *)
FirstMatch(email) ==
  CHOOSE i \in EmailMatches(rows, email) : \A j \in EmailMatches(rows, email) : i <= j

(* Variant: a get_by_email that suspends. *)
CheckEmailForCreateYields(t) ==
  /\ At(t, "get_by_email") /\ req[t].op = "create"
  /\ IF EmailMatches(rows, req[t].email) = {}
     THEN /\ pc' = [pc EXCEPT ![t] = "acquire"]
          /\ running' = None
          /\ UNCHANGED <<req, answer>>
     ELSE Raise(t, "already_exists")
  /\ UNCHANGED <<rows, next_id, lock>>

CheckEmailForCreate(t) ==
  /\ At(t, "get_by_email") /\ req[t].op = "create"
  /\ IF EmailMatches(rows, req[t].email) = {} THEN Goto(t, "acquire")
                                              ELSE Raise(t, "already_exists")
  /\ UNCHANGED <<rows, next_id, lock>>

(* Variant: without the test that the match is somebody else. *)
CheckEmailForUpdateRefusesOwn(t) ==
  /\ At(t, "get_by_email") /\ req[t].op = "update"
  /\ IF EmailMatches(rows, req[t].email) /= {}
     THEN Raise(t, "already_exists")
     ELSE CheckStatusThen(t, "acquire")
  /\ UNCHANGED <<rows, next_id, lock>>

CheckEmailForUpdate(t) ==
  /\ At(t, "get_by_email") /\ req[t].op = "update"
  /\ IF /\ EmailMatches(rows, req[t].email) /= {}
        /\ FirstMatch(req[t].email) /= req[t].id
     THEN Raise(t, "already_exists")
     ELSE CheckStatusThen(t, "acquire")
  /\ UNCHANGED <<rows, next_id, lock>>

(* Variant: the section under the lock suspends. *)
AcquireThenYields(t) ==
  /\ At(t, "acquire")
  /\ running' = None
  /\ IF lock = None
     THEN lock' = t /\ pc' = [pc EXCEPT ![t] = "locked"]
     ELSE UNCHANGED <<lock, pc>>
  /\ UNCHANGED <<rows, next_id, req, answer>>

(* async with self._lock: suspends only while another task holds it. *)
Acquire(t) ==
  /\ At(t, "acquire")
  /\ IF lock = None
     THEN lock' = t /\ Goto(t, "locked")
     ELSE running' = None /\ UNCHANGED <<lock, pc, req, answer>>
  /\ UNCHANGED <<rows, next_id>>

(* Variant: _next_id is not advanced. *)
CreateKeepsCounter(t) ==
  /\ At(t, "locked") /\ req[t].op = "create"
  /\ rows' = Stored(rows, next_id, FromParams(req[t]))
  /\ lock' = None
  /\ Return(t, "ok", FromParams(req[t]))
  /\ UNCHANGED next_id

(* The locked sections of the repository; leaving one releases the lock. *)
Create(t) ==
  /\ At(t, "locked") /\ req[t].op = "create"
  /\ rows' = Stored(rows, next_id, FromParams(req[t]))
  /\ next_id' = next_id + 1
  /\ lock' = None
  /\ Return(t, "ok", FromParams(req[t]))

Update(t) ==
  /\ At(t, "locked") /\ req[t].op = "update"
  /\ IF req[t].id \in DOMAIN rows
     THEN LET updated == WithUpdates(rows[req[t].id], req[t])
          IN  /\ rows' = Stored(rows, req[t].id, updated)
              /\ Return(t, "ok", updated)
     ELSE Raise(t, "not_found") /\ UNCHANGED rows
  /\ lock' = None
  /\ UNCHANGED next_id

(* Variant: the lock is not released. *)
DeleteKeepsLock(t) ==
  /\ At(t, "locked") /\ req[t].op = "delete"
  /\ rows' = Removed(rows, req[t].id)
  /\ Return(t, "ok", None)
  /\ UNCHANGED <<next_id, lock>>

Delete(t) ==
  /\ At(t, "locked") /\ req[t].op = "delete"
  /\ IF req[t].id \in DOMAIN rows
     THEN rows' = Removed(rows, req[t].id) /\ Return(t, "ok", None)
     ELSE Raise(t, "not_found") /\ UNCHANGED rows
  /\ lock' = None
  /\ UNCHANGED next_id

Receive(t) ==
  /\ pc[t] = "answered"
  /\ pc' = [pc EXCEPT ![t] = "idle"]
  /\ req' = [req EXCEPT ![t] = None]
  /\ answer' = [answer EXCEPT ![t] = None]
  /\ UNCHANGED <<rows, next_id, lock, running>>

Run(t) ==
  \/ EnterCreate(t)
  \/ Get(t)
  \/ EnterUpdate(t)
  \/ EnterDelete(t)
  \/ CheckEmailForCreate(t)
  \/ CheckEmailForUpdate(t)
  \/ Acquire(t)
  \/ Create(t)
  \/ Update(t)
  \/ Delete(t)

Next == \E t \in Task : Submit(t) \/ Resume(t) \/ Run(t) \/ Receive(t)

Spec == Init /\ [][Next]_vars

(* The loop takes ready tasks first in, first out: none is passed over for *)
(* ever.  A task that has the loop goes on.  Clients owe nothing.          *)
FairSpec == Spec /\ \A t \in Task : SF_vars(Resume(t)) /\ WF_vars(Run(t))

-----------------------------------------------------------------------------
(* Properties                                                              *)

Place == {"idle", "call", "get_by_email", "acquire", "locked", "answered"}

(* Every variable has its type, and ids are below _next_id. *)
TypeOK ==
  /\ next_id \in Nat \ {0}
  /\ DOMAIN rows \subseteq 1 .. (next_id - 1)
  /\ rows \in [DOMAIN rows -> User]
  /\ lock \in Task \cup {None}
  /\ running \in Task \cup {None}
  /\ pc \in [Task -> Place]
  /\ req \in [Task -> AnyRequest \cup {None}]
  /\ answer \in [Task -> Answer \cup {None}]

(* No two users share an e-mail address, compared case-insensitively: the  *)
(* check in create and update and the later write see the same rows.       *)
UniqueEmails == DistinctEmails(rows)

(* The argument behind it, and what its proof rests on: while a task is    *)
(* past its first await it has the loop, so whatever the usecase has       *)
(* checked of the rows is still true when the repository writes them.      *)
RequestsAccountedFor ==
  \A t \in Task : /\ pc[t] = "idle" <=> req[t] = None
                  /\ pc[t] = "answered" <=> answer[t] /= None

LoopIsKept ==
  \A t \in Task :
    /\ pc[t] \in {"get_by_email", "acquire", "locked"} => running = t
    /\ running = t => pc[t] \notin {"idle", "answered"}

LockIsHeldInside == \A t \in Task : pc[t] = "locked" <=> lock = t

CheckedParameters(t) ==
  LET r == req[t]
  IN  \/ r.op = "create" /\ WellFormedCreate(r)
      \/ r.op = "update" /\ r.id \in DOMAIN rows /\ r.email \in HasAt

CheckedRequest(t) ==
  LET r == req[t]
  IN  \/ r.op = "create" /\ WellFormedCreate(r) /\ EmailMatches(rows, r.email) = {}
      \/ /\ r.op = "update" /\ r.id \in DOMAIN rows
         /\ WellFormedEmail(r) /\ WellFormedStatus(r)
         /\ r.email /= None => EmailMatches(rows, r.email) \subseteq {r.id}
      \/ r.op = "delete" /\ r.id \in DOMAIN rows /\ CanBeDeleted(rows[r.id])

ChecksStillHold ==
  \A t \in Task : /\ pc[t] = "get_by_email" => CheckedParameters(t)
                  /\ pc[t] \in {"acquire", "locked"} => CheckedRequest(t)

Inv ==
  /\ RequestsAccountedFor
  /\ LoopIsKept
  /\ LockIsHeldInside
  /\ ChecksStillHold
  /\ UniqueEmails

(* A task that finds its way to the repository's lock finds it free: the   *)
(* lock is never waited for, so it adds no suspension between a check and  *)
(* the write the check is for.                                             *)
LockIsFree == \A t \in Task : At(t, "acquire") => lock = None

(* delete never removes a user that is active at the moment of removal,    *)
(* whatever update ran since the usecase looked.                           *)
ActiveNeverDeleted ==
  [][\A i \in DOMAIN rows : rows[i].status = "active" => i \in DOMAIN rows']_vars

(* The service keeps the promise of UserStore: every request takes effect  *)
(* at one instant, judged on the rows of that instant, and an id is never  *)
(* given out twice.                                                        *)
Store == INSTANCE UserStore WITH used <- 1 .. (next_id - 1), MayFail <- FALSE
ImplementsStore == Store!Spec

(* Every request is answered: no path through the usecase, an early return *)
(* included, leaves the lock taken or the loop with a task that is done.   *)
EveryRequestAnswered == Store!EveryRequestAnswered

=============================================================================
