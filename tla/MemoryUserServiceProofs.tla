----------------------- MODULE MemoryUserServiceProofs -----------------------
(* Proofs that MemoryUserService keeps its invariants and its promise, for *)
(* every set of tasks, every seed and every set of requests offered.       *)
EXTENDS MemoryUserService, UserDomainProofs

(***************************************************************************)
(* Type correctness.                                                       *)
(***************************************************************************)

(* The initial state is well typed: the seed's users, and an id above      *)
(* theirs.                                                                 *)
LEMMA TypeInit == Init => TypeOK
<1> SUFFICES ASSUME Init PROVE TypeOK
  OBVIOUS
<1> DEFINE top == CHOOSE m \in DOMAIN Seed \cup {0} : \A i \in DOMAIN Seed : i <= m
<1>1. top \in DOMAIN Seed \cup {0} /\ \A i \in DOMAIN Seed : i <= top
  BY ServiceAssumption
<1>2. top \in Nat /\ DOMAIN Seed \subseteq Nat \ {0}
  BY <1>1, ServiceAssumption
<1>3. next_id = 1 + top
  BY DEF Init
<1> HIDE DEF top
<1>4. next_id \in Nat \ {0} /\ DOMAIN rows \subseteq 1 .. (next_id - 1)
  BY <1>1, <1>2, <1>3 DEF Init
<1>5. rows \in [DOMAIN rows -> User]
  BY ServiceAssumption DEF Init
<1>6. QED
  BY <1>4, <1>5 DEF Init, TypeOK, Place

(* Every answer the service gives is an Answer, and so not None. *)
LEMMA AnswersAreAnswers ==
  /\ \A code \in {"bad_request", "not_found", "already_exists", "conflict"} :
       [code |-> code, user |-> None] \in Answer
  /\ \A user \in User \cup {None} : [code |-> "ok", user |-> user] \in Answer
  /\ None \notin Answer
  BY ServiceAssumption DEF Answer

(* Every step keeps the types.  Create and Update need what the usecase    *)
(* checked before: without it they could write a row that is no user.      *)
LEMMA TypeStep == TypeOK /\ Inv /\ [Next]_vars => TypeOK'
<1> SUFFICES ASSUME TypeOK, Inv, [Next]_vars PROVE TypeOK'
  OBVIOUS
<1> USE DEF TypeOK, Place
<1>1. ASSUME NEW t \in Task, Submit(t) PROVE TypeOK'
  BY <1>1, ServiceAssumption DEF Submit
<1>2. ASSUME NEW t \in Task, Resume(t) PROVE TypeOK'
  BY <1>2 DEF Resume
<1>3. ASSUME NEW t \in Task, EnterCreate(t) PROVE TypeOK'
  BY <1>3, AnswersAreAnswers DEF EnterCreate, At, Goto, Raise, Return
<1>4. ASSUME NEW t \in Task, Get(t) PROVE TypeOK'
  BY <1>4, AnswersAreAnswers DEF Get, At, Raise, Return
<1>5. ASSUME NEW t \in Task, EnterUpdate(t) PROVE TypeOK'
  BY <1>5, AnswersAreAnswers DEF EnterUpdate, CheckStatusThen, At, Goto, Raise, Return
<1>6. ASSUME NEW t \in Task, EnterDelete(t) PROVE TypeOK'
  BY <1>6, AnswersAreAnswers DEF EnterDelete, At, Goto, Raise, Return
<1>7. ASSUME NEW t \in Task, CheckEmailForCreate(t) PROVE TypeOK'
  BY <1>7, AnswersAreAnswers DEF CheckEmailForCreate, At, Goto, Raise, Return
<1>8. ASSUME NEW t \in Task, CheckEmailForUpdate(t) PROVE TypeOK'
  BY <1>8, AnswersAreAnswers
  DEF CheckEmailForUpdate, CheckStatusThen, At, Goto, Raise, Return
<1>9. ASSUME NEW t \in Task, Acquire(t) PROVE TypeOK'
  BY <1>9 DEF Acquire, At, Goto
<1>10. ASSUME NEW t \in Task, Create(t) PROVE TypeOK'
  <2>1. req[t] \in CreateUserParams /\ WellFormedCreate(req[t])
    BY <1>10, RequestTypes, DomainAssumption
    DEF Create, At, Inv, ChecksStillHold, CheckedRequest, RequestsAccountedFor
  <2>2. FromParams(req[t]) \in User
    BY <2>1, CreatedIsUser
  <2>3. rows' \in [DOMAIN rows' -> User] /\ DOMAIN rows' = DOMAIN rows \cup {next_id}
    BY <1>10, <2>2 DEF Create, Stored
  <2>4. next_id' = next_id + 1
    BY <1>10 DEF Create
  <2>5. answer' \in [Task -> Answer \cup {None}]
    BY <1>10, <2>2, AnswersAreAnswers DEF Create, Return
  <2>6. QED
    BY <1>10, <2>3, <2>4, <2>5 DEF Create, Return
<1>11. ASSUME NEW t \in Task, Update(t) PROVE TypeOK'
  <2>1. /\ req[t] \in UpdateUserParams /\ req[t].id \in DOMAIN rows
        /\ WellFormedEmail(req[t]) /\ WellFormedStatus(req[t])
    BY <1>11, RequestTypes, DomainAssumption
    DEF Update, At, Inv, ChecksStillHold, CheckedRequest, RequestsAccountedFor
  <2>2. WithUpdates(rows[req[t].id], req[t]) \in User
    BY <2>1, UpdatedIsUser
  <2>3. rows' \in [DOMAIN rows' -> User] /\ DOMAIN rows' = DOMAIN rows
    <3>1. rows' = Stored(rows, req[t].id, WithUpdates(rows[req[t].id], req[t]))
      BY <1>11, <2>1 DEF Update
    <3>2. rows \in [DOMAIN rows -> User]
      OBVIOUS
    <3>3. QED
      BY <2>1, <2>2, <3>1, <3>2 DEF Stored
  <2>4. answer' \in [Task -> Answer \cup {None}]
    BY <1>11, <2>1, <2>2, AnswersAreAnswers DEF Update, Return
  <2>5. QED
    BY <1>11, <2>1, <2>3, <2>4 DEF Update, Return
<1>12. ASSUME NEW t \in Task, Delete(t) PROVE TypeOK'
  <2>1. rows' \in [DOMAIN rows' -> User] /\ DOMAIN rows' \subseteq DOMAIN rows
    <3>1. rows' = Removed(rows, req[t].id) \/ rows' = rows
      BY <1>12 DEF Delete
    <3>2. rows \in [DOMAIN rows -> User]
      OBVIOUS
    <3>3. QED
      BY <3>1, <3>2 DEF Removed
  <2>2. answer' \in [Task -> Answer \cup {None}]
    BY <1>12, AnswersAreAnswers DEF Delete, Raise, Return
  <2>3. QED
    BY <1>12, <2>1, <2>2 DEF Delete, Raise, Return
<1>13. ASSUME NEW t \in Task, Receive(t) PROVE TypeOK'
  BY <1>13 DEF Receive
<1>14. CASE UNCHANGED vars
  BY <1>14 DEF vars
<1>15. QED
  BY <1>1, <1>2, <1>3, <1>4, <1>5, <1>6, <1>7, <1>8, <1>9, <1>10, <1>11, <1>12,
     <1>13, <1>14 DEF Next, Run

(***************************************************************************)
(* The inductive invariant: types, and Inv.                                *)
(***************************************************************************)
IInv == TypeOK /\ Inv

LEMMA InvInit == Init => Inv
  BY ServiceAssumption
  DEF Init, Inv, RequestsAccountedFor, LoopIsKept, LockIsHeldInside, ChecksStillHold,
      UniqueEmails

(* Nobody waits for the lock: who holds it also has the loop. *)
LEMMA LockFreeAtAcquire ==
  ASSUME IInv, NEW t \in Task, At(t, "acquire")
  PROVE  lock = None
  BY DEF IInv, Inv, LoopIsKept, LockIsHeldInside, TypeOK, At

(* A step of the usecase either keeps the loop and moves to a later await, *)
(* or ends the request with an answer.                                     *)
KeepsLoop(t) ==
  /\ running' = t
  /\ \E place \in {"get_by_email", "acquire", "locked"} :
       pc' = [pc EXCEPT ![t] = place]
  /\ UNCHANGED <<req, answer>>

EndsRequest(t) ==
  /\ running' = None
  /\ pc' = [pc EXCEPT ![t] = "answered"]
  /\ \E a \in Answer : answer' = [answer EXCEPT ![t] = a]
  /\ UNCHANGED req

LEMMA RunShape ==
  ASSUME IInv, NEW t \in Task, Run(t)
  PROVE  /\ running = t /\ pc[t] \notin {"idle", "answered"}
         /\ KeepsLoop(t) \/ EndsRequest(t)
<1> USE DEF IInv, Inv, TypeOK, Place
<1> DEFINE Shape == /\ running = t /\ pc[t] \notin {"idle", "answered"}
                    /\ KeepsLoop(t) \/ EndsRequest(t)
<1>0. \A code \in {"bad_request", "not_found", "already_exists", "conflict"} :
        running = t /\ Raise(t, code) => EndsRequest(t)
  BY AnswersAreAnswers DEF Raise, Return, EndsRequest
<1>a. \A user \in User \cup {None} : running = t /\ Return(t, "ok", user) => EndsRequest(t)
  BY AnswersAreAnswers DEF Return, EndsRequest
<1>b. \A place \in {"get_by_email", "acquire", "locked"} :
        running = t /\ Goto(t, place) => KeepsLoop(t)
  BY DEF Goto, KeepsLoop
<1>1. ASSUME EnterCreate(t) PROVE Shape
  BY <1>1, <1>0, <1>b DEF EnterCreate, At
<1>2. ASSUME Get(t) PROVE Shape
  BY <1>2, <1>0, <1>a DEF Get, At
<1>3. ASSUME EnterUpdate(t) PROVE Shape
  BY <1>3, <1>0, <1>b DEF EnterUpdate, CheckStatusThen, At
<1>4. ASSUME EnterDelete(t) PROVE Shape
  BY <1>4, <1>0, <1>b DEF EnterDelete, At
<1>5. ASSUME CheckEmailForCreate(t) PROVE Shape
  BY <1>5, <1>0, <1>b DEF CheckEmailForCreate, At
<1>6. ASSUME CheckEmailForUpdate(t) PROVE Shape
  BY <1>6, <1>0, <1>b DEF CheckEmailForUpdate, CheckStatusThen, At
<1>7. ASSUME Acquire(t) PROVE Shape
  BY <1>7, <1>b, LockFreeAtAcquire DEF Acquire, At
<1>8. ASSUME Create(t) PROVE Shape
  <2>1. FromParams(req[t]) \in User
    BY <1>8, RequestTypes, DomainAssumption, CreatedIsUser
    DEF Create, At, ChecksStillHold, CheckedRequest, RequestsAccountedFor
  <2>2. QED
    BY <1>8, <1>a, <2>1 DEF Create, At
<1>9. ASSUME Update(t) PROVE Shape
  <2>1. req[t].id \in DOMAIN rows => WithUpdates(rows[req[t].id], req[t]) \in User
    BY <1>9, RequestTypes, DomainAssumption, UpdatedIsUser
    DEF Update, At, ChecksStillHold, CheckedRequest, RequestsAccountedFor
  <2>2. QED
    BY <1>9, <1>0, <1>a, <2>1 DEF Update, At
<1>10. ASSUME Delete(t) PROVE Shape
  BY <1>10, <1>0, <1>a DEF Delete, At
<1>11. QED
  BY <1>1, <1>2, <1>3, <1>4, <1>5, <1>6, <1>7, <1>8, <1>9, <1>10 DEF Run

(* A task has a request exactly while it serves one and an answer exactly  *)
(* when it is done; and only a task that has the loop is past its first    *)
(* await.                                                                  *)
LEMMA ControlStep ==
  IInv /\ [Next]_vars => RequestsAccountedFor' /\ LoopIsKept'
<1> SUFFICES ASSUME IInv, [Next]_vars PROVE RequestsAccountedFor' /\ LoopIsKept'
  OBVIOUS
<1> USE DEF RequestsAccountedFor, LoopIsKept
<1>0. RequestsAccountedFor /\ LoopIsKept /\ TypeOK
  BY DEF IInv, Inv
<1>1. ASSUME NEW t \in Task, Submit(t) PROVE RequestsAccountedFor' /\ LoopIsKept'
  BY <1>0, <1>1, DomainAssumption, ServiceAssumption DEF Submit, TypeOK, Place
<1>2. ASSUME NEW t \in Task, Resume(t) PROVE RequestsAccountedFor' /\ LoopIsKept'
  BY <1>0, <1>2, ServiceAssumption DEF Resume, TypeOK, Place
<1>3. ASSUME NEW t \in Task, Run(t) PROVE RequestsAccountedFor' /\ LoopIsKept'
  <2>1. CASE KeepsLoop(t)
    BY <1>0, <1>3, <2>1, RunShape, ServiceAssumption DEF KeepsLoop, TypeOK, Place
  <2>2. CASE EndsRequest(t)
    BY <1>0, <1>3, <2>2, RunShape, ServiceAssumption DEF EndsRequest, TypeOK, Place
  <2>3. QED
    BY <1>3, <2>1, <2>2, RunShape
<1>4. ASSUME NEW t \in Task, Receive(t) PROVE RequestsAccountedFor' /\ LoopIsKept'
  BY <1>0, <1>4 DEF Receive, TypeOK, Place
<1>5. CASE UNCHANGED vars
  BY <1>0, <1>5 DEF vars
<1>6. QED
  BY <1>1, <1>2, <1>3, <1>4, <1>5 DEF Next

(* The lock is held exactly by the task in the locked section. *)
LEMMA LockStep == IInv /\ [Next]_vars => LockIsHeldInside'
<1> SUFFICES ASSUME IInv, [Next]_vars PROVE LockIsHeldInside'
  OBVIOUS
<1> USE DEF LockIsHeldInside
<1>0. LockIsHeldInside /\ LoopIsKept /\ TypeOK
  BY DEF IInv, Inv
<1>1. ASSUME NEW t \in Task, Submit(t) PROVE LockIsHeldInside'
  BY <1>0, <1>1 DEF Submit, TypeOK
<1>2. ASSUME NEW t \in Task, Resume(t) PROVE LockIsHeldInside'
  BY <1>0, <1>2 DEF Resume
<1>3. ASSUME NEW t \in Task, Run(t) PROVE LockIsHeldInside'
  <2>1. CASE Acquire(t)
    <3>1. lock = None
      BY <2>1, LockFreeAtAcquire DEF Acquire
    <3>2. lock' = t /\ pc' = [pc EXCEPT ![t] = "locked"]
      BY <2>1, <3>1 DEF Acquire, Goto
    <3>3. QED
      BY <1>0, <3>1, <3>2, ServiceAssumption DEF TypeOK
  <2>2. CASE Create(t) \/ Update(t) \/ Delete(t)
    <3>1. lock' = None /\ pc' = [pc EXCEPT ![t] = "answered"]
      BY <2>2 DEF Create, Update, Delete, Raise, Return
    <3>2. running = t
      BY <1>3, RunShape
    <3>3. QED
      BY <1>0, <3>1, <3>2, ServiceAssumption DEF LoopIsKept, TypeOK
  <2>3. CASE \/ EnterCreate(t) \/ Get(t) \/ EnterUpdate(t) \/ EnterDelete(t)
             \/ CheckEmailForCreate(t) \/ CheckEmailForUpdate(t)
    <3>1. /\ lock' = lock /\ pc[t] \in {"call", "get_by_email"}
          /\ \E place \in {"get_by_email", "acquire", "answered"} :
               pc' = [pc EXCEPT ![t] = place]
      BY <2>3 DEF EnterCreate, Get, EnterUpdate, EnterDelete, CheckEmailForCreate,
         CheckEmailForUpdate, CheckStatusThen, At, Goto, Raise, Return
    <3>2. QED
      BY <1>0, <3>1 DEF TypeOK
  <2>4. QED
    BY <1>3, <2>1, <2>2, <2>3 DEF Run
<1>4. ASSUME NEW t \in Task, Receive(t) PROVE LockIsHeldInside'
  BY <1>0, <1>4 DEF Receive, TypeOK
<1>5. CASE UNCHANGED vars
  BY <1>0, <1>5 DEF vars
<1>6. QED
  BY <1>1, <1>2, <1>3, <1>4, <1>5 DEF Next

(* With distinct addresses, get_by_email finds all there is to find. *)
LEMMA OneMatch ==
  ASSUME TypeOK, UniqueEmails, NEW email, EmailMatches(rows, email) /= {}
  PROVE  EmailMatches(rows, email) = {FirstMatch(email)}
<1>1. PICK i \in EmailMatches(rows, email) : TRUE
  OBVIOUS
<1>2. EmailMatches(rows, email) = {i}
  <2>1. \A j \in EmailMatches(rows, email) :
          j \in DOMAIN rows /\ EmailKey[rows[j].email] = EmailKey[email]
    BY DEF EmailMatches, SameEmail
  <2>2. \A j \in EmailMatches(rows, email) : j = i
    BY <1>1, <2>1 DEF UniqueEmails, DistinctEmails, SameEmail
  <2>3. QED
    BY <1>1, <2>2
<1>3. i \in Nat
  BY <1>1 DEF EmailMatches, TypeOK
<1>4. FirstMatch(email) = i
  BY <1>2, <1>3 DEF FirstMatch
<1>5. QED
  BY <1>2, <1>4

(* Only the task that has the loop writes, so the rows a task was checked  *)
(* on are the rows it finds.                                               *)
LEMMA ChecksStep == IInv /\ [Next]_vars => ChecksStillHold'
<1> SUFFICES ASSUME IInv, [Next]_vars PROVE ChecksStillHold'
  OBVIOUS
<1> DEFINE Holds(u) == /\ pc[u] = "get_by_email" => CheckedParameters(u)
                       /\ pc[u] \in {"acquire", "locked"} => CheckedRequest(u)
<1>0. /\ RequestsAccountedFor /\ LoopIsKept /\ ChecksStillHold /\ TypeOK
      /\ \A u \in Task : Holds(u)
  BY DEF IInv, Inv, ChecksStillHold
<1>1. ASSUME NEW t \in Task, Submit(t) \/ Resume(t) \/ Receive(t) PROVE ChecksStillHold'
  <2>1. ASSUME NEW u \in Task PROVE Holds(u)'
    <3>1. CASE u = t /\ ~Resume(t)
      BY <1>0, <1>1, <3>1 DEF Submit, Receive, TypeOK
    <3>2. CASE u /= t \/ Resume(t)
      <4>1. pc'[u] = pc[u] /\ req'[u] = req[u] /\ rows' = rows
        BY <1>0, <1>1, <3>2 DEF Submit, Resume, Receive, TypeOK
      <4>2. QED
        BY <1>0, <4>1 DEF CheckedParameters, CheckedRequest, EmailMatches
    <3>3. QED
      BY <3>1, <3>2
  <2>2. QED
    BY <2>1 DEF ChecksStillHold
<1>2. ASSUME NEW t \in Task, Run(t) PROVE ChecksStillHold'
  <2>0. running = t /\ (KeepsLoop(t) \/ EndsRequest(t))
    BY <1>2, RunShape
  <2>1. ASSUME NEW u \in Task, u /= t PROVE Holds(u)'
    BY <1>0, <2>0, <2>1 DEF LoopIsKept, KeepsLoop, EndsRequest, TypeOK
  <2>2. Holds(t)'
    <3>1. CASE EndsRequest(t)
      BY <1>0, <3>1 DEF EndsRequest, TypeOK
    <3>2. CASE KeepsLoop(t)
      <4>0. /\ req' = req /\ pc'[t] \in {"get_by_email", "acquire", "locked"}
            /\ pc[t] = "call" => req[t] \in AnyRequest
            /\ running' /= None
        BY <1>0, <3>2, ServiceAssumption DEF KeepsLoop, TypeOK, RequestsAccountedFor
      <4>1. CASE EnterCreate(t)
        BY <1>0, <4>0, <4>1 DEF EnterCreate, At, Goto, Raise, Return, CheckedParameters, TypeOK
      <4>2. CASE EnterUpdate(t)
        <5>1. req[t] \in UpdateUserParams
          BY <4>0, <4>2, RequestTypes DEF EnterUpdate, At
        <5>2. QED
          BY <1>0, <4>0, <4>2, <5>1, DomainAssumption
          DEF EnterUpdate, CheckStatusThen, At, Goto, Raise, Return, CheckedParameters,
              CheckedRequest, WellFormedEmail, TypeOK
      <4>3. CASE EnterDelete(t)
        BY <1>0, <4>0, <4>3 DEF EnterDelete, At, Goto, Raise, Return, CheckedRequest, TypeOK
      <4>4. CASE CheckEmailForCreate(t)
        BY <1>0, <4>0, <4>4 DEF CheckEmailForCreate, At, Goto, Raise, Return,
           CheckedParameters, CheckedRequest, EmailMatches, TypeOK
      <4>5. CASE CheckEmailForUpdate(t)
        <5>1. /\ pc[t] = "get_by_email" /\ req[t].op = "update"
              /\ req[t].id \in DOMAIN rows /\ req[t].email \in HasAt
          BY <1>0, <4>5 DEF CheckEmailForUpdate, At, CheckedParameters
        <5>2. /\ EmailMatches(rows, req[t].email) \subseteq {req[t].id}
              /\ WellFormedStatus(req[t]) /\ pc' = [pc EXCEPT ![t] = "acquire"]
          BY <1>0, <4>0, <4>5, OneMatch
          DEF CheckEmailForUpdate, CheckStatusThen, Goto, Raise, Return, IInv, Inv
        <5>3. rows' = rows
          BY <4>5 DEF CheckEmailForUpdate
        <5>4. QED
          BY <1>0, <4>0, <5>1, <5>2, <5>3
          DEF CheckedRequest, WellFormedEmail, WellFormedStatus, EmailMatches, TypeOK
      <4>6. CASE Acquire(t)
        BY <1>0, <4>0, <4>6 DEF Acquire, At, Goto, CheckedRequest, EmailMatches, TypeOK
      <4>7. CASE Get(t) \/ Create(t) \/ Update(t) \/ Delete(t)
        BY <4>0, <4>7 DEF Get, Create, Update, Delete, Raise, Return
      <4>8. QED
        BY <1>2, <4>1, <4>2, <4>3, <4>4, <4>5, <4>6, <4>7 DEF Run
    <3>3. QED
      BY <2>0, <3>1, <3>2
  <2>3. QED
    BY <2>1, <2>2 DEF ChecksStillHold
<1>3. CASE UNCHANGED vars
  BY <1>0, <1>3 DEF vars, ChecksStillHold, CheckedParameters, CheckedRequest, EmailMatches
<1>4. QED
  BY <1>1, <1>2, <1>3 DEF Next

(* The request whose turn it is to write was checked on the present rows. *)
LEMMA CheckedAtLock ==
  ASSUME IInv, NEW t \in Task, At(t, "locked")
  PROVE  CheckedRequest(t) /\ req[t] \in AnyRequest
  BY DEF IInv, Inv, ChecksStillHold, RequestsAccountedFor, TypeOK, At

(* No write makes two rows share an address. *)
LEMMA UniqueEmailsStep == IInv /\ [Next]_vars => UniqueEmails'
<1> SUFFICES ASSUME IInv, [Next]_vars PROVE UniqueEmails'
  OBVIOUS
<1>0. /\ TypeOK
      /\ \A i, j \in DOMAIN rows : EmailKey[rows[i].email] = EmailKey[rows[j].email] => i = j
  BY DEF IInv, Inv, UniqueEmails, DistinctEmails, SameEmail
<1>1. ASSUME NEW t \in Task, Create(t) PROVE UniqueEmails'
  <2>1. \A i \in DOMAIN rows : EmailKey[rows[i].email] /= EmailKey[req[t].email]
    BY <1>1, CheckedAtLock DEF Create, At, CheckedRequest, EmailMatches, SameEmail
  <2>2. rows' = Stored(rows, next_id, FromParams(req[t]))
    BY <1>1 DEF Create
  <2>3. QED
    BY <1>0, <2>1, <2>2 DEF Stored, FromParams, UniqueEmails, DistinctEmails, SameEmail
<1>2. ASSUME NEW t \in Task, Update(t) PROVE UniqueEmails'
  <2>1. /\ req[t].id \in DOMAIN rows
        /\ req[t].email /= None => \A i \in DOMAIN rows \ {req[t].id} :
             EmailKey[rows[i].email] /= EmailKey[req[t].email]
    BY <1>2, CheckedAtLock DEF Update, At, CheckedRequest, EmailMatches, SameEmail
  <2>2. rows' = Stored(rows, req[t].id, WithUpdates(rows[req[t].id], req[t]))
    BY <1>2, <2>1 DEF Update
  <2>3. /\ DOMAIN rows' = DOMAIN rows
        /\ \A i \in DOMAIN rows \ {req[t].id} : rows'[i] = rows[i]
        /\ rows'[req[t].id].email \in {rows[req[t].id].email, req[t].email} \ {None}
    BY <1>0, <2>1, <2>2, DomainAssumption DEF Stored, WithUpdates, OrElse, TypeOK, User
  <2>4. QED
    BY <1>0, <2>1, <2>3 DEF UniqueEmails, DistinctEmails, SameEmail
<1>3. ASSUME NEW t \in Task, Delete(t) PROVE UniqueEmails'
  <2>1. rows' = Removed(rows, req[t].id) \/ rows' = rows
    BY <1>3 DEF Delete
  <2>2. QED
    BY <1>0, <2>1 DEF Removed, UniqueEmails, DistinctEmails, SameEmail
<1>4. CASE UNCHANGED rows
  BY <1>0, <1>4 DEF UniqueEmails, DistinctEmails, SameEmail
<1>5. QED
  BY <1>1, <1>2, <1>3, <1>4
  DEF Next, Run, vars, Submit, Resume, EnterCreate, Get, EnterUpdate, EnterDelete,
      CheckEmailForCreate, CheckEmailForUpdate, Acquire, Receive

(***************************************************************************)
(* The results.                                                            *)
(***************************************************************************)

(* The invariant holds throughout every behaviour of the service. *)
THEOREM InductiveInvariant == Spec => []IInv
<1>1. Init => IInv
  BY TypeInit, InvInit DEF IInv
<1>2. IInv /\ [Next]_vars => IInv'
  BY TypeStep, ControlStep, LockStep, ChecksStep, UniqueEmailsStep DEF IInv, Inv
<1>3. QED
  BY <1>1, <1>2, PTL DEF Spec

(* The table holds users, and every variable has its type. *)
THEOREM TypeCorrectness == Spec => []TypeOK
  BY InductiveInvariant, PTL DEF IInv

(* What the usecase checked of the rows is true until the repository has   *)
(* written.                                                                *)
THEOREM ChecksHoldUntilWritten == Spec => []Inv
  BY InductiveInvariant, PTL DEF IInv

(* No two users ever share an e-mail address. *)
THEOREM EmailsStayUnique == Spec => []UniqueEmails
<1>1. IInv => UniqueEmails
  BY DEF IInv, Inv
<1>2. QED
  BY <1>1, InductiveInvariant, PTL

(* The repository's lock is never waited for. *)
THEOREM LockNeverWaitedFor == Spec => []LockIsFree
<1>1. IInv => LockIsFree
  BY LockFreeAtAcquire DEF LockIsFree
<1>2. QED
  BY <1>1, InductiveInvariant, PTL

(* No step removes a user that is active. *)
THEOREM ActiveUsersStay == Spec => ActiveNeverDeleted
<1>1. IInv /\ [Next]_vars =>
        [\A i \in DOMAIN rows : rows[i].status = "active" => i \in DOMAIN rows']_vars
  <2> SUFFICES ASSUME IInv, [Next]_vars,
                      NEW i \in DOMAIN rows, rows[i].status = "active"
               PROVE  i \in DOMAIN rows'
    OBVIOUS
  <2>1. ASSUME NEW t \in Task, Create(t) PROVE i \in DOMAIN rows'
    BY <2>1 DEF Create, Stored
  <2>2. ASSUME NEW t \in Task, Update(t) PROVE i \in DOMAIN rows'
    BY <2>2 DEF Update, Stored
  <2>3. ASSUME NEW t \in Task, Delete(t) PROVE i \in DOMAIN rows'
    <3>1. CanBeDeleted(rows[req[t].id])
      BY <2>3, CheckedAtLock DEF Delete, At, CheckedRequest
    <3>2. QED
      BY <2>3, <3>1 DEF Delete, Removed, CanBeDeleted
  <2>4. CASE UNCHANGED rows
    BY <2>4
  <2>5. QED
    BY <2>1, <2>2, <2>3, <2>4
    DEF Next, Run, vars, Submit, Resume, EnterCreate, Get, EnterUpdate, EnterDelete,
        CheckEmailForCreate, CheckEmailForUpdate, Acquire, Receive
<1>2. QED
  BY <1>1, InductiveInvariant, PTL DEF Spec, ActiveNeverDeleted

(***************************************************************************)
(* The service implements UserStore: each step is a step of the store or   *)
(* leaves all it speaks of unchanged.                                      *)
(***************************************************************************)

(* UserStore brings the vocabulary of UserDomain along: it is the same.    *)
LEMMA SameRequests == Store!AnyRequest = AnyRequest
  BY DEF AnyRequest, CreateUserParams, UpdateUserParams, UserTarget, Status,
     Store!AnyRequest, Store!CreateUserParams, Store!UpdateUserParams, Store!UserTarget,
     Store!Status

LEMMA SameRules ==
  /\ \A p : Store!WellFormedCreate(p) = WellFormedCreate(p)
  /\ \A p : Store!WellFormedEmail(p) = WellFormedEmail(p)
  /\ \A p : Store!WellFormedStatus(p) = WellFormedStatus(p)
  /\ \A u : Store!CanBeDeleted(u) = CanBeDeleted(u)
  BY DEF WellFormedCreate, WellFormedEmail, WellFormedStatus, CanBeDeleted, Status,
     Store!WellFormedCreate, Store!WellFormedEmail, Store!WellFormedStatus,
     Store!CanBeDeleted, Store!Status

LEMMA SameEffects ==
  /\ \A p : Store!FromParams(p) = FromParams(p)
  /\ \A u, p : Store!WithUpdates(u, p) = WithUpdates(u, p)
  /\ \A f, i, u : Store!Stored(f, i, u) = Stored(f, i, u)
  /\ \A f, i : Store!Removed(f, i) = Removed(f, i)
  /\ \A f, e : Store!EmailMatches(f, e) = EmailMatches(f, e)
  BY DEF FromParams, WithUpdates, OrElse, Stored, Removed, EmailMatches, SameEmail,
     Store!FromParams, Store!WithUpdates, Store!OrElse, Store!Stored, Store!Removed,
     Store!EmailMatches, Store!SameEmail

LEMMA StoreInit == Init => Store!Init
<1> SUFFICES ASSUME Init PROVE Store!Init
  OBVIOUS
<1>1. TypeOK
  BY TypeInit
<1>2. DOMAIN Seed \subseteq 1 .. (next_id - 1)
  BY <1>1 DEF Init, TypeOK
<1>3. QED
  BY <1>1, <1>2 DEF Init, Store!Init, TypeOK

(* A rejection is one the request deserves on the rows of that instant. *)
LEMMA RejectionDeserved ==
  ASSUME IInv, NEW t \in Task, pc[t] \notin {"idle", "answered"},
         NEW code \in {"bad_request", "not_found", "already_exists", "conflict"},
         Raise(t, code), UNCHANGED <<rows, next_id>>,
         Store!Deserves(req[t], code)
  PROVE  Store!Next
<1>1. Store!Pending(t)
  BY DEF Store!Pending, IInv, Inv, RequestsAccountedFor
<1>2. Store!Reject(t, code)
  BY <1>1 DEF Store!Reject, Store!Rejected, Raise, Return
<1>3. QED
  BY <1>2 DEF Store!Next, Store!Serve, Store!Rejection

(* A request that passed the checks deserves no rejection. *)
LEMMA CheckedIsAcceptable ==
  ASSUME IInv, NEW t \in Task, At(t, "locked")
  PROVE  Store!Acceptable(t, req[t].op)
<1>1. CheckedRequest(t) /\ req[t] \in AnyRequest
  BY CheckedAtLock
<1>2. Store!Pending(t)
  BY DEF Store!Pending, IInv, Inv, RequestsAccountedFor, At
<1>3. ~Store!MalformedRequest(req[t])
  BY <1>1, SameRules DEF Store!MalformedRequest, CheckedRequest
<1>4. ~Store!TargetMissing(req[t])
  BY <1>1 DEF Store!TargetMissing, CheckedRequest
<1>5. ~Store!AddressTaken(req[t])
  BY <1>1, SameEffects DEF Store!AddressTaken, CheckedRequest
<1>6. ~Store!TargetProtected(req[t])
  BY <1>1, SameRules DEF Store!TargetProtected, CheckedRequest
<1>7. QED
  BY <1>2, <1>3, <1>4, <1>5, <1>6 DEF Store!Acceptable, Store!Deserves

LEMMA StoreStep == IInv /\ [Next]_vars => [Store!Next]_(Store!vars)
<1> SUFFICES ASSUME IInv, [Next]_vars PROVE [Store!Next]_(Store!vars)
  OBVIOUS
<1>0. TypeOK /\ RequestsAccountedFor /\ ChecksStillHold /\ UniqueEmails
  BY DEF IInv, Inv
<1> DEFINE Maps == [Store!Next]_(Store!vars)
<1>a. ASSUME UNCHANGED <<rows, next_id, req, answer>> PROVE Maps
  BY <1>a DEF Store!vars
<1>b. ASSUME NEW t \in Task, NEW place, Goto(t, place), UNCHANGED <<rows, next_id>> PROVE Maps
  BY <1>a, <1>b DEF Goto
<1>1. ASSUME NEW t \in Task, Submit(t) PROVE Maps
  <2>1. req[t] = None /\ UNCHANGED <<rows, next_id, answer>>
    BY <1>0, <1>1 DEF Submit, RequestsAccountedFor
  <2>2. req'[t] \in AnyRequest /\ req' = [req EXCEPT ![t] = req'[t]]
    BY <1>0, <1>1, ServiceAssumption DEF Submit, TypeOK
  <2>3. Store!Submit(t)
    BY <2>1, <2>2, SameRequests DEF Store!Submit
  <2>4. QED
    BY <2>3 DEF Store!Next
<1>2. ASSUME NEW t \in Task, Resume(t) \/ Acquire(t) PROVE Maps
  BY <1>a, <1>2 DEF Resume, Acquire, Goto
<1>3. ASSUME NEW t \in Task, EnterCreate(t) PROVE Maps
  <2>1. CASE WellFormedCreate(req[t])
    BY <1>b, <1>3, <2>1 DEF EnterCreate
  <2>2. CASE ~WellFormedCreate(req[t])
    BY <1>3, <2>2, RejectionDeserved, SameRules, SameEffects
    DEF EnterCreate, At, Store!Deserves, Store!MalformedRequest
  <2>3. QED
    BY <2>1, <2>2
<1>4. ASSUME NEW t \in Task, Get(t) PROVE Maps
  <2>1. CASE req[t].id \in DOMAIN rows
    <3>1. Store!Acceptable(t, "get")
      BY <1>0, <1>4, <2>1
      DEF Get, At, RequestsAccountedFor, Store!Acceptable, Store!Pending, Store!Deserves,
          Store!MalformedRequest, Store!TargetMissing, Store!AddressTaken, Store!TargetProtected
    <3>2. Store!Get(t)
      BY <1>4, <2>1, <3>1 DEF Get, Return, Store!Get, Store!Ok
    <3>3. QED
      BY <3>2 DEF Store!Next, Store!Serve
  <2>2. CASE req[t].id \notin DOMAIN rows
    BY <1>4, <2>2, RejectionDeserved DEF Get, At, Store!Deserves, Store!TargetMissing
  <2>3. QED
    BY <2>1, <2>2
<1>5. ASSUME NEW t \in Task, EnterUpdate(t) PROVE Maps
  <2>1. CASE req[t].id \notin DOMAIN rows
    BY <1>5, <2>1, RejectionDeserved DEF EnterUpdate, At, Store!Deserves, Store!TargetMissing
  <2>2. CASE req[t].id \in DOMAIN rows /\ ~(WellFormedEmail(req[t]) /\ WellFormedStatus(req[t]))
    <3>1. Store!Deserves(req[t], "bad_request")
      BY <1>5, <2>2, SameRules DEF EnterUpdate, Store!Deserves, Store!MalformedRequest
    <3>2. Raise(t, "bad_request") \/ Goto(t, "get_by_email")
      BY <1>5, <2>2 DEF EnterUpdate, CheckStatusThen
    <3>3. QED
      BY <1>5, <1>b, <3>1, <3>2, RejectionDeserved DEF EnterUpdate, At
  <2>3. CASE req[t].id \in DOMAIN rows /\ WellFormedEmail(req[t]) /\ WellFormedStatus(req[t])
    BY <1>5, <1>b, <2>3 DEF EnterUpdate, CheckStatusThen
  <2>4. QED
    BY <2>1, <2>2, <2>3
<1>6. ASSUME NEW t \in Task, EnterDelete(t) PROVE Maps
  <2>1. CASE req[t].id \notin DOMAIN rows
    BY <1>6, <2>1, RejectionDeserved DEF EnterDelete, At, Store!Deserves, Store!TargetMissing
  <2>2. CASE req[t].id \in DOMAIN rows /\ CanBeDeleted(rows[req[t].id])
    BY <1>6, <1>b, <2>2 DEF EnterDelete
  <2>3. CASE req[t].id \in DOMAIN rows /\ ~CanBeDeleted(rows[req[t].id])
    BY <1>6, <2>3, RejectionDeserved, SameRules
    DEF EnterDelete, At, Store!Deserves, Store!TargetProtected
  <2>4. QED
    BY <2>1, <2>2, <2>3
<1>7. ASSUME NEW t \in Task, CheckEmailForCreate(t) PROVE Maps
  <2>1. CASE EmailMatches(rows, req[t].email) = {}
    BY <1>7, <1>b, <2>1 DEF CheckEmailForCreate
  <2>2. CASE EmailMatches(rows, req[t].email) /= {}
    BY <1>7, <2>2, RejectionDeserved, SameRules, SameEffects
    DEF CheckEmailForCreate, At, Store!Deserves, Store!AddressTaken
  <2>3. QED
    BY <2>1, <2>2
<1>8. ASSUME NEW t \in Task, CheckEmailForUpdate(t) PROVE Maps
  <2>0. req[t].email /= None
    BY <1>0, <1>8, DomainAssumption DEF CheckEmailForUpdate, At, ChecksStillHold, CheckedParameters
  <2>1. CASE EmailMatches(rows, req[t].email) /= {} /\ FirstMatch(req[t].email) /= req[t].id
    <3>1. EmailMatches(rows, req[t].email) \ {req[t].id} /= {}
      BY <1>0, <2>1, OneMatch
    <3>2. QED
      BY <1>8, <2>0, <2>1, <3>1, RejectionDeserved, SameRules, SameEffects
      DEF CheckEmailForUpdate, At, Store!Deserves, Store!AddressTaken
  <2>2. CASE /\ EmailMatches(rows, req[t].email) = {} \/ FirstMatch(req[t].email) = req[t].id
             /\ ~WellFormedStatus(req[t])
    BY <1>8, <2>2, RejectionDeserved, SameRules, SameEffects
    DEF CheckEmailForUpdate, CheckStatusThen, At, Store!Deserves, Store!MalformedRequest
  <2>3. CASE /\ EmailMatches(rows, req[t].email) = {} \/ FirstMatch(req[t].email) = req[t].id
             /\ WellFormedStatus(req[t])
    BY <1>8, <1>b, <2>3 DEF CheckEmailForUpdate, CheckStatusThen
  <2>4. QED
    BY <2>1, <2>2, <2>3
<1>9. ASSUME NEW t \in Task, Create(t) PROVE Maps
  <2>1. Store!Acceptable(t, "create")
    BY <1>9, CheckedIsAcceptable DEF Create
  <2>2. /\ next_id \in (1 .. (next_id' - 1)) \ (1 .. (next_id - 1))
        /\ 1 .. (next_id' - 1) = (1 .. (next_id - 1)) \cup {next_id}
    BY <1>0, <1>9 DEF Create, TypeOK
  <2>3. Store!Create(t)
    BY <1>9, <2>1, <2>2, SameEffects DEF Create, Return, Store!Create, Store!Ok
  <2>4. QED
    BY <2>3 DEF Store!Next, Store!Serve
<1>10. ASSUME NEW t \in Task, Update(t) PROVE Maps
  <2>1. Store!Acceptable(t, "update") /\ req[t].id \in DOMAIN rows
    BY <1>10, CheckedIsAcceptable, CheckedAtLock DEF Update, At, CheckedRequest
  <2>2. Store!Update(t)
    BY <1>10, <2>1, SameEffects DEF Update, Return, Store!Update, Store!Ok
  <2>3. QED
    BY <2>2 DEF Store!Next, Store!Serve
<1>11. ASSUME NEW t \in Task, Delete(t) PROVE Maps
  <2>1. Store!Acceptable(t, "delete") /\ req[t].id \in DOMAIN rows
    BY <1>11, CheckedIsAcceptable, CheckedAtLock DEF Delete, At, CheckedRequest
  <2>2. Store!Delete(t)
    BY <1>11, <2>1, SameEffects DEF Delete, Return, Store!Delete, Store!Ok
  <2>3. QED
    BY <2>2 DEF Store!Next, Store!Serve
<1>12. ASSUME NEW t \in Task, Receive(t) PROVE Maps
  <2>1. Store!Receive(t)
    BY <1>0, <1>12 DEF Receive, RequestsAccountedFor, Store!Receive
  <2>2. QED
    BY <2>1 DEF Store!Next
<1>13. CASE UNCHANGED vars
  BY <1>a, <1>13 DEF vars
<1>14. QED
  BY <1>1, <1>2, <1>3, <1>4, <1>5, <1>6, <1>7, <1>8, <1>9, <1>10, <1>11, <1>12, <1>13
  DEF Next, Run

(* Requests take effect one at a time, each judged on the rows of that     *)
(* instant, and no id is given out twice.                                  *)
THEOREM ServiceImplementsStore == Spec => ImplementsStore
  BY StoreInit, StoreStep, InductiveInvariant, PTL DEF Spec, ImplementsStore, Store!Spec

=============================================================================
