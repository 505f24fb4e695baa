---------------------------- MODULE UserApiProofs ----------------------------
(* Proofs that what the DTOs let through is well formed, for all calls and *)
(* all callers, and that the usecase never says otherwise.                 *)
EXTENDS UserApi, MemoryUserServiceProofs

(***************************************************************************)
(* What is bound.                                                          *)
(***************************************************************************)

(* A body that is taken for a create is one that the usecase takes too.    *)
LEMMA BoundCreate ==
  ASSUME NEW body \in Body, CreateUserRequest(body) /= None
  PROVE  /\ CreateUserRequest(body) \in CreateUserParams
         /\ WellFormedCreate(CreateUserRequest(body))
<1> DEFINE p == CreateUserRequest(body)
<1>1. /\ body.name \in Name \ {EmptyName} /\ body.email \in Deliverable
      /\ body.status \in Status \cup {Absent}
      /\ p = [op |-> "create", name |-> body.name, email |-> Normalised[body.email],
              status |-> IF body.status = Absent THEN "active" ELSE body.status]
  BY DEF CreateUserRequest
<1>2. Normalised[body.email] \in HasAt /\ HasAt \subseteq Email /\ Status \subseteq StatusText
  BY <1>1, RequestAssumption, DomainAssumption
<1>3. (IF body.status = Absent THEN "active" ELSE body.status) \in Status
  BY <1>1 DEF Status
<1> HIDE DEF p
<1>4. p \in CreateUserParams /\ WellFormedCreate(p)
  BY <1>1, <1>2, <1>3 DEF CreateUserParams, WellFormedCreate
<1> QED  BY <1>4 DEF p

(* And so is one that is taken for an update; nothing it leaves out or     *)
(* sets to null is asked for.                                              *)
LEMMA BoundUpdate ==
  ASSUME NEW id \in Int \cup {Junk}, NEW body \in Body, UpdateUserRequest(id, body) /= None
  PROVE  /\ UpdateUserRequest(id, body) \in UpdateUserParams
         /\ WellFormedEmail(UpdateUserRequest(id, body))
         /\ WellFormedStatus(UpdateUserRequest(id, body))
<1> DEFINE p == UpdateUserRequest(id, body)
<1> DEFINE email == IF body.email \in Deliverable THEN Normalised[body.email] ELSE None
<1>1. /\ id \in Nat \ {0}
      /\ body.name \in Name \cup {None, Absent}
      /\ body.status \in Status \cup {None, Absent}
      /\ p = [op |-> "update", id |-> id, name |-> Optional(body.name), email |-> email,
              status |-> Optional(body.status)]
  BY DEF UpdateUserRequest, PathId
<1>2. /\ email \in HasAt \cup {None} /\ Optional(body.name) \in Name \cup {None}
      /\ Optional(body.status) \in Status \cup {None}
  BY <1>1, RequestAssumption DEF Optional
<1>3. HasAt \subseteq Email /\ Status \subseteq StatusText
  BY DomainAssumption
<1> HIDE DEF p, email
<1>4. p \in UpdateUserParams /\ WellFormedEmail(p) /\ WellFormedStatus(p)
  BY <1>1, <1>2, <1>3 DEF UpdateUserParams, WellFormedEmail, WellFormedStatus
<1> QED  BY <1>4 DEF p

(* Every request that comes over HTTP is one that the port allows, and the *)
(* checks of the usecase on its parameters pass.                           *)
THEOREM HttpRequestsAreWellFormed ==
  ASSUME NEW r \in HttpRequest
  PROVE  /\ r \in AnyRequest
         /\ r.op = "create" => WellFormedCreate(r)
         /\ r.op = "update" => WellFormedEmail(r) /\ WellFormedStatus(r)
<1>1. PICK call \in HttpCall : r = Bound(call) /\ r /= None
  BY DEF HttpRequest
<1>2. call \in Call
  BY RequestAssumption
<1>3. CASE call.op = "create"
  <2>1. call.body \in Body /\ r = CreateUserRequest(call.body)
    BY <1>1, <1>2, <1>3 DEF Call, Bound
  <2>2. r \in CreateUserParams /\ WellFormedCreate(r)
    BY <1>1, <2>1, BoundCreate
  <2> QED  BY <2>2 DEF AnyRequest, CreateUserParams
<1>4. CASE call.op = "update"
  <2>1. call.body \in Body /\ call.id \in Int \cup {Junk} /\ r = UpdateUserRequest(call.id, call.body)
    BY <1>1, <1>2, <1>4 DEF Call, Bound
  <2>2. r \in UpdateUserParams /\ WellFormedEmail(r) /\ WellFormedStatus(r)
    BY <1>1, <2>1, BoundUpdate
  <2> QED  BY <2>2 DEF AnyRequest, UpdateUserParams
<1>5. CASE call.op \in {"get", "delete"}
  <2>1. call.id \in Nat \ {0} /\ r = [op |-> call.op, id |-> call.id]
    BY <1>1, <1>5 DEF Bound, PathId
  <2>2. r \in UserTarget /\ r.op \in {"get", "delete"}
    BY <1>5, <2>1 DEF UserTarget
  <2> QED  BY <2>2 DEF AnyRequest
<1> QED  BY <1>2, <1>3, <1>4, <1>5 DEF Call

(***************************************************************************)
(* What the usecase says of it.                                            *)
(***************************************************************************)

(* A task without a request has no answer. *)
LEMMA NoAnswerWhenIdle ==
  ASSUME IInv, NEW t \in Task, pc[t] = "idle"
  PROVE  answer[t] = None
  BY DEF IInv, Inv, RequestsAccountedFor

(* No step tells a client of the HTTP API that its request is malformed.   *)
LEMMA NeverMalformedStep == IInv /\ HttpNeverMalformed /\ [Next]_vars => HttpNeverMalformed'
<1> SUFFICES ASSUME IInv, HttpNeverMalformed, [Next]_vars,
                    NEW q \in Task, req'[q] \in HttpRequest, answer'[q] /= None
             PROVE  answer'[q].code /= "bad_request"
  BY DEF HttpNeverMalformed, HttpRequest, Bound, CreateUserRequest, UpdateUserRequest
<1>1. req \in [Task -> AnyRequest \cup {None}] /\ answer \in [Task -> Answer \cup {None}]
  BY DEF IInv, TypeOK
<1>2. ASSUME UNCHANGED <<req, answer>> PROVE answer'[q].code /= "bad_request"
  BY <1>2 DEF HttpNeverMalformed
<1>3. ASSUME NEW t \in Task, NEW code, NEW user, Return(t, code, user),
             code /= "bad_request" \/ req[t] \notin HttpRequest
      PROVE  answer'[q].code /= "bad_request"
  BY <1>1, <1>3 DEF Return, HttpNeverMalformed
<1>4. CASE UNCHANGED vars
  BY <1>2, <1>4 DEF vars
<1>5. ASSUME NEW t \in Task, Submit(t) PROVE answer'[q].code /= "bad_request"
  <2>1. answer' = answer /\ answer[t] = None /\ \A u \in Task \ {t} : req'[u] = req[u]
    BY <1>1, <1>5, NoAnswerWhenIdle DEF Submit
  <2> QED  BY <2>1 DEF HttpNeverMalformed
<1>6. ASSUME NEW t \in Task, Receive(t) PROVE answer'[q].code /= "bad_request"
  BY <1>1, <1>6 DEF Receive, HttpNeverMalformed
<1>7. ASSUME NEW t \in Task, Resume(t) PROVE answer'[q].code /= "bad_request"
  BY <1>2, <1>7 DEF Resume
<1>8. ASSUME NEW t \in Task, EnterCreate(t) PROVE answer'[q].code /= "bad_request"
  BY <1>2, <1>3, <1>8, HttpRequestsAreWellFormed DEF EnterCreate, Goto, Raise
<1>9. ASSUME NEW t \in Task, Get(t) PROVE answer'[q].code /= "bad_request"
  BY <1>3, <1>9 DEF Get, Raise
<1>10. ASSUME NEW t \in Task, EnterUpdate(t) PROVE answer'[q].code /= "bad_request"
  BY <1>2, <1>3, <1>10, HttpRequestsAreWellFormed DEF EnterUpdate, CheckStatusThen, Goto, Raise
<1>11. ASSUME NEW t \in Task, EnterDelete(t) PROVE answer'[q].code /= "bad_request"
  BY <1>2, <1>3, <1>11 DEF EnterDelete, Goto, Raise
<1>12. ASSUME NEW t \in Task, CheckEmailForCreate(t) PROVE answer'[q].code /= "bad_request"
  BY <1>2, <1>3, <1>12 DEF CheckEmailForCreate, Goto, Raise
<1>13. ASSUME NEW t \in Task, CheckEmailForUpdate(t) PROVE answer'[q].code /= "bad_request"
  BY <1>2, <1>3, <1>13, HttpRequestsAreWellFormed
  DEF CheckEmailForUpdate, CheckStatusThen, Goto, Raise
<1>14. ASSUME NEW t \in Task, Acquire(t) PROVE answer'[q].code /= "bad_request"
  BY <1>2, <1>14 DEF Acquire, Goto
<1>15. ASSUME NEW t \in Task, Create(t) PROVE answer'[q].code /= "bad_request"
  BY <1>3, <1>15 DEF Create
<1>16. ASSUME NEW t \in Task, Update(t) PROVE answer'[q].code /= "bad_request"
  BY <1>3, <1>16 DEF Update, Raise
<1>17. ASSUME NEW t \in Task, Delete(t) PROVE answer'[q].code /= "bad_request"
  BY <1>3, <1>17 DEF Delete, Raise
<1> QED
  BY <1>4, <1>5, <1>6, <1>7, <1>8, <1>9, <1>10, <1>11, <1>12, <1>13, <1>14, <1>15, <1>16, <1>17
  DEF Next, Run

(* A client of the HTTP API is told 422 by the DTOs, or what its request   *)
(* comes to: never 400 by a check of the usecase on parameters alone.      *)
THEOREM DtosCoverTheChecks == Spec => []HttpNeverMalformed
<1>1. Init => HttpNeverMalformed
  BY DEF Init, HttpNeverMalformed
<1> QED  BY <1>1, InductiveInvariant, NeverMalformedStep, PTL DEF Spec

=============================================================================
