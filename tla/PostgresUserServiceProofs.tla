---------------------- MODULE PostgresUserServiceProofs ----------------------
(* Proofs that what PostgresUserService promises to overlapping requests   *)
(* holds for every set of tasks, every seed, every size of the pool and    *)
(* every set of requests offered.                                          *)
EXTENDS PostgresUserService, UserDomainProofs, FiniteSetTheorems

(***************************************************************************)
(* The inductive invariant.  The usecase's checks are spread over several  *)
(* repository calls: what a call may rely on was made sure of before it,   *)
(* and for each task Checked and Known say what is left of that when the   *)
(* statement runs.                                                         *)
(***************************************************************************)

(* Every row has its timestamps, in order, and none from the future. *)
StampsInOrder ==
  /\ DOMAIN stamps = DOMAIN rows
  /\ \A i \in DOMAIN rows : stamps[i].created <= stamps[i].updated /\ stamps[i].updated <= clock

(* A task is at a repository call while its request is neither new nor answered. *)
Placed(t) ==
  /\ pc[t] = "idle" <=> req[t] = None
  /\ stage[t] = "none" <=> pc[t] \notin Method
  /\ pc[t] = "answered" <=> answer[t] /= None

(* What was checked of the parameters before the call a task is in. *)
Checked(t) ==
  /\ pc[t] = "get_by_id" => req[t].op /= "create"
  /\ pc[t] = "get_by_email" =>
       \/ req[t].op = "create" /\ WellFormedCreate(req[t])
       \/ req[t].op = "update" /\ WellFormedEmail(req[t]) /\ req[t].email /= None
  /\ pc[t] = "create" => req[t].op = "create" /\ WellFormedCreate(req[t])
  /\ pc[t] = "update" =>
       req[t].op = "update" /\ WellFormedEmail(req[t]) /\ WellFormedStatus(req[t])
  /\ pc[t] = "delete" => req[t].op = "delete"

(* The task has seen the row it is about; it may be gone again. *)
Found(t) ==
  \/ pc[t] = "get_by_id" /\ result[t] /= None
  \/ pc[t] = "get_by_email" /\ req[t].op = "update"
  \/ pc[t] = "update"

(* So the row under this id, if there is one, is that row still, and was   *)
(* created before update read the clock.                                   *)
Known(t) ==
  /\ Found(t) => req[t].id < seq
  /\ now[t] <= clock
  /\ pc[t] = "update" /\ req[t].id \in DOMAIN rows => stamps[req[t].id].created <= now[t]

(* What the request has written is what the reply to its statement says. *)
Effect(t) ==
  /\ pc[t] = "create" /\ stage[t] = "reply" => result[t] /= None
  /\ pc[t] /= "answered" /\ stage[t] /= "reply" => written[t] = 0
  /\ stage[t] = "reply" =>
       /\ pc[t] \in {"get_by_id", "get_by_email"} => written[t] = 0
       /\ pc[t] = "create" => written[t] = 1
       /\ pc[t] = "update" => written[t] = IF result[t] = None THEN 0 ELSE 1
       /\ pc[t] = "delete" => written[t] = IF number[t] = 0 THEN 0 ELSE 1

AnswerMatches(t) ==
  pc[t] = "answered" =>
    \/ answer[t].code = "ok" /\ written[t] = IF req[t].op = "get" THEN 0 ELSE 1
    \/ answer[t].code \notin {"ok", "error"} /\ written[t] = 0
    \/ answer[t].code = "error" /\ written[t] \in {0, 1}

TaskInv(t) == Placed(t) /\ Checked(t) /\ Known(t) /\ Effect(t) /\ AnswerMatches(t)

Inv ==
  /\ TypeOK
  /\ ConnectionsAccountedFor /\ IsFiniteSet(held)
  /\ StampsInOrder
  /\ \A t \in Task : TaskInv(t)

(***************************************************************************)
(* Types.                                                                  *)
(***************************************************************************)

(* Every answer the service gives is an Answer, and so not None. *)
LEMMA AnswersAreAnswers ==
  /\ \A code \in {"bad_request", "not_found", "already_exists", "conflict", "error"} :
       [code |-> code, user |-> None] \in Answer
  /\ \A user \in User \cup {None} : [code |-> "ok", user |-> user] \in Answer
  /\ None \notin Answer /\ None \notin User
  BY ServiceAssumption, DomainAssumption DEF Answer

(* The first id is above the seed's. *)
LEMMA SeqInit ==
  ASSUME Init
  PROVE  seq \in Nat \ {0} /\ DOMAIN rows \subseteq 1 .. (seq - 1)
<1> DEFINE top == CHOOSE m \in DOMAIN Seed \cup {0} : \A i \in DOMAIN Seed : i <= m
<1>1. top \in DOMAIN Seed \cup {0} /\ \A i \in DOMAIN Seed : i <= top
  BY ServiceAssumption
<1>2. top \in Nat /\ DOMAIN Seed \subseteq Nat \ {0}
  BY <1>1, ServiceAssumption
<1>3. seq = 1 + top
  BY DEF Init
<1> HIDE DEF top
<1> QED
  BY <1>1, <1>2, <1>3 DEF Init

LEMMA TypeInit == Init => TypeOK
<1> SUFFICES ASSUME Init PROVE TypeOK
  OBVIOUS
<1>1. rows \in [DOMAIN rows -> User] /\ stamps \in [DOMAIN rows -> [created : Nat, updated : Nat]]
  BY ServiceAssumption DEF Init
<1> QED
  BY <1>1, SeqInit DEF Init, TypeOK

(* What a task keeps for itself keeps its type when it calls a method of   *)
(* the repository, returns, or gets a reply.                               *)
LocalTypes ==
  /\ pc \in [Task -> Method \cup {"idle", "call", "answered"}]
  /\ stage \in [Task -> {"none", "acquire", "query", "reply"}]
  /\ now \in [Task -> Nat]
  /\ result \in [Task -> User \cup {None}]
  /\ number \in [Task -> Nat]
  /\ answer \in [Task -> Answer \cup {None}]

LEMMA CallTypes ==
  ASSUME TypeOK, NEW t \in Task, NEW method \in Method, Call(t, method)
  PROVE  LocalTypes'
  BY DEF TypeOK, Call, LocalTypes, Method

LEMMA ReturnTypes ==
  ASSUME TypeOK, NEW t \in Task, NEW user \in User \cup {None}, Return(t, "ok", user)
  PROVE  LocalTypes'
  BY AnswersAreAnswers DEF TypeOK, Return, LocalTypes, Method

LEMMA RaiseTypes ==
  ASSUME TypeOK, NEW t \in Task,
         NEW code \in {"bad_request", "not_found", "already_exists", "conflict", "error"},
         Raise(t, code)
  PROVE  LocalTypes'
  BY AnswersAreAnswers DEF TypeOK, Raise, Return, LocalTypes, Method

LEMMA ReplyTypes ==
  ASSUME TypeOK, NEW t \in Task, NEW user \in User \cup {None}, NEW n \in Nat, Reply(t, user, n)
  PROVE  LocalTypes' /\ UNCHANGED <<clock, held, req>>
  BY DEF TypeOK, Reply, LocalTypes

(* A task that goes on after a reply, or enters its method, changes its    *)
(* own state only, and may give its connection back.                       *)
GoesOn(t) ==
  /\ LocalTypes'
  /\ held' \in {held, held \ {t}}
  /\ UNCHANGED <<table, clock, req>>

LEMMA CheckStatusTypes ==
  ASSUME TypeOK, NEW t \in Task, CheckStatusThenUpdate(t)
  PROVE  LocalTypes'
<1>1. CASE Call(t, "update")
  BY <1>1, CallTypes DEF Method
<1>2. CASE Raise(t, "bad_request")
  BY <1>2, RaiseTypes
<1> QED
  BY <1>1, <1>2 DEF CheckStatusThenUpdate

LEMMA EnterGoesOn ==
  ASSUME TypeOK, NEW t \in Task, Enter(t)
  PROVE  GoesOn(t)
<1>1. Call(t, "get_by_id") \/ Call(t, "get_by_email") \/ Raise(t, "bad_request")
  BY DEF Enter
<1>2. LocalTypes'
  BY <1>1, CallTypes, RaiseTypes DEF Method
<1> QED
  BY <1>2 DEF Enter, GoesOn

LEMMA AfterGetByIdGoesOn ==
  ASSUME TypeOK, NEW t \in Task, AfterGetById(t)
  PROVE  GoesOn(t)
<1>1. \/ Raise(t, "not_found") \/ Raise(t, "conflict") \/ Raise(t, "bad_request")
      \/ Call(t, "delete") \/ Call(t, "get_by_email")
      \/ Return(t, "ok", result[t]) \/ CheckStatusThenUpdate(t)
  BY DEF AfterGetById
<1>2. result[t] \in User \cup {None}
  BY DEF TypeOK
<1>3. LocalTypes'
  BY <1>1, <1>2, CallTypes, RaiseTypes, ReturnTypes, CheckStatusTypes DEF Method
<1> QED
  BY <1>3 DEF AfterGetById, Resume, GoesOn

LEMMA AfterGetByEmailGoesOn ==
  ASSUME TypeOK, NEW t \in Task, AfterGetByEmail(t)
  PROVE  GoesOn(t)
<1>1. Call(t, "create") \/ Raise(t, "already_exists") \/ CheckStatusThenUpdate(t)
  BY DEF AfterGetByEmail
<1>2. LocalTypes'
  BY <1>1, CallTypes, RaiseTypes, CheckStatusTypes DEF Method
<1> QED
  BY <1>2 DEF AfterGetByEmail, Resume, GoesOn

LEMMA AfterWriteGoesOn ==
  ASSUME TypeOK, NEW t \in Task, AfterCreate(t) \/ AfterUpdate(t) \/ AfterDelete(t)
  PROVE  GoesOn(t)
<1>1. Return(t, "ok", result[t]) \/ Return(t, "ok", None) \/ Raise(t, "not_found")
  BY DEF AfterCreate, AfterUpdate, AfterDelete
<1>2. result[t] \in User \cup {None}
  BY DEF TypeOK
<1>3. LocalTypes'
  BY <1>1, <1>2, RaiseTypes, ReturnTypes
<1> QED
  BY <1>3 DEF AfterCreate, AfterUpdate, AfterDelete, Resume, GoesOn

LEMMA ConnectionLostGoesOn ==
  ASSUME TypeOK, NEW t \in Task, ConnectionLost(t)
  PROVE  GoesOn(t)
<1>1. LocalTypes'
  BY RaiseTypes DEF ConnectionLost
<1> QED
  BY <1>1 DEF ConnectionLost, GoesOn

LEMMA GoesOnTypes ==
  ASSUME TypeOK, NEW t \in Task, GoesOn(t)
  PROVE  TypeOK'
  BY DEF TypeOK, GoesOn, LocalTypes, table

(***************************************************************************)
(* The statements.                                                         *)
(***************************************************************************)

(* What a task may rely on when the server runs its statement. *)
LEMMA AtStatement ==
  ASSUME Inv, NEW t \in Task, stage[t] = "query"
  PROVE  /\ req[t] \in AnyRequest /\ written[t] = 0
         /\ pc[t] = "create" =>
              req[t] \in CreateUserParams /\ FromParams(req[t]) \in User
         /\ pc[t] = "update" =>
              /\ req[t] \in UpdateUserParams
              /\ req[t].id \in DOMAIN rows => WithUpdates(rows[req[t].id], req[t]) \in User
         /\ pc[t] = "delete" => req[t] \in UserTarget
<1>1. TypeOK /\ Placed(t) /\ Checked(t) /\ Effect(t)
  BY DEF Inv, TaskInv
<1>2. req[t] \in AnyRequest /\ pc[t] \in Method
  <2>1. pc[t] \in Method
    BY <1>1 DEF Placed
  <2> QED
    BY <1>1, <2>1 DEF TypeOK, Placed, Method
<1>3. written[t] = 0
  BY <1>1, <1>2 DEF Effect, Method
<1>4. ASSUME pc[t] = "create" PROVE req[t] \in CreateUserParams /\ FromParams(req[t]) \in User
  BY <1>1, <1>2, <1>4, RequestTypes, CreatedIsUser DEF Checked
<1>5. ASSUME pc[t] = "update"
      PROVE  /\ req[t] \in UpdateUserParams
             /\ req[t].id \in DOMAIN rows => WithUpdates(rows[req[t].id], req[t]) \in User
  <2>1. req[t] \in UpdateUserParams /\ WellFormedEmail(req[t]) /\ WellFormedStatus(req[t])
    BY <1>1, <1>2, <1>5, RequestTypes DEF Checked
  <2>2. ASSUME req[t].id \in DOMAIN rows PROVE rows[req[t].id] \in User
    BY <1>1, <2>2 DEF TypeOK
  <2> QED
    BY <2>1, <2>2, UpdatedIsUser
<1>6. ASSUME pc[t] = "delete" PROVE req[t] \in UserTarget
  BY <1>1, <1>2, <1>6, RequestTypes DEF Checked
<1> QED
  BY <1>2, <1>3, <1>4, <1>5, <1>6

LEMMA SelectTypes ==
  ASSUME Inv, NEW t \in Task, SelectById(t) \/ SelectByEmail(t)
  PROVE  TypeOK'
<1>1. TypeOK
  BY DEF Inv
<1>2. CASE SelectById(t)
  <2>1. req[t].id \in DOMAIN rows => rows[req[t].id] \in User
    BY <1>1 DEF TypeOK
  <2> QED
    BY <1>1, <1>2, <2>1, ReplyTypes DEF SelectById, TypeOK, LocalTypes, table
<1>3. CASE SelectByEmail(t)
  <2>1. PICK found \in DOMAIN rows \cup {0} : Reply(t, None, found)
    BY <1>3 DEF SelectByEmail, EmailMatches
  <2>2. found \in Nat
    BY <1>1 DEF TypeOK
  <2> QED
    BY <1>1, <1>3, <2>1, <2>2, ReplyTypes DEF SelectByEmail, TypeOK, LocalTypes, table
<1> QED
  BY <1>2, <1>3

LEMMA InsertTypes ==
  ASSUME Inv, NEW t \in Task, Insert(t)
  PROVE  TypeOK'
<1>1. TypeOK /\ DOMAIN stamps = DOMAIN rows
  BY DEF Inv, StampsInOrder
<1>2. FromParams(req[t]) \in User /\ written[t] = 0
  BY AtStatement DEF Insert, At
<1>3. LocalTypes' /\ UNCHANGED <<clock, held, req>>
  BY <1>1, <1>2, ReplyTypes DEF Insert
<1>4. DOMAIN rows' = DOMAIN rows \cup {seq} /\ rows' \in [DOMAIN rows' -> User]
  <2>1. rows' = Stored(rows, seq, FromParams(req[t])) /\ rows \in [DOMAIN rows -> User]
    BY <1>1 DEF Insert, TypeOK
  <2> QED
    BY <1>2, <2>1 DEF Stored
<1>5. stamps' \in [DOMAIN rows' -> [created : Nat, updated : Nat]]
  <2>1. [created |-> now[t], updated |-> now[t]] \in [created : Nat, updated : Nat]
    BY <1>1 DEF TypeOK
  <2>2. /\ stamps' = Stored(stamps, seq, [created |-> now[t], updated |-> now[t]])
        /\ stamps \in [DOMAIN rows -> [created : Nat, updated : Nat]]
    BY <1>1 DEF Insert, TypeOK
  <2> QED
    BY <1>1, <1>4, <2>1, <2>2 DEF Stored
<1>6. seq' \in Nat \ {0} /\ DOMAIN rows' \subseteq 1 .. (seq' - 1)
  BY <1>1, <1>4 DEF Insert, TypeOK
<1>7. written' \in [Task -> {0, 1}]
  BY <1>1, <1>2 DEF Insert, Wrote, TypeOK
<1> QED
  BY <1>1, <1>3, <1>4, <1>5, <1>6, <1>7 DEF TypeOK, LocalTypes

LEMMA UpdateRowTypes ==
  ASSUME Inv, NEW t \in Task, UpdateRow(t)
  PROVE  TypeOK'
<1>1. TypeOK /\ DOMAIN stamps = DOMAIN rows
  BY DEF Inv, StampsInOrder
<1>2. written[t] = 0 /\ (req[t].id \in DOMAIN rows => WithUpdates(rows[req[t].id], req[t]) \in User)
  BY AtStatement DEF UpdateRow, At
<1>3. CASE req[t].id \notin DOMAIN rows
  <2>1. LocalTypes' /\ UNCHANGED <<clock, held, req>>
    BY <1>1, <1>3, ReplyTypes DEF UpdateRow
  <2> QED
    BY <1>1, <1>3, <2>1 DEF UpdateRow, TypeOK, LocalTypes
<1>4. CASE req[t].id \in DOMAIN rows
  <2> DEFINE updated == WithUpdates(rows[req[t].id], req[t])
  <2>0. /\ rows' = Stored(rows, req[t].id, updated)
        /\ stamps' = [stamps EXCEPT ![req[t].id].updated = now[t]]
        /\ Wrote(t) /\ Reply(t, updated, 0) /\ UNCHANGED seq
    BY <1>4 DEF UpdateRow
  <2>1. updated \in User
    BY <1>2, <1>4
  <2> HIDE DEF updated
  <2>2. LocalTypes' /\ UNCHANGED <<clock, held, req>>
    BY <1>1, <2>0, <2>1, ReplyTypes
  <2>3. DOMAIN rows' = DOMAIN rows /\ rows' \in [DOMAIN rows' -> User]
    <3>1. rows \in [DOMAIN rows -> User]
      BY <1>1 DEF TypeOK
    <3> QED
      BY <1>4, <2>0, <2>1, <3>1 DEF Stored
  <2>4. stamps' \in [DOMAIN rows' -> [created : Nat, updated : Nat]]
    BY <1>1, <1>4, <2>0, <2>3 DEF TypeOK
  <2>5. written' \in [Task -> {0, 1}]
    BY <1>1, <1>2, <2>0 DEF Wrote, TypeOK
  <2> QED
    BY <1>1, <2>0, <2>2, <2>3, <2>4, <2>5 DEF TypeOK, LocalTypes
<1> QED
  BY <1>3, <1>4

LEMMA DeleteRowTypes ==
  ASSUME Inv, NEW t \in Task, DeleteRow(t)
  PROVE  TypeOK'
<1>1. TypeOK /\ DOMAIN stamps = DOMAIN rows
  BY DEF Inv, StampsInOrder
<1>2. written[t] = 0
  BY AtStatement DEF DeleteRow, At
<1>3. Reply(t, None, 0) \/ Reply(t, None, 1)
  BY DEF DeleteRow
<1>4. LocalTypes' /\ UNCHANGED <<clock, held, req>>
  BY <1>1, <1>3, ReplyTypes
<1>5. CASE req[t].id \notin DOMAIN rows
  BY <1>1, <1>4, <1>5 DEF DeleteRow, TypeOK, LocalTypes
<1>6. CASE req[t].id \in DOMAIN rows
  <2>1. rows' \in [DOMAIN rows' -> User] /\ DOMAIN rows' = DOMAIN rows \ {req[t].id}
    <3>1. rows' = Removed(rows, req[t].id) /\ rows \in [DOMAIN rows -> User]
      BY <1>1, <1>6 DEF DeleteRow, TypeOK
    <3> QED
      BY <3>1 DEF Removed
  <2>2. stamps' \in [DOMAIN rows' -> [created : Nat, updated : Nat]]
    <3>1. /\ stamps' = Removed(stamps, req[t].id)
          /\ stamps \in [DOMAIN rows -> [created : Nat, updated : Nat]]
      BY <1>1, <1>6 DEF DeleteRow, TypeOK
    <3> QED
      BY <1>1, <2>1, <3>1 DEF Removed
  <2>3. written' \in [Task -> {0, 1}] /\ UNCHANGED seq
    BY <1>1, <1>2, <1>6 DEF DeleteRow, Wrote, TypeOK
  <2> QED
    BY <1>1, <1>4, <2>1, <2>2, <2>3 DEF TypeOK, LocalTypes
<1> QED
  BY <1>5, <1>6

LEMMA TypeStep == Inv /\ [Next]_vars => TypeOK'
<1> SUFFICES ASSUME Inv, [Next]_vars PROVE TypeOK'
  OBVIOUS
<1>0. TypeOK
  BY DEF Inv
<1>1. ASSUME NEW t \in Task, Submit(t) PROVE TypeOK'
  BY <1>0, <1>1, ServiceAssumption DEF Submit, TypeOK, table
<1>2. ASSUME NEW t \in Task, Acquire(t) PROVE TypeOK'
  BY <1>0, <1>2 DEF Acquire, TypeOK, table
<1>3. ASSUME NEW t \in Task, Receive(t) PROVE TypeOK'
  BY <1>0, <1>3 DEF Receive, TypeOK
<1>4. ASSUME NEW t \in Task, ConnectionLost(t) PROVE TypeOK'
  BY <1>0, <1>4, ConnectionLostGoesOn, GoesOnTypes
<1>5. ASSUME NEW t \in Task, Run(t) PROVE TypeOK'
  BY <1>0, <1>5, EnterGoesOn, AfterGetByIdGoesOn, AfterGetByEmailGoesOn, AfterWriteGoesOn,
     GoesOnTypes, SelectTypes, InsertTypes, UpdateRowTypes, DeleteRowTypes DEF Run
<1>6. CASE Tick
  BY <1>0, <1>6 DEF Tick, TypeOK, table
<1>7. CASE UNCHANGED vars
  BY <1>0, <1>7 DEF vars, TypeOK
<1> QED
  BY <1>1, <1>2, <1>3, <1>4, <1>5, <1>6, <1>7 DEF Next

(***************************************************************************)
(* The connections.                                                        *)
(***************************************************************************)

(* A task whose statement is over, or not yet begun. *)
Leaves(t) ==
  stage' = [stage EXCEPT ![t] = "acquire"] \/ stage' = [stage EXCEPT ![t] = "none"]

LEMMA CheckStatusLeaves ==
  ASSUME NEW t \in Task, CheckStatusThenUpdate(t)
  PROVE  Leaves(t)
  BY DEF CheckStatusThenUpdate, Call, Raise, Return, Leaves

LEMMA ResumedLeaves ==
  ASSUME NEW t \in Task,
         \/ AfterGetById(t) \/ AfterGetByEmail(t) \/ AfterCreate(t) \/ AfterUpdate(t)
         \/ AfterDelete(t) \/ ConnectionLost(t)
  PROVE  Leaves(t) /\ held' = held \ {t}
<1>1. CASE AfterGetById(t)
  BY <1>1, CheckStatusLeaves DEF AfterGetById, Resume, Call, Raise, Return, Leaves
<1>2. CASE AfterGetByEmail(t)
  BY <1>2, CheckStatusLeaves DEF AfterGetByEmail, Resume, Call, Raise, Return, Leaves
<1>3. CASE AfterCreate(t) \/ AfterUpdate(t) \/ AfterDelete(t)
  BY <1>3 DEF AfterCreate, AfterUpdate, AfterDelete, Resume, Raise, Return, Leaves
<1>4. CASE ConnectionLost(t)
  BY <1>4 DEF ConnectionLost, Raise, Return, Leaves
<1> QED
  BY <1>1, <1>2, <1>3, <1>4

Accounted == ConnectionsAccountedFor /\ IsFiniteSet(held)

LEMMA GivenBack ==
  ASSUME TypeOK, Accounted, NEW t \in Task, Leaves(t), held' = held \ {t}
  PROVE  Accounted'
<1>1. IsFiniteSet(held') /\ Cardinality(held') <= PoolSize
  <2>1. IsFiniteSet(held)
    BY DEF Accounted
  <2>2. /\ IsFiniteSet(held \ {t})
        /\ Cardinality(held \ {t}) = IF t \in held THEN Cardinality(held) - 1 ELSE Cardinality(held)
    BY <2>1, FS_RemoveElement
  <2>3. Cardinality(held) \in Nat
    BY <2>1, FS_CardinalityType
  <2> QED
    BY <2>2, <2>3, ServiceAssumption DEF Accounted, ConnectionsAccountedFor
<1>2. held' = {q \in Task : stage'[q] \in {"query", "reply"}}
  BY DEF Accounted, ConnectionsAccountedFor, Leaves, TypeOK
<1> QED
  BY <1>1, <1>2 DEF Accounted, ConnectionsAccountedFor

LEMMA Taken ==
  ASSUME TypeOK, Accounted, NEW t \in Task, Acquire(t)
  PROVE  Accounted'
<1>1. IsFiniteSet(held') /\ Cardinality(held') <= PoolSize
  <2>1. IsFiniteSet(held)
    BY DEF Accounted
  <2>2. /\ IsFiniteSet(held \cup {t})
        /\ Cardinality(held \cup {t}) = IF t \in held THEN Cardinality(held) ELSE Cardinality(held) + 1
    BY <2>1, FS_AddElement
  <2>3. Cardinality(held) \in Nat
    BY <2>1, FS_CardinalityType
  <2> QED
    BY <2>2, <2>3, ServiceAssumption DEF Acquire
<1>2. held' = {q \in Task : stage'[q] \in {"query", "reply"}}
  BY DEF Accounted, ConnectionsAccountedFor, Acquire, TypeOK
<1> QED
  BY <1>1, <1>2 DEF Accounted, ConnectionsAccountedFor

(* The connection stays where it is. *)
Stays(t) ==
  /\ held' = held
  /\ \/ stage' = stage
     \/ stage[t] = "query" /\ stage' = [stage EXCEPT ![t] = "reply"]
     \/ stage[t] = "none" /\ Leaves(t)

LEMMA Kept ==
  ASSUME TypeOK, Accounted, NEW t \in Task, Stays(t)
  PROVE  Accounted'
<1>1. held' = {q \in Task : stage'[q] \in {"query", "reply"}}
  BY DEF Accounted, ConnectionsAccountedFor, Stays, Leaves, TypeOK
<1> QED
  BY <1>1 DEF Stays, Accounted, ConnectionsAccountedFor

LEMMA StatementStays ==
  ASSUME NEW t \in Task,
         SelectById(t) \/ SelectByEmail(t) \/ Insert(t) \/ UpdateRow(t) \/ DeleteRow(t)
  PROVE  Stays(t)
  BY DEF SelectById, SelectByEmail, Insert, UpdateRow, DeleteRow, At, Reply, Stays

LEMMA AccountedStep == Inv /\ [Next]_vars => Accounted'
<1> SUFFICES ASSUME Inv, [Next]_vars PROVE Accounted'
  OBVIOUS
<1>0. TypeOK /\ Accounted
  BY DEF Inv, Accounted
<1>1. ASSUME NEW t \in Task, Submit(t) \/ Receive(t) PROVE Accounted'
  BY <1>0, <1>1, Kept DEF Submit, Receive, Stays
<1>2. ASSUME NEW t \in Task, Acquire(t) PROVE Accounted'
  BY <1>0, <1>2, Taken
<1>3. ASSUME NEW t \in Task, ConnectionLost(t) PROVE Accounted'
  BY <1>0, <1>3, ResumedLeaves, GivenBack
<1>4. ASSUME NEW t \in Task, Run(t) PROVE Accounted'
  <2>1. CASE Enter(t)
    <3>1. stage[t] = "none"
      BY <2>1 DEF Enter, Inv, TaskInv, Placed, Method
    <3>2. Leaves(t)
      BY <2>1 DEF Enter, Call, Raise, Return, Leaves
    <3> QED
      BY <1>0, <2>1, <3>1, <3>2, Kept DEF Enter, Stays
  <2>2. CASE SelectById(t) \/ SelectByEmail(t) \/ Insert(t) \/ UpdateRow(t) \/ DeleteRow(t)
    BY <1>0, <2>2, StatementStays, Kept
  <2>3. CASE AfterGetById(t) \/ AfterGetByEmail(t) \/ AfterCreate(t) \/ AfterUpdate(t) \/ AfterDelete(t)
    BY <1>0, <2>3, ResumedLeaves, GivenBack
  <2> QED
    BY <1>4, <2>1, <2>2, <2>3 DEF Run
<1>5. CASE Tick \/ UNCHANGED vars
  BY <1>0, <1>5 DEF Tick, vars, Accounted, ConnectionsAccountedFor
<1> QED
  BY <1>1, <1>2, <1>3, <1>4, <1>5 DEF Next

(***************************************************************************)
(* The table and its timestamps.                                           *)
(***************************************************************************)

(* Ids are never given out again, time goes on, and a row keeps its        *)
(* created_at.                                                             *)
Grows ==
  /\ seq <= seq' /\ clock <= clock'
  /\ \A i \in DOMAIN rows' :
       i < seq => i \in DOMAIN rows /\ stamps'[i].created = stamps[i].created

LEMMA QuietTable ==
  ASSUME Inv, UNCHANGED <<rows, stamps, seq>>, clock' \in Nat, clock <= clock'
  PROVE  Grows /\ StampsInOrder'
  BY DEF Inv, TypeOK, StampsInOrder, Grows

LEMMA InsertStamps ==
  ASSUME Inv, NEW t \in Task, Insert(t)
  PROVE  Grows /\ StampsInOrder'
<1>1. /\ TypeOK /\ StampsInOrder /\ now[t] <= clock
      /\ now[t] \in Nat /\ clock \in Nat /\ seq \in Nat /\ seq \notin DOMAIN rows
  BY DEF Inv, TaskInv, Known, TypeOK
<1>2. /\ DOMAIN rows' = DOMAIN rows \cup {seq}
      /\ stamps' = Stored(stamps, seq, [created |-> now[t], updated |-> now[t]])
      /\ clock' = clock /\ seq' = seq + 1
  BY DEF Insert, Reply, Stored
<1>3. /\ DOMAIN stamps' = DOMAIN rows'
      /\ stamps'[seq] = [created |-> now[t], updated |-> now[t]]
      /\ \A i \in DOMAIN rows : stamps'[i] = stamps[i]
  BY <1>1, <1>2 DEF StampsInOrder, Stored
<1> QED
  BY <1>1, <1>2, <1>3 DEF Grows, StampsInOrder

LEMMA UpdateRowStamps ==
  ASSUME Inv, NEW t \in Task, UpdateRow(t)
  PROVE  Grows /\ StampsInOrder'
<1>1. /\ TypeOK /\ StampsInOrder /\ now[t] <= clock
      /\ req[t].id \in DOMAIN rows => stamps[req[t].id].created <= now[t]
      /\ now[t] \in Nat /\ clock \in Nat /\ seq \in Nat
  BY DEF Inv, TaskInv, Known, TypeOK, UpdateRow, At
<1>2. clock' = clock /\ seq' = seq
  BY DEF UpdateRow, Reply
<1>3. CASE req[t].id \notin DOMAIN rows
  BY <1>1, <1>2, <1>3, QuietTable DEF UpdateRow
<1>4. CASE req[t].id \in DOMAIN rows
  <2>1. /\ DOMAIN rows' = DOMAIN rows
        /\ stamps' = [stamps EXCEPT ![req[t].id].updated = now[t]]
    BY <1>4 DEF UpdateRow, Stored
  <2>2. stamps \in [DOMAIN rows -> [created : Nat, updated : Nat]]
    BY <1>1 DEF TypeOK
  <2>3. /\ DOMAIN stamps' = DOMAIN rows
        /\ stamps'[req[t].id].created = stamps[req[t].id].created
        /\ stamps'[req[t].id].updated = now[t]
        /\ \A i \in DOMAIN rows : i /= req[t].id => stamps'[i] = stamps[i]
    BY <1>4, <2>1, <2>2
  <2>4. Grows
    BY <1>1, <1>2, <1>4, <2>1, <2>3 DEF Grows
  <2>5. StampsInOrder'
    BY <1>1, <1>2, <1>4, <2>1, <2>3 DEF StampsInOrder
  <2> QED
    BY <2>4, <2>5
<1> QED
  BY <1>3, <1>4

LEMMA DeleteRowStamps ==
  ASSUME Inv, NEW t \in Task, DeleteRow(t)
  PROVE  Grows /\ StampsInOrder'
<1>1. StampsInOrder /\ clock \in Nat /\ seq \in Nat
  BY DEF Inv, TypeOK
<1>2. clock' = clock /\ seq' = seq
  BY DEF DeleteRow, Reply
<1>3. CASE req[t].id \notin DOMAIN rows
  BY <1>1, <1>2, <1>3, QuietTable DEF DeleteRow
<1>4. CASE req[t].id \in DOMAIN rows
  <2>1. rows' = Removed(rows, req[t].id) /\ stamps' = Removed(stamps, req[t].id)
    BY <1>4 DEF DeleteRow
  <2>2. /\ DOMAIN rows' = DOMAIN rows \ {req[t].id} /\ DOMAIN stamps' = DOMAIN rows'
        /\ \A i \in DOMAIN rows' : stamps'[i] = stamps[i]
    BY <1>1, <2>1 DEF Removed, StampsInOrder
  <2> QED
    BY <1>1, <1>2, <2>2 DEF Grows, StampsInOrder
<1> QED
  BY <1>3, <1>4

LEMMA TableStep == Inv /\ [Next]_vars => Grows /\ StampsInOrder'
<1> SUFFICES ASSUME Inv, [Next]_vars PROVE Grows /\ StampsInOrder'
  OBVIOUS
<1>0. TypeOK /\ clock \in Nat
  BY DEF Inv, TypeOK
<1>1. ASSUME NEW t \in Task, Submit(t) \/ Acquire(t) \/ Receive(t)
      PROVE  Grows /\ StampsInOrder'
  BY <1>0, <1>1, QuietTable DEF Submit, Acquire, Receive, table
<1>2. ASSUME NEW t \in Task, GoesOn(t) PROVE Grows /\ StampsInOrder'
  BY <1>0, <1>2, QuietTable DEF GoesOn, table
<1>3. ASSUME NEW t \in Task, SelectById(t) \/ SelectByEmail(t) PROVE Grows /\ StampsInOrder'
  BY <1>0, <1>3, QuietTable DEF SelectById, SelectByEmail, Reply, table
<1>4. CASE Tick
  BY <1>0, <1>4, QuietTable DEF Tick, table
<1>5. CASE UNCHANGED vars
  BY <1>0, <1>5, QuietTable DEF vars
<1>6. ASSUME NEW t \in Task, Run(t) PROVE Grows /\ StampsInOrder'
  BY <1>0, <1>2, <1>3, <1>6, EnterGoesOn, AfterGetByIdGoesOn, AfterGetByEmailGoesOn,
     AfterWriteGoesOn, InsertStamps, UpdateRowStamps, DeleteRowStamps DEF Run
<1> QED
  BY <1>0, <1>1, <1>2, <1>4, <1>5, <1>6, ConnectionLostGoesOn DEF Next

(***************************************************************************)
(* The tasks.                                                              *)
(***************************************************************************)

(* A task that does not move keeps what it knows, whatever others write. *)
Unmoved(q) ==
  /\ pc'[q] = pc[q] /\ stage'[q] = stage[q] /\ req'[q] = req[q] /\ now'[q] = now[q]
  /\ result'[q] = result[q] /\ number'[q] = number[q] /\ answer'[q] = answer[q]
  /\ written'[q] = written[q]

LEMMA FoundHasId ==
  ASSUME TypeOK, NEW q \in Task, Placed(q), Checked(q), Found(q)
  PROVE  req[q].id \in Nat
<1>1. req[q] \in AnyRequest
  BY DEF TypeOK, Placed, Found
<1>2. req[q].op /= "create"
  BY DEF Checked, Found
<1> QED
  BY <1>1, <1>2, RequestTypes

LEMMA UnmovedTask ==
  ASSUME Inv, TypeOK', Grows, NEW q \in Task, Unmoved(q)
  PROVE  TaskInv(q)'
<1>1. TypeOK /\ Placed(q) /\ Checked(q) /\ Known(q) /\ Effect(q) /\ AnswerMatches(q)
  BY DEF Inv, TaskInv
<1>2. Placed(q)'
  BY <1>1 DEF Placed, Unmoved
<1>3. Checked(q)'
  BY <1>1 DEF Checked, Unmoved
<1>4. Known(q)'
  <2>1. seq \in Nat /\ seq' \in Nat /\ clock \in Nat /\ clock' \in Nat /\ now[q] \in Nat
        /\ seq <= seq' /\ clock <= clock' /\ now[q] <= clock
    BY <1>1 DEF TypeOK, Grows, Known
  <2>2. Found(q)' <=> Found(q)
    BY DEF Found, Unmoved
  <2>3. ASSUME Found(q)' PROVE req'[q].id < seq'
    BY <1>1, <2>1, <2>2, <2>3, FoundHasId DEF Known, Unmoved
  <2>4. now'[q] <= clock'
    BY <2>1 DEF Unmoved
  <2>5. ASSUME pc'[q] = "update", req'[q].id \in DOMAIN rows'
        PROVE  stamps'[req'[q].id].created <= now'[q]
    <3>1. Found(q) /\ pc[q] = "update" /\ req'[q].id = req[q].id /\ now'[q] = now[q]
      BY <2>5 DEF Found, Unmoved
    <3>2. req[q].id < seq
      BY <1>1, <3>1 DEF Known
    <3>3. req[q].id \in DOMAIN rows /\ stamps'[req[q].id].created = stamps[req[q].id].created
      BY <2>5, <3>1, <3>2 DEF Grows
    <3> QED
      BY <1>1, <3>1, <3>3 DEF Known
  <2> QED
    BY <2>3, <2>4, <2>5 DEF Known
<1>5. Effect(q)'
  BY <1>1 DEF Effect, Unmoved
<1>6. AnswerMatches(q)'
  BY <1>1 DEF AnswerMatches, Unmoved
<1> QED
  BY <1>2, <1>3, <1>4, <1>5, <1>6 DEF TaskInv

(* What must be so for a task to call a method. *)
Ready(t, method) ==
  /\ method \in Method
  /\ req[t] /= None /\ answer[t] = None /\ written[t] = 0
  /\ method = "get_by_id" => req[t].op /= "create"
  /\ method = "get_by_email" =>
       \/ req[t].op = "create" /\ WellFormedCreate(req[t])
       \/ req[t].op = "update" /\ WellFormedEmail(req[t]) /\ req[t].email /= None
  /\ method = "create" => req[t].op = "create" /\ WellFormedCreate(req[t])
  /\ method = "update" =>
       req[t].op = "update" /\ WellFormedEmail(req[t]) /\ WellFormedStatus(req[t])
  /\ method = "delete" => req[t].op = "delete"
  /\ method = "update" \/ (method = "get_by_email" /\ req[t].op = "update") => req[t].id < seq

LEMMA CalledTask ==
  ASSUME Inv, NEW t \in Task, NEW method, Ready(t, method), Call(t, method),
         UNCHANGED <<table, clock, req>>
  PROVE  TaskInv(t)'
<1>1. TypeOK /\ StampsInOrder
  BY DEF Inv
<1>2. /\ pc'[t] = method /\ stage'[t] = "acquire" /\ result'[t] = None
      /\ now'[t] = IF method \in {"create", "update"} THEN clock ELSE 0
      /\ req'[t] = req[t] /\ answer'[t] = None /\ written'[t] = 0 /\ rows' = rows /\ stamps' = stamps
      /\ seq' = seq /\ clock' = clock
  BY <1>1 DEF Call, TypeOK, Ready, table
<1>3. method \in Method
  BY DEF Ready
<1>4. Placed(t)'
  BY <1>2, <1>3 DEF Placed, Ready, Method
<1>5. Checked(t)'
  BY <1>2 DEF Checked, Ready
<1>6. Known(t)'
  <2>1. clock \in Nat /\ clock' = clock
    BY <1>1, <1>2 DEF TypeOK
  <2>2. Found(t)' => req'[t].id < seq'
    BY <1>2 DEF Found, Ready
  <2>3. now'[t] <= clock'
    BY <1>2, <2>1
  <2>4. ASSUME pc'[t] = "update", req'[t].id \in DOMAIN rows'
        PROVE  stamps'[req'[t].id].created <= now'[t]
    <3>1. req[t].id \in DOMAIN rows /\ now'[t] = clock /\ stamps'[req'[t].id] = stamps[req[t].id]
      BY <1>2, <2>4
    <3>2. stamps[req[t].id] \in [created : Nat, updated : Nat]
      BY <1>1, <3>1 DEF TypeOK
    <3> QED
      BY <1>1, <2>1, <3>1, <3>2 DEF StampsInOrder
  <2> QED
    BY <2>2, <2>3, <2>4 DEF Known
<1>7. Effect(t)'
  BY <1>2 DEF Effect
<1>8. AnswerMatches(t)'
  BY <1>2, <1>3 DEF AnswerMatches, Method
<1> QED
  BY <1>4, <1>5, <1>6, <1>7, <1>8 DEF TaskInv

(* What must be so for a task to answer. *)
Due(t, code) ==
  /\ req[t] /= None
  /\ \/ code = "ok" /\ written[t] = IF req[t].op = "get" THEN 0 ELSE 1
     \/ code \notin {"ok", "error"} /\ written[t] = 0
     \/ code = "error"

LEMMA ReturnedTask ==
  ASSUME Inv, NEW t \in Task, NEW code, NEW user, Due(t, code), Return(t, code, user),
         [code |-> code, user |-> user] \in Answer, UNCHANGED <<table, clock, req>>
  PROVE  TaskInv(t)'
<1>1. TypeOK
  BY DEF Inv
<1>2. /\ pc'[t] = "answered" /\ stage'[t] = "none" /\ result'[t] = None /\ now'[t] = 0
      /\ answer'[t] = [code |-> code, user |-> user]
      /\ req'[t] = req[t] /\ written'[t] = written[t] /\ clock' = clock
      /\ clock \in Nat /\ written[t] \in {0, 1}
  BY <1>1 DEF Return, TypeOK, table
<1>3. Placed(t)'
  BY <1>2, AnswersAreAnswers DEF Placed, Due, Method
<1>4. Checked(t)' /\ Known(t)' /\ Effect(t)'
  BY <1>2 DEF Checked, Known, Found, Effect
<1>5. AnswerMatches(t)'
  <2>1. answer'[t].code = code
    BY <1>2
  <2> QED
    BY <1>2, <2>1 DEF AnswerMatches, Due
<1> QED
  BY <1>3, <1>4, <1>5 DEF TaskInv

(* What must be so of the reply to a statement. *)
Truthful(t, user, n) ==
  /\ pc[t] = "get_by_id" => written'[t] = 0
  /\ pc[t] = "get_by_id" /\ user /= None => req[t].id < seq
  /\ pc[t] = "get_by_email" => written'[t] = 0
  /\ pc[t] = "create" => user /= None /\ written'[t] = 1
  /\ pc[t] = "update" => written'[t] = IF user = None THEN 0 ELSE 1
  /\ pc[t] = "delete" => written'[t] = IF n = 0 THEN 0 ELSE 1

LEMMA RepliedTask ==
  ASSUME Inv, TypeOK', Grows, NEW t \in Task, NEW user, NEW n, stage[t] = "query",
         Truthful(t, user, n), Reply(t, user, n)
  PROVE  TaskInv(t)'
<1>1. TypeOK /\ Placed(t) /\ Checked(t) /\ Known(t)
  BY DEF Inv, TaskInv
<1>2. /\ pc'[t] = pc[t] /\ stage'[t] = "reply" /\ req'[t] = req[t] /\ now'[t] = now[t]
      /\ result'[t] = user /\ number'[t] = n /\ answer'[t] = answer[t]
  BY <1>1 DEF Reply, TypeOK
<1>3. pc[t] \in Method
  BY <1>1 DEF Placed
<1>4. Placed(t)' /\ Checked(t)'
  BY <1>1, <1>2, <1>3 DEF Placed, Checked, Method
<1>5. Known(t)'
  <2>1. seq \in Nat /\ seq' \in Nat /\ clock \in Nat /\ clock' \in Nat /\ now[t] \in Nat
        /\ seq <= seq' /\ clock <= clock' /\ now[t] <= clock
    BY <1>1 DEF TypeOK, Grows, Known
  <2>2. ASSUME Found(t)' PROVE req'[t].id < seq'
    <3>1. req[t].id < seq
      BY <1>1, <1>2, <2>2 DEF Found, Known, Truthful
    <3>2. req[t].op /= "create"
      BY <1>1, <1>2, <2>2 DEF Found, Checked
    <3>3. req[t] \in AnyRequest
      BY <1>1, <1>3 DEF TypeOK, Placed, Method
    <3> QED
      BY <1>2, <2>1, <3>1, <3>2, <3>3, RequestTypes
  <2>3. now'[t] <= clock'
    BY <1>2, <2>1
  <2>4. ASSUME pc'[t] = "update", req'[t].id \in DOMAIN rows'
        PROVE  stamps'[req'[t].id].created <= now'[t]
    <3>1. pc[t] = "update" /\ req'[t].id = req[t].id /\ req[t].id < seq
      BY <1>1, <1>2, <2>4 DEF Found, Known
    <3>2. req[t].id \in DOMAIN rows /\ stamps'[req[t].id].created = stamps[req[t].id].created
      BY <2>4, <3>1 DEF Grows
    <3> QED
      BY <1>1, <1>2, <3>1, <3>2 DEF Known
  <2> QED
    BY <2>2, <2>3, <2>4 DEF Known
<1>6. Effect(t)'
  BY <1>2, <1>3 DEF Effect, Truthful, Method
<1>7. AnswerMatches(t)'
  BY <1>2, <1>3 DEF AnswerMatches, Method
<1> QED
  BY <1>4, <1>5, <1>6, <1>7 DEF TaskInv

(* A step of one task moves no other. *)
OthersStay(t) == \A q \in Task \ {t} : Unmoved(q)

LEMMA CallMovesOne ==
  ASSUME TypeOK, NEW t \in Task, NEW method, Call(t, method), UNCHANGED <<table, clock, req>>
  PROVE  OthersStay(t)
  BY DEF TypeOK, Call, OthersStay, Unmoved, table

LEMMA ReturnMovesOne ==
  ASSUME TypeOK, NEW t \in Task, NEW code, NEW user, Return(t, code, user),
         UNCHANGED <<table, clock, req>>
  PROVE  OthersStay(t)
  BY DEF TypeOK, Return, OthersStay, Unmoved, table

LEMMA ReplyMovesOne ==
  ASSUME TypeOK, NEW t \in Task, NEW user, NEW n, Reply(t, user, n),
         Wrote(t) \/ UNCHANGED written
  PROVE  OthersStay(t)
  BY DEF TypeOK, Reply, Wrote, OthersStay, Unmoved

(* What a step of a task shows: it and the others keep the invariant. *)
Fine(t) == TaskInv(t)' /\ OthersStay(t)

LEMMA CallIsFine ==
  ASSUME Inv, NEW t \in Task, UNCHANGED <<table, clock, req>>
  PROVE  \A method : Ready(t, method) /\ Call(t, method) => Fine(t)
  BY CalledTask, CallMovesOne DEF Fine, Inv

LEMMA OkIsFine ==
  ASSUME Inv, NEW t \in Task, NEW user \in User \cup {None}, UNCHANGED <<table, clock, req>>,
         Due(t, "ok"), Return(t, "ok", user)
  PROVE  Fine(t)
<1>1. [code |-> "ok", user |-> user] \in Answer
  BY AnswersAreAnswers
<1> QED
  BY <1>1, ReturnedTask, ReturnMovesOne DEF Fine, Inv

LEMMA RaiseIsFine ==
  ASSUME Inv, NEW t \in Task, UNCHANGED <<table, clock, req>>,
         NEW code \in {"bad_request", "not_found", "already_exists", "conflict", "error"},
         Due(t, code), Raise(t, code)
  PROVE  Fine(t)
<1>1. [code |-> code, user |-> None] \in Answer
  BY AnswersAreAnswers
<1> QED
  BY <1>1, ReturnedTask, ReturnMovesOne DEF Raise, Fine, Inv

(* What a task knows in the middle of its request. *)
LEMMA Underway ==
  ASSUME Inv, NEW t \in Task, pc[t] \in Method \cup {"call"}
  PROVE  /\ TypeOK /\ Placed(t) /\ Checked(t) /\ Known(t) /\ Effect(t)
         /\ req[t] /= None /\ req[t] \in AnyRequest /\ answer[t] = None
         /\ req[t].op \in {"create", "update", "get", "delete"}
<1>1. TypeOK /\ Placed(t) /\ Checked(t) /\ Known(t) /\ Effect(t)
  BY DEF Inv, TaskInv
<1>2. req[t] /= None /\ req[t] \in AnyRequest /\ answer[t] = None
  BY <1>1 DEF TypeOK, Placed, Method
<1> QED
  BY <1>1, <1>2, RequestTypes

LEMMA EnterFine ==
  ASSUME Inv, NEW t \in Task, Enter(t)
  PROVE  Fine(t)
<1>1. pc[t] = "call" /\ UNCHANGED <<table, clock, req>>
  BY DEF Enter
<1>2. Placed(t) /\ Effect(t) /\ req[t] /= None /\ answer[t] = None
  BY <1>1, Underway
<1>3. written[t] = 0
  BY <1>1, <1>2 DEF Placed, Effect, Method
<1>4. CASE req[t].op /= "create"
  <2>1. Call(t, "get_by_id")
    BY <1>4 DEF Enter
  <2>2. Ready(t, "get_by_id")
    BY <1>2, <1>3, <1>4 DEF Ready, Method
  <2> QED
    BY <1>1, <2>1, <2>2, CallIsFine
<1>5. CASE req[t].op = "create" /\ WellFormedCreate(req[t])
  <2>1. Call(t, "get_by_email")
    BY <1>5 DEF Enter
  <2>2. Ready(t, "get_by_email")
    BY <1>2, <1>3, <1>5 DEF Ready, Method
  <2> QED
    BY <1>1, <2>1, <2>2, CallIsFine
<1>6. CASE req[t].op = "create" /\ ~WellFormedCreate(req[t])
  <2>1. Raise(t, "bad_request")
    BY <1>6 DEF Enter
  <2>2. Due(t, "bad_request")
    BY <1>2, <1>3 DEF Due
  <2> QED
    BY <1>1, <2>1, <2>2, RaiseIsFine
<1> QED
  BY <1>4, <1>5, <1>6

LEMMA CheckStatusFine ==
  ASSUME Inv, NEW t \in Task, UNCHANGED <<table, clock, req>>, req[t] /= None,
         answer[t] = None, req[t].op = "update", WellFormedEmail(req[t]), req[t].id < seq, written[t] = 0,
         CheckStatusThenUpdate(t)
  PROVE  Fine(t)
<1>1. CASE WellFormedStatus(req[t])
  <2>1. Ready(t, "update") /\ Call(t, "update")
    BY <1>1 DEF Ready, Method, CheckStatusThenUpdate
  <2> QED
    BY <2>1, CallIsFine
<1>2. CASE ~WellFormedStatus(req[t])
  <2>1. Due(t, "bad_request") /\ Raise(t, "bad_request")
    BY <1>2 DEF Due, CheckStatusThenUpdate
  <2> QED
    BY <2>1, RaiseIsFine
<1> QED
  BY <1>1, <1>2

LEMMA AfterGetByIdFine ==
  ASSUME Inv, NEW t \in Task, AfterGetById(t)
  PROVE  Fine(t)
<1>1. /\ pc[t] = "get_by_id" /\ stage[t] = "reply"
      /\ UNCHANGED <<table, clock, req>>
  BY DEF AfterGetById, Resume, At
<1>2. /\ TypeOK /\ Checked(t) /\ Known(t) /\ Effect(t)
      /\ req[t] /= None /\ req[t].op \in {"create", "update", "get", "delete"}
      /\ answer[t] = None
  BY <1>1, Underway DEF Method
<1>3. written[t] = 0 /\ (result[t] /= None => req[t].id < seq)
  BY <1>1, <1>2 DEF Effect, Known, Found
<1>4. CASE result[t] = None
  <2>1. Raise(t, "not_found") /\ Due(t, "not_found")
    BY <1>2, <1>3, <1>4 DEF AfterGetById, Due
  <2> QED
    BY <1>1, <2>1, RaiseIsFine
<1>5. CASE result[t] /= None /\ req[t].op = "get"
  <2>1. Return(t, "ok", result[t]) /\ Due(t, "ok") /\ result[t] \in User \cup {None}
    BY <1>2, <1>3, <1>5 DEF AfterGetById, Due, TypeOK
  <2> QED
    BY <1>1, <2>1, OkIsFine
<1>6. CASE result[t] /= None /\ req[t].op = "delete"
  <2>1. Call(t, "delete") \/ Raise(t, "conflict")
    BY <1>6 DEF AfterGetById
  <2>2. Ready(t, "delete") /\ Due(t, "conflict")
    BY <1>2, <1>3, <1>6 DEF Ready, Due, Method
  <2> QED
    BY <1>1, <2>1, <2>2, CallIsFine, RaiseIsFine
<1>7. CASE result[t] /= None /\ req[t].op = "update"
  <2>1. CASE ~WellFormedEmail(req[t])
    <3>1. Raise(t, "bad_request") /\ Due(t, "bad_request")
      BY <1>2, <1>3, <1>7, <2>1 DEF AfterGetById, Due
    <3> QED
      BY <1>1, <3>1, RaiseIsFine
  <2>2. CASE WellFormedEmail(req[t]) /\ req[t].email /= None
    <3>1. Call(t, "get_by_email") /\ Ready(t, "get_by_email")
      BY <1>2, <1>3, <1>7, <2>2 DEF AfterGetById, Ready, Method
    <3> QED
      BY <1>1, <3>1, CallIsFine
  <2>3. CASE WellFormedEmail(req[t]) /\ req[t].email = None
    <3>1. CheckStatusThenUpdate(t)
      BY <1>7, <2>3 DEF AfterGetById
    <3> QED
      BY <1>1, <1>2, <1>3, <1>7, <2>3, <3>1, CheckStatusFine
  <2> QED
    BY <2>1, <2>2, <2>3
<1>8. req[t].op /= "create"
  BY <1>1, <1>2 DEF Checked
<1> QED
  BY <1>2, <1>4, <1>5, <1>6, <1>7, <1>8

LEMMA AfterGetByEmailFine ==
  ASSUME Inv, NEW t \in Task, AfterGetByEmail(t)
  PROVE  Fine(t)
<1>1. /\ pc[t] = "get_by_email" /\ stage[t] = "reply"
      /\ UNCHANGED <<table, clock, req>>
  BY DEF AfterGetByEmail, Resume, At
<1>2. TypeOK /\ Checked(t) /\ Known(t) /\ Effect(t) /\ req[t] /= None /\ answer[t] = None
  BY <1>1, Underway DEF Method
<1>3. written[t] = 0
  BY <1>1, <1>2 DEF Effect
<1>4. CASE req[t].op = "create"
  <2>1. Call(t, "create") \/ Raise(t, "already_exists")
    BY <1>4 DEF AfterGetByEmail
  <2>2. Ready(t, "create") /\ Due(t, "already_exists")
    BY <1>1, <1>2, <1>3, <1>4 DEF Checked, Ready, Due, Method
  <2> QED
    BY <1>1, <2>1, <2>2, CallIsFine, RaiseIsFine
<1>5. CASE req[t].op = "update"
  <2>1. CheckStatusThenUpdate(t) \/ Raise(t, "already_exists")
    BY <1>5 DEF AfterGetByEmail
  <2>2. Due(t, "already_exists")
    BY <1>2, <1>3 DEF Due
  <2>3. WellFormedEmail(req[t]) /\ req[t].id < seq
    BY <1>1, <1>2, <1>5 DEF Checked, Known, Found
  <2> QED
    BY <1>1, <1>2, <1>3, <1>5, <2>1, <2>2, <2>3, CheckStatusFine, RaiseIsFine
<1> QED
  BY <1>4, <1>5 DEF AfterGetByEmail

LEMMA AfterWriteFine ==
  ASSUME Inv, NEW t \in Task, AfterCreate(t) \/ AfterUpdate(t) \/ AfterDelete(t)
  PROVE  Fine(t)
<1>1. /\ pc[t] \in {"create", "update", "delete"} /\ stage[t] = "reply"
      /\ UNCHANGED <<table, clock, req>>
  BY DEF AfterCreate, AfterUpdate, AfterDelete, Resume, At
<1>2. TypeOK /\ Checked(t) /\ Effect(t) /\ req[t] /= None /\ result[t] \in User \cup {None}
  BY <1>1, Underway DEF Method, TypeOK
<1>3. CASE AfterCreate(t)
  <2>1. Return(t, "ok", result[t]) /\ Due(t, "ok")
    BY <1>1, <1>2, <1>3 DEF AfterCreate, Resume, At, Checked, Effect, Due
  <2> QED
    BY <1>1, <1>2, <2>1, OkIsFine
<1>4. CASE AfterUpdate(t) /\ result[t] = None
  <2>1. Raise(t, "not_found") /\ Due(t, "not_found")
    BY <1>1, <1>2, <1>4 DEF AfterUpdate, Resume, At, Effect, Due
  <2> QED
    BY <1>1, <2>1, RaiseIsFine
<1>5. CASE AfterUpdate(t) /\ result[t] /= None
  <2>1. Return(t, "ok", result[t]) /\ Due(t, "ok")
    BY <1>1, <1>2, <1>5 DEF AfterUpdate, Resume, At, Checked, Effect, Due
  <2> QED
    BY <1>1, <1>2, <2>1, OkIsFine
<1>6. CASE AfterDelete(t) /\ number[t] = 0
  <2>1. Raise(t, "not_found") /\ Due(t, "not_found")
    BY <1>1, <1>2, <1>6 DEF AfterDelete, Resume, At, Effect, Due
  <2> QED
    BY <1>1, <2>1, RaiseIsFine
<1>7. CASE AfterDelete(t) /\ number[t] /= 0
  <2>1. Return(t, "ok", None) /\ Due(t, "ok")
    BY <1>1, <1>2, <1>7 DEF AfterDelete, Resume, At, Checked, Effect, Due
  <2> QED
    BY <1>1, <2>1, OkIsFine
<1> QED
  BY <1>3, <1>4, <1>5, <1>6, <1>7

LEMMA ConnectionLostFine ==
  ASSUME Inv, NEW t \in Task, ConnectionLost(t)
  PROVE  Fine(t)
<1>1. stage[t] \in {"query", "reply"} /\ Raise(t, "error") /\ UNCHANGED <<table, clock, req>>
  BY DEF ConnectionLost
<1>2. pc[t] \in Method
  BY <1>1 DEF Inv, TaskInv, Placed
<1>3. Due(t, "error")
  BY <1>2, Underway DEF Due
<1> QED
  BY <1>1, <1>3, RaiseIsFine

(* Each statement tells its task the truth. *)
LEMMA ReplyIsFine ==
  ASSUME Inv, TypeOK', Grows, NEW t \in Task, NEW user, NEW n, stage[t] = "query",
         Truthful(t, user, n), Reply(t, user, n), Wrote(t) \/ UNCHANGED written
  PROVE  Fine(t)
<1>1. TaskInv(t)'
  BY RepliedTask
<1>2. OthersStay(t)
  BY ReplyMovesOne DEF Inv
<1> QED
  BY <1>1, <1>2 DEF Fine

LEMMA SelectFine ==
  ASSUME Inv, TypeOK', Grows, NEW t \in Task, SelectById(t) \/ SelectByEmail(t)
  PROVE  Fine(t)
<1>1. stage[t] = "query" /\ UNCHANGED table
  BY DEF SelectById, SelectByEmail, At
<1>2. written[t] = 0 /\ written'[t] = 0 /\ UNCHANGED written /\ TypeOK
  BY <1>1, AtStatement DEF table, Inv
<1>3. CASE SelectById(t)
  <2> DEFINE user == IF req[t].id \in DOMAIN rows THEN rows[req[t].id] ELSE None
  <2>1. Reply(t, user, 0) /\ pc[t] = "get_by_id"
    BY <1>3 DEF SelectById, At
  <2>2. user /= None => req[t].id < seq
    BY <1>2 DEF TypeOK
  <2> HIDE DEF user
  <2>3. Truthful(t, user, 0)
    BY <1>2, <2>1, <2>2 DEF Truthful
  <2> QED
    BY <1>1, <1>2, <2>1, <2>3, ReplyIsFine
<1>4. CASE SelectByEmail(t)
  <2>1. PICK found : Reply(t, None, found)
    BY <1>4 DEF SelectByEmail
  <2>2. Truthful(t, None, found)
    BY <1>2, <1>4 DEF Truthful, SelectByEmail, At
  <2> QED
    BY <1>1, <1>2, <2>1, <2>2, ReplyIsFine
<1> QED
  BY <1>3, <1>4

LEMMA InsertFine ==
  ASSUME Inv, TypeOK', Grows, NEW t \in Task, Insert(t)
  PROVE  Fine(t)
<1>1. pc[t] = "create" /\ stage[t] = "query" /\ Reply(t, FromParams(req[t]), 0) /\ Wrote(t)
  BY DEF Insert, At
<1>2. written[t] = 0 /\ FromParams(req[t]) \in User /\ TypeOK
  BY <1>1, AtStatement DEF Inv
<1>3. FromParams(req[t]) /= None
  BY <1>2, AnswersAreAnswers
<1>4. written'[t] = 1
  BY <1>1, <1>2 DEF Wrote, TypeOK
<1>5. Truthful(t, FromParams(req[t]), 0)
  BY <1>1, <1>3, <1>4 DEF Truthful
<1> QED
  BY <1>1, <1>5, ReplyIsFine

LEMMA UpdateRowFine ==
  ASSUME Inv, TypeOK', Grows, NEW t \in Task, UpdateRow(t)
  PROVE  Fine(t)
<1>1. pc[t] = "update" /\ stage[t] = "query"
  BY DEF UpdateRow, At
<1>2. /\ written[t] = 0 /\ TypeOK
      /\ req[t].id \in DOMAIN rows => WithUpdates(rows[req[t].id], req[t]) \in User
  BY <1>1, AtStatement DEF Inv
<1>3. CASE req[t].id \notin DOMAIN rows
  <2>1. Reply(t, None, 0) /\ UNCHANGED written
    BY <1>3 DEF UpdateRow
  <2>2. Truthful(t, None, 0)
    BY <1>1, <1>2, <2>1 DEF Truthful
  <2> QED
    BY <1>1, <2>1, <2>2, ReplyIsFine
<1>4. CASE req[t].id \in DOMAIN rows
  <2> DEFINE updated == WithUpdates(rows[req[t].id], req[t])
  <2>1. Reply(t, updated, 0) /\ Wrote(t)
    BY <1>4 DEF UpdateRow
  <2>2. updated /= None
    BY <1>2, <1>4, AnswersAreAnswers
  <2> HIDE DEF updated
  <2>3. written'[t] = 1
    BY <1>2, <2>1 DEF Wrote, TypeOK
  <2>4. Truthful(t, updated, 0)
    BY <1>1, <2>2, <2>3 DEF Truthful
  <2> QED
    BY <1>1, <2>1, <2>4, ReplyIsFine
<1> QED
  BY <1>3, <1>4

LEMMA DeleteRowFine ==
  ASSUME Inv, TypeOK', Grows, NEW t \in Task, DeleteRow(t)
  PROVE  Fine(t)
<1>1. pc[t] = "delete" /\ stage[t] = "query"
  BY DEF DeleteRow, At
<1>2. written[t] = 0 /\ TypeOK
  BY <1>1, AtStatement DEF Inv
<1>3. CASE req[t].id \notin DOMAIN rows
  <2>1. Reply(t, None, 0) /\ UNCHANGED written
    BY <1>3 DEF DeleteRow
  <2>2. Truthful(t, None, 0)
    BY <1>1, <1>2, <2>1 DEF Truthful
  <2> QED
    BY <1>1, <2>1, <2>2, ReplyIsFine
<1>4. CASE req[t].id \in DOMAIN rows
  <2>1. Reply(t, None, 1) /\ Wrote(t)
    BY <1>4 DEF DeleteRow
  <2>2. written'[t] = 1
    BY <1>2, <2>1 DEF Wrote, TypeOK
  <2>3. Truthful(t, None, 1)
    BY <1>1, <2>2 DEF Truthful
  <2> QED
    BY <1>1, <2>1, <2>3, ReplyIsFine
<1> QED
  BY <1>3, <1>4

LEMMA SubmitFine ==
  ASSUME Inv, NEW t \in Task, Submit(t)
  PROVE  Fine(t)
<1>1. TypeOK /\ Placed(t) /\ Known(t) /\ Effect(t) /\ pc[t] = "idle"
  BY DEF Inv, TaskInv, Submit
<1>2. PICK r \in AnyRequest : req' = [req EXCEPT ![t] = r]
  BY ServiceAssumption DEF Submit
<1>3. /\ pc'[t] = "call" /\ stage'[t] = stage[t] /\ req'[t] = r /\ now'[t] = now[t]
      /\ answer'[t] = answer[t] /\ written'[t] = written[t] /\ clock' = clock
  BY <1>1, <1>2 DEF Submit, TypeOK, table
<1>4. stage[t] = "none" /\ written[t] = 0 /\ r /= None
  BY <1>1, DomainAssumption DEF Placed, Effect, Method
<1>5. TaskInv(t)'
  BY <1>1, <1>3, <1>4
  DEF TaskInv, Placed, Checked, Known, Found, Effect, AnswerMatches, Method
<1>6. OthersStay(t)
  BY <1>1, <1>2 DEF Submit, TypeOK, OthersStay, Unmoved, table
<1> QED
  BY <1>5, <1>6 DEF Fine

LEMMA AcquireFine ==
  ASSUME Inv, NEW t \in Task, Acquire(t)
  PROVE  Fine(t)
<1>1. TypeOK /\ Placed(t) /\ Checked(t) /\ Known(t) /\ Effect(t) /\ stage[t] = "acquire"
  BY DEF Inv, TaskInv, Acquire
<1>2. /\ pc'[t] = pc[t] /\ stage'[t] = "query" /\ req'[t] = req[t] /\ now'[t] = now[t]
      /\ result'[t] = result[t] /\ answer'[t] = answer[t] /\ written'[t] = written[t]
      /\ clock' = clock /\ seq' = seq /\ rows' = rows /\ stamps' = stamps
  BY <1>1 DEF Acquire, TypeOK, table
<1>3. pc[t] \in Method
  BY <1>1 DEF Placed
<1>4. Placed(t)' /\ Checked(t)'
  BY <1>1, <1>2, <1>3 DEF Placed, Checked, Method
<1>5. Known(t)'
  BY <1>1, <1>2 DEF Known, Found
<1>6. Effect(t)' /\ AnswerMatches(t)'
  BY <1>1, <1>2, <1>3 DEF Effect, AnswerMatches, Method
<1>7. OthersStay(t)
  BY <1>1 DEF Acquire, TypeOK, OthersStay, Unmoved, table
<1> QED
  BY <1>4, <1>5, <1>6, <1>7 DEF Fine, TaskInv

LEMMA ReceiveFine ==
  ASSUME Inv, NEW t \in Task, Receive(t)
  PROVE  Fine(t)
<1>1. TypeOK /\ Placed(t) /\ Known(t) /\ pc[t] = "answered"
  BY DEF Inv, TaskInv, Receive
<1>2. /\ pc'[t] = "idle" /\ stage'[t] = stage[t] /\ req'[t] = None /\ now'[t] = now[t]
      /\ answer'[t] = None /\ written'[t] = 0 /\ clock' = clock
  BY <1>1 DEF Receive, TypeOK
<1>3. stage[t] = "none"
  BY <1>1 DEF Placed, Method
<1>4. TaskInv(t)'
  BY <1>1, <1>2, <1>3
  DEF TaskInv, Placed, Checked, Known, Found, Effect, AnswerMatches, Method
<1>5. OthersStay(t)
  BY <1>1 DEF Receive, TypeOK, OthersStay, Unmoved
<1> QED
  BY <1>4, <1>5 DEF Fine

(***************************************************************************)
(* The invariant, and what follows from it.                                *)
(***************************************************************************)

LEMMA TasksStep == Inv /\ [Next]_vars => \A q \in Task : TaskInv(q)'
<1> SUFFICES ASSUME Inv, [Next]_vars PROVE \A q \in Task : TaskInv(q)'
  OBVIOUS
<1>0. TypeOK' /\ Grows
  BY TypeStep, TableStep
<1>1. \A t \in Task : Fine(t) => \A q \in Task : TaskInv(q)'
  BY <1>0, UnmovedTask DEF Fine, OthersStay
<1>2. ASSUME NEW t \in Task, Run(t) PROVE Fine(t)
  BY <1>0, <1>2, EnterFine, SelectFine, InsertFine, UpdateRowFine, DeleteRowFine,
     AfterGetByIdFine, AfterGetByEmailFine, AfterWriteFine DEF Run
<1>3. ASSUME NEW t \in Task, Submit(t) \/ Acquire(t) \/ ConnectionLost(t) \/ Receive(t)
      PROVE  Fine(t)
  BY <1>3, SubmitFine, AcquireFine, ConnectionLostFine, ReceiveFine
<1>4. CASE Tick \/ UNCHANGED vars
  <2>1. \A q \in Task : Unmoved(q)
    BY <1>4 DEF Tick, vars, Unmoved, table
  <2> QED
    BY <1>0, <2>1, UnmovedTask
<1> QED
  BY <1>1, <1>2, <1>3, <1>4 DEF Next

LEMMA InvInit == Init => Inv
<1> SUFFICES ASSUME Init PROVE Inv
  OBVIOUS
<1>1. TypeOK
  BY TypeInit
<1>2. IsFiniteSet({}) /\ Cardinality({}) = 0
  BY FS_EmptySet
<1>3. ConnectionsAccountedFor /\ IsFiniteSet(held)
  BY <1>2, ServiceAssumption DEF Init, ConnectionsAccountedFor
<1>4. StampsInOrder
  BY DEF Init, StampsInOrder
<1>5. \A t \in Task : TaskInv(t)
  BY DEF Init, TaskInv, Placed, Checked, Known, Found, Effect, AnswerMatches, Method
<1> QED
  BY <1>1, <1>3, <1>4, <1>5 DEF Inv

LEMMA InvStep == Inv /\ [Next]_vars => Inv'
  BY TypeStep, AccountedStep, TableStep, TasksStep DEF Inv, Accounted

(* The inductive invariant holds in every reachable state. *)
THEOREM Invariance == Spec => []Inv
<1> QED
  BY InvInit, InvStep, PTL DEF Spec

(* Every variable of the service over PostgreSQL keeps its type: no        *)
(* interleaving and no lost connection stores a row that is no user, gives *)
(* out an id twice, or lets one request write two rows.                    *)
THEOREM TypeCorrectness == Spec => []TypeOK
<1>1. Inv => TypeOK
  BY DEF Inv
<1> QED
  BY <1>1, Invariance, PTL

(* A connection is out of the pool exactly while a statement of its task   *)
(* is in flight, and the pool's maximum is kept, for any pool and tasks.   *)
THEOREM ConnectionsNeverLeak == Spec => []ConnectionsAccountedFor
<1>1. Inv => ConnectionsAccountedFor
  BY DEF Inv
<1> QED
  BY <1>1, Invariance, PTL

(* No row is updated before it was created, whenever update read the clock. *)
THEOREM TimestampsAreOrdered == Spec => []CreatedBeforeUpdated
<1>1. Inv => CreatedBeforeUpdated
  BY DEF Inv, StampsInOrder, CreatedBeforeUpdated
<1> QED
  BY <1>1, Invariance, PTL

(* What a client is told is what was written, up to answers of 500.        *)
THEOREM AnswersMatchEffects == Spec => []AnswerMatchesEffect
<1>1. Inv => AnswerMatchesEffect
  BY DEF Inv, TaskInv, AnswerMatches, AnswerMatchesEffect
<1> QED
  BY <1>1, Invariance, PTL

(* No step changes a field of a row but one that runs the UPDATE of a      *)
(* request for that row and that value.                                    *)
ChangesAsAsked ==
  \A i \in DOMAIN rows \cap DOMAIN rows' : \A field \in {"name", "email", "status"} :
    rows'[i][field] /= rows[i][field] =>
      \E t \in Task : Asked(t, i, field, rows'[i][field])

LEMMA ChangesStep == Inv /\ [Next]_vars => ChangesAsAsked
<1> SUFFICES ASSUME Inv, [Next]_vars PROVE ChangesAsAsked
  OBVIOUS
<1>0. TypeOK
  BY DEF Inv
<1>1. rows' = rows => ChangesAsAsked
  BY DEF ChangesAsAsked
<1>2. ASSUME NEW t \in Task, Insert(t) PROVE ChangesAsAsked
  <2>1. rows' = Stored(rows, seq, FromParams(req[t])) /\ seq \notin DOMAIN rows
    BY <1>0, <1>2 DEF Insert, TypeOK
  <2> QED
    BY <2>1 DEF Stored, ChangesAsAsked
<1>3. ASSUME NEW t \in Task, DeleteRow(t) PROVE ChangesAsAsked
  <2>1. rows' = rows \/ rows' = Removed(rows, req[t].id)
    BY <1>3 DEF DeleteRow
  <2> QED
    BY <1>1, <2>1 DEF Removed, ChangesAsAsked
<1>4. ASSUME NEW t \in Task, UpdateRow(t), req[t].id \in DOMAIN rows PROVE ChangesAsAsked
  <2>1. /\ rows' = Stored(rows, req[t].id, WithUpdates(rows[req[t].id], req[t]))
        /\ pc[t] = "update"
    BY <1>4 DEF UpdateRow, At
  <2> SUFFICES ASSUME NEW i \in DOMAIN rows \cap DOMAIN rows',
                      NEW field \in {"name", "email", "status"},
                      rows'[i][field] /= rows[i][field]
               PROVE  Asked(t, i, field, rows'[i][field])
    BY DEF ChangesAsAsked
  <2>2. i = req[t].id /\ rows'[i] = WithUpdates(rows[i], req[t])
    BY <2>1 DEF Stored
  <2>3. rows'[i][field] = OrElse(req[t][field], rows[i][field])
    BY <2>2 DEF WithUpdates
  <2> QED
    BY <2>1, <2>2, <2>3 DEF OrElse, Asked
<1>5. ASSUME NEW t \in Task, UpdateRow(t), req[t].id \notin DOMAIN rows PROVE rows' = rows
  BY <1>5 DEF UpdateRow
<1>6. ASSUME NEW t \in Task, Run(t) PROVE ChangesAsAsked
  <2>1. GoesOn(t) => rows' = rows
    BY DEF GoesOn, table
  <2>2. SelectById(t) \/ SelectByEmail(t) => rows' = rows
    BY DEF SelectById, SelectByEmail, table
  <2> QED
    BY <1>0, <1>1, <1>2, <1>3, <1>4, <1>5, <1>6, <2>1, <2>2, EnterGoesOn, AfterGetByIdGoesOn,
       AfterGetByEmailGoesOn, AfterWriteGoesOn DEF Run
<1>7. ASSUME NEW t \in Task, Submit(t) \/ Acquire(t) \/ ConnectionLost(t) \/ Receive(t)
      PROVE  rows' = rows
  BY <1>7 DEF Submit, Acquire, ConnectionLost, Receive, table
<1>8. Tick \/ UNCHANGED vars => rows' = rows
  BY DEF Tick, vars, table
<1> QED
  BY <1>1, <1>6, <1>7, <1>8 DEF Next

(* A field of a row changes only to what a request in flight asked for:    *)
(* overlapping updates of different fields never undo each other.          *)
THEOREM FieldsOnlyChangeAsAsked == Spec => FieldsChangeAsAsked
<1>1. Inv /\ [Next]_vars => [ChangesAsAsked]_vars
  BY ChangesStep
<1>2. [ChangesAsAsked]_vars => [\A i \in DOMAIN rows \cap DOMAIN rows' :
         \A field \in {"name", "email", "status"} :
           rows'[i][field] /= rows[i][field] =>
             \E t \in Task : Asked(t, i, field, rows'[i][field])]_vars
  BY DEF ChangesAsAsked
<1> QED
  BY <1>1, <1>2, Invariance, PTL DEF Spec, FieldsChangeAsAsked

(***************************************************************************)
(* The service implements UserStore as long as nobody writes on an         *)
(* outdated check: each step is a step of the store, or leaves all that    *)
(* the store speaks of unchanged.                                          *)
(***************************************************************************)

(* UserStore brings the vocabulary of UserDomain along: it is the same.    *)
LEMMA SameRequests == Store!AnyRequest = AnyRequest
  BY DEF AnyRequest, CreateUserParams, UpdateUserParams, UserTarget, Status,
     Store!AnyRequest, Store!CreateUserParams, Store!UpdateUserParams, Store!UserTarget,
     Store!Status

LEMMA SameRules ==
  /\ \A p : Store!WellFormedCreate(p) = WellFormedCreate(p)
  /\ \A p : Store!WellFormedEmail(p) = WellFormedEmail(p)
  /\ \A p : Store!WellFormedStatus(p) = WellFormedStatus(p)
  /\ \A u : Store!CanBeDeleted(u) = CanBeDeleted(u)
  BY DEF WellFormedCreate, WellFormedEmail, WellFormedStatus, CanBeDeleted, Status,
     Store!WellFormedCreate, Store!WellFormedEmail, Store!WellFormedStatus,
     Store!CanBeDeleted, Store!Status

LEMMA SameEffects ==
  /\ \A p : Store!FromParams(p) = FromParams(p)
  /\ \A u, p : Store!WithUpdates(u, p) = WithUpdates(u, p)
  /\ \A f, i, u : Store!Stored(f, i, u) = Stored(f, i, u)
  /\ \A f, i : Store!Removed(f, i) = Removed(f, i)
  /\ \A f, e : Store!EmailMatches(f, e) = EmailMatches(f, e)
  BY DEF FromParams, WithUpdates, OrElse, Stored, Removed, EmailMatches, SameEmail,
     Store!FromParams, Store!WithUpdates, Store!OrElse, Store!Stored, Store!Removed,
     Store!EmailMatches, Store!SameEmail

(* What the store sees of the answers. *)
Answers == [t \in Task |-> Decided(t)]

LEMMA UndecidedTask ==
  ASSUME Inv, NEW t \in Task, pc[t] /= "answered", stage[t] /= "reply"
  PROVE  Decided(t) = None
  BY DEF Inv, TaskInv, Placed, Decided

LEMMA OneDecides ==
  ASSUME NEW t \in Task, OthersStay(t)
  PROVE  Answers' = [Answers EXCEPT ![t] = Decided(t)']
<1>1. ASSUME NEW q \in Task, q /= t PROVE Decided(q)' = Decided(q)
  BY <1>1 DEF OthersStay, Unmoved, Decided
<1> QED
  BY <1>1 DEF Answers

(* A step of t, as the store sees it. *)
Moves(t) == OthersStay(t) /\ UNCHANGED req

Maps == [Store!Next]_(Store!vars)

LEMMA Unnoticed ==
  ASSUME NEW t \in Task, Moves(t), UNCHANGED <<rows, seq>>, Decided(t)' = Decided(t)
  PROVE  Maps
<1>1. Answers' = Answers
  BY OneDecides DEF Moves, Answers
<1> QED
  BY <1>1 DEF Moves, Maps, Store!vars, Answers

LEMMA RejectionDeserved ==
  ASSUME NEW t \in Task, Moves(t), UNCHANGED <<rows, seq>>, req[t] /= None,
         NEW code \in {"bad_request", "not_found", "already_exists", "conflict"},
         Store!Deserves(req[t], code),
         Decided(t) = None, Decided(t)' = Outcome(code, None)
  PROVE  Maps
<1>1. Answers' = [Answers EXCEPT ![t] = Outcome(code, None)]
  BY OneDecides DEF Moves
<1>2. Store!Pending(t)
  BY DEF Store!Pending
<1>3. Store!Reject(t, code)
  BY <1>1, <1>2 DEF Store!Reject, Store!Rejected, Outcome, Moves, Answers
<1> QED
  BY <1>3 DEF Maps, Store!Next, Store!Serve, Store!Rejection

(* The three ways in which a task moves on decide this of its answer. *)
LEMMA CallDecides ==
  ASSUME TypeOK, NEW t \in Task, NEW method, Call(t, method)
  PROVE  Decided(t)' = answer[t]
  BY DEF TypeOK, Call, Decided

LEMMA ReturnDecides ==
  ASSUME TypeOK, NEW t \in Task, NEW code, NEW user, Return(t, code, user)
  PROVE  Decided(t)' = Outcome(code, user)
  BY DEF TypeOK, Return, Decided, Outcome

LEMMA ReplyDecides ==
  ASSUME TypeOK, NEW t \in Task, NEW user, NEW n, Reply(t, user, n)
  PROVE  Decided(t)' = Verdict(pc[t], req[t], user, n)
<1>1. /\ stage'[t] = "reply" /\ result'[t] = user /\ number'[t] = n
      /\ pc' = pc /\ req' = req
  BY DEF TypeOK, Reply
<1> QED
  BY <1>1 DEF Decided

(* The verdicts, one by one. *)
LEMMA Verdicts ==
  ASSUME NEW r, NEW user, NEW n
  PROVE  /\ user = None => Verdict("get_by_id", r, user, n) = Outcome("not_found", None)
         /\ user /= None =>
              /\ r.op = "get" => Verdict("get_by_id", r, user, n) = Outcome("ok", user)
              /\ r.op = "delete" =>
                   Verdict("get_by_id", r, user, n) =
                     IF CanBeDeleted(user) THEN None ELSE Outcome("conflict", None)
              /\ r.op = "update" => Verdict("get_by_id", r, user, n) = None
         /\ r.op = "create" =>
              Verdict("get_by_email", r, user, n) =
                IF n = 0 THEN None ELSE Outcome("already_exists", None)
         /\ r.op = "update" =>
              Verdict("get_by_email", r, user, n) =
                IF n \in {0, r.id} THEN None ELSE Outcome("already_exists", None)
         /\ Verdict("create", r, user, n) = Outcome("ok", user)
         /\ Verdict("update", r, user, n) =
              IF user = None THEN Outcome("not_found", None) ELSE Outcome("ok", user)
         /\ Verdict("delete", r, user, n) =
              IF n = 0 THEN Outcome("not_found", None) ELSE Outcome("ok", None)
  BY DEF Verdict

(* The steps that only look at the request. *)
LEMMA EnterMaps ==
  ASSUME Inv, NEW t \in Task, Enter(t)
  PROVE  Maps
<1>1. pc[t] = "call" /\ UNCHANGED <<rows, seq, req>>
  BY DEF Enter, table
<1>2. TypeOK /\ Placed(t) /\ req[t] /= None /\ answer[t] = None
  BY <1>1, Underway
<1>3. Moves(t)
  BY <1>1, EnterFine DEF Fine, Moves
<1>4. Decided(t) = None
  BY <1>1, <1>2, UndecidedTask DEF Placed, Method
<1>5. CASE req[t].op = "create" /\ ~WellFormedCreate(req[t])
  <2>1. Raise(t, "bad_request")
    BY <1>5 DEF Enter
  <2>2. Decided(t)' = Outcome("bad_request", None)
    BY <1>2, <2>1, ReturnDecides DEF Raise
  <2>3. Store!Deserves(req[t], "bad_request")
    BY <1>5, SameRules DEF Store!Deserves, Store!MalformedRequest
  <2> QED
    BY <1>1, <1>2, <1>3, <1>4, <2>2, <2>3, RejectionDeserved
<1>6. CASE ~(req[t].op = "create" /\ ~WellFormedCreate(req[t]))
  <2>1. Call(t, "get_by_id") \/ Call(t, "get_by_email")
    BY <1>6 DEF Enter
  <2>2. Decided(t)' = None
    BY <1>2, <2>1, CallDecides
  <2> QED
    BY <1>1, <1>3, <1>4, <2>2, Unnoticed
<1> QED
  BY <1>5, <1>6

(* A task that checks the status was undecided, and is turned away with    *)
(* reason or goes on undecided.                                            *)
LEMMA CheckStatusMaps ==
  ASSUME TypeOK, NEW t \in Task, CheckStatusThenUpdate(t), Moves(t), UNCHANGED <<rows, seq>>,
         req[t] /= None, req[t].op = "update", answer[t] = None, Decided(t) = None
  PROVE  Maps
<1>1. CASE WellFormedStatus(req[t])
  <2>1. Decided(t)' = None
    BY <1>1, CallDecides DEF CheckStatusThenUpdate
  <2> QED
    BY <2>1, Unnoticed
<1>2. CASE ~WellFormedStatus(req[t])
  <2>1. Decided(t)' = Outcome("bad_request", None)
    BY <1>2, ReturnDecides DEF CheckStatusThenUpdate, Raise
  <2>2. Store!Deserves(req[t], "bad_request")
    BY <1>2, SameRules DEF Store!Deserves, Store!MalformedRequest
  <2> QED
    BY <2>1, <2>2, RejectionDeserved
<1> QED
  BY <1>1, <1>2

LEMMA AfterGetByIdMaps ==
  ASSUME Inv, NEW t \in Task, AfterGetById(t)
  PROVE  Maps
<1>1. pc[t] = "get_by_id" /\ stage[t] = "reply" /\ UNCHANGED <<rows, seq, req>>
  BY DEF AfterGetById, Resume, At, table
<1>2. TypeOK /\ Checked(t) /\ req[t] /= None /\ answer[t] = None
      /\ req[t].op \in {"create", "update", "get", "delete"} /\ req[t].op /= "create"
  BY <1>1, Underway DEF Method, Checked
<1>3. Moves(t)
  BY <1>1, AfterGetByIdFine DEF Fine, Moves
<1>4. Decided(t) = Verdict("get_by_id", req[t], result[t], number[t])
  BY <1>1 DEF Decided
<1>5. CASE result[t] = None
  <2>1. Raise(t, "not_found")
    BY <1>5 DEF AfterGetById
  <2>2. Decided(t)' = Decided(t)
    BY <1>2, <1>4, <1>5, <2>1, ReturnDecides, Verdicts DEF Raise
  <2> QED
    BY <1>1, <1>3, <2>2, Unnoticed
<1>6. CASE result[t] /= None /\ req[t].op = "get"
  <2>1. Return(t, "ok", result[t])
    BY <1>6 DEF AfterGetById
  <2>2. Decided(t)' = Decided(t)
    BY <1>2, <1>4, <1>6, <2>1, ReturnDecides, Verdicts
  <2> QED
    BY <1>1, <1>3, <2>2, Unnoticed
<1>7. CASE result[t] /= None /\ req[t].op = "delete"
  <2>1. IF CanBeDeleted(result[t]) THEN Call(t, "delete") ELSE Raise(t, "conflict")
    BY <1>7 DEF AfterGetById
  <2>2. Decided(t) = IF CanBeDeleted(result[t]) THEN None ELSE Outcome("conflict", None)
    BY <1>4, <1>7, Verdicts
  <2>3. Decided(t)' = Decided(t)
    BY <1>2, <2>1, <2>2, CallDecides, ReturnDecides DEF Raise
  <2> QED
    BY <1>1, <1>3, <2>3, Unnoticed
<1>8. CASE result[t] /= None /\ req[t].op = "update"
  <2>1. Decided(t) = None
    BY <1>4, <1>8, Verdicts
  <2>2. CASE ~WellFormedEmail(req[t])
    <3>1. Decided(t)' = Outcome("bad_request", None)
      BY <1>2, <1>8, <2>2, ReturnDecides DEF AfterGetById, Raise
    <3>2. Store!Deserves(req[t], "bad_request")
      BY <1>8, <2>2, SameRules DEF Store!Deserves, Store!MalformedRequest
    <3> QED
      BY <1>1, <1>2, <1>3, <2>1, <3>1, <3>2, RejectionDeserved
  <2>3. CASE WellFormedEmail(req[t]) /\ req[t].email /= None
    <3>1. Decided(t)' = None
      BY <1>2, <1>8, <2>3, CallDecides DEF AfterGetById
    <3> QED
      BY <1>1, <1>3, <2>1, <3>1, Unnoticed
  <2>4. CASE WellFormedEmail(req[t]) /\ req[t].email = None
    <3>1. CheckStatusThenUpdate(t)
      BY <1>8, <2>4 DEF AfterGetById
    <3> QED
      BY <1>1, <1>2, <1>3, <1>8, <2>1, <3>1, CheckStatusMaps
  <2> QED
    BY <2>2, <2>3, <2>4
<1> QED
  BY <1>2, <1>5, <1>6, <1>7, <1>8

LEMMA AfterGetByEmailMaps ==
  ASSUME Inv, NEW t \in Task, AfterGetByEmail(t)
  PROVE  Maps
<1>1. pc[t] = "get_by_email" /\ stage[t] = "reply" /\ UNCHANGED <<rows, seq, req>>
  BY DEF AfterGetByEmail, Resume, At, table
<1>2. TypeOK /\ Checked(t) /\ req[t] /= None /\ answer[t] = None
  BY <1>1, Underway DEF Method
<1>3. Moves(t)
  BY <1>1, AfterGetByEmailFine DEF Fine, Moves
<1>4. Decided(t) = Verdict("get_by_email", req[t], result[t], number[t])
  BY <1>1 DEF Decided
<1>5. CASE req[t].op = "create"
  <2>1. IF number[t] = 0 THEN Call(t, "create") ELSE Raise(t, "already_exists")
    BY <1>5 DEF AfterGetByEmail
  <2>2. Decided(t) = IF number[t] = 0 THEN None ELSE Outcome("already_exists", None)
    BY <1>4, <1>5, Verdicts
  <2>3. Decided(t)' = Decided(t)
    BY <1>2, <2>1, <2>2, CallDecides, ReturnDecides DEF Raise
  <2> QED
    BY <1>1, <1>3, <2>3, Unnoticed
<1>6. CASE req[t].op = "update"
  <2>1. Decided(t) = IF number[t] \in {0, req[t].id} THEN None ELSE Outcome("already_exists", None)
    BY <1>4, <1>6, Verdicts
  <2>2. CASE number[t] \in {0, req[t].id}
    <3>1. CheckStatusThenUpdate(t)
      BY <1>6, <2>2 DEF AfterGetByEmail
    <3> QED
      BY <1>1, <1>2, <1>3, <1>6, <2>1, <2>2, <3>1, CheckStatusMaps
  <2>3. CASE number[t] \notin {0, req[t].id}
    <3>1. Raise(t, "already_exists")
      BY <1>6, <2>3 DEF AfterGetByEmail
    <3>2. Decided(t)' = Decided(t)
      BY <1>2, <2>1, <2>3, <3>1, ReturnDecides DEF Raise
    <3> QED
      BY <1>1, <1>3, <3>2, Unnoticed
  <2> QED
    BY <2>2, <2>3
<1> QED
  BY <1>1, <1>2, <1>5, <1>6 DEF Checked

(* The answer was decided when the write took effect. *)
LEMMA AfterWriteMaps ==
  ASSUME Inv, NEW t \in Task, AfterCreate(t) \/ AfterUpdate(t) \/ AfterDelete(t)
  PROVE  Maps
<1>1. stage[t] = "reply" /\ UNCHANGED <<rows, seq, req>> /\ TypeOK
  BY DEF AfterCreate, AfterUpdate, AfterDelete, Resume, At, table, Inv
<1>2. Moves(t)
  BY <1>1, AfterWriteFine DEF Fine, Moves
<1>3. Decided(t) = Verdict(pc[t], req[t], result[t], number[t])
  BY <1>1 DEF Decided
<1>4. CASE AfterCreate(t)
  <2>1. pc[t] = "create" /\ Return(t, "ok", result[t])
    BY <1>4 DEF AfterCreate, Resume, At
  <2>2. Decided(t)' = Decided(t)
    BY <1>1, <1>3, <2>1, ReturnDecides, Verdicts
  <2> QED
    BY <1>1, <1>2, <2>2, Unnoticed
<1>5. CASE AfterUpdate(t)
  <2>1. /\ pc[t] = "update"
        /\ IF result[t] = None THEN Raise(t, "not_found") ELSE Return(t, "ok", result[t])
    BY <1>5 DEF AfterUpdate, Resume, At
  <2>2. Decided(t)' = Decided(t)
    BY <1>1, <1>3, <2>1, ReturnDecides, Verdicts DEF Raise
  <2> QED
    BY <1>1, <1>2, <2>2, Unnoticed
<1>6. CASE AfterDelete(t)
  <2>1. /\ pc[t] = "delete"
        /\ IF number[t] = 0 THEN Raise(t, "not_found") ELSE Return(t, "ok", None)
    BY <1>6 DEF AfterDelete, Resume, At
  <2>2. Decided(t)' = Decided(t)
    BY <1>1, <1>3, <2>1, ReturnDecides, Verdicts DEF Raise
  <2> QED
    BY <1>1, <1>2, <2>2, Unnoticed
<1> QED
  BY <1>4, <1>5, <1>6

(* The statements: the rows of this instant decide. *)
LEMMA AtQuery ==
  ASSUME Inv, NEW t \in Task, stage[t] = "query"
  PROVE  /\ TypeOK /\ Checked(t) /\ pc[t] \in Method /\ Decided(t) = None
         /\ req[t] /= None /\ req[t] \in AnyRequest /\ answer[t] = None
         /\ req[t].op \in {"create", "update", "get", "delete"}
<1>1. pc[t] \in Method
  BY DEF Inv, TaskInv, Placed
<1> QED
  BY <1>1, Underway DEF Decided

LEMMA SelectByIdMaps ==
  ASSUME Inv, TypeOK', Grows, NEW t \in Task, SelectById(t)
  PROVE  Maps
<1> DEFINE user == IF req[t].id \in DOMAIN rows THEN rows[req[t].id] ELSE None
<1>1. /\ pc[t] = "get_by_id" /\ stage[t] = "query" /\ UNCHANGED <<rows, seq, req>>
      /\ Reply(t, user, 0)
  BY DEF SelectById, At, Reply, table
<1>2. /\ TypeOK /\ Decided(t) = None /\ req[t] /= None /\ req[t].op /= "create"
      /\ req[t].op \in {"create", "update", "get", "delete"} /\ answer[t] = None
  BY <1>1, AtQuery DEF Checked
<1>3. Moves(t)
  BY <1>1, SelectFine DEF Fine, Moves
<1>4. Decided(t)' = Verdict("get_by_id", req[t], user, 0)
  BY <1>1, <1>2, ReplyDecides
<1>5. CASE req[t].id \notin DOMAIN rows
  <2>1. user = None
    BY <1>5
  <2>2. Decided(t)' = Outcome("not_found", None)
    BY <1>4, <2>1, Verdicts
  <2>3. Store!Deserves(req[t], "not_found")
    BY <1>2, <1>5 DEF Store!Deserves, Store!TargetMissing
  <2> QED
    BY <1>1, <1>2, <1>3, <2>2, <2>3, RejectionDeserved
<1>6. CASE req[t].id \in DOMAIN rows
  <2>1. user = rows[req[t].id] /\ user \in User
    BY <1>2, <1>6 DEF TypeOK
  <2>2. user /= None
    BY <2>1, AnswersAreAnswers
  <2> HIDE DEF user
  <2>3. CASE req[t].op = "get"
    <3>1. Decided(t)' = Outcome("ok", user)
      BY <1>4, <2>2, <2>3, Verdicts
    <3>2. Answers' = [Answers EXCEPT ![t] = Outcome("ok", user)]
      BY <1>3, <3>1, OneDecides DEF Moves
    <3>3. Store!Acceptable(t, "get")
      BY <1>2, <1>6, <2>3
      DEF Store!Acceptable, Store!Pending, Store!Deserves, Store!MalformedRequest,
          Store!TargetMissing, Store!AddressTaken, Store!TargetProtected
    <3>4. Store!Get(t)
      BY <1>1, <2>1, <3>2, <3>3 DEF Store!Get, Store!Ok, Outcome, Answers
    <3> QED
      BY <3>4 DEF Maps, Store!Next, Store!Serve
  <2>4. CASE req[t].op = "delete" /\ ~CanBeDeleted(user)
    <3>1. Decided(t)' = Outcome("conflict", None)
      BY <1>4, <2>2, <2>4, Verdicts
    <3>2. Store!Deserves(req[t], "conflict")
      BY <1>6, <2>1, <2>4, SameRules DEF Store!Deserves, Store!TargetProtected
    <3> QED
      BY <1>1, <1>2, <1>3, <3>1, <3>2, RejectionDeserved
  <2>5. CASE req[t].op = "update" \/ (req[t].op = "delete" /\ CanBeDeleted(user))
    <3>1. Decided(t)' = Decided(t)
      BY <1>2, <1>4, <2>2, <2>5, Verdicts
    <3> QED
      BY <1>1, <1>3, <3>1, Unnoticed
  <2> QED
    BY <1>2, <2>3, <2>4, <2>5
<1> QED
  BY <1>5, <1>6

LEMMA SelectByEmailMaps ==
  ASSUME Inv, TypeOK', Grows, NEW t \in Task, SelectByEmail(t)
  PROVE  Maps
<1> DEFINE matches == EmailMatches(rows, req[t].email)
<1>1. pc[t] = "get_by_email" /\ stage[t] = "query" /\ UNCHANGED <<rows, seq, req>>
  BY DEF SelectByEmail, At, Reply, table
<1>2. TypeOK /\ Checked(t) /\ Decided(t) = None /\ req[t] /= None /\ answer[t] = None
  BY <1>1, AtQuery
<1>3. Moves(t)
  BY <1>1, SelectFine DEF Fine, Moves
<1>4. PICK found \in IF matches = {} THEN {0} ELSE matches : Reply(t, None, found)
  BY DEF SelectByEmail
<1>5. found /= 0 => found \in matches
  BY <1>4
<1>6. Decided(t)' = Verdict("get_by_email", req[t], None, found)
  BY <1>1, <1>2, <1>4, ReplyDecides
<1> HIDE DEF matches
<1>7. CASE req[t].op = "create"
  <2>1. Decided(t)' = IF found = 0 THEN None ELSE Outcome("already_exists", None)
    BY <1>6, <1>7, Verdicts
  <2>2. CASE found = 0
    BY <1>1, <1>2, <1>3, <2>1, <2>2, Unnoticed
  <2>3. CASE found /= 0
    <3>1. Store!Deserves(req[t], "already_exists")
      BY <1>5, <1>7, <2>3, SameEffects DEF Store!Deserves, Store!AddressTaken, matches
    <3> QED
      BY <1>1, <1>2, <1>3, <2>1, <2>3, <3>1, RejectionDeserved
  <2> QED
    BY <2>2, <2>3
<1>8. CASE req[t].op = "update" /\ req[t].email /= None
  <2>1. Decided(t)' = IF found \in {0, req[t].id} THEN None ELSE Outcome("already_exists", None)
    BY <1>6, <1>8, Verdicts
  <2>2. CASE found \in {0, req[t].id}
    BY <1>1, <1>2, <1>3, <2>1, <2>2, Unnoticed
  <2>3. CASE found \notin {0, req[t].id}
    <3>1. matches \ {req[t].id} /= {}
      BY <1>5, <2>3
    <3>2. Store!Deserves(req[t], "already_exists")
      BY <1>8, <3>1, SameEffects DEF Store!Deserves, Store!AddressTaken, matches
    <3> QED
      BY <1>1, <1>2, <1>3, <2>1, <2>3, <3>2, RejectionDeserved
  <2> QED
    BY <2>2, <2>3
<1> QED
  BY <1>1, <1>2, <1>7, <1>8 DEF Checked

LEMMA InsertMaps ==
  ASSUME Inv, TypeOK', Grows, NEW t \in Task, Insert(t), ~Outdated(t)
  PROVE  Maps
<1> DEFINE user == FromParams(req[t])
<1>1. /\ pc[t] = "create" /\ stage[t] = "query" /\ UNCHANGED req
      /\ rows' = Stored(rows, seq, user) /\ seq' = seq + 1 /\ Reply(t, user, 0)
  BY DEF Insert, At, Reply
<1>2. /\ TypeOK /\ Decided(t) = None /\ req[t] /= None
      /\ req[t].op = "create" /\ WellFormedCreate(req[t])
  BY <1>1, AtQuery DEF Checked
<1>3. Moves(t)
  BY <1>1, InsertFine DEF Fine, Moves
<1> HIDE DEF user
<1>4. Decided(t)' = Outcome("ok", user)
  BY <1>1, <1>2, ReplyDecides, Verdicts
<1>5. Answers' = [Answers EXCEPT ![t] = Outcome("ok", user)]
  BY <1>3, <1>4, OneDecides DEF Moves
<1>6. EmailMatches(rows, req[t].email) = {}
  BY <1>1 DEF Outdated
<1>7. Store!Acceptable(t, "create")
  BY <1>2, <1>6, SameRules, SameEffects
  DEF Store!Acceptable, Store!Pending, Store!Deserves, Store!MalformedRequest,
      Store!TargetMissing, Store!AddressTaken, Store!TargetProtected
<1>8. /\ seq \in (1 .. (seq' - 1)) \ (1 .. (seq - 1))
      /\ 1 .. (seq' - 1) = (1 .. (seq - 1)) \cup {seq}
  BY <1>1, <1>2 DEF TypeOK
<1>9. Store!Create(t)
  BY <1>1, <1>5, <1>7, <1>8, SameEffects DEF Store!Create, Store!Ok, Outcome, Answers, user
<1> QED
  BY <1>9 DEF Maps, Store!Next, Store!Serve

(* An UPDATE or DELETE that finds no row: it is gone since the usecase     *)
(* looked.                                                                 *)
LEMMA GoneMaps ==
  ASSUME NEW t \in Task, Moves(t), UNCHANGED <<rows, seq>>, req[t] /= None,
         req[t].op /= "create", req[t].id \notin DOMAIN rows,
         Decided(t) = None, Decided(t)' = Outcome("not_found", None)
  PROVE  Maps
<1>1. Store!Deserves(req[t], "not_found")
  BY DEF Store!Deserves, Store!TargetMissing
<1> QED
  BY <1>1, RejectionDeserved

LEMMA UpdateRowMaps ==
  ASSUME Inv, TypeOK', Grows, NEW t \in Task, UpdateRow(t), ~Outdated(t)
  PROVE  Maps
<1>1. pc[t] = "update" /\ stage[t] = "query" /\ UNCHANGED <<seq, req>>
  BY DEF UpdateRow, At, Reply
<1>2. /\ TypeOK /\ Decided(t) = None /\ req[t] /= None
      /\ req[t].op = "update" /\ WellFormedEmail(req[t]) /\ WellFormedStatus(req[t])
  BY <1>1, AtQuery DEF Checked
<1>3. Moves(t)
  BY <1>1, UpdateRowFine DEF Fine, Moves
<1>4. CASE req[t].id \notin DOMAIN rows
  <2>1. Reply(t, None, 0) /\ UNCHANGED rows
    BY <1>4 DEF UpdateRow
  <2>2. Decided(t)' = Outcome("not_found", None)
    BY <1>1, <1>2, <2>1, ReplyDecides, Verdicts
  <2> QED
    BY <1>1, <1>2, <1>3, <1>4, <2>1, <2>2, GoneMaps
<1>5. CASE req[t].id \in DOMAIN rows
  <2> DEFINE updated == WithUpdates(rows[req[t].id], req[t])
  <2>1. Reply(t, updated, 0) /\ rows' = Stored(rows, req[t].id, updated)
    BY <1>5 DEF UpdateRow
  <2>2. updated /= None
    BY <1>1, <1>5, AtStatement, AnswersAreAnswers
  <2> HIDE DEF updated
  <2>3. Decided(t)' = Outcome("ok", updated)
    BY <1>1, <1>2, <2>1, <2>2, ReplyDecides, Verdicts
  <2>4. Answers' = [Answers EXCEPT ![t] = Outcome("ok", updated)]
    BY <1>3, <2>3, OneDecides DEF Moves
  <2>5. req[t].email /= None => EmailMatches(rows, req[t].email) \ {req[t].id} = {}
    BY <1>1, <1>5 DEF Outdated
  <2>6. Store!Acceptable(t, "update")
    BY <1>2, <1>5, <2>5, SameRules, SameEffects
    DEF Store!Acceptable, Store!Pending, Store!Deserves, Store!MalformedRequest,
        Store!TargetMissing, Store!AddressTaken, Store!TargetProtected
  <2>7. Store!Update(t)
    BY <1>1, <2>1, <2>4, <2>6, SameEffects DEF Store!Update, Store!Ok, Outcome, Answers, updated
  <2> QED
    BY <2>7 DEF Maps, Store!Next, Store!Serve
<1> QED
  BY <1>4, <1>5

LEMMA DeleteRowMaps ==
  ASSUME Inv, TypeOK', Grows, NEW t \in Task, DeleteRow(t), ~Outdated(t)
  PROVE  Maps
<1>1. pc[t] = "delete" /\ stage[t] = "query" /\ UNCHANGED <<seq, req>>
  BY DEF DeleteRow, At, Reply
<1>2. TypeOK /\ Decided(t) = None /\ req[t] /= None /\ req[t].op = "delete"
  BY <1>1, AtQuery DEF Checked
<1>3. Moves(t)
  BY <1>1, DeleteRowFine DEF Fine, Moves
<1>4. CASE req[t].id \notin DOMAIN rows
  <2>1. Reply(t, None, 0) /\ UNCHANGED rows
    BY <1>4 DEF DeleteRow
  <2>2. Decided(t)' = Outcome("not_found", None)
    BY <1>1, <1>2, <2>1, ReplyDecides, Verdicts
  <2> QED
    BY <1>1, <1>2, <1>3, <1>4, <2>1, <2>2, GoneMaps
<1>5. CASE req[t].id \in DOMAIN rows
  <2>1. Reply(t, None, 1) /\ rows' = Removed(rows, req[t].id)
    BY <1>5 DEF DeleteRow
  <2>2. Decided(t)' = Outcome("ok", None)
    BY <1>1, <1>2, <2>1, ReplyDecides, Verdicts
  <2>3. Answers' = [Answers EXCEPT ![t] = Outcome("ok", None)]
    BY <1>3, <2>2, OneDecides DEF Moves
  <2>4. CanBeDeleted(rows[req[t].id])
    BY <1>1, <1>5 DEF Outdated
  <2>5. Store!Acceptable(t, "delete")
    BY <1>2, <1>5, <2>4, SameRules
    DEF Store!Acceptable, Store!Pending, Store!Deserves, Store!MalformedRequest,
        Store!TargetMissing, Store!AddressTaken, Store!TargetProtected
  <2>6. Store!Delete(t)
    BY <1>1, <2>1, <2>3, <2>5, SameEffects DEF Store!Delete, Store!Ok, Outcome, Answers
  <2> QED
    BY <2>6 DEF Maps, Store!Next, Store!Serve
<1> QED
  BY <1>4, <1>5

LEMMA ConnectionLostMaps ==
  ASSUME Inv, NEW t \in Task, ConnectionLost(t)
  PROVE  Maps
<1>1. stage[t] \in {"query", "reply"} /\ Raise(t, "error") /\ UNCHANGED <<rows, seq, req>> /\ TypeOK
  BY DEF ConnectionLost, table, Inv
<1>2. req[t] /= None
  BY <1>1 DEF Inv, TaskInv, Placed, Method
<1>3. Decided(t)' = Outcome("error", None)
  BY <1>1, ReturnDecides DEF Raise
<1>4. OthersStay(t)
  BY ConnectionLostFine DEF Fine
<1>5. Answers' = [Answers EXCEPT ![t] = Outcome("error", None)]
  BY <1>3, <1>4, OneDecides
<1>6. Store!Fail(t)
  BY <1>1, <1>2, <1>5 DEF Store!Fail, Store!Rejected, Outcome, Answers
<1> QED
  BY <1>6 DEF Maps, Store!Next

LEMMA ReceiveMaps ==
  ASSUME Inv, NEW t \in Task, Receive(t)
  PROVE  Maps
<1>1. /\ pc[t] = "answered" /\ stage' = stage /\ answer' = [answer EXCEPT ![t] = None]
      /\ req' = [req EXCEPT ![t] = None] /\ UNCHANGED <<rows, seq>> /\ TypeOK
  BY DEF Receive, Inv
<1>2. stage[t] = "none" /\ answer[t] /= None
  BY <1>1 DEF Inv, TaskInv, Placed, Method
<1>3. Decided(t) = answer[t] /\ Decided(t)' = None
  BY <1>1, <1>2 DEF Decided, TypeOK
<1>4. OthersStay(t)
  BY ReceiveFine DEF Fine
<1>5. Answers' = [Answers EXCEPT ![t] = None]
  BY <1>3, <1>4, OneDecides
<1>6. Store!Receive(t)
  BY <1>1, <1>2, <1>3, <1>5 DEF Store!Receive, Answers
<1> QED
  BY <1>6 DEF Maps, Store!Next

LEMMA SubmitMaps ==
  ASSUME Inv, NEW t \in Task, Submit(t)
  PROVE  Maps
<1>1. pc[t] = "idle" /\ UNCHANGED <<rows, seq, stage, answer>> /\ TypeOK
  BY DEF Submit, table, Inv
<1>2. req[t] = None /\ stage[t] = "none"
  BY <1>1 DEF Inv, TaskInv, Placed, Method
<1>3. PICK r \in AnyRequest : req' = [req EXCEPT ![t] = r]
  BY ServiceAssumption DEF Submit
<1>4. req' = [req EXCEPT ![t] = req'[t]] /\ req'[t] \in AnyRequest
  <2>1. req'[t] = r
    BY <1>1, <1>3 DEF TypeOK
  <2> QED
    BY <1>3, <2>1
<1>5. Decided(t)' = Decided(t)
  BY <1>1, <1>2 DEF Decided
<1>6. Answers' = Answers
  BY <1>5, SubmitFine, OneDecides DEF Fine, Answers
<1>7. Store!Submit(t)
  BY <1>1, <1>2, <1>4, <1>6, SameRequests DEF Store!Submit, Answers
<1> QED
  BY <1>7 DEF Maps, Store!Next

LEMMA AcquireMaps ==
  ASSUME Inv, NEW t \in Task, Acquire(t)
  PROVE  Maps
<1>1. /\ stage[t] = "acquire" /\ stage' = [stage EXCEPT ![t] = "query"]
      /\ UNCHANGED <<rows, seq, req, answer>> /\ TypeOK
  BY DEF Acquire, table, Inv
<1>2. Decided(t)' = Decided(t)
  BY <1>1 DEF Decided, TypeOK
<1> QED
  BY <1>1, <1>2, AcquireFine, Unnoticed DEF Fine, Moves

LEMMA StoreInit == Init => Store!Init
<1> SUFFICES ASSUME Init PROVE Store!Init
  OBVIOUS
<1>1. DOMAIN Seed \subseteq 1 .. (seq - 1)
  BY SeqInit DEF Init
<1>2. Answers = [t \in Task |-> None]
  BY DEF Init, Answers, Decided
<1> QED
  BY <1>1, <1>2 DEF Init, Store!Init, Answers

LEMMA StoreStep == Inv /\ [Next /\ ~WritesOutdated]_vars => [Store!Next]_(Store!vars)
<1> SUFFICES ASSUME Inv, [Next /\ ~WritesOutdated]_vars PROVE Maps
  BY DEF Maps
<1>0. TypeOK' /\ Grows
  BY TypeStep, TableStep
<1>1. CASE Tick \/ UNCHANGED vars
  <2>1. UNCHANGED <<rows, seq, req, pc, stage, result, number, answer>>
    BY <1>1 DEF Tick, vars, table
  <2> QED
    BY <2>1 DEF Maps, Store!vars, Decided
<1>2. ASSUME NEW t \in Task, Run(t), ~WritesOutdated PROVE Maps
  <2>1. Insert(t) \/ UpdateRow(t) \/ DeleteRow(t) => ~Outdated(t)
    BY <1>2 DEF WritesOutdated
  <2> QED
    BY <1>0, <1>2, <2>1, EnterMaps, SelectByIdMaps, SelectByEmailMaps, InsertMaps, UpdateRowMaps,
       DeleteRowMaps, AfterGetByIdMaps, AfterGetByEmailMaps, AfterWriteMaps DEF Run
<1>3. ASSUME NEW t \in Task, Submit(t) \/ Acquire(t) \/ ConnectionLost(t) \/ Receive(t)
      PROVE  Maps
  BY <1>3, SubmitMaps, AcquireMaps, ConnectionLostMaps, ReceiveMaps
<1> QED
  BY <1>1, <1>2, <1>3 DEF Next

(* Writes on outdated checks are all that sets the service over PostgreSQL *)
(* apart from UserStore: without them every request takes effect, or is    *)
(* turned away for a reason that then holds, at one instant, however the   *)
(* requests overlap and whatever connections break.                        *)
THEOREM FreshWritesImplementStore == FreshSpec => ImplementsStore
<1>1. Inv /\ [Next /\ ~WritesOutdated]_vars => Inv'
  BY InvStep
<1> QED
  BY <1>1, InvInit, StoreInit, StoreStep, PTL DEF FreshSpec, ImplementsStore, Store!Spec

(***************************************************************************)
(* Requests that do not clash never write on an outdated check.  What a    *)
(* usecase has seen of the table, and will act on, stays so: nobody else   *)
(* in flight writes the row or takes the address it is about.              *)
(***************************************************************************)

(* The rows that stand in the way of the address in request r. *)
Rivals(r) == {i \in EmailMatches(rows, r.email) : r.op = "update" => i /= r.id}

(* get_by_email has found, or will be taken to have found, no rival. *)
AddressCleared(t) ==
  \/ /\ pc[t] = "get_by_email" /\ stage[t] = "reply"
     /\ number[t] = 0 \/ (req[t].op = "update" /\ number[t] = req[t].id)
  \/ pc[t] = "create" /\ stage[t] /= "reply"
  \/ pc[t] = "update" /\ stage[t] /= "reply" /\ req[t].email /= None

(* get_by_id has found a row that may be deleted. *)
TargetCleared(t) ==
  \/ /\ pc[t] = "get_by_id" /\ stage[t] = "reply" /\ req[t].op = "delete"
     /\ result[t] /= None /\ CanBeDeleted(result[t])
  \/ pc[t] = "delete" /\ stage[t] /= "reply"

AddressFree(t) == AddressCleared(t) => Rivals(req[t]) = {}

TargetFree(t) ==
  TargetCleared(t) =>
    /\ req[t].id < seq
    /\ req[t].id \in DOMAIN rows => CanBeDeleted(rows[req[t].id])

TargetInv  == Inv /\ RequestsApart /\ \A t \in Task : TargetFree(t)
AddressInv == Inv /\ RequestsApart /\ UniqueEmails /\ \A t \in Task : AddressFree(t)

(* What a step of w may do to the rows. *)
RowsChangeFor(w) ==
  \A i \in DOMAIN rows' :
    \/ i \in DOMAIN rows /\ rows'[i] = rows[i]
    \/ /\ InFlight(w) /\ req[w].op = "create" /\ req[w].email /= None
       /\ i = seq /\ rows'[i].email = req[w].email
    \/ /\ InFlight(w) /\ req[w].op = "update" /\ i = req[w].id /\ i \in DOMAIN rows
       /\ rows'[i].email = OrElse(req[w].email, rows[i].email)

LEMMA InsertChange ==
  ASSUME Inv, NEW w \in Task, Insert(w)
  PROVE  RowsChangeFor(w)
<1>1. pc[w] = "create" /\ stage[w] = "query" /\ rows' = Stored(rows, seq, FromParams(req[w]))
  BY DEF Insert, At
<1>2. req[w].op = "create" /\ req[w] \in CreateUserParams /\ InFlight(w)
  BY <1>1, AtQuery, AtStatement DEF Checked, InFlight
<1>3. req[w].email /= None
  BY <1>2, DomainAssumption DEF CreateUserParams
<1> QED
  BY <1>1, <1>2, <1>3 DEF RowsChangeFor, Stored, FromParams

LEMMA UpdateRowChange ==
  ASSUME Inv, NEW w \in Task, UpdateRow(w)
  PROVE  RowsChangeFor(w)
<1>1. pc[w] = "update" /\ stage[w] = "query"
  BY DEF UpdateRow, At
<1>2. req[w].op = "update" /\ InFlight(w)
  BY <1>1, AtQuery DEF Checked, InFlight
<1>3. CASE req[w].id \notin DOMAIN rows
  BY <1>3 DEF UpdateRow, RowsChangeFor
<1>4. CASE req[w].id \in DOMAIN rows
  <2>1. rows' = Stored(rows, req[w].id, WithUpdates(rows[req[w].id], req[w]))
    BY <1>4 DEF UpdateRow
  <2> QED
    BY <1>2, <1>4, <2>1 DEF RowsChangeFor, Stored, WithUpdates
<1> QED
  BY <1>3, <1>4

LEMMA DeleteRowChange ==
  ASSUME NEW w \in Task, DeleteRow(w)
  PROVE  RowsChangeFor(w)
  BY DEF DeleteRow, RowsChangeFor, Removed

(* A step of another task takes nothing from a task that has looked. *)
LEMMA TargetStays ==
  ASSUME Inv, RequestsApart, Grows, TypeOK', NEW t \in Task, NEW w \in Task, t /= w,
         TargetFree(t), Unmoved(t), RowsChangeFor(w)
  PROVE  TargetFree(t)'
<1> SUFFICES ASSUME TargetCleared(t)'
             PROVE  /\ req[t].id < seq'
                    /\ req[t].id \in DOMAIN rows' => CanBeDeleted(rows'[req[t].id])
  BY DEF TargetFree, Unmoved
<1>1. TargetCleared(t)
  BY DEF TargetCleared, Unmoved
<1>2. pc[t] \in Method /\ InFlight(t)
  BY <1>1 DEF TargetCleared, Method, InFlight
<1>3. req[t].op = "delete" /\ req[t] \in AnyRequest /\ TypeOK
  BY <1>1, <1>2, Underway DEF TargetCleared, Checked
<1>4. req[t].id \in Nat
  BY <1>3, RequestTypes
<1>5. req[t].id < seq /\ (req[t].id \in DOMAIN rows => CanBeDeleted(rows[req[t].id]))
  BY <1>1 DEF TargetFree
<1>6. req[t].id < seq'
  BY <1>3, <1>4, <1>5 DEF Grows, TypeOK
<1>7. ASSUME req[t].id \in DOMAIN rows' PROVE CanBeDeleted(rows'[req[t].id])
  <2>1. ~(InFlight(w) /\ req[w].op = "update" /\ req[w].id = req[t].id)
    BY <1>2, <1>3 DEF RequestsApart, Clash
  <2>2. req[t].id \in DOMAIN rows /\ rows'[req[t].id] = rows[req[t].id]
    BY <1>3, <1>5, <1>7, <2>1 DEF RowsChangeFor, TypeOK
  <2> QED
    BY <1>5, <2>2
<1> QED
  BY <1>6, <1>7

LEMMA AddressStays ==
  ASSUME Inv, RequestsApart, NEW t \in Task, NEW w \in Task, t /= w, AddressFree(t), Unmoved(t),
         RowsChangeFor(w)
  PROVE  AddressFree(t)'
<1> SUFFICES ASSUME AddressCleared(t)', NEW i \in Rivals(req[t])'
             PROVE  FALSE
  BY DEF AddressFree
<1>1. AddressCleared(t) /\ Rivals(req[t]) = {}
  BY DEF AddressCleared, AddressFree, Unmoved
<1>2. pc[t] \in Method /\ InFlight(t)
  BY <1>1 DEF AddressCleared, Method, InFlight
<1>3. req[t].op \in {"create", "update"} /\ req[t].email /= None
  <2>1. Checked(t) /\ req[t] \in AnyRequest
    BY <1>2, Underway
  <2>2. req[t].op \in {"create", "update"} /\ (req[t].op = "create" \/ req[t].email /= None)
    BY <1>1, <2>1 DEF AddressCleared, Checked
  <2>3. req[t].op = "create" => req[t].email /= None
    BY <2>1, RequestTypes, DomainAssumption DEF CreateUserParams
  <2> QED
    BY <2>2, <2>3
<1>4. /\ i \in DOMAIN rows' /\ SameEmail(rows'[i].email, req[t].email)
      /\ req[t].op = "update" => i /= req[t].id
  BY DEF Rivals, EmailMatches, Unmoved
<1>5. ~(i \in DOMAIN rows /\ rows'[i].email = rows[i].email)
  BY <1>1, <1>4 DEF Rivals, EmailMatches
<1>6. /\ InFlight(w) /\ req[w].op \in {"create", "update"} /\ req[w].email /= None
      /\ rows'[i].email = req[w].email
  BY <1>4, <1>5 DEF RowsChangeFor, OrElse
<1>7. Clash(req[t], req[w])
  BY <1>3, <1>4, <1>6 DEF Clash, SameEmail
<1> QED
  BY <1>2, <1>6, <1>7 DEF RequestsApart

(* The ways a task moves on, by what they leave to be kept. *)
LEMMA CalledKeeps ==
  ASSUME TypeOK, NEW t \in Task, NEW method, Call(t, method), UNCHANGED <<rows, seq, req>>
  PROVE  /\ method \in {"get_by_id", "get_by_email", "create", "update"} => TargetFree(t)'
         /\ method \in {"get_by_id", "get_by_email", "delete"} => AddressFree(t)'
         /\ method = "update" /\ req[t].email = None => AddressFree(t)'
         /\ TargetCleared(t) /\ TargetFree(t) => TargetFree(t)'
         /\ AddressCleared(t) /\ AddressFree(t) => AddressFree(t)'
<1>1. pc'[t] = method /\ stage'[t] = "acquire" /\ req' = req /\ rows' = rows /\ seq' = seq
  BY DEF TypeOK, Call
<1>2. method \in {"get_by_id", "get_by_email", "create", "update"} => TargetFree(t)'
  BY <1>1 DEF TargetFree, TargetCleared
<1>3. method \in {"get_by_id", "get_by_email", "delete"} => AddressFree(t)'
  BY <1>1 DEF AddressFree, AddressCleared
<1>4. method = "update" /\ req[t].email = None => AddressFree(t)'
  BY <1>1 DEF AddressFree, AddressCleared
<1>5. TargetCleared(t) /\ TargetFree(t) => TargetFree(t)'
  BY <1>1 DEF TargetFree
<1>6. AddressCleared(t) /\ AddressFree(t) => AddressFree(t)'
  BY <1>1 DEF AddressFree, Rivals, EmailMatches
<1> QED
  BY <1>2, <1>3, <1>4, <1>5, <1>6

LEMMA ReturnedKeeps ==
  ASSUME TypeOK, NEW t \in Task, NEW code, NEW user, Return(t, code, user)
  PROVE  TargetFree(t)' /\ AddressFree(t)'
<1>1. pc'[t] = "answered"
  BY DEF TypeOK, Return
<1> QED
  BY <1>1 DEF TargetFree, TargetCleared, AddressFree, AddressCleared

(* A step of t as the others see it, and what t itself goes on knowing. *)
Apart(t) == OthersStay(t) /\ RowsChangeFor(t)

LEMMA SameRows ==
  ASSUME NEW t \in Task, rows' = rows
  PROVE  RowsChangeFor(t)
  BY DEF RowsChangeFor

LEMMA ResumeApart ==
  ASSUME Inv, NEW t \in Task,
         \/ Enter(t) \/ AfterGetById(t) \/ AfterGetByEmail(t)
         \/ AfterCreate(t) \/ AfterUpdate(t) \/ AfterDelete(t) \/ ConnectionLost(t)
  PROVE  Apart(t) /\ UNCHANGED <<rows, seq, req>>
<1>1. UNCHANGED <<rows, seq, req>>
  BY DEF Enter, AfterGetById, AfterGetByEmail, AfterCreate, AfterUpdate, AfterDelete, Resume,
     ConnectionLost, table
<1>2. OthersStay(t)
  BY EnterFine, AfterGetByIdFine, AfterGetByEmailFine, AfterWriteFine, ConnectionLostFine DEF Fine
<1> QED
  BY <1>1, <1>2, SameRows DEF Apart

LEMMA StatementApart ==
  ASSUME Inv, TypeOK', Grows, NEW t \in Task,
         \/ SelectById(t) \/ SelectByEmail(t) \/ Insert(t) \/ UpdateRow(t) \/ DeleteRow(t)
  PROVE  Apart(t)
<1>1. OthersStay(t)
  BY SelectFine, InsertFine, UpdateRowFine, DeleteRowFine DEF Fine
<1>2. SelectById(t) \/ SelectByEmail(t) => rows' = rows
  BY DEF SelectById, SelectByEmail, table
<1> QED
  BY <1>1, <1>2, SameRows, InsertChange, UpdateRowChange, DeleteRowChange DEF Apart

LEMMA AcquireKeeps ==
  ASSUME Inv, NEW t \in Task, Acquire(t)
  PROVE  /\ Apart(t)
         /\ TargetFree(t) => TargetFree(t)'
         /\ AddressFree(t) => AddressFree(t)'
<1>1. /\ stage[t] = "acquire" /\ stage'[t] = "query"
      /\ UNCHANGED <<rows, seq, req, pc, result, number>>
  BY DEF Inv, TypeOK, Acquire, table
<1>2. TargetFree(t) => TargetFree(t)'
  BY <1>1 DEF TargetFree, TargetCleared
<1>3. AddressFree(t) => AddressFree(t)'
  BY <1>1 DEF AddressFree, AddressCleared, Rivals, EmailMatches
<1> QED
  BY <1>1, <1>2, <1>3, AcquireFine, SameRows DEF Fine, Apart

LEMMA ClientKeeps ==
  ASSUME Inv, NEW t \in Task, Submit(t) \/ Receive(t)
  PROVE  Apart(t) /\ TargetFree(t)' /\ AddressFree(t)'
<1>1. pc'[t] \in {"call", "idle"} /\ rows' = rows
  BY DEF Inv, TypeOK, Submit, Receive, table
<1>2. TargetFree(t)' /\ AddressFree(t)'
  BY <1>1 DEF TargetFree, TargetCleared, AddressFree, AddressCleared
<1> QED
  BY <1>1, <1>2, SubmitFine, ReceiveFine, SameRows DEF Fine, Apart

(* A task that goes on acts on what it has just been told of the table. *)
LEMMA ResumeKeeps ==
  ASSUME Inv, NEW t \in Task,
         \/ Enter(t) \/ AfterGetById(t) \/ AfterGetByEmail(t)
         \/ AfterCreate(t) \/ AfterUpdate(t) \/ AfterDelete(t) \/ ConnectionLost(t)
  PROVE  (TargetFree(t) => TargetFree(t)') /\ (AddressFree(t) => AddressFree(t)')
<1> DEFINE StillFree == (TargetFree(t) => TargetFree(t)') /\ (AddressFree(t) => AddressFree(t)')
<1>0. UNCHANGED <<rows, seq, req>> /\ TypeOK
  BY ResumeApart DEF Inv
<1>a. ASSUME NEW code, Raise(t, code) PROVE StillFree
  BY <1>0, <1>a, ReturnedKeeps DEF Raise
<1>b. ASSUME NEW user, Return(t, "ok", user) PROVE StillFree
  BY <1>0, <1>b, ReturnedKeeps
<1>c. ASSUME NEW method \in {"get_by_id", "get_by_email"}, Call(t, method) PROVE StillFree
  BY <1>0, <1>c, CalledKeeps
<1>1. CASE Enter(t)
  BY <1>1, <1>a, <1>c DEF Enter
<1>2. CASE AfterGetById(t)
  <2>1. pc[t] = "get_by_id" /\ stage[t] = "reply"
    BY <1>2 DEF AfterGetById, Resume, At
  <2>2. CASE Call(t, "delete") /\ req[t].op = "delete" /\ result[t] /= None /\ CanBeDeleted(result[t])
    <3>1. TargetCleared(t)
      BY <2>1, <2>2 DEF TargetCleared
    <3> QED
      BY <1>0, <2>2, <3>1, CalledKeeps
  <2>3. CASE Call(t, "update") /\ req[t].email = None
    BY <1>0, <2>3, CalledKeeps
  <2>4. \/ \E code \in {"not_found", "conflict", "bad_request"} : Raise(t, code)
        \/ Return(t, "ok", result[t]) \/ Call(t, "get_by_email")
        \/ Call(t, "delete") /\ req[t].op = "delete" /\ result[t] /= None /\ CanBeDeleted(result[t])
        \/ Call(t, "update") /\ req[t].email = None
    BY <1>2 DEF AfterGetById, CheckStatusThenUpdate
  <2> QED
    BY <1>a, <1>b, <1>c, <2>2, <2>3, <2>4
<1>3. CASE AfterGetByEmail(t)
  <2>1. pc[t] = "get_by_email" /\ stage[t] = "reply"
    BY <1>3 DEF AfterGetByEmail, Resume, At
  <2>2. \/ \E code \in {"already_exists", "bad_request"} : Raise(t, code)
        \/ Call(t, "create") /\ number[t] = 0
        \/ Call(t, "update") /\ req[t].op = "update" /\ number[t] \in {0, req[t].id}
    BY <1>3 DEF AfterGetByEmail, CheckStatusThenUpdate
  <2>3. CASE Call(t, "create") /\ number[t] = 0
    <3>1. AddressCleared(t)
      BY <2>1, <2>3 DEF AddressCleared
    <3> QED
      BY <1>0, <2>3, <3>1, CalledKeeps
  <2>4. CASE Call(t, "update") /\ req[t].op = "update" /\ number[t] \in {0, req[t].id}
    <3>1. AddressCleared(t)
      BY <2>1, <2>4 DEF AddressCleared
    <3> QED
      BY <1>0, <2>4, <3>1, CalledKeeps
  <2> QED
    BY <1>a, <2>2, <2>3, <2>4
<1>4. CASE AfterCreate(t) \/ AfterUpdate(t) \/ AfterDelete(t)
  BY <1>4, <1>a, <1>b DEF AfterCreate, AfterUpdate, AfterDelete
<1>5. CASE ConnectionLost(t)
  BY <1>5, <1>a DEF ConnectionLost
<1> QED
  BY <1>1, <1>2, <1>3, <1>4, <1>5

(* A SELECT tells what the rows are like, and a write leaves nothing to do. *)
LEMMA StatementTarget ==
  ASSUME Inv, NEW t \in Task,
         \/ SelectById(t) \/ SelectByEmail(t) \/ Insert(t) \/ UpdateRow(t) \/ DeleteRow(t)
  PROVE  TargetFree(t)'
<1>1. TypeOK /\ pc' = pc /\ stage'[t] = "reply"
  BY DEF Inv, TypeOK, SelectById, SelectByEmail, Insert, UpdateRow, DeleteRow, Reply
<1>2. CASE SelectById(t)
  <2>1. /\ UNCHANGED <<rows, seq, req>>
        /\ result'[t] = IF req[t].id \in DOMAIN rows THEN rows[req[t].id] ELSE None
    BY <1>1, <1>2 DEF SelectById, Reply, table, TypeOK
  <2> SUFFICES ASSUME pc[t] = "get_by_id", result'[t] /= None, CanBeDeleted(result'[t])
               PROVE  /\ req[t].id < seq
                      /\ req[t].id \in DOMAIN rows => CanBeDeleted(rows[req[t].id])
    BY <1>1, <1>2, <2>1 DEF TargetFree, TargetCleared, SelectById, At
  <2> QED
    BY <1>1, <2>1 DEF TypeOK
<1>3. CASE ~SelectById(t)
  <2>1. pc[t] /= "get_by_id"
    BY <1>3 DEF SelectByEmail, Insert, UpdateRow, DeleteRow, At
  <2> QED
    BY <1>1, <2>1 DEF TargetFree, TargetCleared
<1> QED
  BY <1>2, <1>3

LEMMA StatementAddress ==
  ASSUME Inv, UniqueEmails, NEW t \in Task,
         \/ SelectById(t) \/ SelectByEmail(t) \/ Insert(t) \/ UpdateRow(t) \/ DeleteRow(t)
  PROVE  AddressFree(t)'
<1>1. TypeOK /\ pc' = pc /\ stage'[t] = "reply"
  BY DEF Inv, TypeOK, SelectById, SelectByEmail, Insert, UpdateRow, DeleteRow, Reply
<1>2. CASE SelectByEmail(t)
  <2> DEFINE matches == EmailMatches(rows, req[t].email)
  <2>1. PICK found \in IF matches = {} THEN {0} ELSE matches : Reply(t, None, found)
    BY <1>2 DEF SelectByEmail
  <2>2. UNCHANGED <<rows, seq, req>> /\ number'[t] = found
    BY <1>1, <1>2, <2>1 DEF SelectByEmail, Reply, table, TypeOK
  <2>3. 0 \notin matches
    BY <1>1 DEF EmailMatches, TypeOK
  <2>4. \A i, j \in matches : i = j
    <3>1. \A i \in matches : i \in DOMAIN rows /\ EmailKey[rows[i].email] = EmailKey[req[t].email]
      BY DEF EmailMatches, SameEmail
    <3> QED
      BY <3>1 DEF UniqueEmails, DistinctEmails, SameEmail
  <2>5. matches' = matches
    BY <2>2 DEF EmailMatches
  <2> HIDE DEF matches
  <2>6. CASE found = 0
    <3>1. matches = {}
      BY <2>1, <2>3, <2>6
    <3> QED
      BY <2>5, <3>1 DEF AddressFree, Rivals, matches
  <2>7. CASE req[t].op = "update" /\ found = req[t].id
    <3>1. \A i \in matches : i = req[t].id
      BY <2>1, <2>4, <2>7
    <3> QED
      BY <2>2, <2>5, <2>7, <3>1 DEF AddressFree, Rivals, matches
  <2>8. CASE found /= 0 /\ ~(req[t].op = "update" /\ found = req[t].id)
    <3>1. pc[t] = "get_by_email"
      BY <1>2 DEF SelectByEmail, At
    <3> QED
      BY <1>1, <2>2, <2>8, <3>1 DEF AddressFree, AddressCleared
  <2> QED
    BY <2>6, <2>7, <2>8
<1>3. CASE ~SelectByEmail(t)
  <2>1. pc[t] /= "get_by_email"
    BY <1>3 DEF SelectById, Insert, UpdateRow, DeleteRow, At
  <2> QED
    BY <1>1, <2>1 DEF AddressFree, AddressCleared
<1> QED
  BY <1>2, <1>3

(* Every step is the environment's, or one task's that keeps all of this. *)
LEMMA StepsAreApart ==
  ASSUME Inv, [Next]_vars
  PROVE  \/ \A q \in Task : Unmoved(q) /\ UNCHANGED <<rows, seq>>
         \/ \E t \in Task :
              /\ Apart(t)
              /\ TargetFree(t) => TargetFree(t)'
              /\ UniqueEmails /\ AddressFree(t) => AddressFree(t)'
<1> DEFINE Keeps(t) == /\ Apart(t)
                       /\ TargetFree(t) => TargetFree(t)'
                       /\ UniqueEmails /\ AddressFree(t) => AddressFree(t)'
<1>0. TypeOK' /\ Grows
  BY TypeStep, TableStep
<1>1. ASSUME NEW t \in Task, Submit(t) \/ Acquire(t) \/ Receive(t) PROVE Keeps(t)
  BY <1>1, AcquireKeeps, ClientKeeps
<1>2. ASSUME NEW t \in Task, ConnectionLost(t) PROVE Keeps(t)
  BY <1>2, ResumeApart, ResumeKeeps
<1>3. ASSUME NEW t \in Task, Run(t) PROVE Keeps(t)
  <2>1. CASE \/ Enter(t) \/ AfterGetById(t) \/ AfterGetByEmail(t)
             \/ AfterCreate(t) \/ AfterUpdate(t) \/ AfterDelete(t)
    BY <2>1, ResumeApart, ResumeKeeps
  <2>2. CASE \/ SelectById(t) \/ SelectByEmail(t) \/ Insert(t) \/ UpdateRow(t) \/ DeleteRow(t)
    BY <1>0, <2>2, StatementApart, StatementTarget, StatementAddress
  <2> QED
    BY <1>3, <2>1, <2>2 DEF Run
<1>4. CASE Tick \/ UNCHANGED vars
  BY <1>4 DEF Tick, vars, Unmoved, table
<1> QED
  BY <1>1, <1>2, <1>3, <1>4 DEF Next

LEMMA TargetInvInit == Init => TargetInv
  BY InvInit DEF TargetInv, Init, RequestsApart, InFlight, TargetFree, TargetCleared

LEMMA TargetInvStep == TargetInv /\ [Next /\ RequestsApart']_vars => TargetInv'
<1> SUFFICES ASSUME TargetInv, [Next /\ RequestsApart']_vars PROVE TargetInv'
  OBVIOUS
<1>1. Inv /\ [Next]_vars /\ Inv' /\ TypeOK' /\ Grows
  BY InvStep, TypeStep, TableStep DEF TargetInv
<1>2. RequestsApart /\ RequestsApart'
  BY DEF TargetInv, vars, RequestsApart, InFlight
<1>3. ASSUME NEW q \in Task PROVE TargetFree(q)'
  <2>1. TargetFree(q)
    BY DEF TargetInv
  <2>2. CASE \A u \in Task : Unmoved(u) /\ UNCHANGED <<rows, seq>>
    BY <2>1, <2>2 DEF TargetFree, TargetCleared, Unmoved
  <2>3. ASSUME NEW t \in Task, Apart(t), TargetFree(t) => TargetFree(t)' PROVE TargetFree(q)'
    <3>1. CASE q = t
      BY <2>1, <2>3, <3>1
    <3>2. CASE q /= t
      BY <1>1, <1>2, <2>1, <2>3, <3>2, TargetStays DEF Apart, OthersStay
    <3> QED
      BY <3>1, <3>2
  <2> QED
    BY <1>1, <2>2, <2>3, StepsAreApart
<1> QED
  BY <1>1, <1>2, <1>3 DEF TargetInv

(* With no rival among the rows, the new address is the only one of its    *)
(* kind.                                                                   *)
LEMMA UniqueStep ==
  ASSUME AddressInv, [Next]_vars
  PROVE  UniqueEmails'
<1>0. Inv /\ UniqueEmails /\ \A q \in Task : AddressFree(q)
  BY DEF AddressInv
<1>1. CASE \A i \in DOMAIN rows' : i \in DOMAIN rows /\ rows'[i].email = rows[i].email
  BY <1>0, <1>1 DEF UniqueEmails, DistinctEmails
<1>2. ASSUME NEW t \in Task, Insert(t) PROVE UniqueEmails'
  <2>1. /\ pc[t] = "create" /\ stage[t] = "query" /\ req[t].op = "create"
        /\ rows' = Stored(rows, seq, FromParams(req[t]))
    BY <1>0, <1>2, AtQuery DEF Insert, At, Checked
  <2>2. EmailMatches(rows, req[t].email) = {}
    BY <1>0, <2>1 DEF AddressFree, AddressCleared, Rivals
  <2>3. /\ DOMAIN rows' = DOMAIN rows \cup {seq}
        /\ rows'[seq].email = req[t].email
        /\ \A i \in DOMAIN rows : i /= seq => rows'[i] = rows[i]
    BY <2>1 DEF Stored, FromParams
  <2>4. \A i \in DOMAIN rows : EmailKey[rows[i].email] /= EmailKey[req[t].email]
    BY <2>2 DEF EmailMatches, SameEmail
  <2> QED
    BY <1>0, <2>3, <2>4 DEF UniqueEmails, DistinctEmails, SameEmail
<1>3. ASSUME NEW t \in Task, UpdateRow(t), req[t].id \in DOMAIN rows, req[t].email /= None
      PROVE  UniqueEmails'
  <2>1. /\ pc[t] = "update" /\ stage[t] = "query" /\ req[t].op = "update"
        /\ rows' = Stored(rows, req[t].id, WithUpdates(rows[req[t].id], req[t]))
    BY <1>0, <1>3, AtQuery DEF UpdateRow, At, Checked
  <2>2. Rivals(req[t]) = {}
    BY <1>0, <1>3, <2>1 DEF AddressFree, AddressCleared
  <2>3. /\ DOMAIN rows' = DOMAIN rows
        /\ rows'[req[t].id].email = req[t].email
        /\ \A i \in DOMAIN rows : i /= req[t].id => rows'[i] = rows[i]
    BY <1>3, <2>1 DEF Stored, WithUpdates, OrElse
  <2>4. \A i \in DOMAIN rows : i /= req[t].id => EmailKey[rows[i].email] /= EmailKey[req[t].email]
    BY <2>1, <2>2 DEF Rivals, EmailMatches, SameEmail
  <2> QED
    BY <1>0, <2>3, <2>4 DEF UniqueEmails, DistinctEmails, SameEmail
<1>4. ASSUME NEW t \in Task, UpdateRow(t), req[t].id \notin DOMAIN rows \/ req[t].email = None
      PROVE  UniqueEmails'
  <2>1. \/ rows' = rows
        \/ /\ req[t].id \in DOMAIN rows
           /\ rows' = Stored(rows, req[t].id, WithUpdates(rows[req[t].id], req[t]))
    BY <1>4 DEF UpdateRow
  <2>2. \A i \in DOMAIN rows' : i \in DOMAIN rows /\ rows'[i].email = rows[i].email
    BY <1>4, <2>1 DEF Stored, WithUpdates, OrElse
  <2> QED
    BY <1>1, <2>2
<1>5. ASSUME NEW t \in Task, DeleteRow(t) PROVE UniqueEmails'
  BY <1>1, <1>5 DEF DeleteRow, Removed
<1>6. ASSUME NEW t \in Task,
             \/ Enter(t) \/ AfterGetById(t) \/ AfterGetByEmail(t)
             \/ AfterCreate(t) \/ AfterUpdate(t) \/ AfterDelete(t) \/ ConnectionLost(t)
             \/ SelectById(t) \/ SelectByEmail(t) \/ Submit(t) \/ Acquire(t) \/ Receive(t)
      PROVE  UniqueEmails'
  <2>1. rows' = rows
    BY <1>0, <1>6, ResumeApart
    DEF SelectById, SelectByEmail, Submit, Acquire, Receive, table
  <2> QED
    BY <1>1, <2>1
<1>7. CASE Tick \/ UNCHANGED vars
  BY <1>1, <1>7 DEF Tick, vars, table
<1> QED
  BY <1>2, <1>3, <1>4, <1>5, <1>6, <1>7 DEF Next, Run

LEMMA AddressInvInit == DistinctEmails(Seed) /\ Init => AddressInv
  BY InvInit
  DEF AddressInv, Init, RequestsApart, InFlight, UniqueEmails, AddressFree, AddressCleared

LEMMA AddressInvStep == AddressInv /\ [Next /\ RequestsApart']_vars => AddressInv'
<1> SUFFICES ASSUME AddressInv, [Next /\ RequestsApart']_vars PROVE AddressInv'
  OBVIOUS
<1>1. Inv /\ [Next]_vars /\ Inv' /\ UniqueEmails
  BY InvStep DEF AddressInv
<1>2. RequestsApart /\ RequestsApart'
  BY DEF AddressInv, vars, RequestsApart, InFlight
<1>3. ASSUME NEW q \in Task PROVE AddressFree(q)'
  <2>1. AddressFree(q)
    BY DEF AddressInv
  <2>2. CASE \A u \in Task : Unmoved(u) /\ UNCHANGED <<rows, seq>>
    BY <2>1, <2>2 DEF AddressFree, AddressCleared, Unmoved, Rivals, EmailMatches
  <2>3. ASSUME NEW t \in Task, Apart(t), AddressFree(t) => AddressFree(t)' PROVE AddressFree(q)'
    <3>1. CASE q = t
      BY <2>1, <2>3, <3>1
    <3>2. CASE q /= t
      BY <1>1, <1>2, <2>1, <2>3, <3>2, AddressStays DEF Apart, OthersStay
    <3> QED
      BY <3>1, <3>2
  <2> QED
    BY <1>1, <2>2, <2>3, StepsAreApart
<1>4. UniqueEmails'
  BY <1>1, UniqueStep
<1> QED
  BY <1>1, <1>2, <1>3, <1>4 DEF AddressInv

(* Requests that do not clash never write on an outdated check. *)
LEMMA ApartWritesAreFresh == TargetInv /\ AddressInv /\ Next => ~WritesOutdated
<1> SUFFICES ASSUME TargetInv, AddressInv, NEW t \in Task, Outdated(t),
                    Insert(t) \/ UpdateRow(t) \/ DeleteRow(t)
             PROVE  FALSE
  BY DEF WritesOutdated
<1>1. Inv /\ TargetFree(t) /\ AddressFree(t) /\ stage[t] = "query"
  BY DEF TargetInv, AddressInv, Insert, UpdateRow, DeleteRow, At
<1>2. Checked(t)
  BY <1>1, AtQuery
<1>3. CASE pc[t] = "create"
  BY <1>1, <1>2, <1>3 DEF Outdated, AddressFree, AddressCleared, Rivals, Checked
<1>4. CASE pc[t] = "update"
  BY <1>1, <1>2, <1>4 DEF Outdated, AddressFree, AddressCleared, Rivals, Checked
<1>5. CASE pc[t] = "delete"
  BY <1>1, <1>5 DEF Outdated, TargetFree, TargetCleared
<1> QED
  BY <1>3, <1>4, <1>5 DEF Outdated

(* Overlapping requests that do not ask for the same address never give    *)
(* two users one address, though nothing but the usecase's own earlier     *)
(* SELECT looks after that.                                                *)
THEOREM ApartEmailsStayUnique == DistinctEmails(Seed) /\ ApartSpec => []UniqueEmails
<1>1. AddressInv => UniqueEmails
  BY DEF AddressInv
<1> QED
  BY <1>1, AddressInvInit, AddressInvStep, PTL DEF ApartSpec

(* No active user is deleted by requests that are about different users.   *)
THEOREM ApartActiveUsersStay == ApartSpec => ActiveNeverDeleted
<1>1. TargetInv /\ [Next]_vars =>
        [\A i \in DOMAIN rows : rows[i].status = "active" => i \in DOMAIN rows']_vars
  <2> SUFFICES ASSUME TargetInv, [Next]_vars, NEW i \in DOMAIN rows, rows[i].status = "active"
               PROVE  i \in DOMAIN rows'
    OBVIOUS
  <2>0. Inv /\ \A q \in Task : TargetFree(q)
    BY DEF TargetInv
  <2>1. ASSUME NEW t \in Task, DeleteRow(t) PROVE i \in DOMAIN rows'
    <3>1. req[t].id \in DOMAIN rows => CanBeDeleted(rows[req[t].id])
      BY <2>0, <2>1 DEF TargetFree, TargetCleared, DeleteRow, At
    <3> QED
      BY <2>1, <3>1 DEF DeleteRow, Removed, CanBeDeleted
  <2>2. ASSUME NEW t \in Task, Insert(t) \/ UpdateRow(t) PROVE i \in DOMAIN rows'
    BY <2>2 DEF Insert, UpdateRow, Stored
  <2>3. ASSUME NEW t \in Task,
               \/ Enter(t) \/ AfterGetById(t) \/ AfterGetByEmail(t)
               \/ AfterCreate(t) \/ AfterUpdate(t) \/ AfterDelete(t) \/ ConnectionLost(t)
               \/ SelectById(t) \/ SelectByEmail(t) \/ Submit(t) \/ Acquire(t) \/ Receive(t)
        PROVE  rows' = rows
    BY <2>0, <2>3, ResumeApart DEF SelectById, SelectByEmail, Submit, Acquire, Receive, table
  <2>4. Tick \/ UNCHANGED vars => rows' = rows
    BY DEF Tick, vars, table
  <2> QED
    BY <2>1, <2>2, <2>3, <2>4 DEF Next, Run
<1>2. [Next /\ RequestsApart']_vars => [Next]_vars
  OBVIOUS
<1> QED
  BY <1>1, <1>2, TargetInvInit, TargetInvStep, PTL DEF ApartSpec, ActiveNeverDeleted

(* Requests that do not clash find the store of UserStore over PostgreSQL  *)
(* too: each takes effect, or is turned away for a reason that then holds, *)
(* at one instant, however they overlap and whatever connections break.    *)
THEOREM ApartRequestsImplementStore == DistinctEmails(Seed) /\ ApartSpec => ImplementsStore
<1>1. TargetInv /\ AddressInv /\ [Next /\ RequestsApart']_vars => [Next /\ ~WritesOutdated]_vars
  BY ApartWritesAreFresh
<1>2. TargetInv => Inv
  BY DEF TargetInv
<1> QED
  BY <1>1, <1>2, TargetInvInit, TargetInvStep, AddressInvInit, AddressInvStep, StoreInit, StoreStep,
     PTL DEF ApartSpec, ImplementsStore, Store!Spec

=============================================================================
