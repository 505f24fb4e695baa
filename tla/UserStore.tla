----------------------------- MODULE UserStore -----------------------------
(***************************************************************************)
(* What the user feature promises to its clients, whatever the storage: a  *)
(* request takes effect, or is rejected, at one instant between its        *)
(* arrival and its answer, and it is judged on the rows of that instant.   *)
(* Which of several deserved rejections a client gets is left open.        *)
(***************************************************************************)
EXTENDS UserDomain

CONSTANTS
  Task, Seed,
  MayFail   \* the storage may fail: an answer may be lost, and turn into "error"

VARIABLES
  rows,     \* id -> user
  used,     \* every id ever given out
  req,      \* the request each task serves, None when it serves none
  answer    \* its answer, None until there is one

vars == <<rows, used, req, answer>>

Rejection == {"bad_request", "not_found", "already_exists", "conflict"}

Answer == [code : {"ok"}, user : User \cup {None}]
            \cup [code : Rejection \cup {"error"}, user : {None}]

Ok(user)       == [code |-> "ok", user |-> user]
Rejected(code) == [code |-> code, user |-> None]

(* The rejections request r deserves on the present rows. *)
MalformedRequest(r) ==
  \/ r.op = "create" /\ ~WellFormedCreate(r)
  \/ r.op = "update" /\ ~(WellFormedEmail(r) /\ WellFormedStatus(r))

TargetMissing(r) == r.op /= "create" /\ r.id \notin DOMAIN rows

AddressTaken(r) ==
  \/ r.op = "create" /\ EmailMatches(rows, r.email) /= {}
  \/ r.op = "update" /\ r.email /= None
       /\ EmailMatches(rows, r.email) \ {r.id} /= {}

TargetProtected(r) ==
  r.op = "delete" /\ r.id \in DOMAIN rows /\ ~CanBeDeleted(rows[r.id])

Deserves(r, code) ==
  \/ code = "bad_request"    /\ MalformedRequest(r)
  \/ code = "not_found"      /\ TargetMissing(r)
  \/ code = "already_exists" /\ AddressTaken(r)
  \/ code = "conflict"       /\ TargetProtected(r)

Pending(t) == req[t] /= None /\ answer[t] = None

Acceptable(t, op) ==
  Pending(t) /\ req[t].op = op /\ \A code \in Rejection : ~Deserves(req[t], code)

-----------------------------------------------------------------------------

Init ==
  /\ rows = Seed
  /\ DOMAIN Seed \subseteq used
  /\ req = [t \in Task |-> None]
  /\ answer = [t \in Task |-> None]

Submit(t) ==
  /\ req[t] = None
  /\ req'[t] \in AnyRequest
  /\ req' = [req EXCEPT ![t] = req'[t]]
  /\ UNCHANGED <<rows, used, answer>>

Reject(t, code) ==
  /\ Pending(t) /\ Deserves(req[t], code)
  /\ answer' = [answer EXCEPT ![t] = Rejected(code)]
  /\ UNCHANGED <<rows, used, req>>

Create(t) ==
  /\ Acceptable(t, "create")
  /\ \E id \in used' \ used :
       /\ used' = used \cup {id}
       /\ rows' = Stored(rows, id, FromParams(req[t]))
  /\ answer' = [answer EXCEPT ![t] = Ok(FromParams(req[t]))]
  /\ UNCHANGED req

Update(t) ==
  /\ Acceptable(t, "update")
  /\ LET user == WithUpdates(rows[req[t].id], req[t])
     IN  /\ rows' = Stored(rows, req[t].id, user)
         /\ answer' = [answer EXCEPT ![t] = Ok(user)]
  /\ UNCHANGED <<used, req>>

Delete(t) ==
  /\ Acceptable(t, "delete")
  /\ rows' = Removed(rows, req[t].id)
  /\ answer' = [answer EXCEPT ![t] = Ok(None)]
  /\ UNCHANGED <<used, req>>

Get(t) ==
  /\ Acceptable(t, "get")
  /\ answer' = [answer EXCEPT ![t] = Ok(rows[req[t].id])]
  /\ UNCHANGED <<rows, used, req>>

Receive(t) ==
  /\ answer[t] /= None
  /\ req' = [req EXCEPT ![t] = None]
  /\ answer' = [answer EXCEPT ![t] = None]
  /\ UNCHANGED <<rows, used>>

(* Before the effect, or after it: the client cannot tell. *)
Fail(t) ==
  /\ MayFail
  /\ req[t] /= None
  /\ answer' = [answer EXCEPT ![t] = Rejected("error")]
  /\ UNCHANGED <<rows, used, req>>

Serve(t) ==
  \/ \E code \in Rejection : Reject(t, code)
  \/ Create(t)
  \/ Update(t)
  \/ Delete(t)
  \/ Get(t)

Next == \E t \in Task : Submit(t) \/ Serve(t) \/ Fail(t) \/ Receive(t)

Spec == Init /\ [][Next]_vars

(* The promise in time: whoever asks gets an answer. *)
EveryRequestAnswered == \A t \in Task : Pending(t) ~> ~Pending(t)

=============================================================================
