---------------------------- MODULE UserRequests ----------------------------
(***************************************************************************)
(* What becomes of a call of the HTTP API on its way to the usecase: the   *)
(* path and the request DTOs refuse it, or the handler makes a parameter   *)
(* object of it.                                                           *)
(***************************************************************************)
EXTENDS UserDomain

CONSTANTS
  HttpCall,      \* the calls that clients make
  LongName,      \* the names beyond max_length
  Deliverable,   \* the texts that EmailStr takes
  Normalised,    \* the address it makes of each
  Absent,        \* a field that is not there
  Junk           \* a value of another type

(* A body of any form, with the id in the path of those that have one. *)
Body ==
  [name : Name \cup {None, Absent, Junk}, email : Email \cup {None, Absent, Junk},
   status : StatusText \cup {None, Absent, Junk}]

Call ==
  [op : {"create"}, body : Body] \cup
  [op : {"update"}, id : Int \cup {Junk}, body : Body] \cup
  [op : {"get", "delete"}, id : Int \cup {Junk}]

ASSUME RequestAssumption ==
  /\ HttpCall \subseteq Call
  /\ LongName \subseteq Name \ {EmptyName}
  /\ Deliverable \subseteq HasAt
  /\ Normalised \in [Deliverable -> HasAt]
  /\ Absent \notin Name \cup Email \cup StatusText \cup {None}
  /\ Junk \notin Name \cup Email \cup StatusText \cup {None, Absent} \cup Int

-----------------------------------------------------------------------------

(* Path(ge=1). *)
PathId(id) == id \in Nat \ {0}

(* Variant: the status of a create is any text. *)
CreateUserRequestAnyStatus(body) ==
  IF /\ body.name \in Name \ ({EmptyName} \cup LongName)
     /\ body.email \in Deliverable
     /\ body.status \in StatusText \cup {Absent}
  THEN [op |-> "create", name |-> body.name, email |-> Normalised[body.email],
        status |-> IF body.status = Absent THEN "active" ELSE body.status]
  ELSE None

(* None: refused.  The status may be left out, and not null. *)
CreateUserRequest(body) ==
  IF /\ body.name \in Name \ ({EmptyName} \cup LongName)
     /\ body.email \in Deliverable
     /\ body.status \in Status \cup {Absent}
  THEN [op |-> "create", name |-> body.name, email |-> Normalised[body.email],
        status |-> IF body.status = Absent THEN "active" ELSE body.status]
  ELSE None

(* A field that is left out and one that is null both leave the user's. *)
Optional(value) == IF value = Absent THEN None ELSE value

(* The name may be empty. *)
UpdateUserRequest(id, body) ==
  IF /\ PathId(id)
     /\ body.name \in (Name \ LongName) \cup {None, Absent}
     /\ body.email \in Deliverable \cup {None, Absent}
     /\ body.status \in Status \cup {None, Absent}
  THEN [op |-> "update", id |-> id, name |-> Optional(body.name),
        email |-> IF body.email \in Deliverable THEN Normalised[body.email] ELSE None,
        status |-> Optional(body.status)]
  ELSE None

(* What the handler calls the usecase with. *)
Bound(call) ==
  CASE call.op = "create" -> CreateUserRequest(call.body)
    [] call.op = "update" -> UpdateUserRequest(call.id, call.body)
    [] call.op \in {"get", "delete"} ->
         IF PathId(call.id) THEN [op |-> call.op, id |-> call.id] ELSE None

HttpRequest == {Bound(call) : call \in HttpCall} \ {None}

=============================================================================
