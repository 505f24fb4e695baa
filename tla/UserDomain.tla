---------------------------- MODULE UserDomain ----------------------------
(***************************************************************************)
(* The user feature's vocabulary: the entity, the parameter objects of the *)
(* usecase port, and the pure rules on them.  Rows are a function from ids *)
(* to users, as in UserRepositoryImpl._rows and in the users table.        *)
(*                                                                         *)
(* Texts are abstract: a name is empty or not, an e-mail has an "@" or not *)
(* and compares to others by what case-insensitive comparison keeps of it  *)
(* (EmailKey: casefold() in memory, lower() in PostgreSQL).                *)
(***************************************************************************)
EXTENDS Integers, FiniteSets

CONSTANTS
  Name,        \* the names clients offer
  EmptyName,   \* the empty one
  Email,       \* the texts clients offer as e-mail
  HasAt,       \* those of them that contain an "@"
  EmailKey,    \* what case-insensitive comparison sees of each
  StatusText,  \* the texts clients offer as status
  None         \* Python's None

Status == {"active", "inactive", "suspended"}

User == [name : Name, email : HasAt, status : Status]

CreateUserParams ==
  [op : {"create"}, name : Name, email : Email, status : StatusText]

UpdateUserParams ==
  [op : {"update"}, id : Nat \ {0}, name : Name \cup {None},
   email : Email \cup {None}, status : StatusText \cup {None}]

UserTarget == [op : {"get", "delete"}, id : Nat \ {0}]

AnyRequest == CreateUserParams \cup UpdateUserParams \cup UserTarget

ASSUME DomainAssumption ==
  /\ EmptyName \in Name
  /\ HasAt \subseteq Email
  /\ DOMAIN EmailKey = Email
  /\ Status \subseteq StatusText
  /\ None \notin Name \cup Email \cup StatusText \cup User \cup AnyRequest

-----------------------------------------------------------------------------

CanBeDeleted(user) == user.status /= "active"

FromParams(p) == [name |-> p.name, email |-> p.email, status |-> p.status]

OrElse(new, old) == IF new = None THEN old ELSE new

(* Variant: None is stored where it should leave the status alone. *)
WithUpdatesNulling(row, p) ==
  [name |-> OrElse(p.name, row.name), email |-> OrElse(p.email, row.email), status |-> p.status]

WithUpdates(row, p) ==
  [name   |-> OrElse(p.name, row.name),
   email  |-> OrElse(p.email, row.email),
   status |-> OrElse(p.status, row.status)]

(* The checks of the usecase that look at the parameters alone. *)
WellFormedCreate(p) ==
  p.name /= EmptyName /\ p.email \in HasAt /\ p.status \in Status

WellFormedEmail(p)  == p.email \in HasAt \cup {None}
WellFormedStatus(p) == p.status \in Status \cup {None}

-----------------------------------------------------------------------------

SameEmail(e, f) == EmailKey[e] = EmailKey[f]

(* The ids whose row get_by_email matches. *)
EmailMatches(rows, email) == {i \in DOMAIN rows : SameEmail(rows[i].email, email)}

Stored(rows, id, user) ==
  [i \in DOMAIN rows \cup {id} |-> IF i = id THEN user ELSE rows[i]]

Removed(rows, id) == [i \in DOMAIN rows \ {id} |-> rows[i]]

DistinctEmails(rows) ==
  \A i, j \in DOMAIN rows : SameEmail(rows[i].email, rows[j].email) => i = j

=============================================================================
