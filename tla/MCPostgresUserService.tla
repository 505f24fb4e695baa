------------------------ MODULE MCPostgresUserService ------------------------
(* A small instance of the table: two users, and requests that collide.    *)
EXTENDS PostgresUserService, TLC

MCName == {"", "Ann"}
MCHasAt == {"alice@", "ALICE@", "bruno@", "dana@"}
MCEmail == MCHasAt \cup {"dana"}
MCEmailKey == [e \in MCEmail |-> IF e = "ALICE@" THEN "alice@" ELSE e]
MCStatusText == {"active", "inactive", "suspended", "gone"}

MCSeed ==
  1 :> [name |-> "Ann", email |-> "alice@", status |-> "active"] @@
  2 :> [name |-> "Ann", email |-> "bruno@", status |-> "inactive"]

New(name, email, status) ==
  [op |-> "create", name |-> name, email |-> email, status |-> status]
Change(id, name, email, status) ==
  [op |-> "update", id |-> id, name |-> name, email |-> email, status |-> status]
On(op, id) == [op |-> op, id |-> id]

(* What three clients can ask for at a time without being about the same   *)
(* user or address.                                                        *)
OfferedApart ==
  {New("Ann", "dana@", "inactive"), Change(1, None, "ALICE@", None),
   Change(2, None, "dana@", "active"), Change(2, "", None, "gone"),
   On("delete", 2), On("get", 2)}

(* What clients do to each other. *)
OfferedToMany ==
  {New("Ann", "dana@", "inactive"), Change(3, "", None, None), Change(2, None, "dana@", None),
   Change(2, None, None, "active"), On("delete", 2), On("delete", 3)}

Symmetry == Permutations(Task)
=============================================================================
