------------------------- MODULE MCMemoryUserService -------------------------
(* A small instance: the three seeded users of _seed_rows, and requests    *)
(* that collide on an address, on a row, or on the rules.                  *)
EXTENDS UserApi, TLC

MCName == {"", "Ann", "Ann..."}
MCHasAt == {"alice@", "ALICE@", "bruno@", "chen@", "dana@", "@"}
MCEmail == MCHasAt \cup {"dana"}
MCDeliverable == MCHasAt \ {"@"}
MCNormalised == [e \in MCDeliverable |-> e]
MCEmailKey == [e \in MCEmail |-> IF e = "ALICE@" THEN "alice@" ELSE e]
MCStatusText == {"active", "inactive", "suspended", "gone"}

MCSeed ==
  1 :> [name |-> "Ann", email |-> "alice@", status |-> "active"] @@
  2 :> [name |-> "Ann", email |-> "bruno@", status |-> "inactive"] @@
  3 :> [name |-> "Ann", email |-> "chen@", status |-> "suspended"]

Fields(name, email, status) == [name |-> name, email |-> email, status |-> status]
Post(body) == [op |-> "create", body |-> body]
Put(id, body) == [op |-> "update", id |-> id, body |-> body]
On(op, id) == [op |-> op, id |-> id]

(* Over HTTP: what is bound, and what is refused before the usecase. *)
MCHttpCall ==
  {Post(Fields("Ann", "dana@", Absent)), Post(Fields("Ann", "ALICE@", "inactive")),
   Put(1, Fields(Absent, Absent, "inactive")), Put(2, Fields(None, "dana@", "active")),
   Put(2, Fields("", "ALICE@", None)),
   On("delete", 1), On("delete", 2), On("delete", 4), On("get", 4)} \cup
  {Post(Fields("", "dana@", "active")), Post(Fields("Ann...", "dana@", "active")),
   Post(Fields("Ann", "@", "active")), Post(Fields("Ann", "dana@", "gone")),
   Post(Fields("Ann", "dana@", None)), Put(0, Fields(Absent, Absent, Absent)),
   Put(2, Fields(Absent, "dana", Absent)), Put(2, Fields(Junk, Absent, Absent)),
   Put(3, Fields(Absent, Absent, "gone")), On("delete", -1), On("get", Junk)}

New(name, email, status) ==
  [op |-> "create", name |-> name, email |-> email, status |-> status]
Change(id, name, email, status) ==
  [op |-> "update", id |-> id, name |-> name, email |-> email, status |-> status]

(* And from callers of the usecase that no DTO stands before. *)
MCOffered ==
  HttpRequest \cup
  {New("", "dana@", "active"), New("Ann", "dana", "active"),
   Change(1, None, "ALICE@", "gone"), Change(2, None, "dana", None),
   Change(3, None, None, "gone")}

Symmetry == Permutations(Task)
=============================================================================
