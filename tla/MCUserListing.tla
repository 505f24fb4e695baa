---------------------------- MODULE MCUserListing ----------------------------
(* A small instance: two users with equal names, two more who join, pages   *)
(* of at most two rows, and a clock that moves once.                        *)
EXTENDS UserListing

MCName == {"", "Ann", "Bo"}
MCHasAt == {"alice@", "bruno@", "chen@"}
MCEmailKey == [e \in MCHasAt |-> e]
MCStatusText == {"active", "inactive", "suspended", "gone"}

MCSeed ==
  1 :> ModelOf([name |-> "Bo", email |-> "alice@", status |-> "active"], 0, 0) @@
  2 :> ModelOf([name |-> "Bo", email |-> "bruno@", status |-> "inactive"], 0, 0)

MCNewcomer == {[name |-> "Ann", email |-> "chen@", status |-> "active"]}

MCChange ==
  {[op |-> "update", id |-> 1, name |-> "Ann", email |-> None, status |-> "inactive"]}

MCSearchText == {"bo"}
MCMatching == {<<"bo", "Bo">>}

MCSortText == Column \cup {"ASC", "DESC", "", " desc", "NAME", "age"}
MCFolded ==
  [s \in MCSortText |-> CASE s = " desc" -> "DESC" [] s = "NAME" -> "name" [] OTHER -> s]

MCTextRank ==
  [s \in MCName \cup MCHasAt \cup Status |->
     CASE s \in {"", "Ann", "alice@", "active"} -> 1
       [] s \in {"Bo", "bruno@", "inactive"} -> 2
       [] OTHER -> 3]

Ask(search, status, limit, offset, sort_by, sort_order) ==
  [search |-> search, status |-> status, limit |-> limit, offset |-> offset,
   sort_by |-> sort_by, sort_order |-> sort_order]

MCOffered ==
  {Ask(None, None, 0, 0, "age", "DESC"), Ask(None, None, 9, -1, "NAME", "ASC"),
   Ask("bo", None, 1, 0, "updated_at", " desc"), Ask(None, "active", 1, 0, "id", "DESC"),
   Ask(None, "gone", -1, 0, "email", "ASC")}

(* Sorted picks one of the arrangements ORDER BY allows. *)
ASSUME SortedIsAnArrangement ==
  \A column \in Column, descending \in BOOLEAN, ids \in SUBSET DOMAIN MCSeed :
    LET clause == [column |-> column, descending |-> descending]
    IN  Sorted(MCSeed, clause, ids) \in Arrangements(MCSeed, clause, ids)
=============================================================================
