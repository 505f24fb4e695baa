----------------------------- MODULE UserListing -----------------------------
(***************************************************************************)
(* GET /users: the page request (utils/pagination.py), the list method of  *)
(* either repository, the answer of the handler, and a client that goes    *)
(* through the pages while others write.                                   *)
(*                                                                         *)
(* In memory a page is made in one step of the event loop.  PostgreSQL     *)
(* makes it with two statements, which see the table at two instants, and  *)
(* leaves rows with equal sort keys in any order, a new one every time.    *)
(* In memory a user is created in one step too.  An INSERT draws its id    *)
(* before anybody sees the row, so rows may appear out of the order of     *)
(* their ids.                                                              *)
(***************************************************************************)
EXTENDS UserDomain, Sequences, SequencesExt

CONSTANTS
  Instant,       \* the readings of the clock, in their order
  Seed,          \* the rows at start
  Newcomer,      \* the users that get created meanwhile
  Change,        \* the updates that are made meanwhile
  Offered,       \* the page requests a client begins with, at the front
  SearchText, Matching,   \* Matching: the pairs <<needle, text>> that match
  SortText, Folded,       \* Folded: what strip and case folding leave of a text
  TextRank,      \* the order of texts
  DefaultLimit, MaxLimit, \* DEFAULT_LIMIT and MAX_LIMIT of pagination.py
  LastId         \* bound: the highest id given out

Column == {"id", "name", "email", "status", "created_at", "updated_at"}

UserModel ==
  [name : Name, email : HasAt, status : Status, created_at : Instant, updated_at : Instant]

Query ==
  [search : SearchText \cup {None}, status : StatusText \cup {None},
   limit : Int, offset : Int, sort_by : SortText, sort_order : SortText]

ASSUME ListingAssumption ==
  /\ Instant \subseteq Nat
  /\ DOMAIN Seed \subseteq Nat \ {0}
  /\ Seed \in [DOMAIN Seed -> UserModel]
  /\ \E m \in DOMAIN Seed \cup {0} : \A i \in DOMAIN Seed : i <= m
  /\ Newcomer \subseteq User
  /\ Change \subseteq UpdateUserParams
  /\ \A p \in Change : p.email \in HasAt \cup {None} /\ p.status \in Status \cup {None}
  /\ Offered \subseteq Query
  /\ \A q \in Offered : q.offset <= 0
  /\ None \notin SearchText
  /\ Column \cup {"ASC", "DESC", ""} \subseteq SortText
  /\ Folded \in [SortText -> SortText]
  /\ \A s \in SortText : Folded[Folded[s]] = Folded[s]
  /\ \A s \in {"ASC", "DESC", ""} : Folded[s] = s
  /\ TextRank \in [Name \cup HasAt \cup Status -> Nat]
  /\ DefaultLimit \in Nat \ {0}
  /\ MaxLimit \in Nat \ {0}
  /\ LastId \in Nat

-----------------------------------------------------------------------------
(* The page request                                                        *)

(* Variant: a limit of zero is kept. *)
NormalLimitKeepsZero(limit) == IF limit < 0 THEN DefaultLimit ELSE Min({limit, MaxLimit})

NormalLimit(limit) == Min({IF limit <= 0 THEN DefaultLimit ELSE limit, MaxLimit})

Normalize(q) ==
  [q EXCEPT
    !.limit = NormalLimit(@),
    !.offset = Max({@, 0}),
    !.sort_order = IF Folded[@] \in {"ASC", "DESC"} THEN Folded[@] ELSE ""]

(* A column that is not on the list leaves the fallback, "id ASC", whatever *)
(* direction was asked for.                                                 *)
OrderClause(q) ==
  IF Folded[q.sort_by] \in Column
  THEN [column |-> Folded[q.sort_by], descending |-> q.sort_order = "DESC"]
  ELSE [column |-> "id", descending |-> FALSE]

-----------------------------------------------------------------------------
(* The rows it selects                                                     *)

(* The filter on the status is not validated: an unknown one matches nothing. *)
Selected(rows, q) ==
  {i \in DOMAIN rows :
     /\ q.status \in {None, rows[i].status}
     /\ \/ q.search = None
        \/ <<q.search, rows[i].name>> \in Matching
        \/ <<q.search, rows[i].email>> \in Matching}

SortKey(rows, i, column) ==
  CASE column = "id" -> i
    [] column \in {"created_at", "updated_at"} -> rows[i][column]
    [] OTHER -> TextRank[rows[i][column]]

Precedes(rows, clause, i, j) ==
  LET k == SortKey(rows, i, clause.column)
      l == SortKey(rows, j, clause.column)
  IN  IF clause.descending THEN k > l ELSE k < l

(* ORDER BY: every arrangement in which no row follows one it precedes. *)
Arrangements(rows, clause, ids) ==
  {s \in SetToSeqs(ids) :
     \A m, n \in DOMAIN s : m < n => ~Precedes(rows, clause, s[n], s[m])}

(* sorted() is stable, in either direction: ties stay in insertion order,  *)
(* which is the order of the ids.                                          *)
Before(rows, clause, i, j) ==
  \/ Precedes(rows, clause, i, j)
  \/ ~Precedes(rows, clause, j, i) /\ i < j

(* The n-th row has n - 1 rows before it. *)
Sorted(rows, clause, ids) ==
  [n \in 1 .. Cardinality(ids) |->
     CHOOSE j \in ids : Cardinality({i \in ids : Before(rows, clause, i, j)}) = n - 1]

(* Variant: the window is one short. *)
WindowOneShort(s, q) == SubSeq(s, q.offset + 1, Min({q.offset + q.limit - 1, Len(s)}))

Window(s, q) == SubSeq(s, q.offset + 1, Min({q.offset + q.limit, Len(s)}))

-----------------------------------------------------------------------------

VARIABLES
  storage,   \* STORAGE_TYPE
  rows, next_id,
  taken,     \* ids that INSERTs under way have drawn from the sequence
  query,     \* the page request of the client
  phase,     \* where it is: idle, asking, counted, answered, done, failed
  counted,   \* total, between the two statements
  page,      \* the answer
  seen,      \* the ids the client was shown, in order
  mark,      \* history: the rows that were there when it began
  changed,   \* history: whether a row was changed or removed since then
  overtaken, \* history: whether a row appeared below one that was there, since then
  stale      \* history: whether a row was written between the two statements

vars == <<storage, rows, next_id, taken, query, phase, counted, page, seen,
          mark, changed, overtaken, stale>>
database == <<storage, rows, next_id, taken>>
client == <<query, phase, counted, page, seen, mark>>

Clause == OrderClause(Normalize(query))

Init ==
  /\ storage \in {"memory", "postgres"}
  /\ rows = Seed
  /\ next_id = 1 + (CHOOSE m \in DOMAIN Seed \cup {0} : \A i \in DOMAIN Seed : i <= m)
  /\ taken = {}
  /\ query = None
  /\ phase = "idle"
  /\ counted = 0
  /\ page = None
  /\ seen = <<>>
  /\ mark = {}
  /\ changed = FALSE
  /\ overtaken = FALSE
  /\ stale = FALSE

Begin ==
  /\ phase \in {"idle", "done", "failed"}
  /\ query' \in Offered
  /\ phase' = "asking"
  /\ seen' = <<>>
  /\ page' = None
  /\ mark' = DOMAIN rows
  /\ changed' = FALSE
  /\ overtaken' = FALSE
  /\ UNCHANGED <<database, counted, stale>>

(* Variant: the handler echoes what it was asked. *)
RespondVerbatim(items, total) ==
  /\ page' = [items |-> items, total |-> total,
              limit |-> query.limit, offset |-> Max({query.offset, 0})]
  /\ seen' = seen \o items
  /\ phase' = "answered"
  /\ UNCHANGED <<database, query, mark, changed, overtaken>>

(* The handler normalises the request again for what it echoes. *)
Respond(items, total) ==
  /\ page' = [items |-> items, total |-> total,
              limit |-> Normalize(query).limit, offset |-> Normalize(query).offset]
  /\ seen' = seen \o items
  /\ phase' = "answered"
  /\ UNCHANGED <<database, query, mark, changed, overtaken>>

(* Variant: the total is taken of the page. *)
ListInMemoryCountsPage ==
  /\ storage = "memory" /\ phase = "asking"
  /\ LET q == Normalize(query)
         items == Window(Sorted(rows, OrderClause(q), Selected(rows, q)), q)
     IN  Respond(items, Len(items))
  /\ stale' = FALSE
  /\ UNCHANGED counted

ListInMemory ==
  /\ storage = "memory" /\ phase = "asking"
  /\ LET q == Normalize(query)
         ids == Selected(rows, q)
     IN  Respond(Window(Sorted(rows, OrderClause(q), ids), q), Cardinality(ids))
  /\ stale' = FALSE
  /\ UNCHANGED counted

(* SELECT count and SELECT ... LIMIT OFFSET, each with a snapshot of its own. *)
Count ==
  /\ storage = "postgres" /\ phase = "asking"
  /\ counted' = Cardinality(Selected(rows, Normalize(query)))
  /\ phase' = "counted"
  /\ stale' = FALSE
  /\ UNCHANGED <<database, query, page, seen, mark, changed, overtaken>>

(* Variant: the second statement lacks the WHERE of the first. *)
SelectUnfiltered ==
  /\ storage = "postgres" /\ phase = "counted"
  /\ \E s \in Arrangements(rows, Clause, DOMAIN rows) :
       Respond(Window(s, Normalize(query)), counted)
  /\ counted' = 0
  /\ UNCHANGED stale

Select ==
  /\ storage = "postgres" /\ phase = "counted"
  /\ LET q == Normalize(query)
     IN  \E s \in Arrangements(rows, OrderClause(q), Selected(rows, q)) :
           Respond(Window(s, q), counted)
  /\ counted' = 0
  /\ UNCHANGED stale

(* The connection breaks: the handler answers 500, and the client gives up. *)
Fail ==
  /\ storage = "postgres" /\ phase \in {"asking", "counted"}
  /\ phase' = "failed"
  /\ counted' = 0
  /\ seen' = <<>>
  /\ stale' = FALSE
  /\ UNCHANGED <<database, query, page, mark, changed, overtaken>>

(* The client trusts what the answer says of limit, offset and total. *)
NextPage ==
  /\ phase = "answered"
  /\ IF page.offset + page.limit < page.total
     THEN /\ query' = [query EXCEPT !.offset = page.offset + page.limit]
          /\ phase' = "asking"
     ELSE phase' = "done" /\ UNCHANGED query
  /\ page' = None
  /\ stale' = FALSE
  /\ UNCHANGED <<database, counted, seen, mark, changed, overtaken>>

ModelOf(user, created, updated) ==
  [name |-> user.name, email |-> user.email, status |-> user.status,
   created_at |-> created, updated_at |-> updated]

(* What the other operations of the repository do to the rows.  They read  *)
(* the clock before their statement runs, so a later one may have an       *)
(* earlier reading.                                                        *)
Appear(id) ==
  /\ \E user \in Newcomer, now \in Instant :
       rows' = Stored(rows, id, ModelOf(user, now, now))
  /\ overtaken' = (overtaken \/ \E i \in DOMAIN rows : id < i)
  /\ UNCHANGED changed

CreateInMemory ==
  /\ storage = "memory" /\ next_id <= LastId
  /\ Appear(next_id)
  /\ next_id' = next_id + 1
  /\ UNCHANGED taken

(* INSERT evaluates the default of id when it runs, and its row is seen    *)
(* when it commits: another INSERT may overtake it in between.             *)
DrawId ==
  /\ storage = "postgres" /\ next_id <= LastId
  /\ taken' = taken \cup {next_id}
  /\ next_id' = next_id + 1
  /\ UNCHANGED <<storage, rows, client, changed, overtaken, stale>>

CommitInsert ==
  \E id \in taken :
    /\ Appear(id)
    /\ taken' = taken \ {id}
    /\ UNCHANGED next_id

(* It fails instead, with its connection or its server: the id is lost. *)
AbandonInsert ==
  /\ \E id \in taken : taken' = taken \ {id}
  /\ UNCHANGED <<storage, rows, next_id, client, changed, overtaken, stale>>

ChangeRow ==
  /\ \/ \E p \in Change, now \in Instant :
          /\ p.id \in DOMAIN rows
          /\ rows' = Stored(rows, p.id,
                            ModelOf(WithUpdates(rows[p.id], p), rows[p.id].created_at, now))
     \/ \E i \in DOMAIN rows :
          /\ CanBeDeleted(rows[i])
          /\ rows' = Removed(rows, i)
  /\ changed' = TRUE
  /\ UNCHANGED <<next_id, taken, overtaken>>

Write ==
  \/ CreateInMemory
  \/ CommitInsert
  \/ ChangeRow

Interfere ==
  /\ Write
  /\ stale' = (stale \/ phase = "counted")
  /\ UNCHANGED <<storage, client>>

Next ==
  \/ Begin
  \/ ListInMemory
  \/ Count
  \/ Select
  \/ Fail
  \/ NextPage
  \/ DrawId
  \/ AbandonInsert
  \/ Interfere

Spec == Init /\ [][Next]_vars

(* The server answers, and a client that pages asks for the next page. *)
FairSpec ==
  Spec /\ WF_vars(ListInMemory) /\ WF_vars(Count) /\ WF_vars(Select) /\ WF_vars(NextPage)

-----------------------------------------------------------------------------
(* Properties                                                              *)

(* Every variable has its type. *)
TypeOK ==
  /\ storage \in {"memory", "postgres"}
  /\ next_id \in Nat \ {0}
  /\ DOMAIN rows \subseteq 1 .. (next_id - 1)
  /\ rows \in [DOMAIN rows -> UserModel]
  /\ taken \subseteq 1 .. (next_id - 1) /\ taken \cap DOMAIN rows = {}
  /\ query \in Query \cup {None}
  /\ phase \in {"idle", "asking", "counted", "answered", "done", "failed"}
  /\ counted \in Nat
  /\ page \in [items : Seq(Nat), total : Nat, limit : 1 .. MaxLimit, offset : Nat] \cup {None}
  /\ seen \in Seq(Nat)
  /\ mark \subseteq 1 .. (next_id - 1)
  /\ changed \in BOOLEAN
  /\ overtaken \in BOOLEAN
  /\ stale \in BOOLEAN

(* The four numbers of an answer fit each other: the page has as many items *)
(* as limit, offset and total leave for it.  Over PostgreSQL a write        *)
(* between the two statements may break this, and nothing else may.         *)
PageFitsTotal ==
  phase = "answered" /\ ~stale =>
    Len(page.items) = Max({0, Min({page.limit, page.total - page.offset})})

(* Going through the pages of a table that nobody writes shows every        *)
(* selected row exactly once, in order: in memory for every sort, over      *)
(* PostgreSQL for a sort that leaves no ties.                               *)
QuietTraversalIsExact ==
  /\ phase = "done" /\ ~changed /\ mark = DOMAIN rows
  /\ storage = "memory" \/ Clause.column = "id"
  => seen = Sorted(rows, Clause, Selected(rows, query))

(* Users may be created meanwhile.  In memory nobody who was there when the *)
(* client began is left out, whatever the sort: who joins pushes others to *)
(* later pages, never to earlier ones.  In the default order no row is     *)
(* shown twice either, and over PostgreSQL both hold as long as the rows   *)
(* appear in the order of their ids; an INSERT that is overtaken shifts    *)
(* what follows it.                                                        *)
CreatesDontDisturb ==
  phase = "done" /\ ~changed =>
    LET there == mark \cap Selected(rows, query)
    IN  /\ storage = "memory" => there \subseteq Range(seen)
        /\ Clause = [column |-> "id", descending |-> FALSE] /\ ~overtaken =>
             IsInjective(seen) /\ there \subseteq Range(seen)

(* The client comes to an end, whatever is written: what the answer echoes *)
(* takes every next request further, and the total is bounded.             *)
TraversalEnds == phase = "asking" ~> phase \in {"done", "failed"}

(* No row is shown twice while nobody writes. *)
NoRowTwice == ~changed /\ mark = DOMAIN rows => IsInjective(seen)

=============================================================================
