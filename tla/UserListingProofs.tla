-------------------------- MODULE UserListingProofs --------------------------
(* Proofs about the listing: what Sorted returns for every table, and what *)
(* the pages of UserListing show, for every seed, every page request that  *)
(* begins at the front, and every write meanwhile.                         *)
EXTENDS UserListing, UserDomainProofs, FiniteSetTheorems, SequenceTheorems, TLAPS

(***************************************************************************)
(* Sorting.  The rows that come before a row are counted; the counts of    *)
(* different rows differ, so by the pigeonhole principle every count from  *)
(* none to all but one belongs to exactly one row.                         *)
(***************************************************************************)

Clauses == [column : Column, descending : BOOLEAN]

Table(table) == table \in [DOMAIN table -> UserModel] /\ DOMAIN table \subseteq Nat

LEMMA KeysAreNumbers ==
  ASSUME NEW table, Table(table), NEW c \in Clauses, NEW i \in DOMAIN table
  PROVE  SortKey(table, i, c.column) \in Nat
<1>1. table[i] \in UserModel /\ i \in Nat
  BY DEF Table
<1>2. c.column \in Column
  BY DEF Clauses
<1>3. CASE c.column = "id"
  BY <1>1, <1>3 DEF SortKey
<1>4. CASE c.column \in {"name", "email", "status"}
  <2>1. table[i][c.column] \in Name \cup HasAt \cup Status
    BY <1>1, <1>4 DEF UserModel
  <2> QED
    BY <1>4, <2>1, ListingAssumption DEF SortKey
<1>5. CASE c.column \in {"created_at", "updated_at"}
  <2>1. table[i][c.column] \in Instant
    BY <1>1, <1>5 DEF UserModel
  <2> QED
    BY <1>5, <2>1, ListingAssumption DEF SortKey
<1> QED
  BY <1>2, <1>3, <1>4, <1>5 DEF Column

(* The order of a stable sort is strict and total. *)
LEMMA BeforeIsOrder ==
  ASSUME NEW table, Table(table), NEW c \in Clauses,
         NEW i \in DOMAIN table, NEW j \in DOMAIN table, NEW k \in DOMAIN table
  PROVE  /\ ~Before(table, c, i, i)
         /\ Before(table, c, i, j) /\ Before(table, c, j, k) => Before(table, c, i, k)
         /\ i /= j => Before(table, c, i, j) \/ Before(table, c, j, i)
         /\ Before(table, c, i, j) => ~Precedes(table, c, j, i)
<1>1. /\ SortKey(table, i, c.column) \in Nat /\ SortKey(table, j, c.column) \in Nat
      /\ SortKey(table, k, c.column) \in Nat
  BY KeysAreNumbers
<1>2. i \in Nat /\ j \in Nat /\ k \in Nat
  BY DEF Table
<1> QED
  BY <1>1, <1>2 DEF Before, Precedes

Predecessors(table, c, ids, j) == {i \in ids : Before(table, c, i, j)}

LEMMA RanksDiffer ==
  ASSUME NEW table, Table(table), NEW c \in Clauses,
         NEW ids \in SUBSET DOMAIN table, IsFiniteSet(ids),
         NEW i \in ids, NEW j \in ids, Before(table, c, i, j)
  PROVE  /\ Cardinality(Predecessors(table, c, ids, i)) \in Nat
         /\ Cardinality(Predecessors(table, c, ids, j)) \in Nat
         /\ Cardinality(Predecessors(table, c, ids, i)) < Cardinality(Predecessors(table, c, ids, j))
<1> DEFINE P == Predecessors(table, c, ids, i)
           Q == Predecessors(table, c, ids, j)
<1>1. P \subseteq Q /\ i \in Q /\ i \notin P /\ Q \subseteq ids
  BY BeforeIsOrder DEF Predecessors
<1> HIDE DEF P, Q
<1>2. IsFiniteSet(Q)
  BY <1>1, FS_Subset
<1>3. IsFiniteSet(P) /\ Cardinality(P) <= Cardinality(Q) /\ Cardinality(P) /= Cardinality(Q)
  BY <1>1, <1>2, FS_Subset
<1>4. Cardinality(P) \in Nat /\ Cardinality(Q) \in Nat
  BY <1>2, <1>3, FS_CardinalityType
<1> QED
  BY <1>3, <1>4 DEF P, Q

LEMMA RankBelow ==
  ASSUME NEW table, Table(table), NEW c \in Clauses,
         NEW ids \in SUBSET DOMAIN table, IsFiniteSet(ids), NEW j \in ids
  PROVE  Cardinality(Predecessors(table, c, ids, j)) \in 0 .. (Cardinality(ids) - 1)
<1> DEFINE P == Predecessors(table, c, ids, j)
<1>1. P \subseteq ids /\ j \notin P
  BY BeforeIsOrder DEF Predecessors
<1> HIDE DEF P
<1>2. IsFiniteSet(P) /\ Cardinality(P) <= Cardinality(ids) /\ Cardinality(P) /= Cardinality(ids)
  BY <1>1, FS_Subset
<1>3. Cardinality(P) \in Nat /\ Cardinality(ids) \in Nat
  BY <1>2, FS_CardinalityType
<1> QED
  BY <1>2, <1>3 DEF P

(* Every rank is taken by one row, and only one. *)
LEMMA EveryRankTaken ==
  ASSUME NEW table, Table(table), NEW c \in Clauses,
         NEW ids \in SUBSET DOMAIN table, IsFiniteSet(ids)
  PROVE  /\ \A n \in 1 .. Cardinality(ids) :
              \E j \in ids : Cardinality(Predecessors(table, c, ids, j)) = n - 1
         /\ \A i, j \in ids :
              Cardinality(Predecessors(table, c, ids, i)) = Cardinality(Predecessors(table, c, ids, j))
                => i = j
<1> DEFINE k == Cardinality(ids)
           rank == [j \in ids |-> Cardinality(Predecessors(table, c, ids, j))]
<1>1. k \in Nat
  BY FS_CardinalityType
<1>2. rank \in [ids -> 0 .. (k - 1)]
  BY RankBelow
<1>3. \A i, j \in ids : rank[i] = rank[j] => i = j
  <2> SUFFICES ASSUME NEW i \in ids, NEW j \in ids, i /= j PROVE rank[i] /= rank[j]
    OBVIOUS
  <2>1. Before(table, c, i, j) \/ Before(table, c, j, i)
    BY BeforeIsOrder
  <2> QED
    BY <2>1, RanksDiffer
<1> HIDE DEF rank
<1>4. rank \in Injection(ids, 0 .. (k - 1))
  BY <1>2, <1>3 DEF Injection, IsInjective
<1>5. IsFiniteSet(0 .. (k - 1)) /\ Cardinality(0 .. (k - 1)) = k
  <2>1. IsFiniteSet(0 .. (k - 1)) /\ Cardinality(0 .. (k - 1)) = IF 0 > k - 1 THEN 0 ELSE (k - 1) - 0 + 1
    BY <1>1, FS_Interval
  <2> QED
    BY <1>1, <2>1
<1>6. rank \in Surjection(ids, 0 .. (k - 1))
  BY <1>4, <1>5, FS_Injection
<1>7. \A n \in 1 .. k : \E j \in ids : rank[j] = n - 1
  BY <1>1, <1>6 DEF Surjection
<1> QED
  BY <1>3, <1>7 DEF rank

(* The n-th of the sorted rows is the one with n - 1 before it. *)
LEMMA SortedByRank ==
  ASSUME NEW table, Table(table), NEW c \in Clauses,
         NEW ids \in SUBSET DOMAIN table, IsFiniteSet(ids)
  PROVE  /\ Sorted(table, c, ids) \in [1 .. Cardinality(ids) -> ids]
         /\ \A n \in 1 .. Cardinality(ids) :
              Cardinality(Predecessors(table, c, ids, Sorted(table, c, ids)[n])) = n - 1
<1> SUFFICES ASSUME NEW n \in 1 .. Cardinality(ids)
             PROVE  /\ Sorted(table, c, ids)[n] \in ids
                    /\ Cardinality(Predecessors(table, c, ids, Sorted(table, c, ids)[n])) = n - 1
  BY DEF Sorted
<1>1. Sorted(table, c, ids)[n] =
        CHOOSE j \in ids : Cardinality(Predecessors(table, c, ids, j)) = n - 1
  BY DEF Sorted, Predecessors
<1>2. \E j \in ids : Cardinality(Predecessors(table, c, ids, j)) = n - 1
  BY EveryRankTaken
<1> QED
  BY <1>1, <1>2

(* For any table, column and direction, Sorted is one of the arrangements  *)
(* that ORDER BY allows: it shows every selected row once, and no row      *)
(* before one that it must follow.                                         *)
THEOREM SortedIsArranged ==
  ASSUME NEW table, Table(table), NEW c \in Clauses,
         NEW ids \in SUBSET DOMAIN table, IsFiniteSet(ids)
  PROVE  Sorted(table, c, ids) \in Arrangements(table, c, ids)
<1> DEFINE s == Sorted(table, c, ids)
           k == Cardinality(ids)
<1>1. k \in Nat
  BY FS_CardinalityType
<1>2. /\ s \in [1 .. k -> ids]
      /\ \A n \in 1 .. k : Cardinality(Predecessors(table, c, ids, s[n])) = n - 1
  BY SortedByRank
<1> HIDE DEF s, k
<1>3. \A m, n \in 1 .. k : m /= n => s[m] /= s[n]
  BY <1>1, <1>2
<1>4. ASSUME NEW m \in 1 .. k, NEW n \in 1 .. k, m < n
      PROVE  ~Precedes(table, c, s[n], s[m])
  <2>1. s[m] \in ids /\ s[n] \in ids /\ s[m] /= s[n]
    BY <1>2, <1>3, <1>4
  <2>2. ~Before(table, c, s[n], s[m])
    <3> SUFFICES ASSUME Before(table, c, s[n], s[m]) PROVE FALSE
      OBVIOUS
    <3>1. Cardinality(Predecessors(table, c, ids, s[n])) < Cardinality(Predecessors(table, c, ids, s[m]))
      BY <2>1, RanksDiffer
    <3> QED
      BY <1>1, <1>2, <1>4, <3>1
  <2> QED
    BY <2>2 DEF Before
<1>5. s \in SetToSeqs(ids)
  BY <1>2, <1>3 DEF SetToSeqs, k
<1>6. DOMAIN s = 1 .. k
  BY <1>2
<1> QED
  BY <1>4, <1>5, <1>6 DEF Arrangements, s

(***************************************************************************)
(* The page request and the window.                                        *)
(***************************************************************************)

LEMMA MinOfTwo ==
  ASSUME NEW a \in Int, NEW b \in Int
  PROVE  Min({a, b}) = IF a <= b THEN a ELSE b
<1> DEFINE m == IF a <= b THEN a ELSE b
<1>1. m \in {a, b} /\ \A y \in {a, b} : m <= y
  OBVIOUS
<1>2. \A x \in {a, b} : (\A y \in {a, b} : x <= y) => x = m
  OBVIOUS
<1> HIDE DEF m
<1>3. Min({a, b}) = m
  BY <1>1, <1>2 DEF Min
<1> QED
  BY <1>3 DEF m

LEMMA MaxOfTwo ==
  ASSUME NEW a \in Int, NEW b \in Int
  PROVE  Max({a, b}) = IF a >= b THEN a ELSE b
<1> DEFINE m == IF a >= b THEN a ELSE b
<1>1. m \in {a, b} /\ \A y \in {a, b} : m >= y
  OBVIOUS
<1>2. \A x \in {a, b} : (\A y \in {a, b} : x >= y) => x = m
  OBVIOUS
<1> HIDE DEF m
<1>3. Max({a, b}) = m
  BY <1>1, <1>2 DEF Max
<1> QED
  BY <1>3 DEF m

(* Whatever was asked, the limit is positive and within its maximum, the   *)
(* offset is not negative, and nothing else changes but the direction.     *)
LEMMA NormalizedQuery ==
  ASSUME NEW q \in Query
  PROVE  /\ Normalize(q) \in Query
         /\ Normalize(q).limit = NormalLimit(q.limit) /\ NormalLimit(q.limit) \in 1 .. MaxLimit
         /\ Normalize(q).offset = (IF q.offset >= 0 THEN q.offset ELSE 0)
         /\ Normalize(q).offset \in Nat
         /\ Normalize(q).search = q.search /\ Normalize(q).status = q.status
         /\ OrderClause(Normalize(q)) \in Clauses
<1>1. q.limit \in Int /\ q.offset \in Int /\ q.sort_order \in SortText
  BY DEF Query
<1>2. NormalLimit(q.limit) \in 1 .. MaxLimit
  <2> DEFINE wanted == IF q.limit <= 0 THEN DefaultLimit ELSE q.limit
  <2>0. DefaultLimit \in Nat \ {0} /\ MaxLimit \in Nat \ {0}
    BY ListingAssumption
  <2>1. wanted \in Nat \ {0} /\ MaxLimit \in Nat \ {0}
    BY <1>1, <2>0
  <2>2. NormalLimit(q.limit) = Min({wanted, MaxLimit})
    BY DEF NormalLimit
  <2> HIDE DEF wanted
  <2>3. Min({wanted, MaxLimit}) = IF wanted <= MaxLimit THEN wanted ELSE MaxLimit
    BY <2>1, MinOfTwo
  <2> QED
    BY <2>1, <2>2, <2>3
<1>3. Max({q.offset, 0}) = IF q.offset >= 0 THEN q.offset ELSE 0
  BY <1>1, MaxOfTwo
<1>4. (IF Folded[q.sort_order] \in {"ASC", "DESC"} THEN Folded[q.sort_order] ELSE "") \in SortText
  BY <1>1, ListingAssumption
<1> DEFINE order == IF Folded[q.sort_order] \in {"ASC", "DESC"} THEN Folded[q.sort_order] ELSE ""
<1>5. Normalize(q) = [q EXCEPT !.limit = NormalLimit(q.limit), !.offset = Max({q.offset, 0}),
                               !.sort_order = order]
  BY DEF Normalize, Query
<1> HIDE DEF order
<1>6. /\ Normalize(q).limit = NormalLimit(q.limit) /\ Normalize(q).offset = Max({q.offset, 0})
      /\ Normalize(q).search = q.search /\ Normalize(q).status = q.status
  BY <1>5 DEF Query
<1>7. Normalize(q) \in Query
  <2>0. MaxLimit \in Nat
    BY ListingAssumption
  <2>1. NormalLimit(q.limit) \in Int
    BY <1>2, <2>0
  <2>2. Max({q.offset, 0}) \in Int
    BY <1>1, <1>3
  <2>3. order \in SortText
    BY <1>4 DEF order
  <2> QED
    BY <1>5, <2>1, <2>2, <2>3 DEF Query
<1>8. OrderClause(Normalize(q)) \in Clauses
  BY DEF OrderClause, Clauses, Column
<1> QED
  BY <1>1, <1>2, <1>3, <1>6, <1>7, <1>8

(* A page of k rows, from the row after offset on. *)
LEMMA WindowOfRows ==
  ASSUME NEW k \in Nat, NEW ids, NEW s \in [1 .. k -> ids], NEW q,
         q.limit \in Nat \ {0}, q.offset \in Nat
  PROVE  /\ Window(s, q) \in Seq(ids)
         /\ Len(Window(s, q)) = Max({0, Min({q.limit, k - q.offset})})
         /\ Window(s, q) = SubSeq(s, q.offset + 1,
                                  IF q.offset + q.limit <= k THEN q.offset + q.limit ELSE k)
<1> DEFINE last == IF q.offset + q.limit <= k THEN q.offset + q.limit ELSE k
<1>1. Len(s) = k
  <2>1. s \in Seq(ids) /\ DOMAIN s = 1 .. k
    BY SeqDef
  <2> QED
    BY <2>1, LenProperties
<1>2. Min({q.offset + q.limit, Len(s)}) = last /\ last \in Int
  BY <1>1, MinOfTwo
<1>3. Window(s, q) = SubSeq(s, q.offset + 1, last)
  BY <1>2 DEF Window
<1>4. \A i \in (q.offset + 1) .. last : s[i] \in ids
  BY <1>2
<1>5. /\ SubSeq(s, q.offset + 1, last) \in Seq(ids)
      /\ Len(SubSeq(s, q.offset + 1, last)) =
           IF q.offset + 1 <= last THEN last - (q.offset + 1) + 1 ELSE 0
  BY <1>2, <1>4, SubSeqProperties
<1>6. Max({0, Min({q.limit, k - q.offset})}) =
        IF q.offset + 1 <= last THEN last - (q.offset + 1) + 1 ELSE 0
  <2>1. Min({q.limit, k - q.offset}) = IF q.limit <= k - q.offset THEN q.limit ELSE k - q.offset
    BY MinOfTwo
  <2> DEFINE least == Min({q.limit, k - q.offset})
  <2>2. least \in Int
    BY <2>1
  <2> HIDE DEF least
  <2>3. Max({0, least}) = IF 0 >= least THEN 0 ELSE least
    BY <2>2, MaxOfTwo
  <2>4. least = IF q.limit <= k - q.offset THEN q.limit ELSE k - q.offset
    BY <2>1 DEF least
  <2>5. Max({0, least}) = IF q.offset + 1 <= last THEN last - (q.offset + 1) + 1 ELSE 0
    BY <2>3, <2>4
  <2> QED
    BY <2>5 DEF least
<1> QED
  BY <1>3, <1>5, <1>6

(***************************************************************************)
(* The types, and what an answer says of its page.                         *)
(***************************************************************************)

Page == [items : Seq(Nat), total : Nat, limit : 1 .. MaxLimit, offset : Nat]

(* There is a request once the client has begun, an answer once it has     *)
(* answered; the answer echoes the normalised request; and what was counted *)
(* is still true as long as nothing was written since.                     *)
AnswerFitsRequest ==
  /\ phase /= "idle" => query \in Query
  /\ phase = "counted" => storage = "postgres"
  /\ phase = "counted" /\ ~stale => counted = Cardinality(Selected(rows, Normalize(query)))
  /\ phase = "answered" =>
       /\ page \in Page
       /\ page.limit = Normalize(query).limit
       /\ page.offset = Normalize(query).offset

Inv == TypeOK /\ AnswerFitsRequest /\ PageFitsTotal

LEMMA TableIsFinite ==
  ASSUME TypeOK, NEW q
  PROVE  /\ Table(rows)
         /\ Selected(rows, q) \in SUBSET DOMAIN rows
         /\ IsFiniteSet(Selected(rows, q))
         /\ Cardinality(Selected(rows, q)) \in Nat
<1>1. /\ rows \in [DOMAIN rows -> UserModel] /\ DOMAIN rows \subseteq 1 .. (next_id - 1)
      /\ next_id \in Nat \ {0}
  BY DEF TypeOK
<1>2. IsFiniteSet(1 .. (next_id - 1))
  BY <1>1, FS_Interval
<1>3. Selected(rows, q) \in SUBSET DOMAIN rows
  BY DEF Selected
<1>4. IsFiniteSet(Selected(rows, q))
  BY <1>1, <1>2, <1>3, FS_Subset
<1> QED
  BY <1>1, <1>3, <1>4, FS_CardinalityType DEF Table

(* A page of an arrangement of the selected rows fits its total. *)
LEMMA PageOfArrangement ==
  ASSUME TypeOK, query \in Query,
         NEW s \in [1 .. Cardinality(Selected(rows, Normalize(query)))
                      -> Selected(rows, Normalize(query))]
  PROVE  /\ Window(s, Normalize(query)) \in Seq(Nat)
         /\ Len(Window(s, Normalize(query))) =
              Max({0, Min({Normalize(query).limit,
                           Cardinality(Selected(rows, Normalize(query))) - Normalize(query).offset})})
<1> DEFINE q == Normalize(query)
           ids == Selected(rows, q)
           k == Cardinality(ids)
<1>1. ids \in SUBSET DOMAIN rows /\ k \in Nat /\ Table(rows)
  BY TableIsFinite
<1>2. ids \subseteq Nat
  BY <1>1 DEF Table
<1>3. s \in [1 .. k -> Nat]
  BY <1>2
<1>4. q.limit \in Nat \ {0} /\ q.offset \in Nat
  BY NormalizedQuery
<1> HIDE DEF q, ids, k
<1>5. Window(s, q) \in Seq(Nat) /\ Len(Window(s, q)) = Max({0, Min({q.limit, k - q.offset})})
  BY <1>1, <1>3, <1>4, WindowOfRows
<1> QED
  BY <1>5 DEF q, ids, k

LEMMA InitEstablishes == Init => Inv
<1> SUFFICES ASSUME Init PROVE Inv
  OBVIOUS
<1> DEFINE last == CHOOSE m \in DOMAIN Seed \cup {0} : \A i \in DOMAIN Seed : i <= m
<1>0. /\ DOMAIN Seed \subseteq Nat \ {0} /\ Seed \in [DOMAIN Seed -> UserModel]
      /\ \E m \in DOMAIN Seed \cup {0} : \A i \in DOMAIN Seed : i <= m
  BY ListingAssumption
<1>1. last \in DOMAIN Seed \cup {0} /\ \A i \in DOMAIN Seed : i <= last
  BY <1>0
<1> HIDE DEF last
<1>2. next_id = 1 + last /\ rows = Seed
  BY DEF Init, last
<1>3. last \in Nat /\ next_id \in Nat \ {0} /\ next_id - 1 = last
  BY <1>0, <1>1, <1>2
<1>4. DOMAIN rows \subseteq 1 .. (next_id - 1)
  BY <1>0, <1>1, <1>2, <1>3
<1>5. seen \in Seq(Nat)
  BY EmptySeq DEF Init
<1> QED
  BY <1>0, <1>2, <1>3, <1>4, <1>5 DEF Init, Inv, TypeOK, AnswerFitsRequest, PageFitsTotal

(* What an answer leaves behind. *)
LEMMA RespondEstablishes ==
  ASSUME Inv, query \in Query, NEW items \in Seq(Nat), NEW total \in Nat,
         Respond(items, total), counted' \in Nat, stale' \in BOOLEAN,
         ~stale' =>
           Len(items) = Max({0, Min({Normalize(query).limit, total - Normalize(query).offset})})
  PROVE  Inv'
<1> DEFINE new == [items |-> items, total |-> total,
                   limit |-> Normalize(query).limit, offset |-> Normalize(query).offset]
<1>1. /\ page' = new /\ seen' = seen \o items /\ phase' = "answered"
      /\ UNCHANGED <<storage, rows, next_id, taken, query, mark, changed, overtaken>>
  BY DEF Respond, database
<1>2. Normalize(query).limit \in 1 .. MaxLimit /\ Normalize(query).offset \in Nat
  BY NormalizedQuery
<1>3. /\ new \in [items : Seq(Nat), total : Nat, limit : 1 .. MaxLimit, offset : Nat]
      /\ new.items = items /\ new.total = total
      /\ new.limit = Normalize(query).limit /\ new.offset = Normalize(query).offset
  BY <1>2
<1>4. seen' \in Seq(Nat)
  BY <1>1, ConcatProperties DEF Inv, TypeOK
<1>5. query' = query /\ Normalize(query)' = Normalize(query)
  BY <1>1 DEF Normalize
<1> HIDE DEF new
<1>6. TypeOK'
  BY <1>1, <1>3, <1>4 DEF Inv, TypeOK
<1>7. AnswerFitsRequest'
  BY <1>1, <1>3, <1>5 DEF AnswerFitsRequest, Page
<1>8. PageFitsTotal'
  BY <1>1, <1>3 DEF PageFitsTotal
<1> QED
  BY <1>6, <1>7, <1>8 DEF Inv

LEMMA BeginPreserves == Inv /\ Begin => Inv'
<1> SUFFICES ASSUME Inv, Begin PROVE Inv'
  OBVIOUS
<1>1. /\ query' \in Query /\ phase' = "asking" /\ page' = None /\ seen' = <<>>
      /\ mark' = DOMAIN rows /\ changed' = FALSE /\ overtaken' = FALSE
      /\ UNCHANGED <<storage, rows, next_id, taken, counted, stale>>
  <2>1. Offered \subseteq Query
    BY ListingAssumption
  <2> QED
    BY <2>1 DEF Begin, database
<1>2. seen' \in Seq(Nat)
  BY <1>1, EmptySeq
<1>3. TypeOK'
  BY <1>1, <1>2 DEF Inv, TypeOK
<1> QED
  BY <1>1, <1>3 DEF Inv, AnswerFitsRequest, PageFitsTotal

LEMMA ListInMemoryPreserves == Inv /\ ListInMemory => Inv'
<1> SUFFICES ASSUME Inv, ListInMemory PROVE Inv'
  OBVIOUS
<1> DEFINE q == Normalize(query)
           ids == Selected(rows, q)
           items == Window(Sorted(rows, OrderClause(q), ids), q)
<1>1. /\ storage = "memory" /\ phase = "asking" /\ Respond(items, Cardinality(ids))
      /\ stale' = FALSE /\ counted' = counted
  BY DEF ListInMemory
<1>2. TypeOK /\ query \in Query /\ counted' \in Nat
  BY <1>1 DEF Inv, TypeOK, AnswerFitsRequest
<1>3. Table(rows) /\ ids \in SUBSET DOMAIN rows /\ IsFiniteSet(ids) /\ Cardinality(ids) \in Nat
  BY <1>2, TableIsFinite
<1>4. OrderClause(q) \in Clauses
  BY <1>2, NormalizedQuery
<1>5. Sorted(rows, OrderClause(q), ids) \in [1 .. Cardinality(ids) -> ids]
  <2> HIDE DEF q, ids
  <2> QED
    BY <1>3, <1>4, SortedByRank
<1>6. /\ items \in Seq(Nat)
      /\ Len(items) = Max({0, Min({q.limit, Cardinality(ids) - q.offset})})
  BY <1>2, <1>5, PageOfArrangement
<1> QED
  BY <1>1, <1>2, <1>3, <1>6, RespondEstablishes

LEMMA CountPreserves == Inv /\ Count => Inv'
<1> SUFFICES ASSUME Inv, Count PROVE Inv'
  OBVIOUS
<1> DEFINE total == Cardinality(Selected(rows, Normalize(query)))
<1>1. /\ storage = "postgres" /\ phase = "asking" /\ counted' = total /\ phase' = "counted"
      /\ stale' = FALSE
      /\ UNCHANGED <<storage, rows, next_id, taken, query, page, seen, mark, changed, overtaken>>
  BY DEF Count, database
<1>2. total' = total
  BY <1>1 DEF Selected, Normalize
<1>3. TypeOK /\ query \in Query
  BY <1>1 DEF Inv, AnswerFitsRequest
<1>4. total \in Nat
  BY <1>3, TableIsFinite
<1> HIDE DEF total
<1>5. TypeOK'
  BY <1>1, <1>3, <1>4 DEF TypeOK
<1>6. AnswerFitsRequest'
  BY <1>1, <1>2, <1>3 DEF AnswerFitsRequest, total
<1> QED
  BY <1>1, <1>5, <1>6 DEF Inv, PageFitsTotal

LEMMA SelectPreserves == Inv /\ Select => Inv'
<1> SUFFICES ASSUME Inv, Select PROVE Inv'
  OBVIOUS
<1> DEFINE q == Normalize(query)
           ids == Selected(rows, q)
<1>1. PICK s \in Arrangements(rows, OrderClause(q), ids) :
        /\ storage = "postgres" /\ phase = "counted" /\ Respond(Window(s, q), counted)
        /\ counted' = 0 /\ stale' = stale
  BY DEF Select
<1>2. TypeOK /\ query \in Query /\ counted \in Nat /\ stale' \in BOOLEAN
  BY <1>1 DEF Inv, TypeOK, AnswerFitsRequest
<1>3. s \in [1 .. Cardinality(ids) -> ids]
  BY DEF Arrangements, SetToSeqs
<1>4. /\ Window(s, q) \in Seq(Nat)
      /\ Len(Window(s, q)) = Max({0, Min({q.limit, Cardinality(ids) - q.offset})})
  BY <1>2, <1>3, PageOfArrangement
<1>5. ~stale => counted = Cardinality(ids)
  BY <1>1 DEF Inv, AnswerFitsRequest
<1>6. ~stale' =>
        Len(Window(s, q)) = Max({0, Min({q.limit, counted - q.offset})})
  BY <1>1, <1>4, <1>5
<1>7. counted' \in Nat
  BY <1>1
<1> HIDE DEF ids
<1> QED
  BY <1>1, <1>2, <1>4, <1>6, <1>7, RespondEstablishes

LEMMA FailPreserves == Inv /\ Fail => Inv'
<1> SUFFICES ASSUME Inv, Fail PROVE Inv'
  OBVIOUS
<1>1. /\ phase /= "idle" /\ phase' = "failed" /\ counted' = 0 /\ seen' = <<>> /\ stale' = FALSE
      /\ UNCHANGED <<storage, rows, next_id, taken, query, page, mark, changed, overtaken>>
  BY DEF Fail, database
<1>2. TypeOK'
  BY <1>1, EmptySeq DEF Inv, TypeOK
<1> QED
  BY <1>1, <1>2 DEF Inv, AnswerFitsRequest, PageFitsTotal

LEMMA NextPagePreserves == Inv /\ NextPage => Inv'
<1> SUFFICES ASSUME Inv, NextPage PROVE Inv'
  OBVIOUS
<1>1. /\ phase = "answered" /\ phase' \in {"asking", "done"}
      /\ query' \in {query, [query EXCEPT !.offset = page.offset + page.limit]}
      /\ page' = None /\ stale' = FALSE
      /\ UNCHANGED <<storage, rows, next_id, taken, counted, seen, mark, changed, overtaken>>
  BY DEF NextPage, database
<1>2. query \in Query /\ page \in Page
  BY <1>1 DEF Inv, AnswerFitsRequest
<1>3. page.offset + page.limit \in Int
  <2>1. MaxLimit \in Nat
    BY ListingAssumption
  <2> QED
    BY <1>2, <2>1 DEF Page
<1>4. query' \in Query
  BY <1>1, <1>2, <1>3 DEF Query
<1>5. TypeOK'
  BY <1>1, <1>4 DEF Inv, TypeOK
<1> QED
  BY <1>1, <1>4, <1>5 DEF Inv, AnswerFitsRequest, PageFitsTotal

LEMMA ModelOfUser ==
  ASSUME NEW user \in User, NEW created \in Instant, NEW updated \in Instant
  PROVE  ModelOf(user, created, updated) \in UserModel
BY DEF ModelOf, User, UserModel

(* A row that appears has an id that no row has. *)
LEMMA AppearIs ==
  ASSUME TypeOK, NEW id, Appear(id)
  PROVE  /\ \E user \in UserModel : rows' = Stored(rows, id, user)
         /\ changed' = changed
         /\ overtaken' \in BOOLEAN
         /\ ~overtaken' => ~overtaken /\ \A i \in DOMAIN rows : ~(id < i)
<1>1. PICK joined \in Newcomer, now \in Instant :
        rows' = Stored(rows, id, ModelOf(joined, now, now))
  BY DEF Appear
<1>2. ModelOf(joined, now, now) \in UserModel
  BY ListingAssumption, ModelOfUser
<1> QED
  BY <1>1, <1>2 DEF Appear, TypeOK

(* What a write of either backend does to rows and ids, and to what is     *)
(* remembered of the writes.                                               *)
Joins(id) ==
  /\ id \in 1 .. (next_id' - 1) /\ id \notin DOMAIN rows
  /\ \E user \in UserModel : rows' = Stored(rows, id, user)
  /\ changed' = changed
  /\ ~overtaken' => ~overtaken /\ \A i \in DOMAIN rows : i < id

LEMMA WriteIs ==
  ASSUME TypeOK, Write
  PROVE  /\ \/ \E id \in Nat : Joins(id)
            \/ changed' = TRUE /\ overtaken' = overtaken
         /\ rows' \in [DOMAIN rows' -> UserModel]
         /\ DOMAIN rows' \subseteq 1 .. (next_id' - 1)
         /\ taken' \subseteq 1 .. (next_id' - 1) /\ taken' \cap DOMAIN rows' = {}
         /\ next_id' \in Nat \ {0} /\ next_id <= next_id'
         /\ changed' \in BOOLEAN /\ overtaken' \in BOOLEAN
<1>1. /\ rows \in [DOMAIN rows -> UserModel] /\ DOMAIN rows \subseteq 1 .. (next_id - 1)
      /\ taken \subseteq 1 .. (next_id - 1) /\ taken \cap DOMAIN rows = {}
      /\ next_id \in Nat \ {0} /\ changed \in BOOLEAN /\ overtaken \in BOOLEAN
  BY DEF TypeOK
<1> DEFINE Kept ==
             /\ rows' \in [DOMAIN rows' -> UserModel]
             /\ DOMAIN rows' \subseteq 1 .. (next_id' - 1)
             /\ taken' \subseteq 1 .. (next_id' - 1) /\ taken' \cap DOMAIN rows' = {}
             /\ next_id' \in Nat \ {0} /\ next_id <= next_id'
             /\ changed' \in BOOLEAN /\ overtaken' \in BOOLEAN
<1>2. ASSUME NEW id, Appear(id), id \in 1 .. (next_id' - 1), id \notin DOMAIN rows,
             next_id' \in {next_id, next_id + 1}, taken' \subseteq taken \ {id}
      PROVE  Joins(id) /\ id \in Nat /\ Kept
  <2>1. /\ \E user \in UserModel : rows' = Stored(rows, id, user)
        /\ changed' = changed /\ overtaken' \in BOOLEAN
        /\ ~overtaken' => ~overtaken /\ \A i \in DOMAIN rows : ~(id < i)
    BY <1>2, AppearIs
  <2>2. PICK user \in UserModel : rows' = Stored(rows, id, user)
    BY <2>1
  <2>3. DOMAIN rows' = DOMAIN rows \cup {id} /\ rows' \in [DOMAIN rows' -> UserModel]
    BY <1>1, <2>2 DEF Stored
  <2>4. id \in Nat /\ \A i \in DOMAIN rows : i \in Nat /\ i /= id
    BY <1>1, <1>2
  <2>5. ~overtaken' => ~overtaken /\ \A i \in DOMAIN rows : i < id
    BY <2>1, <2>4
  <2>6. Joins(id)
    BY <1>2, <2>1, <2>5 DEF Joins
  <2>7. /\ DOMAIN rows' \subseteq 1 .. (next_id' - 1) /\ taken' \subseteq 1 .. (next_id' - 1)
        /\ next_id' \in Nat \ {0} /\ next_id <= next_id'
    BY <1>1, <1>2, <2>3
  <2>8. taken' \cap DOMAIN rows' = {}
    BY <1>1, <1>2, <2>3
  <2> QED
    BY <1>1, <2>1, <2>3, <2>4, <2>6, <2>7, <2>8
<1>3. CASE CreateInMemory
  <2>1. /\ Appear(next_id) /\ next_id' = next_id + 1 /\ taken' = taken
    BY <1>3 DEF CreateInMemory
  <2>2. /\ next_id \in 1 .. (next_id' - 1) /\ next_id \notin DOMAIN rows
        /\ taken' \subseteq taken \ {next_id}
    BY <1>1, <2>1
  <2>3. Joins(next_id) /\ next_id \in Nat /\ Kept
    BY <1>2, <2>1, <2>2
  <2> QED
    BY <2>3
<1>4. CASE CommitInsert
  <2>1. PICK id \in taken : Appear(id) /\ taken' = taken \ {id} /\ next_id' = next_id
    BY <1>4 DEF CommitInsert
  <2>2. id \in 1 .. (next_id' - 1) /\ id \notin DOMAIN rows
    BY <1>1, <2>1
  <2>3. Joins(id) /\ id \in Nat /\ Kept
    BY <1>2, <2>1, <2>2
  <2> QED
    BY <2>3
<1>5. CASE ChangeRow
  <2>1. changed' = TRUE /\ next_id' = next_id /\ taken' = taken /\ overtaken' = overtaken
    BY <1>5 DEF ChangeRow
  <2>2. ASSUME NEW p \in Change, NEW now \in Instant, p.id \in DOMAIN rows,
               rows' = Stored(rows, p.id,
                              ModelOf(WithUpdates(rows[p.id], p), rows[p.id].created_at, now))
        PROVE  rows' \in [DOMAIN rows' -> UserModel] /\ DOMAIN rows' = DOMAIN rows
    <3>1. p \in UpdateUserParams /\ WellFormedEmail(p) /\ WellFormedStatus(p)
      BY ListingAssumption DEF WellFormedEmail, WellFormedStatus
    <3>2. WithUpdates(rows[p.id], p) \in User /\ rows[p.id].created_at \in Instant
      BY <1>1, <2>2, <3>1, DomainAssumption
      DEF UpdateUserParams, WellFormedEmail, WellFormedStatus, WithUpdates, OrElse, User, UserModel
    <3>3. ModelOf(WithUpdates(rows[p.id], p), rows[p.id].created_at, now) \in UserModel
      BY <3>2, ModelOfUser
    <3> QED
      BY <1>1, <2>2, <3>3 DEF Stored
  <2>3. ASSUME NEW i \in DOMAIN rows, rows' = Removed(rows, i)
        PROVE  rows' \in [DOMAIN rows' -> UserModel] /\ DOMAIN rows' \subseteq DOMAIN rows
    BY <1>1, <2>3 DEF Removed
  <2>4. rows' \in [DOMAIN rows' -> UserModel] /\ DOMAIN rows' \subseteq DOMAIN rows
    BY <1>5, <2>2, <2>3 DEF ChangeRow
  <2> QED
    BY <1>1, <2>1, <2>4
<1> QED
  BY <1>3, <1>4, <1>5 DEF Write

LEMMA InterferePreserves == Inv /\ Interfere => Inv'
<1> SUFFICES ASSUME Inv, Interfere PROVE Inv'
  OBVIOUS
<1>1. /\ Write /\ stale' = (stale \/ phase = "counted")
      /\ UNCHANGED <<storage, query, phase, counted, page, seen, mark>>
  BY DEF Interfere, client
<1>2. TypeOK
  BY DEF Inv
<1>3. /\ rows' \in [DOMAIN rows' -> UserModel] /\ DOMAIN rows' \subseteq 1 .. (next_id' - 1)
      /\ taken' \subseteq 1 .. (next_id' - 1) /\ taken' \cap DOMAIN rows' = {}
      /\ next_id' \in Nat \ {0} /\ next_id <= next_id'
      /\ changed' \in BOOLEAN /\ overtaken' \in BOOLEAN
  BY <1>1, <1>2, WriteIs
<1>4. mark' \subseteq 1 .. (next_id' - 1) /\ stale' \in BOOLEAN
  BY <1>1, <1>2, <1>3 DEF TypeOK
<1>5. TypeOK'
  BY <1>1, <1>2, <1>3, <1>4 DEF TypeOK
<1>6. Normalize(query)' = Normalize(query)
  BY <1>1 DEF Normalize
<1>7. phase' = "counted" => stale'
  BY <1>1
<1>8. ~stale' => ~stale
  BY <1>1
<1> QED
  BY <1>1, <1>5, <1>6, <1>7, <1>8 DEF Inv, AnswerFitsRequest, PageFitsTotal

(* An INSERT that is under way touches ids only. *)
LEMMA UnderWayPreserves == Inv /\ (DrawId \/ AbandonInsert) => Inv'
<1> SUFFICES ASSUME Inv, DrawId \/ AbandonInsert PROVE Inv'
  OBVIOUS
<1>1. UNCHANGED <<storage, rows, query, phase, counted, page, seen, mark, changed, overtaken, stale>>
  BY DEF DrawId, AbandonInsert, client
<1>2. /\ next_id \in Nat \ {0} /\ DOMAIN rows \subseteq 1 .. (next_id - 1)
      /\ taken \subseteq 1 .. (next_id - 1) /\ taken \cap DOMAIN rows = {}
      /\ mark \subseteq 1 .. (next_id - 1)
  BY DEF Inv, TypeOK
<1>3. /\ next_id' \in Nat \ {0} /\ DOMAIN rows' \subseteq 1 .. (next_id' - 1)
      /\ taken' \subseteq 1 .. (next_id' - 1) /\ taken' \cap DOMAIN rows' = {}
      /\ mark' \subseteq 1 .. (next_id' - 1)
  <2>1. CASE DrawId
    BY <1>1, <1>2, <2>1 DEF DrawId
  <2>2. CASE AbandonInsert
    BY <1>1, <1>2, <2>2 DEF AbandonInsert
  <2> QED
    BY <2>1, <2>2
<1>4. TypeOK'
  BY <1>1, <1>3 DEF Inv, TypeOK
<1> QED
  BY <1>1, <1>4 DEF Inv, AnswerFitsRequest, PageFitsTotal, Selected, Normalize

THEOREM Invariance == Spec => []Inv
<1>1. Inv /\ [Next]_vars => Inv'
  <2> SUFFICES ASSUME Inv, [Next]_vars PROVE Inv'
    OBVIOUS
  <2>1. CASE Next
    BY <2>1, BeginPreserves, ListInMemoryPreserves, CountPreserves, SelectPreserves,
       FailPreserves, NextPagePreserves, InterferePreserves, UnderWayPreserves DEF Next
  <2>2. CASE UNCHANGED vars
    BY <2>2 DEF Inv, TypeOK, AnswerFitsRequest, PageFitsTotal, vars, Selected, Normalize
  <2> QED
    BY <2>1, <2>2
<1> QED
  BY InitEstablishes, <1>1, PTL DEF Spec

(***************************************************************************)
(* Going through the pages.                                                *)
(***************************************************************************)

(* By id, the arrangement that ORDER BY allows is the only one: the rows   *)
(* before the n-th are the n - 1 shown before it.                          *)
LEMMA OnlyOneById ==
  ASSUME NEW table, Table(table), NEW c \in Clauses, c.column = "id",
         NEW ids \in SUBSET DOMAIN table, IsFiniteSet(ids),
         NEW s \in Arrangements(table, c, ids)
  PROVE  s = Sorted(table, c, ids)
<1> DEFINE k == Cardinality(ids)
<1>1. k \in Nat /\ ids \subseteq Nat
  BY FS_CardinalityType DEF Table
<1>2. /\ s \in [1 .. k -> ids]
      /\ \A m, n \in 1 .. k : m /= n => s[m] /= s[n]
      /\ \A m, n \in 1 .. k : m < n => ~Precedes(table, c, s[n], s[m])
  BY DEF Arrangements, SetToSeqs
<1>3. \A j \in ids : \E m \in 1 .. k : s[m] = j
  <2>1. s \in Injection(1 .. k, ids)
    BY <1>2 DEF Injection, IsInjective
  <2>2. Cardinality(1 .. k) = k
    <3>1. Cardinality(1 .. k) = IF 1 > k THEN 0 ELSE k - 1 + 1
      BY <1>1, FS_Interval
    <3> QED
      BY <1>1, <3>1
  <2>3. s \in Surjection(1 .. k, ids)
    BY <2>1, <2>2, FS_Injection
  <2> QED
    BY <2>3 DEF Surjection
<1>4. \A m, n \in 1 .. k : Before(table, c, s[m], s[n]) <=> m < n
  <2> SUFFICES ASSUME NEW m \in 1 .. k, NEW n \in 1 .. k
               PROVE  Before(table, c, s[m], s[n]) <=> m < n
    OBVIOUS
  <2>0. s[m] \in ids /\ s[n] \in ids /\ s[m] \in Nat /\ s[n] \in Nat
    BY <1>1, <1>2
  <2>1. CASE m < n
    <3>1. s[m] /= s[n] /\ ~Precedes(table, c, s[n], s[m])
      BY <1>2, <2>1
    <3>2. Precedes(table, c, s[m], s[n])
      BY <2>0, <3>1 DEF Precedes, SortKey
    <3> QED
      BY <2>1, <3>2 DEF Before
  <2>2. CASE m = n
    BY <2>0, <2>2, BeforeIsOrder
  <2>3. CASE n < m
    <3>1. s[m] /= s[n] /\ ~Precedes(table, c, s[m], s[n])
      BY <1>2, <2>3
    <3>2. Precedes(table, c, s[n], s[m])
      BY <2>0, <3>1 DEF Precedes, SortKey
    <3> QED
      BY <2>3, <3>1, <3>2 DEF Before
  <2> QED
    BY <2>1, <2>2, <2>3
<1>5. \A n \in 1 .. k : Cardinality(Predecessors(table, c, ids, s[n])) = n - 1
  <2> SUFFICES ASSUME NEW n \in 1 .. k
               PROVE  Cardinality(Predecessors(table, c, ids, s[n])) = n - 1
    OBVIOUS
  <2> DEFINE P == Predecessors(table, c, ids, s[n])
             f == [m \in 1 .. (n - 1) |-> s[m]]
  <2>1. \A j \in P : \E m \in 1 .. (n - 1) : s[m] = j
    <3> SUFFICES ASSUME NEW j \in P PROVE \E m \in 1 .. (n - 1) : s[m] = j
      OBVIOUS
    <3>1. j \in ids /\ Before(table, c, j, s[n])
      BY DEF Predecessors
    <3>2. PICK m \in 1 .. k : s[m] = j
      BY <1>3, <3>1
    <3>3. m < n
      BY <1>4, <3>1, <3>2
    <3> QED
      BY <1>1, <3>2, <3>3
  <2>2. \A m \in 1 .. (n - 1) : s[m] \in P
    <3> SUFFICES ASSUME NEW m \in 1 .. (n - 1) PROVE s[m] \in P
      OBVIOUS
    <3>1. m \in 1 .. k /\ m < n
      BY <1>1
    <3> QED
      BY <1>2, <1>4, <3>1 DEF Predecessors
  <2> HIDE DEF P
  <2>3. f \in Bijection(1 .. (n - 1), P)
    <3>1. f \in [1 .. (n - 1) -> P]
      BY <2>2
    <3>2. \A a, b \in 1 .. (n - 1) : f[a] = f[b] => a = b
      <4>1. 1 .. (n - 1) \subseteq 1 .. k
        BY <1>1
      <4> QED
        BY <1>2, <4>1
    <3>3. \A j \in P : \E m \in 1 .. (n - 1) : f[m] = j
      BY <2>1
    <3> HIDE DEF f
    <3> QED
      BY <3>1, <3>2, <3>3 DEF Bijection, Injection, Surjection, IsInjective
  <2>4. ExistsBijection(1 .. (n - 1), P) /\ n - 1 \in Nat
    BY <1>1, <2>3 DEF ExistsBijection
  <2>5. Cardinality(P) = n - 1
    <3> DEFINE l == n - 1
    <3>1. l \in Nat /\ ExistsBijection(1 .. l, P)
      BY <2>4
    <3> HIDE DEF l
    <3>2. Cardinality(P) = l
      BY <3>1, FS_CountingElements
    <3> QED
      BY <3>2 DEF l
  <2> QED
    BY <2>5 DEF P
<1> DEFINE t == Sorted(table, c, ids)
<1>6. /\ t \in [1 .. k -> ids]
      /\ \A n \in 1 .. k : Cardinality(Predecessors(table, c, ids, t[n])) = n - 1
  BY SortedByRank
<1>7. \A i, j \in ids :
        Cardinality(Predecessors(table, c, ids, i)) = Cardinality(Predecessors(table, c, ids, j))
          => i = j
  BY EveryRankTaken
<1> HIDE DEF t, k
<1>8. \A n \in 1 .. k : s[n] = t[n]
  <2> SUFFICES ASSUME NEW n \in 1 .. k PROVE s[n] = t[n]
    OBVIOUS
  <2>1. s[n] \in ids /\ t[n] \in ids
    BY <1>2, <1>6
  <2>2. Cardinality(Predecessors(table, c, ids, s[n])) = Cardinality(Predecessors(table, c, ids, t[n]))
    BY <1>5, <1>6
  <2> QED
    BY <1>7, <2>1, <2>2, Zenon
<1>9. s = t
  <2>1. /\ s = [n \in 1 .. k |-> s[n]] /\ t = [n \in 1 .. k |-> t[n]]
    BY <1>2, <1>6, Zenon
  <2> QED
    BY <1>8, <2>1, Zenon
<1> QED
  BY <1>9 DEF t

(* What is listed, in order; how many there were when the client began.    *)
All == Sorted(rows, Clause, Selected(rows, query))
Total == Cardinality(Selected(rows, query))
Old == mark \cap Selected(rows, query)

LEMMA AllIs ==
  ASSUME TypeOK, query \in Query
  PROVE  /\ Clause \in Clauses
         /\ All \in [1 .. Total -> Selected(rows, query)]
         /\ \A n \in 1 .. Total :
              Cardinality(Predecessors(rows, Clause, Selected(rows, query), All[n])) = n - 1
         /\ All \in Seq(Nat) /\ Len(All) = Total /\ Total \in Nat
         /\ Cardinality(Old) \in Nat /\ Cardinality(Old) <= Total
<1> DEFINE ids == Selected(rows, query)
<1>1. /\ Table(rows) /\ ids \in SUBSET DOMAIN rows /\ IsFiniteSet(ids) /\ Total \in Nat
  BY TableIsFinite DEF Total
<1>2. Clause \in Clauses
  BY NormalizedQuery DEF Clause
<1>3. /\ All \in [1 .. Total -> ids]
      /\ \A n \in 1 .. Total : Cardinality(Predecessors(rows, Clause, ids, All[n])) = n - 1
  <2> HIDE DEF ids
  <2>1. /\ Sorted(rows, Clause, ids) \in [1 .. Cardinality(ids) -> ids]
        /\ \A n \in 1 .. Cardinality(ids) :
             Cardinality(Predecessors(rows, Clause, ids, Sorted(rows, Clause, ids)[n])) = n - 1
    BY <1>1, <1>2, SortedByRank
  <2> QED
    BY <2>1 DEF All, Total, ids
<1>4. ids \subseteq Nat
  BY <1>1 DEF Table
<1> HIDE DEF ids
<1>5. All \in Seq(Nat) /\ Len(All) = Total
  <2>1. All \in [1 .. Total -> Nat]
    BY <1>3, <1>4
  <2>2. All \in Seq(Nat) /\ DOMAIN All = 1 .. Total
    BY <1>1, <2>1, SeqDef
  <2> QED
    BY <1>1, <2>2, LenProperties
<1>6. Cardinality(Old) \in Nat /\ Cardinality(Old) <= Total
  <2>1. Old \subseteq ids
    BY DEF Old, ids
  <2>2. IsFiniteSet(Old) /\ Cardinality(Old) <= Cardinality(ids)
    BY <1>1, <2>1, FS_Subset
  <2> QED
    BY <2>2, FS_CardinalityType DEF Total, ids
<1> QED
  BY <1>1, <1>2, <1>3, <1>5, <1>6 DEF ids

(* Normalising changes nothing that the filter looks at. *)
LEMMA SelectedAsAsked ==
  ASSUME query \in Query
  PROVE  Selected(rows, Normalize(query)) = Selected(rows, query)
  BY NormalizedQuery DEF Selected

(* Nothing was changed or removed since the client began, and either the   *)
(* order is the default and rows appeared in it, or no row appeared and    *)
(* the order is one in which the rows have their place.                    *)
Steady ==
  /\ ~changed
  /\ \/ Clause = [column |-> "id", descending |-> FALSE] /\ ~overtaken
     \/ mark = DOMAIN rows /\ (storage = "memory" \/ Clause.column = "id")

(* What was there is still there, below all that appeared since; what was  *)
(* shown is a beginning of what is listed; it ends where the next page     *)
(* begins; and no total is below the rows that were there at first.        *)
ShownSoFar ==
  /\ ~changed => mark \subseteq DOMAIN rows
  /\ ~changed /\ ~overtaken => \A i \in mark : \A j \in DOMAIN rows \ mark : i < j
  /\ phase /= "idle" /\ Steady =>
       /\ Len(seen) <= Total
       /\ seen = SubSeq(All, 1, Len(seen))
       /\ phase \in {"asking", "counted"} => Len(seen) = Normalize(query).offset
       /\ phase = "counted" => Cardinality(Old) <= counted /\ counted <= Total
       /\ phase = "answered" =>
            /\ Cardinality(Old) <= page.total
            /\ Len(seen) <= page.offset + page.limit
            /\ Len(seen) = page.offset + page.limit \/ page.total <= Len(seen)
       /\ phase = "done" => Cardinality(Old) <= Len(seen)

LEMMA InitShows == Init => ShownSoFar
<1> SUFFICES ASSUME Init PROVE ShownSoFar
  OBVIOUS
<1>1. mark = {} /\ phase = "idle"
  BY DEF Init
<1> QED
  BY <1>1 DEF ShownSoFar

LEMMA BeginShows ==
  ASSUME Inv, Inv', ShownSoFar, Begin
  PROVE  ShownSoFar'
<1>1. /\ query' \in Offered /\ phase' = "asking" /\ seen' = <<>> /\ mark' = DOMAIN rows
      /\ rows' = rows
  BY DEF Begin, database
<1>2. query' \in Query /\ query'.offset <= 0
  BY <1>1, ListingAssumption
<1>3. Normalize(query').offset = 0
  <2>1. Normalize(query').offset = IF query'.offset >= 0 THEN query'.offset ELSE 0
    BY <1>2, NormalizedQuery
  <2>2. query'.offset \in Int
    BY <1>2 DEF Query
  <2> QED
    BY <1>2, <2>1, <2>2
<1>4. Total' \in Nat
  <2>1. Total' = Cardinality(Selected(rows, query'))
    BY <1>1 DEF Total, Selected
  <2> QED
    BY <2>1, TableIsFinite DEF Inv
<1>5. Len(seen') = 0 /\ SubSeq(All', 1, 0) = <<>>
  BY <1>1, EmptySeq, SubSeqEmpty
<1> QED
  BY <1>1, <1>3, <1>4, <1>5 DEF ShownSoFar

(* The rows and what is asked of them stay. *)
LEMMA SameRowsSameList ==
  ASSUME UNCHANGED <<rows, query, mark>>
  PROVE  UNCHANGED <<Normalize(query), Clause, All, Total, Old>>
  BY DEF Normalize, Clause, OrderClause, All, Total, Old, Selected, Sorted, Before, Precedes, SortKey

(* A page of all that is listed goes on where the last one ended. *)
LEMMA PageShows ==
  ASSUME TypeOK, query \in Query, seen = SubSeq(All, 1, Len(seen)),
         Len(seen) = Normalize(query).offset, Len(seen) <= Total,
         NEW shown, shown = seen \o Window(All, Normalize(query))
  PROVE  /\ Len(shown) <= Total /\ shown = SubSeq(All, 1, Len(shown))
         /\ Len(shown) <= Normalize(query).offset + Normalize(query).limit
         /\ \/ Len(shown) = Normalize(query).offset + Normalize(query).limit
            \/ Total <= Len(shown)
         /\ Normalize(query).offset + Normalize(query).limit \in Nat
<1> DEFINE o == Normalize(query).offset
           l == Normalize(query).limit
           last == IF o + l <= Total THEN o + l ELSE Total
<1>1. /\ All \in [1 .. Total -> Nat] /\ All \in Seq(Nat) /\ Len(All) = Total /\ Total \in Nat
  <2>1. Selected(rows, query) \subseteq Nat
    BY TableIsFinite DEF Table
  <2> QED
    BY <2>1, AllIs
<1>2. l \in Nat \ {0} /\ o \in Nat
  <2>1. l \in 1 .. MaxLimit /\ o \in Nat
    BY NormalizedQuery
  <2> QED
    BY <2>1
<1>3. Window(All, Normalize(query)) = SubSeq(All, o + 1, last)
  <2>1. Window(All, Normalize(query)) = SubSeq(All, o + 1, Min({o + l, Total}))
    BY <1>1 DEF Window
  <2> HIDE DEF o, l
  <2>2. o + l \in Int /\ Total \in Int
    BY <1>1, <1>2
  <2>3. Min({o + l, Total}) = last
    BY <2>2, MinOfTwo
  <2> QED
    BY <2>1, <2>3
<1> HIDE DEF o, l
<1>4. o <= Total /\ last \in o .. Total
  BY <1>1, <1>2 DEF o
<1>5. shown = SubSeq(All, 1, last)
  <2>1. seen = SubSeq(All, 1, o)
    BY DEF o
  <2>2. SubSeq(All, 1, o) \o SubSeq(All, o + 1, last) = SubSeq(All, 1, last)
    <3>1. 1 \in 1 .. (Len(All) + 1) /\ o \in (1 - 1) .. Len(All) /\ last \in o .. Len(All)
      BY <1>1, <1>2, <1>4
    <3> HIDE DEF last
    <3> QED
      BY <1>1, <3>1, ConcatAdjacentSubSeq
  <2> QED
    BY <1>3, <2>1, <2>2
<1>6. Len(shown) = last
  <2>1. last \in Int /\ \A i \in 1 .. last : All[i] \in Nat
    BY <1>1, <1>2, <1>4
  <2> HIDE DEF last
  <2>2. Len(SubSeq(All, 1, last)) = IF 1 <= last THEN last - 1 + 1 ELSE 0
    BY <2>1, SubSeqProperties
  <2>3. last \in Nat
    BY <1>2, <1>4
  <2> QED
    BY <1>5, <2>2, <2>3
<1> QED
  BY <1>1, <1>2, <1>4, <1>5, <1>6 DEF o, l

LEMMA ListInMemoryShows ==
  ASSUME Inv, ShownSoFar, ListInMemory
  PROVE  ShownSoFar'
<1> DEFINE q == Normalize(query)
           items == Window(All, q)
<1>1. /\ storage = "memory" /\ phase = "asking" /\ TypeOK /\ query \in Query
  BY DEF ListInMemory, Inv, AnswerFitsRequest
<1>2. /\ page' = [items |-> items, total |-> Total, limit |-> q.limit, offset |-> q.offset]
      /\ seen' = seen \o items /\ phase' = "answered"
      /\ UNCHANGED <<storage, rows, next_id, taken, query, mark, changed, overtaken>>
  BY <1>1, SelectedAsAsked DEF ListInMemory, Respond, Clause, All, Total, database
<1>3. UNCHANGED <<Clause, All, Total, Old>>
  BY <1>2, SameRowsSameList
<1>4. Steady' = Steady
  BY <1>2, <1>3 DEF Steady
<1> SUFFICES ASSUME Steady PROVE ShownSoFar'
  BY <1>2, <1>4 DEF ShownSoFar
<1>5. seen = SubSeq(All, 1, Len(seen)) /\ Len(seen) = q.offset /\ Len(seen) <= Total
  BY <1>1 DEF ShownSoFar
<1>6. /\ Len(seen') <= Total /\ seen' = SubSeq(All, 1, Len(seen'))
      /\ Len(seen') <= q.offset + q.limit
      /\ Len(seen') = q.offset + q.limit \/ Total <= Len(seen')
  BY <1>1, <1>2, <1>5, PageShows
<1>7. Cardinality(Old) <= Total
  BY <1>1, AllIs
<1>8. page'.total = Total /\ page'.limit = q.limit /\ page'.offset = q.offset
  BY <1>2
<1> HIDE DEF q, items
<1> QED
  BY <1>2, <1>3, <1>6, <1>7, <1>8 DEF ShownSoFar

LEMMA CountShows ==
  ASSUME Inv, ShownSoFar, Count
  PROVE  ShownSoFar'
<1>1. /\ phase = "asking" /\ TypeOK /\ query \in Query
      /\ counted' = Total /\ phase' = "counted"
      /\ UNCHANGED <<storage, rows, query, page, seen, mark, changed, overtaken>>
  BY SelectedAsAsked DEF Count, Inv, AnswerFitsRequest, Total, database
<1>2. UNCHANGED <<Normalize(query), Clause, All, Total, Old>>
  BY <1>1, SameRowsSameList
<1>3. Steady' = Steady
  BY <1>1, <1>2 DEF Steady
<1>4. Cardinality(Old) <= Total /\ Total \in Nat
  BY <1>1, AllIs
<1> QED
  BY <1>1, <1>2, <1>3, <1>4 DEF ShownSoFar

LEMMA SelectShows ==
  ASSUME Inv, ShownSoFar, Select
  PROVE  ShownSoFar'
<1> DEFINE q == Normalize(query)
<1>1. /\ storage = "postgres" /\ phase = "counted" /\ TypeOK /\ query \in Query
  BY DEF Select, Inv, AnswerFitsRequest
<1>2. PICK s \in Arrangements(rows, Clause, Selected(rows, query)) :
        /\ page' = [items |-> Window(s, q), total |-> counted,
                    limit |-> q.limit, offset |-> q.offset]
        /\ seen' = seen \o Window(s, q) /\ phase' = "answered"
        /\ UNCHANGED <<storage, rows, next_id, taken, query, mark, changed, overtaken>>
  BY <1>1, SelectedAsAsked DEF Select, Respond, Clause, database
<1>3. UNCHANGED <<Clause, All, Total, Old>>
  BY <1>2, SameRowsSameList
<1>4. Steady' = Steady
  BY <1>2, <1>3 DEF Steady
<1> SUFFICES ASSUME Steady PROVE ShownSoFar'
  BY <1>2, <1>4 DEF ShownSoFar
<1>5. s = All
  <2>1. Clause.column = "id"
    BY <1>1 DEF Steady
  <2>2. Clause \in Clauses
    BY <1>1, AllIs
  <2> DEFINE ids == Selected(rows, query)
  <2>3. Table(rows) /\ ids \in SUBSET DOMAIN rows /\ IsFiniteSet(ids)
    BY <1>1, TableIsFinite
  <2>4. s \in Arrangements(rows, Clause, ids)
    OBVIOUS
  <2> HIDE DEF ids
  <2>5. s = Sorted(rows, Clause, ids)
    BY <2>1, <2>2, <2>3, <2>4, OnlyOneById
  <2> QED
    BY <2>5 DEF All, ids
<1>6. /\ seen = SubSeq(All, 1, Len(seen)) /\ Len(seen) = q.offset /\ Len(seen) <= Total
      /\ Cardinality(Old) <= counted /\ counted <= Total
  BY <1>1 DEF ShownSoFar
<1>7. /\ Len(seen') <= Total /\ seen' = SubSeq(All, 1, Len(seen'))
      /\ Len(seen') <= q.offset + q.limit
      /\ Len(seen') = q.offset + q.limit \/ Total <= Len(seen')
  BY <1>1, <1>2, <1>5, <1>6, PageShows
<1>8. page'.total = counted /\ page'.limit = q.limit /\ page'.offset = q.offset
  BY <1>2
<1>9. counted \in Nat /\ Total \in Nat
  BY <1>1, AllIs DEF TypeOK
<1>10. Len(seen') \in Nat
  BY <1>1, ConcatProperties, LenProperties
<1> HIDE DEF q
<1> QED
  BY <1>2, <1>3, <1>6, <1>7, <1>8, <1>9 DEF ShownSoFar

LEMMA NextPageShows ==
  ASSUME Inv, ShownSoFar, NextPage
  PROVE  ShownSoFar'
<1>1. /\ phase = "answered" /\ TypeOK /\ query \in Query /\ page \in Page
      /\ UNCHANGED <<storage, rows, counted, seen, mark, changed, overtaken>>
  BY DEF NextPage, Inv, AnswerFitsRequest, database
<1> DEFINE next == page.offset + page.limit
<1>2. next \in Nat /\ page.total \in Nat
  <2>1. MaxLimit \in Nat
    BY ListingAssumption
  <2> QED
    BY <1>1, <2>1 DEF Page
<1>3. /\ query' \in {query, [query EXCEPT !.offset = next]}
      /\ \/ phase' = "asking" /\ query' = [query EXCEPT !.offset = next] /\ next < page.total
         \/ phase' = "done" /\ page.total <= next
  BY <1>2 DEF NextPage
<1>4. /\ query'.search = query.search /\ query'.status = query.status
      /\ query'.sort_by = query.sort_by /\ query'.sort_order = query.sort_order
  BY <1>1, <1>3 DEF Query
<1>5. UNCHANGED <<Clause, All, Total, Old>>
  <2>1. /\ Normalize(query).sort_by = query.sort_by
        /\ Normalize(query').sort_by = query'.sort_by
        /\ Normalize(query').sort_order = Normalize(query).sort_order
    <3>1. query' \in Query
      BY <1>1, <1>2, <1>3 DEF Query
    <3> QED
      BY <1>1, <1>4, <3>1 DEF Normalize, Query
  <2>2. Clause' = Clause
    BY <1>4, <2>1 DEF Clause, OrderClause
  <2>3. Selected(rows, query)' = Selected(rows, query)
    BY <1>1, <1>4 DEF Selected
  <2> QED
    BY <1>1, <2>2, <2>3 DEF All, Total, Old, Sorted, Before, Precedes, SortKey
<1>6. Steady' = Steady
  BY <1>1, <1>5 DEF Steady
<1> SUFFICES ASSUME Steady PROVE ShownSoFar'
  BY <1>1, <1>6 DEF ShownSoFar
<1>7. /\ Len(seen) <= Total /\ seen = SubSeq(All, 1, Len(seen))
      /\ Cardinality(Old) <= page.total /\ Len(seen) <= next
      /\ Len(seen) = next \/ page.total <= Len(seen)
  BY <1>1 DEF ShownSoFar
<1>8. Len(seen) \in Nat /\ Cardinality(Old) \in Nat
  BY <1>1, LenProperties, AllIs DEF TypeOK
<1>9. CASE phase' = "asking" /\ query' = [query EXCEPT !.offset = next] /\ next < page.total
  <2>1. Len(seen) = next
    BY <1>2, <1>7, <1>8, <1>9
  <2>2. Normalize(query').offset = next
    <3>1. query' \in Query /\ query'.offset = next
      BY <1>1, <1>2, <1>9 DEF Query
    <3>2. Normalize(query').offset = IF query'.offset >= 0 THEN query'.offset ELSE 0
      BY <3>1, NormalizedQuery
    <3> HIDE DEF next
    <3> QED
      BY <1>2, <3>1, <3>2
  <2> HIDE DEF next
  <2> QED
    BY <1>1, <1>5, <1>7, <1>9, <2>1, <2>2 DEF ShownSoFar
<1>10. CASE phase' = "done" /\ page.total <= next
  <2>1. Cardinality(Old) <= Len(seen)
    BY <1>2, <1>7, <1>8, <1>10
  <2> HIDE DEF next
  <2> QED
    BY <1>1, <1>5, <1>7, <1>10, <2>1 DEF ShownSoFar
<1> QED
  BY <1>3, <1>9, <1>10

LEMMA FailShows ==
  ASSUME Inv, ShownSoFar, Fail
  PROVE  ShownSoFar'
<1>1. /\ phase' = "failed" /\ seen' = <<>>
      /\ UNCHANGED <<storage, rows, query, mark, changed, overtaken>>
  BY DEF Fail, database
<1>2. Total' = Total /\ Total \in Nat
  BY <1>1, SameRowsSameList, TableIsFinite DEF Inv, Total
<1>3. Len(seen') = 0 /\ SubSeq(All', 1, 0) = <<>>
  BY <1>1, EmptySeq, SubSeqEmpty
<1> QED
  BY <1>1, <1>2, <1>3 DEF ShownSoFar

LEMMA SelectedAfterCreate ==
  ASSUME TypeOK, query \in Query, NEW user \in UserModel, NEW id \in Nat, id \notin DOMAIN rows,
         rows' = Stored(rows, id, user), query' = query
  PROVE  /\ Selected(rows, query) \subseteq Selected(rows, query)'
         /\ Selected(rows, query)' \subseteq Selected(rows, query) \cup {id}
         /\ id \notin Selected(rows, query)
         /\ Selected(rows, query) \subseteq DOMAIN rows
         /\ DOMAIN rows' = DOMAIN rows \cup {id}
         /\ \A i \in DOMAIN rows : rows'[i] = rows[i]
<1>1. /\ DOMAIN rows' = DOMAIN rows \cup {id}
      /\ \A i \in DOMAIN rows : rows'[i] = rows[i]
  BY DEF Stored
<1> QED
  BY <1>1 DEF Selected

(* In the default order, who appears above all the others comes last: what *)
(* was listed stays where it was.                                          *)
LEMMA CreateComesLast ==
  ASSUME Inv, TypeOK', query \in Query, NEW user \in UserModel, NEW id \in Nat,
         id \notin DOMAIN rows, \A i \in DOMAIN rows : i < id,
         rows' = Stored(rows, id, user), query' = query,
         Clause = [column |-> "id", descending |-> FALSE]
  PROVE  /\ Total <= Total'
         /\ \A n \in 1 .. Total : All'[n] = All[n]
         /\ Total' \in Nat
         /\ All' \in [1 .. Total' -> Selected(rows, query)']
<1> DEFINE ids == Selected(rows, query)
           new == Selected(rows, query)'
           c == Clause
<1>0. TypeOK
  BY DEF Inv
<1>1. /\ ids \subseteq new /\ new \subseteq ids \cup {id}
      /\ \A i \in ids : i < id
  BY <1>0, SelectedAfterCreate
<1>2. /\ Table(rows) /\ IsFiniteSet(ids) /\ Total \in Nat /\ c \in Clauses
      /\ All \in [1 .. Total -> ids]
      /\ \A n \in 1 .. Total : Cardinality(Predecessors(rows, c, ids, All[n])) = n - 1
  BY <1>0, TableIsFinite, AllIs
<1>3. Clause' = c
  BY DEF Clause, Normalize, OrderClause
<1>4. /\ Table(rows') /\ new \in SUBSET DOMAIN rows' /\ IsFiniteSet(new)
  <2>1. IsFiniteSet(ids \cup {id})
    BY <1>2, FS_AddElement
  <2>2. IsFiniteSet(new)
    BY <1>1, <2>1, FS_Subset
  <2> QED
    BY <2>2 DEF TypeOK, Table, Selected
<1>5. /\ All' \in [1 .. Total' -> new] /\ Total' = Cardinality(new) /\ Total' \in Nat
      /\ \A n \in 1 .. Total' : Cardinality(Predecessors(rows', c, new, All'[n])) = n - 1
  <2>1. All' = Sorted(rows', c, new) /\ Total' = Cardinality(new)
    BY <1>3 DEF All, Total
  <2> HIDE DEF new, c
  <2>2. /\ Sorted(rows', c, new) \in [1 .. Cardinality(new) -> new]
        /\ \A n \in 1 .. Cardinality(new) :
             Cardinality(Predecessors(rows', c, new, Sorted(rows', c, new)[n])) = n - 1
    BY <1>2, <1>4, SortedByRank
  <2> QED
    BY <1>4, <2>1, <2>2, FS_CardinalityType
<1>6. Total <= Total'
  <2>1. Cardinality(ids) <= Cardinality(new)
    BY <1>1, <1>4, FS_Subset
  <2> QED
    BY <1>5, <2>1 DEF Total
<1>7. ASSUME NEW j \in ids
      PROVE  Predecessors(rows', c, new, j) = Predecessors(rows, c, ids, j)
  <2>1. /\ ids \subseteq Nat /\ j \in Nat /\ j < id
    BY <1>0, <1>1, <1>2 DEF Table, Selected
  <2>2. \A i \in Nat : /\ Before(rows', c, i, j) <=> i < j
                       /\ Before(rows, c, i, j) <=> i < j
    BY <2>1 DEF Before, Precedes, SortKey
  <2> HIDE DEF ids, new, c
  <2>3. \A i \in new : i \in Nat
    BY <1>1, <2>1
  <2>4. \A i : i \in new /\ Before(rows', c, i, j) <=> i \in ids /\ Before(rows, c, i, j)
    <3> TAKE i
    <3>1. CASE i = id
      BY <1>1, <2>1, <2>2, <3>1
    <3>2. CASE i /= id
      BY <1>1, <2>1, <2>2, <2>3, <3>2
    <3> QED
      BY <3>1, <3>2
  <2> QED
    BY <2>4 DEF Predecessors
<1>8. ASSUME NEW n \in 1 .. Total
      PROVE  All'[n] = All[n]
  <2>1. All[n] \in ids /\ All[n] \in new
    BY <1>1, <1>2
  <2>2. Cardinality(Predecessors(rows', c, new, All[n])) = n - 1
    BY <1>2, <1>7, <2>1
  <2>3. n \in 1 .. Total'
    BY <1>2, <1>5, <1>6
  <2>4. /\ All'[n] \in new
        /\ Cardinality(Predecessors(rows', c, new, All'[n])) = n - 1
    BY <1>5, <2>3
  <2> HIDE DEF ids, new, c
  <2>5. \A i, j \in new :
          Cardinality(Predecessors(rows', c, new, i)) = Cardinality(Predecessors(rows', c, new, j))
            => i = j
    BY <1>2, <1>4, EveryRankTaken
  <2>6. Cardinality(Predecessors(rows', c, new, All'[n])) = Cardinality(Predecessors(rows', c, new, All[n]))
    BY <2>2, <2>4
  <2> QED
    BY <2>1, <2>4, <2>5, <2>6, Zenon
<1> QED
  BY <1>5, <1>6, <1>8

LEMMA InterfereShows ==
  ASSUME Inv, Inv', ShownSoFar, Interfere
  PROVE  ShownSoFar'
<1>0. TypeOK /\ TypeOK'
  BY DEF Inv
<1>1. /\ Write /\ UNCHANGED <<storage, query, phase, counted, page, seen, mark>>
  BY DEF Interfere, client
<1>2. CASE changed' = TRUE
  BY <1>2 DEF ShownSoFar, Steady
<1>3. ASSUME NEW id \in Nat, Joins(id)
      PROVE  ShownSoFar'
  <2>0. PICK user \in UserModel : rows' = Stored(rows, id, user)
    BY <1>3 DEF Joins
  <2>1. /\ id \notin DOMAIN rows /\ changed' = changed /\ DOMAIN rows' = DOMAIN rows \cup {id}
        /\ ~overtaken' => ~overtaken /\ \A i \in DOMAIN rows : i < id
    BY <1>3, <2>0 DEF Joins, Stored
  <2>2. Clause' = Clause /\ Normalize(query)' = Normalize(query)
    BY <1>1 DEF Clause, Normalize, OrderClause
  <2>3. /\ ~changed' => mark' \subseteq DOMAIN rows'
        /\ ~changed' /\ ~overtaken' =>
             \A i \in mark' : \A j \in DOMAIN rows' \ mark' : i < j
        /\ ~changed' => mark' /= DOMAIN rows'
    BY <1>1, <2>1 DEF ShownSoFar
  <2>4. Steady' => /\ Steady /\ Clause = [column |-> "id", descending |-> FALSE]
                   /\ ~changed /\ \A i \in DOMAIN rows : i < id
    BY <1>1, <2>1, <2>2, <2>3 DEF Steady
  <2> SUFFICES ASSUME phase /= "idle", Steady, Clause = [column |-> "id", descending |-> FALSE],
                      ~changed, \A i \in DOMAIN rows : i < id
               PROVE  ShownSoFar'
    BY <1>1, <2>3, <2>4 DEF ShownSoFar
  <2>41. query \in Query
    BY DEF Inv, AnswerFitsRequest
  <2>5. /\ Total <= Total' /\ \A n \in 1 .. Total : All'[n] = All[n]
        /\ Total' \in Nat /\ All' \in [1 .. Total' -> Selected(rows, query)']
    BY <1>0, <1>1, <2>0, <2>1, <2>41, CreateComesLast
  <2>6. /\ All \in [1 .. Total -> Selected(rows, query)] /\ Total \in Nat
    BY <1>0, <2>41, AllIs
  <2>7. Old' = Old
    <3>1. /\ Selected(rows, query) \subseteq Selected(rows, query)'
          /\ Selected(rows, query)' \subseteq Selected(rows, query) \cup {id}
      BY <1>0, <1>1, <2>0, <2>1, <2>41, SelectedAfterCreate
    <3>2. id \notin mark
      BY <2>1 DEF ShownSoFar
    <3> QED
      BY <1>1, <3>1, <3>2 DEF Old
  <2>8. Len(seen) \in Nat /\ Len(seen) <= Total /\ seen = SubSeq(All, 1, Len(seen))
    BY <1>0, LenProperties DEF ShownSoFar, TypeOK
  <2>9. SubSeq(All', 1, Len(seen)) = SubSeq(All, 1, Len(seen))
    <3> DEFINE n == Len(seen)
               ids == Selected(rows, query)
    <3>1. \A i \in 1 .. n : All[i] \in ids /\ All'[i] = All[i]
      BY <2>5, <2>6, <2>8
    <3>2. n \in Nat
      BY <2>8
    <3> HIDE DEF n, ids
    <3>3. /\ SubSeq(All, 1, n) \in Seq(ids) /\ Len(SubSeq(All, 1, n)) = n
          /\ \A i \in 1 .. n : SubSeq(All, 1, n)[i] = All[i]
      BY <3>1, <3>2, SubSeqProperties
    <3>4. /\ SubSeq(All', 1, n) \in Seq(ids) /\ Len(SubSeq(All', 1, n)) = n
          /\ \A i \in 1 .. n : SubSeq(All', 1, n)[i] = All'[i]
      BY <3>1, <3>2, SubSeqProperties
    <3>5. \A i \in 1 .. n : SubSeq(All', 1, n)[i] = SubSeq(All, 1, n)[i]
      BY <3>1, <3>3, <3>4
    <3>6. SubSeq(All', 1, n) = SubSeq(All, 1, n)
      BY <3>3, <3>4, <3>5, SeqEqual
    <3> QED
      BY <3>6 DEF n
  <2>10. Len(seen) <= Total' /\ (counted <= Total => counted <= Total')
    BY <1>0, <2>5, <2>6, <2>8 DEF TypeOK
  <2> QED
    BY <1>1, <2>2, <2>3, <2>7, <2>8, <2>9, <2>10 DEF ShownSoFar
<1> QED
  BY <1>0, <1>1, <1>2, <1>3, WriteIs

LEMMA UnderWayShows ==
  ASSUME Inv, ShownSoFar, DrawId \/ AbandonInsert
  PROVE  ShownSoFar'
<1>1. UNCHANGED <<storage, rows, query, phase, counted, page, seen, mark, changed, overtaken>>
  BY DEF DrawId, AbandonInsert, client
<1>2. UNCHANGED <<Normalize(query), Clause, All, Total, Old>>
  BY <1>1, SameRowsSameList
<1> QED
  BY <1>1, <1>2 DEF ShownSoFar, Steady

THEOREM ShownSoFarAlways == Spec => []ShownSoFar
<1>1. Inv /\ Inv' /\ ShownSoFar /\ [Next]_vars => ShownSoFar'
  <2> SUFFICES ASSUME Inv, Inv', ShownSoFar, [Next]_vars PROVE ShownSoFar'
    OBVIOUS
  <2>1. CASE Next
    BY <2>1, BeginShows, ListInMemoryShows, CountShows, SelectShows,
       FailShows, NextPageShows, InterfereShows, UnderWayShows DEF Next
  <2>2. CASE UNCHANGED vars
    <3>1. UNCHANGED <<Normalize(query), Clause, All, Total, Old>>
      BY <2>2, SameRowsSameList DEF vars
    <3> QED
      BY <2>2, <3>1 DEF vars, ShownSoFar, Steady
  <2> QED
    BY <2>1, <2>2
<1> QED
  BY Invariance, InitShows, <1>1, PTL DEF Spec

(***************************************************************************)
(* The results.                                                            *)
(***************************************************************************)

(* Every variable has its type: an answer never has a limit beyond the     *)
(* maximum or an offset below zero, whatever was asked.                    *)
THEOREM TypeCorrectness == Spec => []TypeOK
<1>1. Inv => TypeOK
  BY DEF Inv
<1> QED
  BY Invariance, <1>1, PTL

(* A page has the items that its limit, offset and total leave for it,     *)
(* unless a write came between the two statements it is made of.           *)
THEOREM PagesFitTotals == Spec => []PageFitsTotal
<1>1. Inv => PageFitsTotal
  BY DEF Inv
<1> QED
  BY Invariance, <1>1, PTL

LEMMA QuietIsExact == Inv /\ ShownSoFar => QuietTraversalIsExact
<1> SUFFICES ASSUME Inv, ShownSoFar, phase = "done", ~changed, mark = DOMAIN rows,
                    storage = "memory" \/ Clause.column = "id"
             PROVE  seen = All
  BY DEF QuietTraversalIsExact, All
<1>1. TypeOK /\ query \in Query
  BY DEF Inv, AnswerFitsRequest
<1>2. Len(seen) <= Total /\ seen = SubSeq(All, 1, Len(seen)) /\ Cardinality(Old) <= Len(seen)
  BY DEF ShownSoFar, Steady
<1>3. Old = Selected(rows, query)
  BY DEF Old, Selected
<1>4. All \in Seq(Nat) /\ Len(All) = Total /\ Total \in Nat /\ Len(seen) \in Nat
  BY <1>1, AllIs, LenProperties DEF TypeOK
<1>5. Len(seen) = Len(All)
  BY <1>2, <1>3, <1>4 DEF Total
<1> QED
  BY <1>2, <1>4, <1>5, SubSeqFull

(* Going through the pages of a table that nobody writes shows every       *)
(* selected row once and in order: in memory whatever the order, over      *)
(* PostgreSQL where no two rows are equal in it.                           *)
THEOREM QuietTraversalsAreExact == Spec => []QuietTraversalIsExact
  BY Invariance, ShownSoFarAlways, QuietIsExact, PTL

LEMMA NobodyIsMissed ==
  ASSUME Inv, ShownSoFar, phase = "done", ~changed, ~overtaken,
         Clause = [column |-> "id", descending |-> FALSE],
         NEW i \in Selected(rows, query), i \in mark
  PROVE  \E n \in 1 .. Len(seen) : seen[n] = i
<1> DEFINE ids == Selected(rows, query)
           P == Predecessors(rows, Clause, ids, i)
<1>1. TypeOK /\ query \in Query
  BY DEF Inv, AnswerFitsRequest
<1>2. /\ Len(seen) <= Total /\ seen = SubSeq(All, 1, Len(seen))
      /\ Cardinality(Old) <= Len(seen) /\ Len(seen) \in Nat
  BY <1>1, LenProperties DEF ShownSoFar, Steady, TypeOK
<1>3. /\ Table(rows) /\ Clause \in Clauses /\ IsFiniteSet(ids) /\ Total \in Nat
      /\ Cardinality(Old) \in Nat
      /\ All \in [1 .. Total -> ids]
      /\ \A n \in 1 .. Total : Cardinality(Predecessors(rows, Clause, ids, All[n])) = n - 1
  BY <1>1, TableIsFinite, AllIs
<1>4. \A j \in ids : Before(rows, Clause, j, i) <=> j < i
  <2>1. ids \subseteq Nat
    BY <1>1, TableIsFinite DEF Table
  <2> QED
    BY <2>1 DEF Before, Precedes, SortKey
<1>5. P \cup {i} \subseteq Old /\ i \notin P
  <2>1. \A j \in ids : j \in Nat /\ j \in DOMAIN rows
    BY <1>1, TableIsFinite DEF Table
  <2>2. ASSUME NEW j \in ids, j < i PROVE j \in mark
    BY <2>1, <2>2 DEF ShownSoFar
  <2> QED
    BY <1>1, <1>4, <2>1, <2>2 DEF Predecessors, Old
<1>6. IsFiniteSet(Old)
  BY <1>3, FS_Subset DEF Old
<1>7. Cardinality(P) + 1 <= Cardinality(Old) /\ Cardinality(P) \in Nat
  <2> HIDE DEF P
  <2>1. IsFiniteSet(P \cup {i}) /\ Cardinality(P \cup {i}) <= Cardinality(Old)
    BY <1>5, <1>6, FS_Subset
  <2>2. IsFiniteSet(P)
    BY <1>5, <1>6, FS_Subset
  <2>3. Cardinality(P \cup {i}) = Cardinality(P) + 1
    BY <1>5, <2>2, FS_AddElement
  <2> QED
    BY <2>1, <2>2, <2>3, FS_CardinalityType
<1> DEFINE n == Cardinality(P) + 1
<1>8. n \in 1 .. Len(seen) /\ n \in 1 .. Total
  <2> HIDE DEF P
  <2> QED
    BY <1>2, <1>3, <1>7
<1>9. All[n] = i
  <2>1. All[n] \in ids
    BY <1>3, <1>8
  <2>2. Cardinality(Predecessors(rows, Clause, ids, All[n])) = n - 1
    BY <1>3, <1>8
  <2>3. n - 1 = Cardinality(P)
    <3> HIDE DEF P
    <3> QED
      BY <1>7
  <2>4. Cardinality(Predecessors(rows, Clause, ids, All[n])) = Cardinality(Predecessors(rows, Clause, ids, i))
    BY <2>2, <2>3
  <2> HIDE DEF ids, n, P
  <2>5. \A a, b \in ids :
          Cardinality(Predecessors(rows, Clause, ids, a)) = Cardinality(Predecessors(rows, Clause, ids, b))
            => a = b
    BY <1>3, EveryRankTaken, TableIsFinite, <1>1 DEF ids
  <2>6. i \in ids
    BY DEF ids
  <2> QED
    BY <2>1, <2>4, <2>5, <2>6, Zenon
<1>10. seen[n] = All[n]
  <2> HIDE DEF n, P, ids
  <2> DEFINE l == Len(seen)
  <2>1. l \in Nat /\ l <= Total /\ n \in 1 .. l /\ seen = SubSeq(All, 1, l)
    BY <1>2, <1>8
  <2>2. \A m \in 1 .. l : All[m] \in ids
    BY <1>3, <2>1
  <2> HIDE DEF l
  <2>3. \A m \in 1 .. l : SubSeq(All, 1, l)[m] = All[m]
    BY <2>1, <2>2, SubSeqProperties
  <2> QED
    BY <2>1, <2>3
<1> QED
  BY <1>8, <1>9, <1>10

LEMMA NobodyIsShownTwice ==
  ASSUME Inv, ShownSoFar, phase /= "idle", Steady
  PROVE  IsInjective(seen)
<1>1. TypeOK /\ query \in Query
  BY DEF Inv, AnswerFitsRequest
<1>2. /\ Len(seen) \in Nat /\ Len(seen) <= Total /\ seen = SubSeq(All, 1, Len(seen))
      /\ DOMAIN seen = 1 .. Len(seen)
  BY <1>1, LenProperties DEF ShownSoFar, TypeOK
<1>3. /\ Total \in Nat /\ All \in [1 .. Total -> Selected(rows, query)]
      /\ \A n \in 1 .. Total :
           Cardinality(Predecessors(rows, Clause, Selected(rows, query), All[n])) = n - 1
  BY <1>1, AllIs
<1>4. \A a, b \in 1 .. Total : All[a] = All[b] => a = b
  <2> SUFFICES ASSUME NEW a \in 1 .. Total, NEW b \in 1 .. Total, All[a] = All[b] PROVE a = b
    OBVIOUS
  <2>1. a - 1 = b - 1
    BY <1>3
  <2> QED
    BY <1>3, <2>1
<1>5. \A n \in 1 .. Len(seen) : seen[n] = All[n]
  <2> DEFINE l == Len(seen)
             ids == Selected(rows, query)
  <2>1. l \in Nat /\ \A m \in 1 .. l : All[m] \in ids
    BY <1>2, <1>3
  <2> HIDE DEF l, ids
  <2>2. \A m \in 1 .. l : SubSeq(All, 1, l)[m] = All[m]
    BY <2>1, SubSeqProperties
  <2> QED
    BY <1>2, <2>2 DEF l
<1>6. \A n \in 1 .. Len(seen) : n \in 1 .. Total
  BY <1>2, <1>3
<1> QED
  BY <1>2, <1>4, <1>5, <1>6 DEF IsInjective

(***************************************************************************)
(* In memory nobody is left out: a row that was there and is not shown yet *)
(* has at least as many rows before it as the client has passed, and who   *)
(* joins can only add to them.                                             *)
(***************************************************************************)

Rank(i) == Cardinality(Predecessors(rows, Clause, Selected(rows, query), i))

NoneLost ==
  storage = "memory" /\ ~changed =>
    \A i \in Old :
      /\ phase = "asking" => i \in Range(seen) \/ Normalize(query).offset <= Rank(i)
      /\ phase = "answered" =>
           \/ i \in Range(seen)
           \/ page.offset + page.limit <= Rank(i) /\ page.offset + page.limit < page.total
      /\ phase = "done" => i \in Range(seen)

LEMMA RankIs ==
  ASSUME TypeOK, query \in Query, NEW i \in Selected(rows, query)
  PROVE  /\ Rank(i) \in Nat /\ Rank(i) < Total
         /\ All[Rank(i) + 1] = i
<1> DEFINE ids == Selected(rows, query)
           r == Rank(i)
<1>1. /\ Table(rows) /\ ids \in SUBSET DOMAIN rows /\ IsFiniteSet(ids) /\ Total \in Nat
      /\ Clause \in Clauses /\ i \in ids
  BY TableIsFinite, AllIs
<1>2. /\ All \in [1 .. Total -> ids]
      /\ \A n \in 1 .. Total : Cardinality(Predecessors(rows, Clause, ids, All[n])) = n - 1
  BY AllIs
<1>3. Total = Cardinality(ids) /\ r = Cardinality(Predecessors(rows, Clause, ids, i))
  BY DEF Total, Rank
<1> HIDE DEF ids, r
<1>4. r \in 0 .. (Total - 1)
  BY <1>1, <1>3, RankBelow
<1>5. r \in Nat /\ r < Total /\ r + 1 \in 1 .. Total
  BY <1>1, <1>4
<1>6. All[r + 1] \in ids /\ Cardinality(Predecessors(rows, Clause, ids, All[r + 1])) = r
  BY <1>2, <1>5
<1>7. \A a, b \in ids :
        Cardinality(Predecessors(rows, Clause, ids, a)) = Cardinality(Predecessors(rows, Clause, ids, b))
          => a = b
  BY <1>1, EveryRankTaken
<1>8. All[r + 1] = i
  BY <1>1, <1>3, <1>6, <1>7
<1> QED
  BY <1>5, <1>8 DEF r

(* A page shows every row whose rank it covers. *)
LEMMA PageCoversRanks ==
  ASSUME TypeOK, query \in Query, NEW i \in Selected(rows, query),
         Normalize(query).offset <= Rank(i),
         Rank(i) < Normalize(query).offset + Normalize(query).limit
  PROVE  i \in Range(Window(All, Normalize(query)))
<1> DEFINE o == Normalize(query).offset
           l == Normalize(query).limit
           r == Rank(i)
           last == IF o + l <= Total THEN o + l ELSE Total
           w == SubSeq(All, o + 1, last)
<1>1. /\ All \in [1 .. Total -> Nat] /\ Total \in Nat
      /\ r \in Nat /\ r < Total /\ All[r + 1] = i
  <2>1. Selected(rows, query) \subseteq Nat
    BY TableIsFinite DEF Table
  <2> QED
    BY <2>1, AllIs, RankIs
<1>2. l \in Nat \ {0} /\ o \in Nat
  <2>1. l \in 1 .. MaxLimit /\ o \in Nat
    BY NormalizedQuery
  <2> QED
    BY <2>1
<1>3. Window(All, Normalize(query)) = w
  BY <1>1, <1>2, WindowOfRows
<1>4. o <= r /\ r < o + l
  OBVIOUS
<1> HIDE DEF o, l, r
<1>5. r - o + 1 \in 1 .. (last - o) /\ o + 1 \in Int /\ last \in Int /\ o + 1 <= last /\ last <= Total
  BY <1>1, <1>2, <1>4
<1>6. \A n \in (o + 1) .. last : All[n] \in Nat
  BY <1>1, <1>2, <1>5
<1> HIDE DEF last
<1>7. /\ w \in Seq(Nat) /\ Len(w) = last - (o + 1) + 1
      /\ \A n \in 1 .. (last - (o + 1) + 1) : w[n] = All[(o + 1) + n - 1]
  BY <1>5, <1>6, SubSeqProperties
<1> HIDE DEF w
<1>8. w[r - o + 1] = i /\ DOMAIN w = 1 .. (last - o)
  <2>1. last - (o + 1) + 1 = last - o /\ (o + 1) + (r - o + 1) - 1 = r + 1
    BY <1>1, <1>2, <1>5
  <2>2. w[r - o + 1] = All[r + 1]
    BY <1>5, <1>7, <2>1
  <2> QED
    BY <1>1, <1>7, <2>1, <2>2, LenProperties
<1> QED
  BY <1>3, <1>5, <1>8 DEF Range

LEMMA RangeGrows ==
  ASSUME NEW s \in Seq(Nat), NEW t \in Seq(Nat)
  PROVE  Range(s) \subseteq Range(s \o t) /\ Range(t) \subseteq Range(s \o t)
<1>1. /\ Len(s) \in Nat /\ Len(t) \in Nat /\ DOMAIN s = 1 .. Len(s) /\ DOMAIN t = 1 .. Len(t)
  BY LenProperties
<1>2. /\ s \o t \in Seq(Nat) /\ Len(s \o t) = Len(s) + Len(t)
      /\ \A n \in 1 .. (Len(s) + Len(t)) :
           (s \o t)[n] = IF n <= Len(s) THEN s[n] ELSE t[n - Len(s)]
  BY ConcatProperties
<1>3. DOMAIN (s \o t) = 1 .. (Len(s) + Len(t))
  BY <1>2, LenProperties
<1>4. ASSUME NEW n \in 1 .. Len(s) PROVE s[n] \in Range(s \o t)
  <2>1. n \in 1 .. (Len(s) + Len(t)) /\ (s \o t)[n] = s[n]
    BY <1>1, <1>2
  <2> QED
    BY <1>3, <2>1 DEF Range
<1>5. ASSUME NEW n \in 1 .. Len(t) PROVE t[n] \in Range(s \o t)
  <2>1. /\ n + Len(s) \in 1 .. (Len(s) + Len(t)) /\ ~(n + Len(s) <= Len(s))
        /\ n + Len(s) - Len(s) = n
    BY <1>1
  <2>2. (s \o t)[n + Len(s)] = t[n]
    BY <1>2, <2>1
  <2> QED
    BY <1>3, <2>1, <2>2 DEF Range
<1> QED
  BY <1>1, <1>4, <1>5 DEF Range

LEMMA ListInMemoryLosesNone ==
  ASSUME Inv, NoneLost, ListInMemory
  PROVE  NoneLost'
<1> DEFINE q == Normalize(query)
           items == Window(All, q)
<1>1. /\ storage = "memory" /\ phase = "asking" /\ TypeOK /\ query \in Query /\ seen \in Seq(Nat)
  BY DEF ListInMemory, Inv, AnswerFitsRequest, TypeOK
<1>2. /\ page' = [items |-> items, total |-> Total, limit |-> q.limit, offset |-> q.offset]
      /\ seen' = seen \o items /\ phase' = "answered"
      /\ UNCHANGED <<storage, rows, next_id, taken, query, mark, changed, overtaken>>
  BY <1>1, SelectedAsAsked DEF ListInMemory, Respond, Clause, All, Total, database
<1>3. UNCHANGED <<Clause, All, Total, Old>>
  BY <1>2, SameRowsSameList
<1>4. \A i : Rank(i)' = Rank(i)
  BY <1>2, <1>3 DEF Rank, Predecessors, Selected, Before, Precedes, SortKey
<1>5. page'.total = Total /\ page'.limit = q.limit /\ page'.offset = q.offset
  BY <1>2
<1>6. items \in Seq(Nat)
  <2>1. Selected(rows, q) = Selected(rows, query) /\ Clause = OrderClause(q)
    BY <1>1, SelectedAsAsked DEF Clause
  <2>2. All \in [1 .. Cardinality(Selected(rows, q)) -> Selected(rows, q)]
    BY <1>1, <2>1, AllIs DEF Total
  <2> QED
    BY <1>1, <2>2, PageOfArrangement
<1>7. Range(seen) \subseteq Range(seen') /\ Range(items) \subseteq Range(seen')
  BY <1>1, <1>2, <1>6, RangeGrows
<1>8. q.limit \in Nat /\ q.offset \in Nat
  <2>1. q.limit \in 1 .. MaxLimit /\ q.offset \in Nat
    BY <1>1, NormalizedQuery
  <2> QED
    BY <2>1
<1>9. ASSUME ~changed, NEW i \in Old, i \notin Range(seen')
      PROVE  q.offset + q.limit <= Rank(i) /\ q.offset + q.limit < Total
  <2>1. i \in Selected(rows, query)
    BY DEF Old
  <2>2. q.offset <= Rank(i)
    BY <1>1, <1>7, <1>9 DEF NoneLost
  <2>3. ~(Rank(i) < q.offset + q.limit)
    BY <1>1, <1>7, <1>9, <2>1, <2>2, PageCoversRanks
  <2>4. Rank(i) \in Nat /\ Rank(i) < Total /\ Total \in Nat
    BY <1>1, <2>1, RankIs, AllIs
  <2> HIDE DEF q
  <2> QED
    BY <1>8, <2>3, <2>4
<1> HIDE DEF q, items
<1> QED
  BY <1>2, <1>3, <1>4, <1>5, <1>9 DEF NoneLost

LEMMA NextPageLosesNone ==
  ASSUME Inv, NoneLost, NextPage
  PROVE  NoneLost'
<1>1. /\ phase = "answered" /\ TypeOK /\ query \in Query /\ page \in Page
      /\ UNCHANGED <<storage, rows, counted, seen, mark, changed, overtaken>>
  BY DEF NextPage, Inv, AnswerFitsRequest, database
<1> DEFINE next == page.offset + page.limit
<1>2. next \in Nat /\ page.total \in Nat
  <2>1. MaxLimit \in Nat
    BY ListingAssumption
  <2> QED
    BY <1>1, <2>1 DEF Page
<1>3. \/ phase' = "asking" /\ query' = [query EXCEPT !.offset = next] /\ next < page.total
      \/ phase' = "done" /\ query' = query /\ ~(next < page.total)
  BY <1>2 DEF NextPage
<1>4. /\ query'.search = query.search /\ query'.status = query.status
      /\ query'.sort_by = query.sort_by /\ query'.sort_order = query.sort_order
  BY <1>1, <1>3 DEF Query
<1>5. query' \in Query
  BY <1>1, <1>2, <1>3 DEF Query
<1>6. /\ Clause' = Clause /\ Selected(rows, query)' = Selected(rows, query) /\ Old' = Old
  <2>1. /\ Normalize(query).sort_by = query.sort_by
        /\ Normalize(query').sort_by = query'.sort_by
        /\ Normalize(query').sort_order = Normalize(query).sort_order
    BY <1>1, <1>4, <1>5 DEF Normalize, Query
  <2>2. Clause' = Clause
    BY <1>4, <2>1 DEF Clause, OrderClause
  <2>3. Selected(rows, query)' = Selected(rows, query)
    BY <1>1, <1>4 DEF Selected
  <2> QED
    BY <1>1, <2>2, <2>3 DEF Old
<1>7. \A i : Rank(i)' = Rank(i)
  BY <1>1, <1>6 DEF Rank, Predecessors, Before, Precedes, SortKey
<1>8. CASE phase' = "asking" /\ query' = [query EXCEPT !.offset = next] /\ next < page.total
  <2>1. Normalize(query').offset = next
    <3>1. query'.offset = next
      BY <1>8 DEF Query
    <3>2. Normalize(query').offset = IF query'.offset >= 0 THEN query'.offset ELSE 0
      BY <1>5, NormalizedQuery
    <3> HIDE DEF next
    <3> QED
      BY <1>2, <3>1, <3>2
  <2>2. ASSUME storage = "memory", ~changed, NEW i \in Old
        PROVE  i \in Range(seen) \/ next <= Rank(i)
    BY <1>1, <2>2 DEF NoneLost
  <2> HIDE DEF next
  <2> QED
    BY <1>1, <1>6, <1>7, <1>8, <2>1, <2>2 DEF NoneLost
<1>9. CASE phase' = "done" /\ query' = query /\ ~(next < page.total)
  <2>1. ASSUME storage = "memory", ~changed, NEW i \in Old
        PROVE  i \in Range(seen)
    BY <1>1, <1>9, <2>1 DEF NoneLost
  <2> QED
    BY <1>1, <1>6, <1>9, <2>1 DEF NoneLost
<1> QED
  BY <1>3, <1>8, <1>9

(* Who joins comes before some and after others: ranks only grow. *)
LEMMA RanksOnlyGrow ==
  ASSUME TypeOK, TypeOK', query \in Query, NEW user \in UserModel, NEW id \in Nat,
         id \notin DOMAIN rows, rows' = Stored(rows, id, user), query' = query,
         NEW i \in Selected(rows, query)
  PROVE  Rank(i) \in Nat /\ Rank(i)' \in Nat /\ Rank(i) <= Rank(i)'
<1> DEFINE ids == Selected(rows, query)
           new == Selected(rows, query)'
           c == Clause
           P == Predecessors(rows, c, ids, i)
           Q == Predecessors(rows', c, new, i)
<1>1. /\ ids \subseteq new /\ ids \subseteq DOMAIN rows
      /\ \A j \in DOMAIN rows : rows'[j] = rows[j]
  BY SelectedAfterCreate
<1>2. Clause' = c
  BY DEF Clause, Normalize, OrderClause
<1>3. IsFiniteSet(new)
  <2>1. new \subseteq ids \cup {id} /\ IsFiniteSet(ids)
    BY SelectedAfterCreate, TableIsFinite
  <2> HIDE DEF ids, new
  <2>2. IsFiniteSet(ids \cup {id})
    BY <2>1, FS_AddElement
  <2> QED
    BY <2>1, <2>2, FS_Subset
<1>4. i \in ids
  OBVIOUS
<1>5. \A j \in DOMAIN rows : SortKey(rows', j, c.column) = SortKey(rows, j, c.column)
  BY <1>1 DEF SortKey
<1>6. \A j \in ids : Before(rows, c, j, i) => Before(rows', c, j, i)
  <2> HIDE DEF ids, c
  <2> QED
    BY <1>1, <1>4, <1>5 DEF Before, Precedes
<1>7. P \subseteq Q /\ Q \subseteq new
  <2> HIDE DEF ids, new, c
  <2> QED
    BY <1>1, <1>6 DEF Predecessors
<1>8. Rank(i) = Cardinality(P) /\ Rank(i)' = Cardinality(Q)
  BY <1>2 DEF Rank
<1> HIDE DEF P, Q, new
<1>9. IsFiniteSet(Q)
  BY <1>3, <1>7, FS_Subset
<1>10. IsFiniteSet(P) /\ Cardinality(P) <= Cardinality(Q)
  BY <1>7, <1>9, FS_Subset
<1> QED
  BY <1>8, <1>9, <1>10, FS_CardinalityType

LEMMA InterfereLosesNone ==
  ASSUME Inv, Inv', ShownSoFar, NoneLost, Interfere
  PROVE  NoneLost'
<1>0. TypeOK /\ TypeOK'
  BY DEF Inv
<1>1. /\ Write /\ UNCHANGED <<storage, query, phase, counted, page, seen, mark>>
  BY DEF Interfere, client
<1>2. CASE changed' = TRUE
  BY <1>2 DEF NoneLost
<1>3. ASSUME NEW id \in Nat, Joins(id)
      PROVE  NoneLost'
  <2>0. PICK user \in UserModel : rows' = Stored(rows, id, user)
    BY <1>3 DEF Joins
  <2>1. id \notin DOMAIN rows /\ changed' = changed
    BY <1>3 DEF Joins
  <2> SUFFICES ASSUME storage = "memory", ~changed, NEW i \in Old',
                      phase \in {"asking", "answered", "done"}
               PROVE  /\ phase = "asking" => i \in Range(seen) \/ Normalize(query).offset <= Rank(i)'
                      /\ phase = "answered" =>
                           \/ i \in Range(seen)
                           \/ /\ page.offset + page.limit <= Rank(i)'
                              /\ page.offset + page.limit < page.total
                      /\ phase = "done" => i \in Range(seen)
    <3>1. Normalize(query)' = Normalize(query)
      BY <1>1 DEF Normalize
    <3> QED
      BY <1>1, <2>1, <3>1 DEF NoneLost
  <2>2. query \in Query
    BY DEF Inv, AnswerFitsRequest
  <2>3. i \in Old /\ i \in Selected(rows, query)
    <3>1. Selected(rows, query)' \subseteq Selected(rows, query) \cup {id}
      BY <1>0, <1>1, <2>0, <2>1, <2>2, SelectedAfterCreate
    <3>2. id \notin mark
      BY <2>1 DEF ShownSoFar
    <3> QED
      BY <1>1, <3>1, <3>2 DEF Old
  <2>4. Rank(i) \in Nat /\ Rank(i)' \in Nat /\ Rank(i) <= Rank(i)'
    BY <1>0, <1>1, <2>0, <2>1, <2>2, <2>3, RanksOnlyGrow
  <2> DEFINE a == Normalize(query).offset
             b == page.offset + page.limit
             r == Rank(i)
  <2>5. /\ phase = "asking" => i \in Range(seen) \/ a <= r
        /\ phase = "answered" => i \in Range(seen) \/ (b <= r /\ b < page.total)
        /\ phase = "done" => i \in Range(seen)
    BY <2>3 DEF NoneLost
  <2>6. a \in Nat
    BY <2>2, NormalizedQuery
  <2>7. phase = "answered" => b \in Nat
    <3>1. MaxLimit \in Nat
      BY ListingAssumption
    <3> QED
      BY <3>1 DEF Inv, AnswerFitsRequest, Page
  <2>8. r \in Nat /\ r <= Rank(i)'
    BY <2>4
  <2> HIDE DEF a, b, r
  <2>9. /\ phase = "asking" => i \in Range(seen) \/ a <= Rank(i)'
        /\ phase = "answered" => i \in Range(seen) \/ (b <= Rank(i)' /\ b < page.total)
    BY <2>4, <2>5, <2>6, <2>7, <2>8
  <2> QED
    BY <2>5, <2>9 DEF a, b
<1> QED
  BY <1>0, <1>1, <1>2, <1>3, WriteIs

LEMMA OthersLoseNone ==
  ASSUME Inv, NoneLost, Begin \/ Count \/ Select \/ Fail \/ DrawId \/ AbandonInsert
  PROVE  NoneLost'
<1>1. CASE Begin
  <2>1. query' \in Query /\ query'.offset <= 0 /\ phase' = "asking" /\ rows' = rows
    BY <1>1, ListingAssumption DEF Begin, database
  <2>2. Normalize(query').offset = 0
    <3>1. Normalize(query').offset = IF query'.offset >= 0 THEN query'.offset ELSE 0
      BY <2>1, NormalizedQuery
    <3>2. query'.offset \in Int
      BY <2>1 DEF Query
    <3> QED
      BY <2>1, <3>1, <3>2
  <2>3. \A i : Rank(i)' = Cardinality(Predecessors(rows', Clause', Selected(rows, query'), i))
    BY <2>1 DEF Rank, Selected
  <2>4. \A i : Rank(i)' \in Nat
    <3> TAKE i
    <3>1. IsFiniteSet(Selected(rows, query'))
      BY TableIsFinite DEF Inv
    <3>2. IsFiniteSet(Predecessors(rows', Clause', Selected(rows, query'), i))
      BY <3>1, FS_Subset DEF Predecessors
    <3> QED
      BY <2>3, <3>2, FS_CardinalityType
  <2> QED
    BY <2>1, <2>2, <2>4 DEF NoneLost
<1>2. CASE Count \/ Select \/ Fail
  BY <1>2 DEF Count, Select, Fail, Respond, NoneLost, database
<1>3. CASE DrawId \/ AbandonInsert
  <2>1. UNCHANGED <<storage, rows, query, phase, counted, page, seen, mark, changed, overtaken>>
    BY <1>3 DEF DrawId, AbandonInsert, client
  <2>2. UNCHANGED <<Normalize(query), Clause, All, Total, Old>>
    BY <2>1, SameRowsSameList
  <2>3. \A i : Rank(i)' = Rank(i)
    BY <2>1, <2>2 DEF Rank, Predecessors, Selected, Before, Precedes, SortKey
  <2> QED
    BY <2>1, <2>2, <2>3 DEF NoneLost
<1> QED
  BY <1>1, <1>2, <1>3

THEOREM NoneLostAlways == Spec => []NoneLost
<1>1. Init => NoneLost
  BY DEF Init, NoneLost
<1>2. Inv /\ Inv' /\ ShownSoFar /\ NoneLost /\ [Next]_vars => NoneLost'
  <2> SUFFICES ASSUME Inv, Inv', ShownSoFar, NoneLost, [Next]_vars PROVE NoneLost'
    OBVIOUS
  <2>1. CASE Next
    BY <2>1, ListInMemoryLosesNone, NextPageLosesNone, InterfereLosesNone, OthersLoseNone DEF Next
  <2>2. CASE UNCHANGED vars
    <3>1. UNCHANGED <<Normalize(query), Clause, All, Total, Old>>
      BY <2>2, SameRowsSameList DEF vars
    <3>2. \A i : Rank(i)' = Rank(i)
      BY <2>2, <3>1 DEF vars, Rank, Predecessors, Selected, Before, Precedes, SortKey
    <3> QED
      BY <2>2, <3>1, <3>2 DEF vars, NoneLost
  <2> QED
    BY <2>1, <2>2
<1> QED
  BY Invariance, ShownSoFarAlways, <1>1, <1>2, PTL DEF Spec

LEMMA CreatesAreHarmless == Inv /\ ShownSoFar /\ NoneLost => CreatesDontDisturb
<1> SUFFICES ASSUME Inv, ShownSoFar, NoneLost, phase = "done", ~changed
             PROVE  /\ storage = "memory" => Old \subseteq Range(seen)
                    /\ Clause = [column |-> "id", descending |-> FALSE] /\ ~overtaken =>
                         IsInjective(seen) /\ Old \subseteq Range(seen)
  BY DEF CreatesDontDisturb, Old
<1>1. storage = "memory" => Old \subseteq Range(seen)
  BY DEF NoneLost
<1>2. ASSUME Clause = [column |-> "id", descending |-> FALSE], ~overtaken
      PROVE  IsInjective(seen) /\ Old \subseteq Range(seen)
  <2>1. IsInjective(seen)
    BY <1>2, NobodyIsShownTwice DEF Steady
  <2>2. DOMAIN seen = 1 .. Len(seen)
    BY LenProperties DEF Inv, TypeOK
  <2>3. \A i \in Selected(rows, query) : i \in mark => i \in Range(seen)
    BY <1>2, <2>2, NobodyIsMissed DEF Range
  <2> QED
    BY <2>1, <2>3 DEF Old
<1> QED
  BY <1>1, <1>2

(* Users may be created meanwhile.  In memory nobody who was there is left *)
(* out, whatever the sort; in the default order no row is shown twice      *)
(* either; and over PostgreSQL both hold as long as no INSERT is overtaken *)
(* by one with a higher id.                                                *)
THEOREM CreatesNeverDisturb == Spec => []CreatesDontDisturb
  BY Invariance, ShownSoFarAlways, NoneLostAlways, CreatesAreHarmless, PTL

=============================================================================
