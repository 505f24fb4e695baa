---------------------------- MODULE BodyLogProofs ----------------------------
(***************************************************************************)
(* The body log, for any bodies, any pieces they come in and any limit:    *)
(* the streams pass untouched, the buffers hold their beginning and stay   *)
(* within one chunk of the cap, the line tells of what has passed, stays   *)
(* within the limit, and shows nothing that is to be masked.               *)
(*                                                                         *)
(* Redacted, Dumped and Places are recursive functions, of which TLA+ says *)
(* no more than CHOOSE does.  That they do what their bodies say is proved *)
(* first: a step that looks at values of lower rank only has a function    *)
(* that solves it.  The rest then goes by induction on the depth.          *)
(***************************************************************************)
EXTENDS BodyLog, SequenceTheorems, WellFoundedInduction, TLAPS

-----------------------------------------------------------------------------
(* Pieces and buffers                                                      *)

(* A piece has the size asked for, and its bytes are positions.            *)
LEMMA PieceIsSeq ==
  ASSUME NEW p \in Nat, NEW n \in Nat
  PROVE  /\ Piece(p, n) \in Seq(Nat)
         /\ Len(Piece(p, n)) = n
  BY DEF Piece

(* The piece after a beginning makes a longer beginning of it.             *)
LEMMA PieceGoesOn ==
  ASSUME NEW p \in Nat, NEW n \in Nat
  PROVE  Beginning(p) \o Piece(p, n) = Beginning(p + n)
<1>1. /\ Beginning(p) \in Seq(Nat) /\ Len(Beginning(p)) = p
      /\ Piece(p, n) \in Seq(Nat) /\ Len(Piece(p, n)) = n
      /\ Beginning(p + n) \in Seq(Nat) /\ Len(Beginning(p + n)) = p + n
  BY PieceIsSeq DEF Beginning
<1>2. /\ Beginning(p) \o Piece(p, n) \in Seq(Nat)
      /\ Len(Beginning(p) \o Piece(p, n)) = p + n
  BY <1>1
<1>3. ASSUME NEW i \in 1 .. (p + n)
      PROVE  (Beginning(p) \o Piece(p, n))[i] = Beginning(p + n)[i]
  <2>1. (Beginning(p) \o Piece(p, n))[i]
          = IF i <= p THEN Beginning(p)[i] ELSE Piece(p, n)[i - p]
    <3>1. \A j \in 1 .. Len(Beginning(p)) + Len(Piece(p, n)) :
            (Beginning(p) \o Piece(p, n))[j]
              = IF j <= Len(Beginning(p)) THEN Beginning(p)[j]
                ELSE Piece(p, n)[j - Len(Beginning(p))]
      <4> HIDE DEF Piece, Beginning
      <4> QED  BY <1>1, ConcatProperties, Zenon
    <3> QED  BY <1>1, <3>1
  <2>2. Beginning(p + n)[i] = i
    BY DEF Beginning, Piece
  <2>3. CASE i <= p
    <3>1. Beginning(p)[i] = i
      BY <2>3 DEF Beginning, Piece
    <3> QED  BY <2>1, <2>2, <2>3, <3>1
  <2>4. CASE ~(i <= p)
    <3>1. i - p \in 1 .. n
      BY <2>4
    <3>2. Piece(p, n)[i - p] = p + (i - p)
      BY <3>1 DEF Piece
    <3> QED  BY <2>1, <2>2, <2>4, <3>2
  <2> QED  BY <2>3, <2>4
<1> QED  BY <1>1, <1>2, <1>3, SeqEqual

(* Before anything has come, the empty buffer holds the beginning.         *)
LEMMA NothingYet == Beginning(0) = <<>> /\ HoldsTheBeginning(<<>>, <<>>)
<1>1. Beginning(0) = <<>>
  BY DEF Beginning, Piece
<1> QED  BY <1>1 DEF HoldsTheBeginning

(* A chunk that may be kept or dropped leaves a buffer without a gap.      *)
LEMMA ExtendHoldsTheBeginning ==
  ASSUME NEW p \in Nat, NEW n \in Nat, NEW buffer \in Seq(Nat),
         HoldsTheBeginning(buffer, Beginning(p))
  PROVE  HoldsTheBeginning(Extend(buffer, Piece(p, n)), Beginning(p + n))
<1>1. /\ Len(Beginning(p)) = p /\ Len(Beginning(p + n)) = p + n
      /\ Cap \in Int
  BY PieceIsSeq, ValueAssumption DEF Beginning, Cap
<1>2. CASE Len(buffer) < Cap
  <2>1. buffer = Beginning(p)
    BY <1>2 DEF HoldsTheBeginning
  <2>2. Extend(buffer, Piece(p, n)) = Beginning(p + n)
    BY <1>2, <2>1, PieceGoesOn DEF Extend
  <2> QED  BY <1>1, <2>2 DEF HoldsTheBeginning
<1>3. CASE ~(Len(buffer) < Cap)
  <2>1. Extend(buffer, Piece(p, n)) = buffer
    BY <1>3 DEF Extend
  <2>2. Len(buffer) <= p + n
    BY <1>1 DEF HoldsTheBeginning
  <2> QED  BY <1>1, <1>3, <2>1, <2>2 DEF HoldsTheBeginning
<1> QED  BY <1>2, <1>3

(* The bound of BufferWithinOneChunk, of one buffer.                       *)
WithinOneChunk(buffer) == buffer = <<>> \/ \E n \in ChunkSize : Len(buffer) < Cap + n

(* The test before the chunk is added keeps the buffer within a chunk.     *)
LEMMA ExtendWithinOneChunk ==
  ASSUME NEW p \in Nat, NEW n \in ChunkSize, NEW buffer \in Seq(Nat), WithinOneChunk(buffer)
  PROVE  /\ Extend(buffer, Piece(p, n)) \in Seq(Nat)
         /\ WithinOneChunk(Extend(buffer, Piece(p, n)))
<1>1. n \in Nat /\ Cap \in Int
  BY BodyAssumption, ValueAssumption DEF Cap
<1>2. Piece(p, n) \in Seq(Nat) /\ Len(Piece(p, n)) = n
  BY <1>1, PieceIsSeq
<1>3. CASE Len(buffer) < Cap
  <2>1. Extend(buffer, Piece(p, n)) = buffer \o Piece(p, n)
    BY <1>3 DEF Extend
  <2>2. Len(buffer \o Piece(p, n)) = Len(buffer) + n /\ buffer \o Piece(p, n) \in Seq(Nat)
    BY <1>2
  <2>3. Len(buffer) + n < Cap + n
    BY <1>1, <1>3
  <2> QED  BY <2>1, <2>2, <2>3 DEF WithinOneChunk
<1>4. CASE ~(Len(buffer) < Cap)
  BY <1>4 DEF Extend
<1> QED  BY <1>3, <1>4

(* Without a limit above zero nothing is kept.                             *)
LEMMA NoRoom ==
  ASSUME NEW chunk, Cap <= 0
  PROVE  Extend(<<>>, chunk) = <<>>
<1>1. ~(0 < Cap)
  BY ValueAssumption DEF Cap
<1> QED  BY <1>1 DEF Extend

(* What is rendered of a buffer tells of the stream that it holds.         *)
LEMMA BufferTells ==
  ASSUME NEW p \in Nat, NEW buffer \in Seq(Nat), NEW type, NEW body,
         HoldsTheBeginning(buffer, Beginning(p))
  PROVE  TellsOf(Rendered(buffer, type, body, redact_enabled), Beginning(p), type, body)
<1>1. Len(Beginning(p)) = p /\ Len(buffer) \in Nat /\ Cap \in Int
  BY PieceIsSeq, ValueAssumption DEF Beginning, Cap
<1>2. Len(buffer) \in 0 .. p /\ buffer = Beginning(Len(buffer))
  BY <1>1 DEF HoldsTheBeginning
<1>3. Len(buffer) = p \/ Len(buffer) >= Cap
  BY <1>1 DEF HoldsTheBeginning
<1> QED  BY <1>1, <1>2, <1>3 DEF TellsOf

-----------------------------------------------------------------------------
(* Recursion and induction                                                 *)

(* A set of numbers that holds each one that has all smaller ones in it    *)
(* holds them all.                                                         *)
LEMMA NatSets ==
  ASSUME NEW S \in SUBSET Nat,
         \A n \in Nat : (\A m \in Nat : m < n => m \in S) => n \in S
  PROVE  S = Nat
<1> SUFFICES ASSUME S /= Nat PROVE FALSE
  OBVIOUS
<1> DEFINE U == Nat \ S
<1>1. U \subseteq Nat /\ U /= {}
  OBVIOUS
<1>2. \E x \in U : \A y \in U : ~(<<y, x>> \in OpToRel(<, Nat))
  <2> HIDE DEF U
  <2> QED  BY <1>1, NatLessThanWellFounded, WFMin
<1>3. PICK x \in U : \A y \in U : ~(<<y, x>> \in OpToRel(<, Nat))
  BY <1>2
<1>4. \A y \in U : ~(y < x)
  BY <1>1, <1>3 DEF OpToRel
<1> QED  BY <1>4

(* So does a set of values, of which each has a rank.                      *)
LEMMA RankInduction ==
  ASSUME NEW V, NEW rank \in [V -> Nat], NEW S \in SUBSET V,
         \A v \in V : (\A u \in V : rank[u] < rank[v] => u \in S) => v \in S
  PROVE  S = V
<1> DEFINE T == {n \in Nat : \A v \in V : rank[v] = n => v \in S}
<1>1. ASSUME NEW n \in Nat, \A m \in Nat : m < n => m \in T
      PROVE  n \in T
  <2>1. ASSUME NEW v \in V, rank[v] = n
        PROVE  v \in S
    <3>1. \A u \in V : rank[u] < rank[v] => u \in S
      BY <1>1, <2>1
    <3> QED  BY <3>1
  <2> QED  BY <2>1
<1>2. T = Nat
  <2>1. T \in SUBSET Nat
    OBVIOUS
  <2> HIDE DEF T
  <2> QED  BY <1>1, <2>1, NatSets
<1>3. \A v \in V : v \in S
  BY <1>2
<1> QED  BY <1>3

(* G makes a value of v and of a function, of which it asks only what it   *)
(* makes of values of lower rank.                                          *)
IsStep(V, rank, W, G) ==
  /\ rank \in [V -> Nat] /\ W /= {}
  /\ G \in [[V -> W] \X V -> W]
  /\ \A g \in [V -> W], h \in [V -> W], v \in V :
       (\A u \in V : rank[u] < rank[v] => g[u] = h[u]) => G[<<g, v>>] = G[<<h, v>>]

(* f is one of the functions that the step G defines.                      *)
Solves(V, W, G, f) == f \in [V -> W] /\ \A v \in V : f[v] = G[<<f, v>>]

(* Then G defines a function by recursion.                                 *)
LEMMA SomeSolve ==
  ASSUME NEW V, NEW rank \in [V -> Nat], NEW W, W /= {},
         NEW G \in [[V -> W] \X V -> W],
         \A g \in [V -> W], h \in [V -> W], v \in V :
           (\A u \in V : rank[u] < rank[v] => g[u] = h[u]) => G[<<g, v>>] = G[<<h, v>>]
  PROVE  \E f : Solves(V, W, G, f)
<1> DEFINE Upto(n) == {g \in [V -> W] : \A v \in V : rank[v] < n => g[v] = G[<<g, v>>]}
<1>1. \A n \in Nat : Upto(n) /= {}
  <2> DEFINE S == {n \in Nat : Upto(n) /= {}}
  <2>1. ASSUME NEW n \in Nat, \A m \in Nat : m < n => m \in S
        PROVE  n \in S
    <3>1. CASE n = 0
      <4>1. PICK w \in W : TRUE
        OBVIOUS
      <4>2. [v \in V |-> w] \in Upto(0)
        OBVIOUS
      <4> QED  BY <3>1, <4>2
    <3>2. CASE n /= 0
      <4>1. n - 1 \in Nat /\ n - 1 < n
        <5> HIDE DEF S
        <5> QED  BY <2>1, <3>2
      <4>2. PICK g \in Upto(n - 1) : TRUE
        BY <2>1, <4>1
      <4> DEFINE h == [v \in V |-> G[<<g, v>>]]
      <4>3. g \in [V -> W] /\ \A v \in V : rank[v] < n - 1 => g[v] = G[<<g, v>>]
        BY <4>2
      <4>4. h \in [V -> W]
        BY <4>3
      <4>5. ASSUME NEW v \in V, rank[v] < n
            PROVE  h[v] = G[<<h, v>>]
        <5>1. \A u \in V : rank[u] < rank[v] => g[u] = h[u]
          BY <4>1, <4>3, <4>5
        <5>2. G[<<g, v>>] = G[<<h, v>>]
          <6> HIDE DEF h
          <6> QED  BY <4>3, <4>4, <5>1
        <5> QED  BY <5>2
      <4>6. h \in Upto(n)
        <5> HIDE DEF h
        <5> QED  BY <4>4, <4>5
      <4> QED  BY <4>6
    <3> QED  BY <3>1, <3>2
  <2>2. S \in SUBSET Nat
    OBVIOUS
  <2>3. S = Nat
    <3> HIDE DEF S
    <3> QED  BY <2>1, <2>2, NatSets
  <2> QED  BY <2>3
<1>2. ASSUME NEW v0 \in V, NEW n \in Nat, NEW m \in Nat,
             NEW g \in Upto(n), NEW h \in Upto(m), rank[v0] < n, rank[v0] < m
      PROVE  g[v0] = h[v0]
  <2> DEFINE S == {v \in V : rank[v] < n /\ rank[v] < m => g[v] = h[v]}
  <2>1. /\ g \in [V -> W] /\ \A v \in V : rank[v] < n => g[v] = G[<<g, v>>]
        /\ h \in [V -> W] /\ \A v \in V : rank[v] < m => h[v] = G[<<h, v>>]
    OBVIOUS
  <2>2. ASSUME NEW v \in V, \A u \in V : rank[u] < rank[v] => u \in S
        PROVE  v \in S
    <3> SUFFICES ASSUME rank[v] < n, rank[v] < m PROVE g[v] = h[v]
      OBVIOUS
    <3>1. \A u \in V : rank[u] < rank[v] => g[u] = h[u]
      <4> SUFFICES ASSUME NEW u \in V, rank[u] < rank[v] PROVE g[u] = h[u]
        OBVIOUS
      <4>1. rank[u] < n /\ rank[u] < m /\ u \in S
        BY <2>2
      <4> QED  BY <4>1
    <3>2. G[<<g, v>>] = G[<<h, v>>]
      BY <2>1, <3>1
    <3> QED  BY <2>1, <3>2
  <2>3. S \in SUBSET V
    OBVIOUS
  <2>4. S = V
    <3> HIDE DEF S, Upto
    <3> QED  BY <2>2, <2>3, RankInduction
  <2> QED  BY <1>2, <2>4
<1> DEFINE Pick(n) == CHOOSE g : g \in Upto(n)
<1>3. \A n \in Nat : Pick(n) \in Upto(n)
  <2> HIDE DEF Upto
  <2> QED  BY <1>1
<1> DEFINE f == [v \in V |-> Pick(rank[v] + 1)[v]]
<1>4. \A v \in V : Pick(rank[v] + 1) \in [V -> W]
  <2> HIDE DEF Pick
  <2> QED  BY <1>3
<1>5. f \in [V -> W]
  <2> HIDE DEF Pick, Upto
  <2> QED  BY <1>4
<1>6. ASSUME NEW v \in V
      PROVE  f[v] = G[<<f, v>>]
  <2> DEFINE g == Pick(rank[v] + 1)
  <2>1. g \in [V -> W] /\ g \in Upto(rank[v] + 1) /\ g[v] = G[<<g, v>>]
    <3>1. rank[v] + 1 \in Nat /\ rank[v] < rank[v] + 1
      OBVIOUS
    <3>2. g \in Upto(rank[v] + 1)
      <4> HIDE DEF Pick, Upto
      <4> QED  BY <1>3, <3>1 DEF Pick
    <3> HIDE DEF g
    <3> QED  BY <3>1, <3>2
  <2>2. \A u \in V : rank[u] < rank[v] => g[u] = f[u]
    <3> SUFFICES ASSUME NEW u \in V, rank[u] < rank[v] PROVE g[u] = f[u]
      OBVIOUS
    <3>1. f[u] = Pick(rank[u] + 1)[u]
      OBVIOUS
    <3>2. rank[u] + 1 \in Nat /\ rank[v] + 1 \in Nat
      OBVIOUS
    <3>3. Pick(rank[u] + 1) \in Upto(rank[u] + 1)
      <4> HIDE DEF Pick, Upto
      <4> QED  BY <1>3, <3>2
    <3>4. rank[u] < rank[u] + 1 /\ rank[u] < rank[v] + 1
      OBVIOUS
    <3>5. g[u] = Pick(rank[u] + 1)[u]
      <4> HIDE DEF Pick, Upto, g, f
      <4> QED  BY <1>2, <2>1, <3>2, <3>3, <3>4
    <3> QED  BY <3>1, <3>5
  <2>3. f[v] = g[v]
    OBVIOUS
  <2>4. G[<<g, v>>] = G[<<f, v>>]
    <3> HIDE DEF g, f
    <3> QED  BY <1>5, <2>1, <2>2
  <2> QED  BY <2>1, <2>3, <2>4
<1> QED
  <2> HIDE DEF f
  <2> QED  BY <1>5, <1>6 DEF Solves
(* The same, in a form that is easy to cite.                               *)
LEMMA Recursion ==
  ASSUME NEW V, NEW rank, NEW W, NEW G, IsStep(V, rank, W, G)
  PROVE  \E f : Solves(V, W, G, f)
<1> USE DEF IsStep
<1> QED  BY SomeSolve
(* A set of positions that holds the one after each of its own.            *)
IsClosed(k, S) ==
  S \subseteq 1 .. k /\ \A i \in 1 .. k : (i /= 1 => i - 1 \in S) => i \in S

(* It holds all positions.                                                 *)
LEMMA PositionInduction ==
  ASSUME NEW k \in Nat, NEW S, IsClosed(k, S)
  PROVE  S = 1 .. k
<1>1. PICK V : V = 1 .. k
  OBVIOUS
<1>2. PICK own : own = [i \in 1 .. k |-> i]
  OBVIOUS
<1>3. own \in [V -> Nat] /\ S \in SUBSET V
  BY <1>1, <1>2 DEF IsClosed
<1>4. \A i \in V : (\A j \in V : own[j] < own[i] => j \in S) => i \in S
  <2> SUFFICES ASSUME NEW i \in 1 .. k, \A j \in 1 .. k : own[j] < own[i] => j \in S
               PROVE  i /= 1 => i - 1 \in S
    BY <1>1 DEF IsClosed
  <2> QED  BY <1>2
<1>5. S = V
  BY ONLY <1>3, <1>4, RankInduction
<1> QED  BY <1>1, <1>5

-----------------------------------------------------------------------------
(* Redaction                                                               *)

(* The parts of a value are values, and not as deep.                       *)
LEMMA PartsAreLower ==
  ASSUME NEW value \in Value, NEW part \in Parts(value)
  PROVE  part \in Value /\ Depth[part] < Depth[value]
<1>1. CASE value[1] = "dict" /\ value[2] \in Seq(Key \X Value)
  <2>1. PICK n \in DOMAIN value[2] : part = value[2][n][2]
    BY <1>1 DEF Parts
  <2>2. value[2][n] \in Key \X Value
    BY <1>1, <2>1
  <2> QED  BY <2>1, <2>2, ValueAssumption
<1>2. CASE value[1] = "list" /\ value[2] \in Seq(Value)
  <2>1. PICK n \in DOMAIN value[2] : part = value[2][n]
    BY <1>2 DEF Parts
  <2> QED  BY <1>2, <2>1, ValueAssumption
<1>3. CASE value[1] = "scalar"
  BY <1>3 DEF Parts
<1> QED  BY <1>1, <1>2, <1>3, ValueAssumption

(* A step of the redactor depends on what becomes of the parts only.       *)
LEMMA WalkTakesParts ==
  ASSUME NEW value \in Value, NEW g, NEW h,
         \A part \in Parts(value) : g[part] = h[part]
  PROVE  Walk(g, value) = Walk(h, value)
<1>1. CASE value[1] = "dict"
  <2>1. \A n \in DOMAIN value[2] : g[value[2][n][2]] = h[value[2][n][2]]
    BY <1>1 DEF Parts
  <2> QED  BY <1>1, <2>1 DEF Walk
<1>2. CASE value[1] = "list"
  <2>1. \A n \in DOMAIN value[2] : g[value[2][n]] = h[value[2][n]]
    BY <1>2 DEF Parts
  <2> QED  BY <1>2, <2>1 DEF Walk
<1>3. CASE value[1] /= "dict" /\ value[1] /= "list"
  BY <1>3 DEF Walk
<1> QED  BY <1>1, <1>2, <1>3

(* The redactor is what its recursion says, on every value.                *)
LEMMA RedactedStep == \A value \in Value : Redacted[value] = Walk(Redacted, value)
<1> DEFINE Below(n) == {value \in Value : Depth[value] < n}
<1> DEFINE SolvesTo(g, n) == \A value \in Below(n) : g[value] = Walk(g, value)
<1>1. \A n \in Nat : \E g : SolvesTo(g, n)
  <2> DEFINE S == {n \in Nat : \E g : SolvesTo(g, n)}
  <2>1. ASSUME NEW n \in Nat, \A m \in Nat : m < n => m \in S
        PROVE  n \in S
    <3>1. CASE n = 0
      <4>1. Below(0) = {}
        BY ValueAssumption
      <4>2. SolvesTo(<<>>, 0)
        BY <4>1
      <4> QED  BY <3>1, <4>2
    <3>2. CASE n /= 0
      <4>1. n - 1 \in Nat /\ n - 1 < n
        <5> HIDE DEF S
        <5> QED  BY <2>1, <3>2
      <4>2. PICK g : SolvesTo(g, n - 1)
        BY <2>1, <4>1
      <4> DEFINE h == [value \in Value |-> Walk(g, value)]
      <4>3. ASSUME NEW value \in Below(n)
            PROVE  h[value] = Walk(h, value)
        <5>1. value \in Value /\ Depth[value] \in Nat /\ Depth[value] < n
          BY ValueAssumption
        <5>2. ASSUME NEW part \in Parts(value)
              PROVE  g[part] = h[part]
          <6>1. part \in Value /\ Depth[part] < Depth[value]
            BY <5>1, PartsAreLower
          <6>2. Depth[part] \in Nat
            BY <6>1, ValueAssumption
          <6>3. part \in Below(n - 1)
            BY <4>1, <5>1, <6>1, <6>2
          <6> QED  BY <4>2, <6>1, <6>3
        <5>3. Walk(g, value) = Walk(h, value)
          <6> HIDE DEF h
          <6> QED  BY <5>1, <5>2, WalkTakesParts
        <5> QED  BY <5>1, <5>3
      <4>4. SolvesTo(h, n)
        <5> HIDE DEF h
        <5> QED  BY <4>3
      <4> QED  BY <4>4
    <3> QED  BY <3>1, <3>2
  <2>2. S \in SUBSET Nat
    OBVIOUS
  <2>3. S = Nat
    <3> HIDE DEF S
    <3> QED  BY <2>1, <2>2, NatSets
  <2> QED  BY <2>3
<1>2. ASSUME NEW n \in Nat, NEW m \in Nat, NEW g, NEW h, SolvesTo(g, n), SolvesTo(h, m),
             NEW low \in Value, Depth[low] < n, Depth[low] < m
      PROVE  g[low] = h[low]
  <2> DEFINE S == {value \in Value : Depth[value] < n /\ Depth[value] < m => g[value] = h[value]}
  <2>1. ASSUME NEW value \in Value, \A u \in Value : Depth[u] < Depth[value] => u \in S
        PROVE  value \in S
    <3> SUFFICES ASSUME Depth[value] < n, Depth[value] < m PROVE g[value] = h[value]
      OBVIOUS
    <3>1. ASSUME NEW part \in Parts(value)
          PROVE  g[part] = h[part]
      <4>1. part \in Value /\ Depth[part] < Depth[value]
        BY PartsAreLower
      <4>2. Depth[part] < n /\ Depth[part] < m
        BY <4>1, ValueAssumption
      <4>3. part \in S
        BY <2>1, <4>1
      <4> QED  BY <4>2, <4>3
    <3>2. Walk(g, value) = Walk(h, value)
      BY <3>1, WalkTakesParts
    <3>3. g[value] = Walk(g, value) /\ h[value] = Walk(h, value)
      BY <1>2
    <3> QED  BY <3>2, <3>3
  <2>2. S \in SUBSET Value
    OBVIOUS
  <2>3. S = Value
    <3> HIDE DEF S
    <3> QED  BY <2>1, <2>2, RankInduction, ValueAssumption
  <2> QED  BY <1>2, <2>3
<1> DEFINE Pick(n) == CHOOSE g : SolvesTo(g, n)
<1>3. \A n \in Nat : SolvesTo(Pick(n), n)
  <2> HIDE DEF SolvesTo
  <2> QED  BY <1>1
<1> DEFINE f == [value \in Value |-> Pick(Depth[value] + 1)[value]]
<1>4. ASSUME NEW value \in Value
      PROVE  f[value] = Walk(f, value)
  <2> DEFINE g == Pick(Depth[value] + 1)
  <2>1. Depth[value] \in Nat /\ Depth[value] + 1 \in Nat /\ Depth[value] < Depth[value] + 1
    BY ValueAssumption
  <2>2. SolvesTo(g, Depth[value] + 1)
    <3> HIDE DEF Pick, SolvesTo
    <3> QED  BY <1>3, <2>1 DEF g
  <2>3. ASSUME NEW part \in Parts(value)
        PROVE  g[part] = f[part]
    <3> DEFINE h == Pick(Depth[part] + 1)
    <3>1. part \in Value /\ Depth[part] < Depth[value]
      BY PartsAreLower
    <3>2. Depth[part] \in Nat /\ Depth[part] + 1 \in Nat
      BY <3>1, ValueAssumption
    <3>3. Depth[part] < Depth[part] + 1 /\ Depth[part] < Depth[value] + 1
      BY <2>1, <3>1, <3>2
    <3>4. SolvesTo(h, Depth[part] + 1)
      <4> HIDE DEF Pick, SolvesTo
      <4> QED  BY <1>3, <3>2 DEF h
    <3>5. f[part] = h[part]
      BY <3>1
    <3>6. g[part] = h[part]
      <4> HIDE DEF Pick, SolvesTo, g, h, f
      <4> QED  BY <1>2, <2>1, <2>2, <3>1, <3>2, <3>3, <3>4
    <3> QED  BY <3>5, <3>6
  <2>4. g[value] = Walk(g, value)
    <3> HIDE DEF g
    <3> QED  BY <2>1, <2>2
  <2>5. Walk(g, value) = Walk(f, value)
    <3> HIDE DEF g, f
    <3> QED  BY <2>3, WalkTakesParts
  <2>6. f[value] = g[value]
    OBVIOUS
  <2> QED  BY <2>4, <2>5, <2>6
<1>5. f = [value \in Value |-> Walk(f, value)]
  <2>1. f = [value \in Value |-> f[value]]
    OBVIOUS
  <2> HIDE DEF f
  <2> QED  BY <1>4, <2>1
<1>6. Redacted = [value \in Value |-> Walk(Redacted, value)]
  <2> HIDE DEF f
  <2> QED  BY <1>5 DEF Redacted
<1> QED  BY <1>6

(* Sequences over a set, one after the other, are a sequence over it.      *)
LEMMA FlattenSeqType ==
  ASSUME NEW T, NEW s \in Seq(Seq(T))
  PROVE  FlattenSeq(s) \in Seq(T)
<1>1. CASE Len(s) = 0
  <2>1. s = <<>>
    BY <1>1
  <2> QED  BY <1>1, <2>1 DEF FlattenSeq
<1>2. CASE Len(s) /= 0
  <2> DEFINE V == 1 .. Len(s)
             rank == [i \in V |-> i]
             G == [p \in [V -> Seq(T)] \X V |->
                     IF p[2] = 1 THEN s[p[2]] ELSE p[1][p[2] - 1] \o s[p[2]]]
  <2>1. rank \in [V -> Nat] /\ Seq(T) /= {} /\ Len(s) \in V
    BY <1>2
  <2>2. \A i \in V : s[i] \in Seq(T) /\ (i /= 1 => i - 1 \in V)
    OBVIOUS
  <2>3. \A g \in [V -> Seq(T)], i \in V :
          G[<<g, i>>] = IF i = 1 THEN s[i] ELSE g[i - 1] \o s[i]
    <3> HIDE DEF V
    <3> QED  OBVIOUS
  <2>4. G \in [[V -> Seq(T)] \X V -> Seq(T)]
    <3>1. ASSUME NEW g \in [V -> Seq(T)], NEW i \in V
          PROVE  (IF i = 1 THEN s[i] ELSE g[i - 1] \o s[i]) \in Seq(T)
      <4>1. CASE i = 1
        BY <2>2, <4>1
      <4>2. CASE i /= 1
        <5>1. g[i - 1] \in Seq(T) /\ s[i] \in Seq(T)
          BY <2>2, <4>2
        <5> QED  BY <4>2, <5>1
      <4> QED  BY <4>1, <4>2
    <3> HIDE DEF V
    <3> QED  BY <3>1
  <2>5. ASSUME NEW g \in [V -> Seq(T)], NEW h \in [V -> Seq(T)], NEW i \in V,
               \A j \in V : rank[j] < rank[i] => g[j] = h[j]
        PROVE  G[<<g, i>>] = G[<<h, i>>]
    <3>1. i /= 1 => g[i - 1] = h[i - 1]
      BY <2>5
    <3>2. /\ G[<<g, i>>] = IF i = 1 THEN s[i] ELSE g[i - 1] \o s[i]
          /\ G[<<h, i>>] = IF i = 1 THEN s[i] ELSE h[i - 1] \o s[i]
      <4> HIDE DEF G, V
      <4> QED  BY <2>3, <2>5
    <3> HIDE DEF G, V
    <3> QED  BY <3>1, <3>2
  <2>6. PICK f : Solves(V, Seq(T), G, f)
    <3>1. IsStep(V, rank, Seq(T), G)
      <4> HIDE DEF G, V, rank
      <4> QED  BY <2>1, <2>4, <2>5 DEF IsStep
    <3> HIDE DEF G, V, rank
    <3> QED  BY <3>1, Recursion
  <2>7. f = [i \in V |-> IF i = 1 THEN s[i] ELSE f[i - 1] \o s[i]]
    <3>1. \A i \in V : f[i] = IF i = 1 THEN s[i] ELSE f[i - 1] \o s[i]
      <4> HIDE DEF G, V
      <4> QED  BY <2>3, <2>6 DEF Solves
    <3> HIDE DEF V
    <3> QED  BY <2>6, <3>1 DEF Solves
  <2> DEFINE flatten == CHOOSE g : g = [i \in V |-> IF i = 1 THEN s[i] ELSE g[i - 1] \o s[i]]
  <2>8. flatten = [i \in V |-> IF i = 1 THEN s[i] ELSE flatten[i - 1] \o s[i]]
    <3> HIDE DEF V
    <3> QED  BY <2>7
  <2>9. FlattenSeq(s) = flatten[Len(s)]
    BY <1>2 DEF FlattenSeq
  <2> DEFINE S == {i \in V : flatten[i] \in Seq(T)}
  <2>10. ASSUME NEW i \in V, i /= 1 => i - 1 \in S
         PROVE  i \in S
    <3>1. flatten[i] = IF i = 1 THEN s[i] ELSE flatten[i - 1] \o s[i]
      <4> HIDE DEF flatten, V
      <4> QED  BY <2>8
    <3>2. CASE i = 1
      BY <2>2, <3>1, <3>2
    <3>3. CASE i /= 1
      <4>1. flatten[i - 1] \in Seq(T)
        BY <2>10, <3>3
      <4>2. flatten[i] \in Seq(T)
        <5> HIDE DEF flatten, V
        <5> QED  BY <2>2, <3>1, <3>3, <4>1
      <4> QED  BY <4>2
    <3> QED  BY <3>2, <3>3
  <2>11. S = V
    <3>1. S \subseteq V
      OBVIOUS
    <3>2. IsClosed(Len(s), S)
      <4> HIDE DEF S
      <4> QED  BY <2>10, <3>1 DEF IsClosed
    <3> HIDE DEF S
    <3> QED  BY <3>2, PositionInduction
  <2> QED
    <3> HIDE DEF flatten, V
    <3> QED  BY <2>1, <2>9, <2>11
<1> QED  BY <1>1, <1>2

-----------------------------------------------------------------------------
(* The text                                                                *)

(* What becomes of the entries and items of a container.                   *)
LEMMA RedactedShape ==
  ASSUME NEW value \in Value
  PROVE  /\ value[1] = "dict" =>
              /\ Redacted[value][1] = "dict"
              /\ Redacted[value][2] \in Seq(Key \X Dumpable)
              /\ DOMAIN Redacted[value][2] = DOMAIN value[2]
              /\ \A n \in DOMAIN value[2] :
                   /\ value[2][n][1] \in Key /\ value[2][n][2] \in Value
                   /\ value[2][n][2] \in Parts(value)
                   /\ Redacted[value][2][n] =
                        <<value[2][n][1],
                          IF Lower[value[2][n][1]] \in FullKeys THEN FullMask
                          ELSE IF Lower[value[2][n][1]] \in PartialKeys
                          THEN PartialMask(value[2][n][2])
                          ELSE Redacted[value[2][n][2]]>>
         /\ value[1] = "list" =>
              /\ Redacted[value][1] = "list"
              /\ Redacted[value][2] \in Seq(Dumpable)
              /\ DOMAIN Redacted[value][2] = DOMAIN value[2]
              /\ \A n \in DOMAIN value[2] :
                   /\ value[2][n] \in Value /\ value[2][n] \in Parts(value)
                   /\ Redacted[value][2][n] = Redacted[value[2][n]]
         /\ value[1] = "scalar" => Redacted[value] = value
<1>1. Redacted[value] = Walk(Redacted, value)
  BY RedactedStep
<1>2. CASE value[1] = "dict" /\ value[2] \in Seq(Key \X Value)
  <2>1. ASSUME NEW n \in DOMAIN value[2]
        PROVE  /\ value[2][n] \in Key \X Value
               /\ value[2][n][1] \in Key /\ value[2][n][2] \in Value
               /\ value[2][n][2] \in Parts(value)
    BY <1>2 DEF Parts
  <2> DEFINE masked(n) ==
        IF Lower[value[2][n][1]] \in FullKeys THEN FullMask
        ELSE IF Lower[value[2][n][1]] \in PartialKeys THEN PartialMask(value[2][n][2])
        ELSE Redacted[value[2][n][2]]
  <2> DEFINE entries == [n \in DOMAIN value[2] |-> <<value[2][n][1], masked(n)>>]
  <2>2. Redacted[value] = <<"dict", entries>>
    BY <1>1, <1>2 DEF Walk
  <2>3. ASSUME NEW n \in DOMAIN value[2]
        PROVE  masked(n) \in Dumpable
    BY <2>1 DEF Dumpable, PartialMask
  <2>4. entries \in Seq(Key \X Dumpable)
    <3> HIDE DEF masked
    <3>1. DOMAIN value[2] = 1 .. Len(value[2]) /\ Len(value[2]) \in Nat
      BY <1>2
    <3>2. \A n \in 1 .. Len(value[2]) : <<value[2][n][1], masked(n)>> \in Key \X Dumpable
      BY <2>1, <2>3, <3>1
    <3> QED  BY <3>1, <3>2
  <2>5. \A n \in DOMAIN value[2] : entries[n] = <<value[2][n][1], masked(n)>>
    OBVIOUS
  <2>6. DOMAIN entries = DOMAIN value[2]
    OBVIOUS
  <2> HIDE DEF entries
  <2> QED  BY <1>2, <2>1, <2>2, <2>4, <2>5, <2>6
<1>3. CASE value[1] = "list" /\ value[2] \in Seq(Value)
  <2>1. \A n \in DOMAIN value[2] : value[2][n] \in Value /\ value[2][n] \in Parts(value)
    BY <1>3 DEF Parts
  <2> DEFINE items == [n \in DOMAIN value[2] |-> Redacted[value[2][n]]]
  <2>2. Redacted[value] = <<"list", items>>
    BY <1>1, <1>3 DEF Walk
  <2>3. items \in Seq(Dumpable)
    <3>1. DOMAIN value[2] = 1 .. Len(value[2]) /\ Len(value[2]) \in Nat
      BY <1>3
    <3>2. \A n \in 1 .. Len(value[2]) : Redacted[value[2][n]] \in Dumpable
      BY <2>1, <3>1 DEF Dumpable
    <3> QED  BY <3>1, <3>2
  <2> QED  BY <1>3, <2>1, <2>2, <2>3
<1>4. CASE value[1] = "scalar"
  BY <1>1, <1>4 DEF Walk
<1> QED  BY <1>2, <1>3, <1>4, ValueAssumption

(* What may be dumped is built from what may be dumped.                    *)
LEMMA DumpableShape ==
  ASSUME NEW x \in Dumpable
  PROVE  \/ x[1] = "dict" /\ x[2] \in Seq(Key \X Dumpable)
         \/ x[1] = "list" /\ x[2] \in Seq(Dumpable)
         \/ x[1] \in {"scalar", "mask", "ends"}
<1>1. CASE x \in Value
  <2>1. Value \subseteq Dumpable
    BY DEF Dumpable
  <2>2. CASE x[1] = "dict" /\ x[2] \in Seq(Key \X Value)
    <3>1. Key \X Value \subseteq Key \X Dumpable
      BY <2>1
    <3>2. x[2] \in Seq(Key \X Dumpable)
      BY <2>2, <3>1
    <3> QED  BY <2>2, <3>2
  <2>3. CASE x[1] = "list" /\ x[2] \in Seq(Value)
    BY <2>1, <2>3
  <2> QED  BY <1>1, <2>2, <2>3, ValueAssumption
<1>2. ASSUME NEW value \in Value, x = Redacted[value]
      PROVE  \/ x[1] = "dict" /\ x[2] \in Seq(Key \X Dumpable)
             \/ x[1] = "list" /\ x[2] \in Seq(Dumpable)
             \/ x[1] \in {"scalar", "mask", "ends"}
  BY <1>2, RedactedShape, ValueAssumption
<1>3. CASE x \in {FullMask} \cup {<<"ends", value>> : value \in Value}
  BY <1>3 DEF FullMask
<1> QED  BY <1>1, <1>2, <1>3 DEF Dumpable

(* A text is over any set that has the brackets, the keys and, of a value  *)
(* that is no container, the value, if the texts of its parts are.         *)
LEMMA DumpType ==
  ASSUME NEW x \in Dumpable, NEW dump, NEW T,
         \A part \in Parts(x) : dump[part] \in Seq(T),
         <<"open", "dict">> \in T, <<"open", "list">> \in T,
         \A k \in Key : <<"key", k>> \in T,
         x[1] \notin {"dict", "list"} => x \in T
  PROVE  Dump(dump, x) \in Seq(T)
<1>1. CASE x[1] = "dict" /\ x[2] \in Seq(Key \X Dumpable)
  <2> DEFINE texts == [n \in DOMAIN x[2] |-> <<<<"key", x[2][n][1]>>>> \o dump[x[2][n][2]]]
  <2>1. \A n \in DOMAIN x[2] : x[2][n][1] \in Key /\ x[2][n][2] \in Parts(x)
    BY <1>1 DEF Parts
  <2>2. \A n \in DOMAIN x[2] : <<<<"key", x[2][n][1]>>>> \o dump[x[2][n][2]] \in Seq(T)
    BY <2>1
  <2>3. texts \in Seq(Seq(T))
    <3>1. DOMAIN x[2] = 1 .. Len(x[2]) /\ Len(x[2]) \in Nat
      BY <1>1
    <3> QED  BY <2>2, <3>1
  <2>4. FlattenSeq(texts) \in Seq(T)
    <3> HIDE DEF texts
    <3> QED  BY <2>3, FlattenSeqType
  <2>5. Dump(dump, x) = <<<<"open", "dict">>>> \o FlattenSeq(texts)
    BY <1>1 DEF Dump
  <2> HIDE DEF texts
  <2> QED  BY <2>4, <2>5
<1>2. CASE x[1] = "list" /\ x[2] \in Seq(Dumpable)
  <2> DEFINE texts == [n \in DOMAIN x[2] |-> dump[x[2][n]]]
  <2>1. \A n \in DOMAIN x[2] : dump[x[2][n]] \in Seq(T)
    BY <1>2 DEF Parts
  <2>2. texts \in Seq(Seq(T))
    <3>1. DOMAIN x[2] = 1 .. Len(x[2]) /\ Len(x[2]) \in Nat
      BY <1>2
    <3> QED  BY <2>1, <3>1
  <2>3. FlattenSeq(texts) \in Seq(T)
    <3> HIDE DEF texts
    <3> QED  BY <2>2, FlattenSeqType
  <2>4. Dump(dump, x) = <<<<"open", "list">>>> \o FlattenSeq(texts)
    BY <1>2 DEF Dump
  <2> HIDE DEF texts
  <2> QED  BY <2>3, <2>4
<1>3. CASE x[1] \in {"scalar", "mask", "ends"}
  BY <1>3 DEF Dump
<1> QED  BY <1>1, <1>2, <1>3, DumpableShape

(* The text of a value depends on the texts of its parts only.             *)
LEMMA DumpTakesParts ==
  ASSUME NEW x \in Dumpable, NEW g, NEW h,
         \A part \in Parts(x) : g[part] = h[part]
  PROVE  Dump(g, x) = Dump(h, x)
<1>1. CASE x[1] = "dict"
  <2>1. \A n \in DOMAIN x[2] : g[x[2][n][2]] = h[x[2][n][2]]
    BY <1>1 DEF Parts
  <2>2. [n \in DOMAIN x[2] |-> <<<<"key", x[2][n][1]>>>> \o g[x[2][n][2]]]
          = [n \in DOMAIN x[2] |-> <<<<"key", x[2][n][1]>>>> \o h[x[2][n][2]]]
    BY <2>1
  <2> QED  BY <1>1, <2>2 DEF Dump
<1>2. CASE x[1] = "list"
  <2>1. \A n \in DOMAIN x[2] : g[x[2][n]] = h[x[2][n]]
    BY <1>2 DEF Parts
  <2>2. [n \in DOMAIN x[2] |-> g[x[2][n]]] = [n \in DOMAIN x[2] |-> h[x[2][n]]]
    BY <2>1
  <2> QED  BY <1>2, <2>2 DEF Dump
<1>3. CASE x[1] /= "dict" /\ x[1] /= "list"
  BY <1>3 DEF Dump
<1> QED  BY <1>1, <1>2, <1>3

(* A set of numbers has a least one.                                       *)
LEMMA LeastNumber ==
  ASSUME NEW S \in SUBSET Nat, S /= {}
  PROVE  \E n \in S : \A m \in S : n <= m
<1> SUFFICES ASSUME \A n \in S : \E m \in S : m < n PROVE FALSE
  OBVIOUS
<1> DEFINE R == Nat \ S
<1>1. ASSUME NEW n \in Nat, \A m \in Nat : m < n => m \in R
      PROVE  n \in R
  BY <1>1
<1>2. R = Nat
  <2>1. R \in SUBSET Nat
    OBVIOUS
  <2> HIDE DEF R
  <2> QED  BY <1>1, <2>1, NatSets
<1> QED  BY <1>2

(* How deep what is dumped is nested: as deep as a value that it is, or    *)
(* that was redacted to it.                                                *)
Heights(x) ==
  {n \in Nat : \E value \in Value : n = Depth[value] /\ (x = value \/ x = Redacted[value])}

(* The least of a set of numbers.                                          *)
Least(S) == CHOOSE n \in S : \A m \in S : n <= m

(* A rank for what json.dumps is given, which goes down from a container   *)
(* to what is in it; that of a value redacted, the least depth of a value  *)
(* it comes from.                                                          *)
Height(x) == IF x[1] \in {"dict", "list"} THEN 1 + Least(Heights(x)) ELSE 0

(* Every set of naturals that is not empty has its least.                  *)
LEMMA LeastIsLeast ==
  ASSUME NEW S \in SUBSET Nat, S /= {}
  PROVE  Least(S) \in S /\ \A m \in S : Least(S) <= m
  BY LeastNumber DEF Least

(* No value redacted to it is higher by more than one.                     *)
LEMMA HeightBound ==
  ASSUME NEW x, NEW value \in Value, x = value \/ x = Redacted[value]
  PROVE  Height(x) \in Nat /\ Height(x) <= 1 + Depth[value]
<1>1. Depth[value] \in Nat
  BY ValueAssumption
<1>2. Depth[value] \in Heights(x) /\ Heights(x) \in SUBSET Nat
  BY <1>1 DEF Heights
<1>3. Least(Heights(x)) \in Nat /\ Least(Heights(x)) <= Depth[value]
  <2>1. /\ Least(Heights(x)) \in Heights(x)
        /\ \A m \in Heights(x) : Least(Heights(x)) <= m
    <3> HIDE DEF Heights
    <3> QED  BY <1>2, LeastIsLeast
  <2> QED  BY <1>2, <2>1
<1> QED  BY <1>1, <1>3 DEF Height

(* And some value is as deep as it is high.                                *)
LEMMA HeightOfContainer ==
  ASSUME NEW x \in Dumpable, x[1] \in {"dict", "list"}
  PROVE  \E value \in Value :
           Height(x) = 1 + Depth[value] /\ (x = value \/ x = Redacted[value])
<1>1. PICK value \in Value : x = value \/ x = Redacted[value]
  BY DEF Dumpable, FullMask
<1>2. Depth[value] \in Heights(x) /\ Heights(x) \in SUBSET Nat
  BY <1>1, ValueAssumption DEF Heights
<1>3. Least(Heights(x)) \in Heights(x)
  <2> HIDE DEF Heights
  <2> QED  BY <1>2, LeastIsLeast
<1> QED  BY <1>3 DEF Heights, Height

(* The masks are flat.                                                     *)
LEMMA MasksAreFlat ==
  ASSUME NEW value \in Value
  PROVE  /\ FullMask \in Dumpable /\ Height(FullMask) = 0
         /\ PartialMask(value) \in Dumpable /\ Height(PartialMask(value)) = 0
<1>1. /\ FullMask \in Dumpable /\ FullMask[1] = "mask"
      /\ <<"ends", value>> \in Dumpable /\ <<"ends", value>>[1] = "ends"
  BY DEF Dumpable, FullMask
<1> QED  BY <1>1 DEF PartialMask, Height

(* The parts of what is dumped are dumped, and are not as high.            *)
LEMMA DumpablePartsAreLower ==
  ASSUME NEW x \in Dumpable, NEW part \in Parts(x)
  PROVE  part \in Dumpable /\ Height(part) \in Nat /\ Height(part) < Height(x)
<1>1. x[1] \in {"dict", "list"}
  BY DEF Parts
<1>2. PICK value \in Value :
        Height(x) = 1 + Depth[value] /\ (x = value \/ x = Redacted[value])
  BY <1>1, HeightOfContainer
<1>3. Depth[value] \in Nat
  BY ValueAssumption
<1>4. ASSUME NEW u \in Parts(value), part = u \/ part = Redacted[u]
      PROVE  part \in Dumpable /\ Height(part) \in Nat /\ Height(part) < Height(x)
  <2>1. u \in Value /\ Depth[u] < Depth[value] /\ Depth[u] \in Nat
    BY PartsAreLower, ValueAssumption
  <2>2. Height(part) \in Nat /\ Height(part) <= 1 + Depth[u]
    BY <1>4, <2>1, HeightBound
  <2>3. part \in Dumpable
    BY <1>4, <2>1 DEF Dumpable
  <2> QED  BY <1>2, <1>3, <2>1, <2>2, <2>3
<1>5. CASE x = value
  BY <1>4, <1>5
<1>6. CASE x = Redacted[value] /\ value[1] = "dict"
  <2>1. PICK n \in DOMAIN x[2] : part = x[2][n][2]
    BY <1>6, RedactedShape DEF Parts
  <2>2. /\ value[2][n][2] \in Value /\ value[2][n][2] \in Parts(value)
        /\ part \in {FullMask, PartialMask(value[2][n][2]), Redacted[value[2][n][2]]}
    BY <1>6, <2>1, RedactedShape
  <2>3. CASE part \in {FullMask, PartialMask(value[2][n][2])}
    BY <1>2, <1>3, <2>2, <2>3, MasksAreFlat
  <2> QED  BY <1>4, <2>2, <2>3
<1>7. CASE x = Redacted[value] /\ value[1] = "list"
  <2>1. PICK n \in DOMAIN x[2] : part = x[2][n]
    BY <1>7, RedactedShape DEF Parts
  <2>2. value[2][n] \in Parts(value) /\ part = Redacted[value[2][n]]
    BY <1>7, <2>1, RedactedShape
  <2> QED  BY <1>4, <2>2
<1>8. CASE x = Redacted[value] /\ value[1] = "scalar"
  BY <1>1, <1>8, RedactedShape
<1> QED  BY <1>2, <1>5, <1>6, <1>7, <1>8, ValueAssumption

(* The tokens of a text.                                                   *)
Token ==
  {<<"open", "dict">>, <<"open", "list">>} \cup {<<"key", k>> : k \in Key} \cup Dumpable

(* Everything dumped has its height.                                       *)
LEMMA HeightType ==
  ASSUME NEW x \in Dumpable
  PROVE  Height(x) \in Nat
<1>1. CASE x[1] \in {"dict", "list"}
  BY <1>1, HeightOfContainer, ValueAssumption
<1>2. CASE x[1] \notin {"dict", "list"}
  BY <1>2 DEF Height
<1> QED  BY <1>1, <1>2

(* json.dumps is what its recursion says, on everything it is given.       *)
LEMMA DumpedStep == \A x \in Dumpable : Dumped[x] = Dump(Dumped, x)
<1> DEFINE height == [x \in Dumpable |-> Height(x)]
           G == [p \in [Dumpable -> Seq(Token)] \X Dumpable |-> Dump(p[1], p[2])]
<1>1. ASSUME NEW dump \in [Dumpable -> Seq(Token)], NEW x \in Dumpable
      PROVE  Dump(dump, x) \in Seq(Token)
  <2>1. \A part \in Parts(x) : dump[part] \in Seq(Token)
    BY DumpablePartsAreLower
  <2>2. /\ <<"open", "dict">> \in Token /\ <<"open", "list">> \in Token
        /\ \A k \in Key : <<"key", k>> \in Token
        /\ x \in Token
    BY DEF Token
  <2> QED  BY <2>1, <2>2, DumpType
<1>2. \A dump \in [Dumpable -> Seq(Token)], x \in Dumpable : G[<<dump, x>>] = Dump(dump, x)
  OBVIOUS
<1>3. IsStep(Dumpable, height, Seq(Token), G)
  <2>1. height \in [Dumpable -> Nat] /\ Seq(Token) /= {}
    <3>1. height \in [Dumpable -> Nat]
      BY HeightType
    <3>2. <<>> \in Seq(Token)
      OBVIOUS
    <3> QED  BY <3>1, <3>2
  <2>2. G \in [[Dumpable -> Seq(Token)] \X Dumpable -> Seq(Token)]
    BY <1>1
  <2>3. ASSUME NEW g \in [Dumpable -> Seq(Token)], NEW h \in [Dumpable -> Seq(Token)],
               NEW x \in Dumpable, \A y \in Dumpable : height[y] < height[x] => g[y] = h[y]
        PROVE  G[<<g, x>>] = G[<<h, x>>]
    <3>1. \A part \in Parts(x) : g[part] = h[part]
      BY <2>3, DumpablePartsAreLower
    <3>2. Dump(g, x) = Dump(h, x)
      BY <3>1, DumpTakesParts
    <3> HIDE DEF G
    <3> QED  BY <1>2, <3>2
  <2> HIDE DEF G, height
  <2> QED  BY <2>1, <2>2, <2>3 DEF IsStep
<1>4. PICK f : Solves(Dumpable, Seq(Token), G, f)
  <2> HIDE DEF G, height
  <2> QED  BY <1>3, Recursion
<1>5. f = [x \in Dumpable |-> Dump(f, x)]
  <2> HIDE DEF G
  <2> QED  BY <1>2, <1>4 DEF Solves
<1>6. Dumped = [x \in Dumpable |-> Dump(Dumped, x)]
  BY <1>5 DEF Dumped
<1> QED  BY <1>6

(* What is dumped is a text.                                               *)
LEMMA DumpedType == \A x \in Dumpable : Dumped[x] \in Seq(Token)
<1> DEFINE height == [x \in Dumpable |-> Height(x)]
           S == {x \in Dumpable : Dumped[x] \in Seq(Token)}
<1>1. ASSUME NEW x \in Dumpable, \A y \in Dumpable : height[y] < height[x] => y \in S
      PROVE  x \in S
  <2>1. \A part \in Parts(x) : Dumped[part] \in Seq(Token)
    BY <1>1, DumpablePartsAreLower
  <2>2. /\ <<"open", "dict">> \in Token /\ <<"open", "list">> \in Token
        /\ \A k \in Key : <<"key", k>> \in Token
        /\ x \in Token
    BY DEF Token
  <2>3. Dump(Dumped, x) \in Seq(Token)
    BY <2>1, <2>2, DumpType
  <2> QED  BY <2>3, DumpedStep
<1>2. height \in [Dumpable -> Nat] /\ S \in SUBSET Dumpable
  BY HeightType
<1>3. S = Dumpable
  <2> HIDE DEF S, height
  <2> QED  BY <1>1, <1>2, RankInduction
<1> QED  BY <1>3

-----------------------------------------------------------------------------
(* What may be shown                                                       *)

(* Paths are of keys in lower case.                                        *)
Name == {Lower[k] : k \in Key}

(* A path, and the value at its end.                                       *)
Place == [path : Seq(Name), value : Value]

(* The entries of a dict and the items of a list.                          *)
LEMMA ValueShape ==
  ASSUME NEW value \in Value
  PROVE  /\ value[1] = "dict" =>
              \A n \in DOMAIN value[2] :
                /\ value[2][n][1] \in Key /\ Lower[value[2][n][1]] \in Name
                /\ value[2][n][2] \in Value /\ value[2][n][2] \in Parts(value)
         /\ value[1] = "list" =>
              \A n \in DOMAIN value[2] : value[2][n] \in Value /\ value[2][n] \in Parts(value)
<1>1. CASE value[1] = "dict" /\ value[2] \in Seq(Key \X Value)
  <2>1. ASSUME NEW n \in DOMAIN value[2]
        PROVE  /\ value[2][n] \in Key \X Value /\ value[2][n][2] \in Parts(value)
    BY <1>1 DEF Parts
  <2> QED  BY <1>1, <2>1 DEF Name
<1>2. CASE value[1] = "list" /\ value[2] \in Seq(Value)
  BY <1>2 DEF Parts
<1>3. CASE value[1] = "scalar"
  BY <1>3
<1> QED  BY <1>1, <1>2, <1>3, ValueAssumption

(* Places, seen from a dict they are in.                                   *)
LEMMA UnderType ==
  ASSUME NEW key \in Key, NEW places, places \subseteq Place
  PROVE  Under(key, places) \subseteq Place
<1>1. ASSUME NEW p \in places
      PROVE  [path |-> <<Lower[key]>> \o p.path, value |-> p.value] \in Place
  <2>1. p.path \in Seq(Name) /\ p.value \in Value /\ Lower[key] \in Name
    BY DEF Place, Name
  <2>2. <<Lower[key]>> \o p.path \in Seq(Name)
    BY <2>1
  <2> QED  BY <2>1, <2>2 DEF Place
<1> QED  BY <1>1 DEF Under

(* If the places of the parts are places, so are those of the value.       *)
LEMMA PlacesInType ==
  ASSUME NEW value \in Value, NEW places, \A part \in Parts(value) : places[part] \subseteq Place
  PROVE  PlacesIn(places, value) \subseteq Place
<1>1. [path |-> <<>>, value |-> value] \in Place
  BY DEF Place
<1>2. CASE value[1] = "dict"
  <2>1. ASSUME NEW n \in DOMAIN value[2]
        PROVE  Under(value[2][n][1], places[value[2][n][2]]) \subseteq Place
    BY <1>2, ValueShape, UnderType
  <2> QED  BY <1>1, <1>2, <2>1 DEF PlacesIn
<1>3. CASE value[1] = "list"
  <2>1. \A n \in DOMAIN value[2] : places[value[2][n]] \subseteq Place
    BY <1>3, ValueShape
  <2> QED  BY <1>1, <1>3, <2>1 DEF PlacesIn
<1>4. CASE value[1] /= "dict" /\ value[1] /= "list"
  BY <1>1, <1>4 DEF PlacesIn
<1> QED  BY <1>2, <1>3, <1>4

(* The places of a value depend on those of its parts alone.               *)
LEMMA PlacesTakeParts ==
  ASSUME NEW value \in Value, NEW g, NEW h, \A part \in Parts(value) : g[part] = h[part]
  PROVE  PlacesIn(g, value) = PlacesIn(h, value)
<1>1. CASE value[1] = "dict"
  <2>1. \A n \in DOMAIN value[2] : g[value[2][n][2]] = h[value[2][n][2]]
    BY <1>1, ValueShape
  <2>2. {Under(value[2][n][1], g[value[2][n][2]]) : n \in DOMAIN value[2]}
          = {Under(value[2][n][1], h[value[2][n][2]]) : n \in DOMAIN value[2]}
    BY <2>1
  <2> QED  BY <1>1, <2>2 DEF PlacesIn
<1>2. CASE value[1] = "list"
  <2>1. \A n \in DOMAIN value[2] : g[value[2][n]] = h[value[2][n]]
    BY <1>2, ValueShape
  <2> QED  BY <1>2, <2>1 DEF PlacesIn
<1>3. CASE value[1] /= "dict" /\ value[1] /= "list"
  BY <1>3 DEF PlacesIn
<1> QED  BY <1>1, <1>2, <1>3

(* The places are what their recursion says.                               *)
LEMMA PlacesStep ==
  \A value \in Value : Places[value] \subseteq Place /\ Places[value] = PlacesIn(Places, value)
<1> DEFINE G == [p \in [Value -> SUBSET Place] \X Value |-> PlacesIn(p[1], p[2])]
<1>1. ASSUME NEW places \in [Value -> SUBSET Place], NEW value \in Value
      PROVE  PlacesIn(places, value) \in SUBSET Place
  <2>1. \A part \in Parts(value) : places[part] \subseteq Place
    BY PartsAreLower
  <2> QED  BY <2>1, PlacesInType
<1>2. \A places \in [Value -> SUBSET Place], value \in Value :
        G[<<places, value>>] = PlacesIn(places, value)
  OBVIOUS
<1>3. IsStep(Value, Depth, SUBSET Place, G)
  <2>1. Depth \in [Value -> Nat] /\ SUBSET Place /= {}
    BY ValueAssumption
  <2>2. G \in [[Value -> SUBSET Place] \X Value -> SUBSET Place]
    BY <1>1
  <2>3. ASSUME NEW g \in [Value -> SUBSET Place], NEW h \in [Value -> SUBSET Place],
               NEW value \in Value, \A u \in Value : Depth[u] < Depth[value] => g[u] = h[u]
        PROVE  G[<<g, value>>] = G[<<h, value>>]
    <3>1. \A part \in Parts(value) : g[part] = h[part]
      BY <2>3, PartsAreLower
    <3>2. PlacesIn(g, value) = PlacesIn(h, value)
      BY <3>1, PlacesTakeParts
    <3> HIDE DEF G
    <3> QED  BY <1>2, <3>2
  <2> HIDE DEF G
  <2> QED  BY <2>1, <2>2, <2>3 DEF IsStep
<1>4. PICK f : Solves(Value, SUBSET Place, G, f)
  <2> HIDE DEF G
  <2> QED  BY <1>3, Recursion
<1>5. f = [value \in Value |-> PlacesIn(f, value)]
  <2> HIDE DEF G
  <2> QED  BY <1>2, <1>4 DEF Solves
<1>6. Places = [value \in Value |-> PlacesIn(Places, value)]
  BY <1>5 DEF Places
<1> DEFINE S == {value \in Value : Places[value] \subseteq Place}
<1>7. ASSUME NEW value \in Value, \A u \in Value : Depth[u] < Depth[value] => u \in S
      PROVE  value \in S
  <2>1. \A part \in Parts(value) : Places[part] \subseteq Place
    BY <1>7, PartsAreLower
  <2>2. PlacesIn(Places, value) \subseteq Place
    BY <2>1, PlacesInType
  <2> QED  BY <1>6, <2>2
<1>8. S = Value
  <2>1. S \in SUBSET Value /\ Depth \in [Value -> Nat]
    BY ValueAssumption
  <2> HIDE DEF S
  <2> QED  BY <1>7, <2>1, RankInduction
<1> QED  BY <1>6, <1>8

(* The keys under which something is masked.                               *)
Sensitive == FullKeys \cup PartialKeys

(* No key on the way is sensitive.                                         *)
IsOpen(path) == \A k \in DOMAIN path : path[k] \notin Sensitive

(* The last key alone is sensitive, and in part.                           *)
IsPartial(path) ==
  /\ path /= <<>> /\ Last(path) \in PartialKeys \ FullKeys
  /\ \A k \in 1 .. (Len(path) - 1) : path[k] \notin Sensitive

(* What may be shown of a document, by the paths that lead to it.          *)
LEMMA MayBeShownIff ==
  ASSUME NEW document, NEW t
  PROVE  t \in MayBeShown(document) <=>
           \E p \in Places[document] :
             \/ IsOpen(p.path) /\ p.value[1] = "scalar" /\ t = p.value
             \/ IsPartial(p.path) /\ p.value \notin Short /\ t = <<"ends", p.value>>
  BY DEF MayBeShown, IsOpen, IsPartial, Sensitive

(* A value is in its own place.                                            *)
LEMMA OwnPlace ==
  ASSUME NEW value \in Value
  PROVE  [path |-> <<>>, value |-> value] \in Places[value]
  BY PlacesStep DEF PlacesIn

(* A key that is not sensitive opens and hides nothing.                    *)
LEMMA PathBelowKey ==
  ASSUME NEW path \in Seq(Name), NEW name \in Name, name \notin Sensitive
  PROVE  /\ IsOpen(path) => IsOpen(<<name>> \o path)
         /\ IsPartial(path) => IsPartial(<<name>> \o path)
<1> DEFINE longer == <<name>> \o path
<1>1. /\ longer \in Seq(Name) /\ Len(longer) = Len(path) + 1
      /\ longer[1] = name /\ \A k \in 1 .. Len(path) : longer[k + 1] = path[k]
  OBVIOUS
<1>2. ASSUME NEW k \in 2 .. (Len(path) + 1)
      PROVE  k - 1 \in 1 .. Len(path) /\ longer[k] = path[k - 1]
  <2>1. k - 1 \in 1 .. Len(path) /\ (k - 1) + 1 = k
    OBVIOUS
  <2> HIDE DEF longer
  <2> QED  BY <1>1, <2>1
<1>3. IsOpen(path) => IsOpen(longer)
  <2> HIDE DEF longer
  <2> SUFFICES ASSUME IsOpen(path), NEW k \in 1 .. (Len(path) + 1) PROVE longer[k] \notin Sensitive
    BY <1>1 DEF IsOpen
  <2>1. CASE k = 1
    BY <1>1, <2>1
  <2>2. CASE k /= 1
    <3>1. k \in 2 .. (Len(path) + 1)
      BY <2>2
    <3>2. k - 1 \in DOMAIN path /\ longer[k] = path[k - 1]
      BY <1>2, <3>1
    <3> QED  BY <3>2 DEF IsOpen
  <2> QED  BY <2>1, <2>2
<1>4. IsPartial(path) => IsPartial(longer)
  <2> HIDE DEF longer
  <2> SUFFICES ASSUME IsPartial(path) PROVE IsPartial(longer)
    OBVIOUS
  <2>1. Len(path) \in Nat /\ Len(path) /= 0
    BY DEF IsPartial
  <2>2. Last(longer) = Last(path) /\ longer /= <<>>
    BY <1>1, <2>1 DEF Last
  <2>3. ASSUME NEW k \in 1 .. (Len(longer) - 1)
        PROVE  longer[k] \notin Sensitive
    <3>1. CASE k = 1
      BY <1>1, <3>1
    <3>2. CASE k /= 1
      <4>1. k \in 2 .. (Len(path) + 1) /\ k - 1 \in 1 .. (Len(path) - 1)
        BY <1>1, <2>1, <3>2
      <4>2. longer[k] = path[k - 1]
        BY <1>2, <4>1
      <4> QED  BY <4>1, <4>2 DEF IsPartial
    <3> QED  BY <3>1, <3>2
  <2> QED  BY <2>2, <2>3 DEF IsPartial
<1> QED  BY <1>3, <1>4

(* What may be shown of the value of a key that is not sensitive, or of an *)
(* item, may be shown of the dict or the list.                             *)
LEMMA ShownBelowKey ==
  ASSUME NEW value \in Value, value[1] = "dict", NEW n \in DOMAIN value[2],
         Lower[value[2][n][1]] \notin Sensitive
  PROVE  MayBeShown(value[2][n][2]) \subseteq MayBeShown(value)
<1> DEFINE name == Lower[value[2][n][1]]
           val == value[2][n][2]
<1>1. name \in Name /\ val \in Value /\ name \notin Sensitive
  BY ValueShape
<1>2. Under(value[2][n][1], Places[val]) \subseteq Places[value]
  BY PlacesStep DEF PlacesIn
<1>3. ASSUME NEW p \in Places[val]
      PROVE  \E q \in Places[value] :
               /\ q.value = p.value
               /\ IsOpen(p.path) => IsOpen(q.path)
               /\ IsPartial(p.path) => IsPartial(q.path)
  <2> DEFINE q == [path |-> <<name>> \o p.path, value |-> p.value]
  <2>1. q \in Places[value]
    BY <1>2 DEF Under
  <2>2. p.path \in Seq(Name)
    BY <1>1, PlacesStep DEF Place
  <2>3. /\ IsOpen(p.path) => IsOpen(q.path)
        /\ IsPartial(p.path) => IsPartial(q.path)
    <3>1. q.path = <<name>> \o p.path
      OBVIOUS
    <3> HIDE DEF q, name
    <3> QED  BY <1>1, <2>2, <3>1, PathBelowKey
  <2>4. q.value = p.value
    OBVIOUS
  <2> HIDE DEF q
  <2> QED  BY <2>1, <2>3, <2>4
<1> HIDE DEF val
<1>4. ASSUME NEW t \in MayBeShown(val)
      PROVE  t \in MayBeShown(value)
  <2>1. PICK p \in Places[val] :
          \/ IsOpen(p.path) /\ p.value[1] = "scalar" /\ t = p.value
          \/ IsPartial(p.path) /\ p.value \notin Short /\ t = <<"ends", p.value>>
    BY MayBeShownIff
  <2>2. PICK q \in Places[value] :
          /\ q.value = p.value
          /\ IsOpen(p.path) => IsOpen(q.path)
          /\ IsPartial(p.path) => IsPartial(q.path)
    BY <1>3
  <2> QED  BY <2>1, <2>2, MayBeShownIff
<1> QED  BY <1>4 DEF val

(* What may be shown of an item may be shown of its list.                  *)
LEMMA ShownBelowItem ==
  ASSUME NEW value \in Value, value[1] = "list", NEW n \in DOMAIN value[2]
  PROVE  MayBeShown(value[2][n]) \subseteq MayBeShown(value)
<1>1. Places[value[2][n]] \subseteq Places[value]
  BY PlacesStep DEF PlacesIn
<1> QED  BY <1>1, MayBeShownIff

(* The ends of a long value may be shown below a partial key.              *)
LEMMA EndsBelowKey ==
  ASSUME NEW value \in Value, value[1] = "dict", NEW n \in DOMAIN value[2],
         Lower[value[2][n][1]] \in PartialKeys \ FullKeys, value[2][n][2] \notin Short
  PROVE  <<"ends", value[2][n][2]>> \in MayBeShown(value)
<1> DEFINE name == Lower[value[2][n][1]]
           val == value[2][n][2]
           q == [path |-> <<name>>, value |-> val]
<1>1. name \in Name /\ val \in Value
  BY ValueShape
<1>2. Under(value[2][n][1], Places[val]) \subseteq Places[value]
  BY PlacesStep DEF PlacesIn
<1>3. [path |-> <<>>, value |-> val] \in Places[val]
  BY <1>1, OwnPlace
<1>4. [path |-> <<name>> \o <<>>, value |-> val] \in Places[value]
  <2>1. [path |-> <<name>> \o [path |-> <<>>, value |-> val].path,
         value |-> [path |-> <<>>, value |-> val].value] \in Under(value[2][n][1], Places[val])
    BY <1>3 DEF Under
  <2> QED  BY <1>2, <2>1
<1>5. <<name>> \o <<>> = <<name>>
  BY <1>1
<1>6. q \in Places[value]
  BY <1>4, <1>5
<1>7. IsPartial(<<name>>)
  <2>1. <<name>> /= <<>> /\ Last(<<name>>) = name /\ Len(<<name>>) - 1 = 0
    BY DEF Last
  <2> QED  BY <2>1 DEF IsPartial
<1>8. q.path = <<name>> /\ q.value = val
  OBVIOUS
<1> HIDE DEF q, name
<1> QED  BY <1>6, <1>7, <1>8, MayBeShownIff

(* A scalar may be shown where there are no keys.                          *)
LEMMA ScalarIsOpen ==
  ASSUME NEW value \in Value, value[1] = "scalar"
  PROVE  value \in MayBeShown(value)
<1> DEFINE q == [path |-> <<>>, value |-> value]
<1>1. q \in Places[value]
  BY OwnPlace
<1>2. q.path = <<>> /\ q.value = value /\ IsOpen(<<>>)
  BY DEF IsOpen
<1> HIDE DEF q
<1> QED  BY <1>1, <1>2, MayBeShownIff

(* Tokens that show nothing, or what may be shown of a value.              *)
Harmless(value) ==
  {t \in Token : t[1] \in {"scalar", "ends"} => t \in MayBeShown(value)}

(* Whatever the project adds to the keys and however deep they lie: in the *)
(* text that json.dumps makes of what redact returns, every scalar and     *)
(* every end of a masked value is one that may be shown of the document.   *)
THEOREM RedactedIsHarmless ==
  \A value \in Value : Dumped[Redacted[value]] \in Seq(Harmless(value))
<1> DEFINE S == {value \in Value : Dumped[Redacted[value]] \in Seq(Harmless(value))}
<1>1. ASSUME NEW value \in Value, \A u \in Value : Depth[u] < Depth[value] => u \in S
      PROVE  value \in S
  <2> DEFINE x == Redacted[value]
  <2>1. x \in Dumpable
    BY DEF Dumpable
  <2>2. /\ <<"open", "dict">> \in Harmless(value) /\ <<"open", "list">> \in Harmless(value)
        /\ \A k \in Key : <<"key", k>> \in Harmless(value)
    <3>1. /\ <<"open", "dict">> \in Token /\ <<"open", "list">> \in Token
          /\ \A k \in Key : <<"key", k>> \in Token
      BY DEF Token
    <3> QED  BY <3>1 DEF Harmless
  <2>3. ASSUME NEW u \in Parts(value), MayBeShown(u) \subseteq MayBeShown(value)
        PROVE  Dumped[Redacted[u]] \in Seq(Harmless(value))
    <3>1. u \in Value /\ Dumped[Redacted[u]] \in Seq(Harmless(u))
      BY <1>1, PartsAreLower
    <3>2. Harmless(u) \subseteq Harmless(value)
      BY <2>3 DEF Harmless
    <3> QED  BY <3>1, <3>2
  <2>4. ASSUME NEW mask \in Dumpable, mask[1] \in {"mask", "ends"},
               mask[1] = "ends" => mask \in MayBeShown(value)
        PROVE  Dumped[mask] \in Seq(Harmless(value))
    <3>1. Dumped[mask] = <<mask>>
      BY <2>4, DumpedStep DEF Dump
    <3>2. mask \in Harmless(value)
      BY <2>4 DEF Harmless, Token
    <3> QED  BY <3>1, <3>2
  <2>5. ASSUME NEW part \in Parts(x)
        PROVE  Dumped[part] \in Seq(Harmless(value))
    <3>1. CASE value[1] = "dict"
      <4>1. PICK n \in DOMAIN value[2] : part = x[2][n][2]
        BY <3>1, RedactedShape DEF Parts
      <4> DEFINE name == Lower[value[2][n][1]]
                 val == value[2][n][2]
      <4>2. /\ val \in Value /\ val \in Parts(value)
            /\ part = IF name \in FullKeys THEN FullMask
                      ELSE IF name \in PartialKeys THEN PartialMask(val) ELSE Redacted[val]
        BY <3>1, <4>1, RedactedShape
      <4>3. CASE part = FullMask
        <5>1. FullMask \in Dumpable /\ FullMask[1] = "mask"
          BY MasksAreFlat, <4>2 DEF FullMask
        <5> QED  BY <2>4, <4>3, <5>1
      <4>4. CASE name \in PartialKeys \ FullKeys /\ val \notin Short
        <5>1. part = <<"ends", val>>
          BY <4>2, <4>4 DEF PartialMask
        <5>2. part \in Dumpable /\ part[1] = "ends"
          BY <4>2, <5>1 DEF Dumpable
        <5>3. part \in MayBeShown(value)
          BY <3>1, <4>4, <5>1, EndsBelowKey
        <5> QED  BY <2>4, <5>2, <5>3
      <4>5. CASE name \in PartialKeys \ FullKeys /\ val \in Short
        <5>1. part = FullMask
          BY <4>2, <4>5 DEF PartialMask
        <5> QED  BY <4>3, <5>1
      <4>6. CASE name \notin Sensitive
        <5>1. part = Redacted[val]
          BY <4>2, <4>6 DEF Sensitive
        <5>2. MayBeShown(val) \subseteq MayBeShown(value)
          BY <3>1, <4>6, ShownBelowKey
        <5> QED  BY <2>3, <4>2, <5>1, <5>2
      <4> QED  BY <4>2, <4>3, <4>4, <4>5, <4>6 DEF Sensitive
    <3>2. CASE value[1] = "list"
      <4>1. PICK n \in DOMAIN value[2] : part = x[2][n]
        BY <3>2, RedactedShape DEF Parts
      <4>2. value[2][n] \in Parts(value) /\ part = Redacted[value[2][n]]
        BY <3>2, <4>1, RedactedShape
      <4>3. MayBeShown(value[2][n]) \subseteq MayBeShown(value)
        BY <3>2, ShownBelowItem
      <4> QED  BY <2>3, <4>2, <4>3
    <3>3. CASE value[1] = "scalar"
      BY <3>3, RedactedShape DEF Parts
    <3> QED  BY <3>1, <3>2, <3>3, ValueAssumption
  <2>6. x[1] \notin {"dict", "list"} => x \in Harmless(value)
    <3> SUFFICES ASSUME x[1] \notin {"dict", "list"} PROVE x \in Harmless(value)
      OBVIOUS
    <3>1. value[1] = "scalar" /\ x = value
      BY RedactedShape, ValueAssumption
    <3>2. value \in MayBeShown(value)
      BY <3>1, ScalarIsOpen
    <3> QED  BY <2>1, <3>1, <3>2 DEF Harmless, Token
  <2>7. Dump(Dumped, x) \in Seq(Harmless(value))
    <3> HIDE DEF x
    <3> QED  BY <2>1, <2>2, <2>5, <2>6, DumpType
  <2> QED  BY <2>1, <2>7, DumpedStep
<1>2. S \in SUBSET Value /\ Depth \in [Value -> Nat]
  BY ValueAssumption
<1>3. S = Value
  <2> HIDE DEF S
  <2> QED  BY <1>1, <1>2, RankInduction
<1> QED  BY <1>3

(* A text is cut at the limit, and marked.                                 *)
LEMMA CutText ==
  ASSUME NEW T, NEW text \in Seq(T)
  PROVE  /\ Cut(text) \in Seq(T \cup {Truncated})
         /\ MaxBytes \in Nat => Len(Cut(text)) <= MaxBytes + 1
<1>1. text \in Seq(T \cup {Truncated})
  OBVIOUS
<1>2. CASE Len(text) > MaxBytes
  <2>1. SubSeq(text, 1, MaxBytes) \in Seq(T)
    BY <1>2, ValueAssumption
  <2>2. MaxBytes \in Nat => Len(SubSeq(text, 1, MaxBytes)) = MaxBytes
    BY <1>2, ValueAssumption
  <2>3. SubSeq(text, 1, MaxBytes) \in Seq(T \cup {Truncated})
    BY <2>1
  <2>4. /\ Append(SubSeq(text, 1, MaxBytes), Truncated) \in Seq(T \cup {Truncated})
        /\ Len(Append(SubSeq(text, 1, MaxBytes), Truncated)) = Len(SubSeq(text, 1, MaxBytes)) + 1
    BY <2>3
  <2> QED  BY <1>2, <2>2, <2>4 DEF Cut
<1>3. CASE ~(Len(text) > MaxBytes)
  BY <1>1, <1>3, ValueAssumption DEF Cut
<1> QED  BY <1>2, <1>3

(* What the line says of a body: nothing, its size and type, or the text   *)
(* of its document, redacted if that is on, cut at the limit.              *)
LEMMA RenderedCases ==
  ASSUME NEW raw, NEW type, NEW body, NEW redacting, body.document \in Value \cup {NoText}
  PROVE  \/ Rendered(raw, type, body, redacting) = NoText
         \/ Rendered(raw, type, body, redacting) = Placeholder(Len(raw), type)
         \/ /\ body.document \in Value /\ body.document /= NoText
            /\ Rendered(raw, type, body, redacting)
                 = Cut(Dumped[IF redacting THEN Redacted[body.document] ELSE body.document])
  BY DEF Rendered, Loads

(* The size and the type of a body show nothing of what is in it.          *)
LEMMA PlaceholderShowsNothing ==
  ASSUME NEW n, NEW type \in Seq(STRING)
  PROVE  Shown(Placeholder(n, type)) = {}
<1> DEFINE T == {<<"bytes", n>>, <<"type", "unknown">>} \cup {<<"type", type[k]>> : k \in DOMAIN type}
           words == IF type = <<>> THEN <<<<"type", "unknown">>>>
                    ELSE [k \in DOMAIN type |-> <<"type", type[k]>>]
<1>1. words \in Seq(T)
  <2>1. CASE type = <<>>
    <3>1. <<"type", "unknown">> \in T
      OBVIOUS
    <3> HIDE DEF T
    <3> QED  BY <2>1, <3>1
  <2>2. CASE type /= <<>>
    <3>1. \A k \in 1 .. Len(type) : <<"type", type[k]>> \in T
      OBVIOUS
    <3> HIDE DEF T
    <3>2. [k \in 1 .. Len(type) |-> <<"type", type[k]>>] \in Seq(T)
      BY <3>1
    <3> QED  BY <2>2, <3>2
  <2> QED  BY <2>1, <2>2
<1>2. <<<<"bytes", n>>>> \in Seq(T)
  <2>1. <<"bytes", n>> \in T
    OBVIOUS
  <2> HIDE DEF T
  <2> QED  BY <2>1
<1>3. Placeholder(n, type) \in Seq(T)
  <2> HIDE DEF T
  <2>1. Placeholder(n, type) = <<<<"bytes", n>>>> \o words
    BY DEF Placeholder
  <2> HIDE DEF words
  <2> QED  BY <1>1, <1>2, <2>1
<1>4. \A t \in T : t[1] \notin {"scalar", "ends"}
  OBVIOUS
<1>5. \A t \in Range(Placeholder(n, type)) : t \in T
  <2> HIDE DEF T
  <2> QED  BY <1>3 DEF Range
<1> HIDE DEF T
<1> QED  BY <1>4, <1>5 DEF Shown

(* With redaction, nothing is shown but what may be.                       *)
LEMMA RenderedIsHarmless ==
  ASSUME NEW raw, NEW type \in Seq(STRING), NEW body, body.document \in Value \cup {NoText}
  PROVE  Shown(Rendered(raw, type, body, TRUE)) \subseteq
           IF body.document = NoText THEN {} ELSE MayBeShown(body.document)
<1> DEFINE text == Rendered(raw, type, body, TRUE)
           data == body.document
<1>1. CASE text = NoText
  BY <1>1 DEF Shown
<1>2. CASE text = Placeholder(Len(raw), type)
  <2>1. Shown(text) = {}
    <3> HIDE DEF text
    <3> QED  BY <1>2, PlaceholderShowsNothing
  <2> QED  BY <2>1
<1>3. CASE data \in Value /\ data /= NoText /\ text = Cut(Dumped[Redacted[data]])
  <2>1. Dumped[Redacted[data]] \in Seq(Harmless(data))
    BY <1>3, RedactedIsHarmless
  <2>2. text \in Seq(Harmless(data) \cup {Truncated})
    <3> HIDE DEF text, data
    <3> QED  BY <1>3, <2>1, CutText
  <2>3. ASSUME NEW t \in Harmless(data) \cup {Truncated}, t[1] \in {"scalar", "ends"}
        PROVE  t \in MayBeShown(data)
    BY <2>3 DEF Harmless, Truncated
  <2>4. \A t \in Range(text) : t \in Harmless(data) \cup {Truncated}
    <3> HIDE DEF text, data
    <3> QED  BY <2>2 DEF Range
  <2>5. Shown(text) \subseteq MayBeShown(data)
    <3> HIDE DEF text, data
    <3> QED  BY <2>3, <2>4 DEF Shown
  <2> QED  BY <1>3, <2>5
<1> QED  BY <1>1, <1>2, <1>3, RenderedCases

(* No text is longer than the limit and the mark, but for that of a body   *)
(* that is not shown.                                                      *)
LEMMA RenderedFits ==
  ASSUME NEW raw, NEW type, NEW body, NEW redacting,
         body.document \in Value \cup {NoText}, MaxBytes \in Nat,
         Rendered(raw, type, body, redacting) /= NoText
  PROVE  \/ Len(Rendered(raw, type, body, redacting)) <= MaxBytes + 1
         \/ Rendered(raw, type, body, redacting) = Placeholder(Len(raw), type)
<1> DEFINE data == IF redacting THEN Redacted[body.document] ELSE body.document
<1>1. CASE Rendered(raw, type, body, redacting) = Placeholder(Len(raw), type)
  BY <1>1
<1>2. CASE body.document \in Value /\ Rendered(raw, type, body, redacting) = Cut(Dumped[data])
  <2>1. data \in Dumpable
    BY <1>2 DEF Dumpable
  <2>2. Dumped[data] \in Seq(Token)
    <3> HIDE DEF data
    <3> QED  BY <2>1, DumpedType
  <2>3. Len(Cut(Dumped[data])) <= MaxBytes + 1
    <3> HIDE DEF data
    <3> QED  BY <2>2, CutText
  <2> QED  BY <1>2, <2>3
<1> QED  BY <1>1, <1>2, RenderedCases

-----------------------------------------------------------------------------
(* The invariant, of one request                                           *)

(* The fields of a request's record.                                       *)
Fields ==
  {"exchange", "stage", "content_type", "read", "got", "req_buf", "made", "out", "res_buf", "lines"}

(* The types, and what has been passed on and kept.                        *)
Sound(x) ==
  /\ DOMAIN x = Fields
  /\ x.exchange \in Offered
  /\ x.stage \in {"running", "returned", "raised"}
  /\ x.content_type \in {None, x.exchange.response.type}
  /\ x.content_type = None => x.made = 0
  /\ x.read \in 0 .. x.exchange.request.size
  /\ x.made \in 0 .. x.exchange.response.size
  /\ x.req_buf \in Seq(Nat) /\ x.res_buf \in Seq(Nat)
  /\ x.got = Beginning(x.read)
  /\ x.out = Beginning(x.made)
  /\ x.stage = "returned" => x.made = x.exchange.response.size
  /\ WithinOneChunk(x.req_buf) /\ WithinOneChunk(x.res_buf)
  /\ Cap <= 0 => x.req_buf = <<>> /\ x.res_buf = <<>>
  /\ x.exchange.path /= "/health" =>
       HoldsTheBeginning(x.req_buf, x.got) /\ HoldsTheBeginning(x.res_buf, x.out)

(* And what its line says.                                                 *)
Lined(x) ==
  /\ IF x.exchange.path /= "/health" /\ x.stage = "returned"
     THEN \E line : x.lines = <<line>>
     ELSE x.lines = <<>>
  /\ \A n \in DOMAIN x.lines :
       /\ x.lines[n].request = Rendered(x.req_buf, x.exchange.request.type,
                                       x.exchange.request, redact_enabled)
       /\ x.lines[n].response = Rendered(x.res_buf, x.exchange.response.type,
                                        x.exchange.response, redact_enabled)

(* Every request under way is sound, and its line tells of its streams.    *)
Inv ==
  /\ redact_enabled \in BOOLEAN
  /\ DOMAIN call = Call
  /\ \A c \in Call : call[c] /= None => Sound(call[c]) /\ Lined(call[c])

(* Bodies have sizes.                                                      *)
LEMMA SizesAreNat ==
  \A exchange \in Offered : exchange.request.size \in Nat /\ exchange.response.size \in Nat
  BY BodyAssumption DEF Exchange

(* There are no requests at first.                                         *)
LEMMA InvInit == Init => Inv
  BY DEF Init, Inv

(* What a request looks like when it begins.                               *)
LEMMA BeginIsSound ==
  ASSUME Inv, NEW c \in Call, Begin(c)
  PROVE  Sound(call'[c]) /\ Lined(call'[c])
<1>1. PICK exchange \in Offered :
        call'[c] = [exchange |-> exchange, stage |-> "running", content_type |-> None,
                    read |-> 0, got |-> <<>>, req_buf |-> <<>>,
                    made |-> 0, out |-> <<>>, res_buf |-> <<>>, lines |-> <<>>]
  BY DEF Begin, Inv
<1>2. exchange.request.size \in Nat /\ exchange.response.size \in Nat
  BY SizesAreNat
<1>3. Sound(call'[c])
  BY <1>1, <1>2, NothingYet DEF Sound, Fields, WithinOneChunk
<1>4. Lined(call'[c])
  BY <1>1 DEF Lined
<1> QED  BY <1>3, <1>4

(* Receiving goes on with the stream, and with the buffer while it may grow. *)
LEMMA ReceiveIsSound ==
  ASSUME Inv, NEW c \in Call, Receive(c)
  PROVE  Sound(call'[c]) /\ Lined(call'[c])
<1> DEFINE x == call[c]
<1>1. PICK n \in ChunkSize :
        /\ x.read + n <= x.exchange.request.size
        /\ call'[c] = [x EXCEPT !.read = @ + n, !.got = @ \o Piece(x.read, n),
                        !.req_buf = IF Wrapped(c) THEN Extend(@, Piece(x.read, n)) ELSE @]
  BY DEF Receive, Inv
<1>2. Sound(x) /\ Lined(x) /\ x.stage = "running"
  BY DEF Receive, Running, Inv
<1>3. x.exchange.request.size \in Nat /\ x.read \in Nat /\ n \in Nat
  BY <1>2, SizesAreNat, BodyAssumption DEF Sound
<1> DEFINE y == call'[c]
<1>4. /\ DOMAIN y = Fields
      /\ y.exchange = x.exchange /\ y.stage = x.stage /\ y.content_type = x.content_type
      /\ y.made = x.made /\ y.out = x.out /\ y.res_buf = x.res_buf /\ y.lines = x.lines
      /\ y.read = x.read + n /\ y.read <= x.exchange.request.size
      /\ y.got = x.got \o Piece(x.read, n)
      /\ y.req_buf = IF Wrapped(c) THEN Extend(x.req_buf, Piece(x.read, n)) ELSE x.req_buf
  BY <1>1, <1>2 DEF Sound, Fields
<1>5. y.got = Beginning(y.read)
  BY <1>2, <1>3, <1>4, PieceGoesOn DEF Sound
<1>6. y.req_buf \in Seq(Nat) /\ WithinOneChunk(y.req_buf)
  BY <1>2, <1>3, <1>4, ExtendWithinOneChunk DEF Sound
<1>7. y.exchange.path /= "/health" => HoldsTheBeginning(y.req_buf, y.got)
  BY <1>2, <1>3, <1>4, <1>5, ExtendHoldsTheBeginning DEF Sound, Wrapped
<1>8. Cap <= 0 => y.req_buf = <<>>
  <2> HIDE DEF x, y
  <2> QED  BY <1>2, <1>4, NoRoom DEF Sound
<1>9. Sound(y)
  <2> HIDE DEF x, y
  <2> QED  BY <1>2, <1>3, <1>4, <1>5, <1>6, <1>7, <1>8 DEF Sound
<1>10. Lined(y)
  <2> HIDE DEF x, y
  <2> QED  BY <1>2, <1>4 DEF Lined
<1> QED  BY <1>9, <1>10

(* The start of the answer tells its content type.                         *)
LEMMA StartIsSound ==
  ASSUME Inv, NEW c \in Call, Start(c)
  PROVE  Sound(call'[c]) /\ Lined(call'[c])
<1> DEFINE x == call[c]
<1> DEFINE y == call'[c]
<1>1. y = [x EXCEPT !.content_type = x.exchange.response.type]
  BY DEF Start, Inv
<1>2. Sound(x) /\ Lined(x) /\ x.stage = "running" /\ x.content_type = None
  BY DEF Start, Running, Inv
<1>3. /\ DOMAIN y = Fields
      /\ y.exchange = x.exchange /\ y.stage = x.stage /\ y.read = x.read /\ y.got = x.got
      /\ y.req_buf = x.req_buf /\ y.made = x.made /\ y.out = x.out /\ y.res_buf = x.res_buf
      /\ y.lines = x.lines /\ y.content_type = x.exchange.response.type
  BY <1>1, <1>2 DEF Sound, Fields
<1> HIDE DEF x, y
<1>4. Sound(y)
  BY <1>2, <1>3 DEF Sound
<1>5. Lined(y)
  BY <1>2, <1>3 DEF Lined
<1> QED  BY <1>4, <1>5 DEF y

(* Sending goes on with the stream, and with the buffer while it may grow. *)
LEMMA SendIsSound ==
  ASSUME Inv, NEW c \in Call, Send(c)
  PROVE  Sound(call'[c]) /\ Lined(call'[c])
<1> DEFINE x == call[c]
<1>1. PICK n \in ChunkSize :
        /\ x.made + n <= x.exchange.response.size
        /\ call'[c] = [x EXCEPT !.made = @ + n,
                        !.res_buf = IF Wrapped(c) THEN Extend(@, Piece(x.made, n)) ELSE @,
                        !.out = @ \o Piece(x.made, n)]
  BY DEF Send, Inv
<1>2. Sound(x) /\ Lined(x) /\ x.stage = "running" /\ x.content_type /= None
  BY DEF Send, Running, Inv
<1>3. x.exchange.response.size \in Nat /\ x.made \in Nat /\ n \in Nat
  BY <1>2, SizesAreNat, BodyAssumption DEF Sound
<1> DEFINE y == call'[c]
<1>4. /\ DOMAIN y = Fields
      /\ y.exchange = x.exchange /\ y.stage = x.stage /\ y.content_type = x.content_type
      /\ y.read = x.read /\ y.got = x.got /\ y.req_buf = x.req_buf /\ y.lines = x.lines
      /\ y.made = x.made + n /\ y.made <= x.exchange.response.size
      /\ y.out = x.out \o Piece(x.made, n)
      /\ y.res_buf = IF Wrapped(c) THEN Extend(x.res_buf, Piece(x.made, n)) ELSE x.res_buf
  BY <1>1, <1>2 DEF Sound, Fields
<1>5. y.out = Beginning(y.made)
  BY <1>2, <1>3, <1>4, PieceGoesOn DEF Sound
<1>6. y.res_buf \in Seq(Nat) /\ WithinOneChunk(y.res_buf)
  BY <1>2, <1>3, <1>4, ExtendWithinOneChunk DEF Sound
<1>7. y.exchange.path /= "/health" => HoldsTheBeginning(y.res_buf, y.out)
  BY <1>2, <1>3, <1>4, <1>5, ExtendHoldsTheBeginning DEF Sound, Wrapped
<1>8. Cap <= 0 => y.res_buf = <<>>
  <2> HIDE DEF x, y
  <2> QED  BY <1>2, <1>4, NoRoom DEF Sound
<1>9. Sound(y)
  <2> HIDE DEF x, y
  <2> QED  BY <1>2, <1>3, <1>4, <1>5, <1>6, <1>7, <1>8 DEF Sound
<1>10. Lined(y)
  <2> HIDE DEF x, y
  <2> QED  BY <1>2, <1>4 DEF Lined
<1> QED  BY <1>9, <1>10

(* A wrapped application that returns gets its one line.                   *)
LEMMA ReturnIsSound ==
  ASSUME Inv, NEW c \in Call, Return(c)
  PROVE  Sound(call'[c]) /\ Lined(call'[c])
<1> DEFINE x == call[c]
<1> DEFINE y == call'[c]
<1> DEFINE request == Rendered(x.req_buf, x.exchange.request.type, x.exchange.request,
                               redact_enabled)
<1> DEFINE response == Rendered(x.res_buf, x.content_type, x.exchange.response, redact_enabled)
<1>1. y = [x EXCEPT !.stage = "returned",
                !.lines = IF Wrapped(c)
                          THEN Append(@, [request |-> request, response |-> response])
                          ELSE @]
  BY DEF Return, Inv
<1>2. /\ Sound(x) /\ Lined(x)
      /\ x.content_type = x.exchange.response.type /\ x.made = x.exchange.response.size
  BY DEF Return, Running, Inv, Sound
<1>3. /\ DOMAIN y = Fields
      /\ y.exchange = x.exchange /\ y.read = x.read /\ y.got = x.got /\ y.req_buf = x.req_buf
      /\ y.made = x.made /\ y.out = x.out /\ y.res_buf = x.res_buf
      /\ y.content_type = x.content_type /\ y.stage = "returned"
      /\ y.lines = IF Wrapped(c)
                  THEN Append(x.lines, [request |-> request, response |-> response])
                  ELSE x.lines
  BY <1>1, <1>2 DEF Sound, Fields
<1>4. Sound(y)
  <2> HIDE DEF x, y, request, response
  <2> QED  BY <1>2, <1>3 DEF Sound
<1>5. x.lines = <<>>
  BY <1>2 DEF Return, Running, Lined
<1>6. Lined(y)
  <2>1. CASE Wrapped(c)
    <3>1. y.lines = <<[request |-> request, response |-> response]>>
      BY <1>3, <1>5, <2>1
    <3>2. DOMAIN y.lines = {1} /\ y.lines[1].request = request /\ y.lines[1].response = response
      BY <3>1
    <3> HIDE DEF y
    <3> QED  BY <1>2, <1>3, <2>1, <3>1, <3>2 DEF Lined, Wrapped
  <2>2. CASE ~Wrapped(c)
    BY <1>3, <1>5, <2>2 DEF Lined, Wrapped
  <2> QED  BY <2>1, <2>2
<1> QED  BY <1>4, <1>6

(* One that raises gets none.                                              *)
LEMMA RaiseIsSound ==
  ASSUME Inv, NEW c \in Call, Raise(c)
  PROVE  Sound(call'[c]) /\ Lined(call'[c])
<1> DEFINE x == call[c]
<1> DEFINE y == call'[c]
<1>1. y = [x EXCEPT !.stage = "raised"]
  BY DEF Raise, Inv
<1>2. Sound(x) /\ Lined(x) /\ x.stage = "running"
  BY DEF Raise, Running, Inv
<1>3. /\ DOMAIN y = Fields
      /\ y.exchange = x.exchange /\ y.read = x.read /\ y.got = x.got /\ y.req_buf = x.req_buf
      /\ y.made = x.made /\ y.out = x.out /\ y.res_buf = x.res_buf /\ y.lines = x.lines
      /\ y.content_type = x.content_type /\ y.stage = "raised"
  BY <1>1, <1>2 DEF Sound, Fields
<1> HIDE DEF x, y
<1>4. Sound(y)
  BY <1>2, <1>3 DEF Sound
<1>5. Lined(y)
  BY <1>2, <1>3 DEF Lined
<1> QED  BY <1>4, <1>5 DEF y

-----------------------------------------------------------------------------
(* Every step keeps the invariant                                          *)

(* A step of one request leaves the others, and the setting, as they are.  *)
LEMMA OthersUntouched ==
  ASSUME Inv, NEW c \in Call, Begin(c) \/ Step(c) \/ Finish(c)
  PROVE  /\ redact_enabled' = redact_enabled
         /\ DOMAIN call' = Call
         /\ \A d \in Call \ {c} : call'[d] = call[d]
<1>1. CASE Begin(c)
  BY <1>1 DEF Begin, Inv
<1>2. CASE Receive(c)
  BY <1>2 DEF Receive, Inv
<1>3. CASE Start(c)
  BY <1>3 DEF Start, Inv
<1>4. CASE Send(c)
  BY <1>4 DEF Send, Inv
<1>5. CASE Return(c)
  BY <1>5 DEF Return, Inv
<1>6. CASE Raise(c)
  BY <1>6 DEF Raise, Inv
<1>7. CASE Finish(c)
  BY <1>7 DEF Finish, Inv
<1> QED  BY <1>1, <1>2, <1>3, <1>4, <1>5, <1>6, <1>7 DEF Step

(* Inv is inductive.                                                       *)
LEMMA InvNext == Inv /\ [Next]_vars => Inv'
<1> SUFFICES ASSUME Inv, [Next]_vars PROVE Inv'
  OBVIOUS
<1>1. CASE UNCHANGED vars
  BY <1>1 DEF vars, Inv, Sound, Lined
<1>2. ASSUME NEW c \in Call, Begin(c) \/ Step(c) \/ Finish(c)
      PROVE  Inv'
  <2>1. /\ redact_enabled' = redact_enabled
        /\ DOMAIN call' = Call
        /\ \A d \in Call \ {c} : call'[d] = call[d]
    BY <1>2, OthersUntouched
  <2>2. call'[c] /= None => Sound(call'[c]) /\ Lined(call'[c])
    <3>1. CASE Begin(c)
      BY <3>1, BeginIsSound
    <3>2. CASE Receive(c)
      BY <3>2, ReceiveIsSound
    <3>3. CASE Start(c)
      BY <3>3, StartIsSound
    <3>4. CASE Send(c)
      BY <3>4, SendIsSound
    <3>5. CASE Return(c)
      BY <3>5, ReturnIsSound
    <3>6. CASE Raise(c)
      BY <3>6, RaiseIsSound
    <3>7. CASE Finish(c)
      BY <3>7 DEF Finish, Inv
    <3> QED  BY <1>2, <3>1, <3>2, <3>3, <3>4, <3>5, <3>6, <3>7 DEF Step
  <2>3. \A d \in Call : call'[d] /= None => Sound(call'[d]) /\ Lined(call'[d])
    <3> HIDE DEF Sound, Lined
    <3> QED  BY <2>1, <2>2 DEF Inv
  <2>4. \A d \in Call : call'[d] /= None => Sound(call[d])' /\ Lined(call[d])'
    BY <2>1, <2>3 DEF Sound, Lined
  <2> QED  BY <2>1, <2>4 DEF Inv
<1> QED  BY <1>1, <1>2 DEF Next

(* Inv holds of every reachable state.                                     *)
LEMMA Invariance == Spec => []Inv
<1> QED  BY InvInit, InvNext, PTL DEF Spec

-----------------------------------------------------------------------------
(* The properties                                                          *)

(* For any bodies, pieces and limit: every variable has its type, and a    *)
(* body is sent only after its start was seen.                             *)
THEOREM TypeCorrectness == Spec => []TypeOK
<1>1. Inv => TypeOK
  <2> SUFFICES ASSUME Inv, NEW c \in Call, call[c] /= None
               PROVE  /\ Sound(call[c])
                      /\ call[c].got \in Seq(Nat) /\ call[c].out \in Seq(Nat)
    BY DEF Inv, TypeOK, Sound, Fields
  <2>1. Sound(call[c])
    BY DEF Inv
  <2>2. call[c].read \in Nat /\ call[c].made \in Nat
    BY <2>1, SizesAreNat DEF Sound
  <2>3. Beginning(call[c].read) \in Seq(Nat) /\ Beginning(call[c].made) \in Seq(Nat)
    BY <2>2, PieceIsSeq DEF Beginning
  <2> QED  BY <2>1, <2>3 DEF Sound
<1> QED  BY <1>1, Invariance, PTL

(* For any bodies, pieces and limit: the middleware observes both streams  *)
(* and consumes nothing of either.                                         *)
THEOREM StreamsPassUntouched == Spec => []StreamUntouched
<1>1. Inv => StreamUntouched
  BY DEF Inv, Sound, StreamUntouched
<1> QED  BY <1>1, Invariance, PTL

(* For any bodies, pieces and limit: a buffer has no gap, and misses       *)
(* nothing until it has reached the cap.                                   *)
THEOREM BuffersHaveNoGap == Spec => []BuffersHoldTheBeginning
<1>1. Inv => BuffersHoldTheBeginning
  BY DEF Inv, Sound, BuffersHoldTheBeginning, Wrapped
<1> QED  BY <1>1, Invariance, PTL

(* For any bodies, pieces and limit: a buffer passes the cap by less than  *)
(* one piece, so the largest piece the server hands over bounds it.        *)
THEOREM BuffersAreBounded == Spec => []BufferWithinOneChunk
<1>1. Inv => BufferWithinOneChunk
  BY DEF Inv, Sound, BufferWithinOneChunk, WithinOneChunk
<1> QED  BY <1>1, Invariance, PTL

(* For any bodies, pieces and limit: the line a wrapped request leaves     *)
(* tells of its own two bodies.                                            *)
THEOREM LinesTellBodies == Spec => []LineTellsBody
<1>1. Inv => LineTellsBody
  <2> SUFFICES ASSUME Inv, NEW c \in Call, call[c] /= None
               PROVE  /\ Len(call[c].lines)
                           = IF Wrapped(c) /\ call[c].stage = "returned" THEN 1 ELSE 0
                      /\ \A n \in DOMAIN call[c].lines :
                           /\ TellsOf(call[c].lines[n].request, call[c].got,
                                      call[c].exchange.request.type, call[c].exchange.request)
                           /\ TellsOf(call[c].lines[n].response, call[c].out,
                                      call[c].exchange.response.type, call[c].exchange.response)
    BY DEF LineTellsBody
  <2> DEFINE x == call[c]
  <2>1. Sound(x) /\ Lined(x)
    BY DEF Inv
  <2>2. Len(x.lines) = IF Wrapped(c) /\ x.stage = "returned" THEN 1 ELSE 0
    BY <2>1 DEF Lined, Wrapped
  <2>3. ASSUME NEW n \in DOMAIN x.lines
        PROVE  /\ TellsOf(x.lines[n].request, x.got, x.exchange.request.type, x.exchange.request)
               /\ TellsOf(x.lines[n].response, x.out, x.exchange.response.type,
                          x.exchange.response)
    <3> HIDE DEF x
    <3>1. x.exchange.path /= "/health"
      BY <2>1, <2>3 DEF Lined
    <3>2. /\ x.read \in Nat /\ x.made \in Nat
          /\ x.got = Beginning(x.read) /\ x.out = Beginning(x.made)
          /\ x.req_buf \in Seq(Nat) /\ x.res_buf \in Seq(Nat)
      BY <2>1, SizesAreNat DEF Sound
    <3>3. /\ HoldsTheBeginning(x.req_buf, Beginning(x.read))
          /\ HoldsTheBeginning(x.res_buf, Beginning(x.made))
      BY <2>1, <3>1 DEF Sound
    <3>4. /\ x.lines[n].request = Rendered(x.req_buf, x.exchange.request.type,
                                          x.exchange.request, redact_enabled)
          /\ x.lines[n].response = Rendered(x.res_buf, x.exchange.response.type,
                                           x.exchange.response, redact_enabled)
      BY <2>1, <2>3 DEF Lined
    <3> QED  BY <3>2, <3>3, <3>4, BufferTells
  <2> QED  BY <2>2, <2>3
<1> QED  BY <1>1, Invariance, PTL

(* Every text of a line was rendered of the buffer of one of the bodies,   *)
(* which holds no more than the body has.                                  *)
LEMMA TextsAreRendered ==
  ASSUME Inv, NEW c \in Call, NEW t \in TextsOf(c)
  PROVE  \E buffer \in Seq(Nat) :
           /\ t[1] = Rendered(buffer, t[2].type, t[2], redact_enabled)
           /\ t[2].document \in Value \cup {NoText}
           /\ t[2].type \in Seq(STRING)
           /\ Len(buffer) <= t[2].size /\ t[2].size \in Nat
           /\ Cap <= 0 => buffer = <<>>
<1> DEFINE x == call[c]
<1>1. call[c] /= None
  BY DEF TextsOf
<1>2. Sound(x) /\ Lined(x)
  BY <1>1 DEF Inv
<1>3. PICK line \in Range(x.lines) :
        t \in {<<line.request, x.exchange.request>>, <<line.response, x.exchange.response>>}
  BY <1>1 DEF TextsOf
<1>4. PICK n \in DOMAIN x.lines : line = x.lines[n]
  BY <1>3 DEF Range
<1>5. /\ x.exchange.request.document \in Value \cup {NoText}
      /\ x.exchange.response.document \in Value \cup {NoText}
      /\ x.exchange.request.type \in Seq(STRING) /\ x.exchange.response.type \in Seq(STRING)
      /\ x.exchange.request.size \in Nat /\ x.exchange.response.size \in Nat
  BY <1>2, BodyAssumption DEF Sound, Exchange
<1>6. /\ line.request = Rendered(x.req_buf, x.exchange.request.type,
                                x.exchange.request, redact_enabled)
      /\ line.response = Rendered(x.res_buf, x.exchange.response.type,
                                 x.exchange.response, redact_enabled)
  BY <1>2, <1>4 DEF Lined
<1>7. Cap <= 0 => x.req_buf = <<>> /\ x.res_buf = <<>>
  BY <1>2 DEF Sound
<1>8. /\ x.read <= x.exchange.request.size /\ x.read \in Nat
      /\ x.made <= x.exchange.response.size /\ x.made \in Nat
      /\ x.req_buf \in Seq(Nat) /\ x.res_buf \in Seq(Nat)
      /\ x.got = Beginning(x.read) /\ x.out = Beginning(x.made)
  BY <1>2, <1>5 DEF Sound
<1>9. Len(Beginning(x.read)) = x.read /\ Len(Beginning(x.made)) = x.made
  BY <1>8, PieceIsSeq DEF Beginning
<1>10. Len(x.req_buf) <= Len(x.got) /\ Len(x.res_buf) <= Len(x.out)
  <2>1. x.exchange.path /= "/health"
    BY <1>2, <1>3 DEF Lined, Range
  <2> QED  BY <1>2, <2>1 DEF Sound, HoldsTheBeginning
<1>11. Len(x.req_buf) <= x.exchange.request.size /\ Len(x.res_buf) <= x.exchange.response.size
  <2> HIDE DEF x
  <2> QED  BY <1>5, <1>8, <1>9, <1>10
<1> HIDE DEF x
<1>12. CASE t = <<line.request, x.exchange.request>>
  BY <1>12, <1>5, <1>6, <1>7, <1>8, <1>11
<1>13. CASE t = <<line.response, x.exchange.response>>
  BY <1>13, <1>5, <1>6, <1>7, <1>8, <1>11
<1> QED  BY <1>3, <1>12, <1>13

(* For any documents, however deep, any sets of sensitive keys, any pieces *)
(* and any limit: with LOG_REDACT no line shows a scalar that a sensitive  *)
(* key leads to, nor more than the ends of a long value under a key that   *)
(* is to be masked in part.                                                *)
THEOREM NothingSensitiveShows == Spec => []NothingSensitiveLogged
<1>1. Inv => NothingSensitiveLogged
  <2> SUFFICES ASSUME Inv, redact_enabled, NEW c \in Call, NEW t \in TextsOf(c)
               PROVE  Shown(t[1]) \subseteq
                        IF t[2].document = NoText THEN {} ELSE MayBeShown(t[2].document)
    BY DEF NothingSensitiveLogged
  <2>1. PICK buffer \in Seq(Nat) :
          /\ t[1] = Rendered(buffer, t[2].type, t[2], redact_enabled)
          /\ t[2].document \in Value \cup {NoText}
          /\ t[2].type \in Seq(STRING)
    BY TextsAreRendered
  <2>2. redact_enabled = TRUE
    BY DEF Inv
  <2>3. t[1] = Rendered(buffer, t[2].type, t[2], TRUE)
    BY <2>1, <2>2
  <2> QED  BY <2>1, <2>3, RenderedIsHarmless
<1> QED  BY <1>1, Invariance, PTL

(* For any documents, pieces, content types and limit, also one that is    *)
(* zero or negative: the text of a body is within the limit and the mark,  *)
(* unless it is its size and its content type in full.                     *)
THEOREM LinesAreBounded == Spec => []LineWithinLimit
<1>1. Inv => LineWithinLimit
  <2> SUFFICES ASSUME Inv, NEW c \in Call, NEW t \in TextsOf(c), t[1] /= NoText
               PROVE  \/ Len(t[1]) <= MaxBytes + 1
                      \/ \E n \in 1 .. t[2].size : t[1] = Placeholder(n, t[2].type)
    BY DEF LineWithinLimit
  <2>1. PICK buffer \in Seq(Nat) :
          /\ t[1] = Rendered(buffer, t[2].type, t[2], redact_enabled)
          /\ t[2].document \in Value \cup {NoText}
          /\ Len(buffer) <= t[2].size /\ t[2].size \in Nat
          /\ Cap <= 0 => buffer = <<>>
    BY TextsAreRendered
  <2>2. buffer /= <<>>
    BY <2>1 DEF Rendered
  <2>3. MaxBytes \in Nat
    BY <2>1, <2>2, ValueAssumption DEF Cap
  <2>4. Len(buffer) \in 1 .. t[2].size
    BY <2>1, <2>2
  <2>5. Len(t[1]) <= MaxBytes + 1 \/ t[1] = Placeholder(Len(buffer), t[2].type)
    BY <2>1, <2>3, RenderedFits
  <2> QED  BY <2>4, <2>5
<1> QED  BY <1>1, Invariance, PTL

=============================================================================
