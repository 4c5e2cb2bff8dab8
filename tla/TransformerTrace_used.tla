------------------------ MODULE TransformerTrace_used ------------------------
(***************************************************************************)
(* Nothing is made for nothing: at the end of a layer each tensor that was *)
(* made was taken by a record, or is the layer's result or in the cache,   *)
(* for every workload. It rests on what TransformerTrace_proofs says of    *)
(* blocks and connections.                                                 *)
(*                                                                         *)
(* A block's shapes tell what it takes of its own, a connection what it    *)
(* takes of others'. UsedInv says which block still has to take what.      *)
(***************************************************************************)
EXTENDS TransformerTrace_proofs

(***************************************************************************)
(* First, a sum over a set: it exists, and is no less than each of its     *)
(* terms.                                                                  *)
(***************************************************************************)
Pick(s) == CHOOSE x \in s : TRUE
IsSum(f, S, w) == f = [s \in SUBSET S |-> IF s = {} THEN 0 ELSE w[Pick(s)] + f[s \ {Pick(s)}]]

LEMMA PickIn ==
  ASSUME NEW S, IsFiniteSet(S), NEW s \in SUBSET S, s # {}
  PROVE  /\ Pick(s) \in s /\ Pick(s) \in S /\ s \ {Pick(s)} \in SUBSET S
         /\ Cardinality(s) \in Nat /\ Cardinality(s) > 0 /\ Cardinality(s \ {Pick(s)}) = Cardinality(s) - 1
<1>1. Pick(s) \in s
  BY DEF Pick
<1>2. IsFiniteSet(s)
  BY FS_Subset
<1>3. Cardinality(s) \in Nat /\ Cardinality(s) # 0
  BY <1>2, FS_CardinalityType, FS_EmptySet
<1>4. Cardinality(s \ {Pick(s)}) = Cardinality(s) - 1
  BY <1>1, <1>2, FS_RemoveElement
<1> QED BY <1>1, <1>3, <1>4

LEMMA SumExists ==
  ASSUME NEW S, IsFiniteSet(S), NEW w
  PROVE  \E f : IsSum(f, S, w)
<1> DEFINE Step(f, s) == IF s = {} THEN 0 ELSE w[Pick(s)] + f[s \ {Pick(s)}]
           Upto(f, n) == \A s \in SUBSET S : Cardinality(s) <= n => f[s] = Step(f, s)
           T == {n \in Nat : \E f : Upto(f, n)}
<1>0. \A s \in SUBSET S : Cardinality(s) \in Nat /\ (Cardinality(s) = 0 <=> s = {})
  <2> SUFFICES ASSUME NEW s \in SUBSET S PROVE Cardinality(s) \in Nat /\ (Cardinality(s) = 0 <=> s = {})
    OBVIOUS
  <2>1. IsFiniteSet(s)
    BY FS_Subset
  <2> QED BY <2>1, FS_CardinalityType, FS_EmptySet
<1>1. 0 \in T
  <2> DEFINE f == [s \in SUBSET S |-> 0]
  <2>1. Upto(f, 0)
    BY <1>0
  <2> QED BY <2>1
<1>2. ASSUME NEW n \in Nat, n \in T PROVE n + 1 \in T
  <2>1. PICK f : Upto(f, n)
    BY <1>2
  <2> DEFINE g == [s \in SUBSET S |-> IF Cardinality(s) = n + 1 THEN Step(f, s) ELSE f[s]]
  <2>2. ASSUME NEW s \in SUBSET S, Cardinality(s) <= n + 1 PROVE g[s] = Step(g, s)
    <3>1. CASE s = {}
      BY <1>0, <2>1, <3>1
    <3>2. CASE s # {}
      <4> DEFINE r == s \ {Pick(s)}
      <4>1. r \in SUBSET S /\ Cardinality(r) = Cardinality(s) - 1 /\ Cardinality(s) \in Nat
        BY <3>2, PickIn
      <4>2. Cardinality(r) # n + 1
        BY <2>2, <4>1
      <4>3. g[r] = f[r]
        BY <4>1, <4>2
      <4>4. Step(g, s) = Step(f, s)
        BY <3>2, <4>3
      <4>5. g[s] = Step(f, s)
        <5>1. CASE Cardinality(s) = n + 1
          BY <5>1
        <5>2. CASE Cardinality(s) # n + 1
          <6>1. Cardinality(s) <= n
            BY <2>2, <4>1, <5>2
          <6>2. g[s] = f[s]
            BY <5>2
          <6> HIDE DEF g, Step
          <6> QED BY <2>1, <6>1, <6>2
        <5> QED BY <5>1, <5>2
      <4> QED BY <4>4, <4>5
    <3> QED BY <3>1, <3>2
  <2>3. Upto(g, n + 1)
    BY <2>2
  <2> HIDE DEF Upto
  <2> QED BY <2>3
<1>3. Cardinality(S) \in T
  <2> HIDE DEF T
  <2>1. \A n \in Nat : n \in T => n + 1 \in T
    BY <1>2
  <2> QED BY <1>0, <1>1, <2>1, InductionSet
<1>4. PICK f : Upto(f, Cardinality(S))
  BY <1>3
<1> DEFINE g == [s \in SUBSET S |-> f[s]]
<1>5. ASSUME NEW s \in SUBSET S PROVE f[s] = Step(f, s)
  <2>1. Cardinality(s) <= Cardinality(S)
    BY FS_Subset
  <2> HIDE DEF Step
  <2> QED BY <1>4, <2>1
<1>6. g = [s \in SUBSET S |-> IF s = {} THEN 0 ELSE w[Pick(s)] + g[s \ {Pick(s)}]]
  <2>1. \A s \in SUBSET S : f[s] = IF s = {} THEN 0 ELSE w[Pick(s)] + f[s \ {Pick(s)}]
    BY <1>5
  <2>2. \A s \in SUBSET S : g[s \ {Pick(s)}] = f[s \ {Pick(s)}]
    OBVIOUS
  <2> QED BY <2>1, <2>2
<1> HIDE DEF g
<1>7. IsSum(g, S, w)
  BY <1>6 DEF IsSum
<1> QED BY <1>7

LEMMA SumBounds ==
  ASSUME NEW S, IsFiniteSet(S), NEW w, \A x \in S : w[x] \in Nat, NEW f, IsSum(f, S, w)
  PROVE  f[S] \in Nat /\ \A x \in S : w[x] <= f[S]
<1> DEFINE Holds(s) == f[s] \in Nat /\ \A x \in s : w[x] <= f[s]
           T == {n \in Nat : \A s \in SUBSET S : Cardinality(s) = n => Holds(s)}
<1>0. \A s \in SUBSET S : f[s] = IF s = {} THEN 0 ELSE w[Pick(s)] + f[s \ {Pick(s)}]
  BY DEF IsSum
<1>1. 0 \in T
  <2>1. \A s \in SUBSET S : Cardinality(s) = 0 => s = {}
    BY FS_Subset, FS_EmptySet
  <2>2. {} \in SUBSET S
    OBVIOUS
  <2>3. f[{}] = 0
    BY <1>0, <2>2
  <2>4. Holds({})
    BY <2>3
  <2> HIDE DEF Holds
  <2> QED BY <2>1, <2>4
<1>2. ASSUME NEW n \in Nat, n \in T PROVE n + 1 \in T
  <2> SUFFICES ASSUME NEW s \in SUBSET S, Cardinality(s) = n + 1 PROVE Holds(s)
    OBVIOUS
  <2>1. s # {}
    BY FS_EmptySet
  <2> DEFINE e == Pick(s)
             r == s \ {e}
  <2>2. e \in s /\ r \in SUBSET S /\ Cardinality(r) = n
    <3>1. Cardinality(s \ {Pick(s)}) = Cardinality(s) - 1 /\ Pick(s) \in s /\ s \ {Pick(s)} \in SUBSET S
      BY <2>1, PickIn
    <3>2. Cardinality(r) = n
      BY <3>1
    <3> QED BY <3>1, <3>2
  <2>3. f[s] = w[e] + f[r]
    BY <1>0, <2>1
  <2>4. Holds(r)
    BY <1>2, <2>2
  <2>5. w[e] \in Nat
    BY <2>2
  <2>6. \A x \in s : x = e \/ x \in r
    OBVIOUS
  <2>7. \A x \in s : w[x] \in Nat
    OBVIOUS
  <2> HIDE DEF e, r
  <2> QED BY <2>3, <2>4, <2>5, <2>6, <2>7
<1>3. Cardinality(S) \in T
  <2> HIDE DEF T
  <2>1. \A n \in Nat : n \in T => n + 1 \in T
    BY <1>2
  <2> QED BY <1>1, <2>1, InductionSet, FS_CardinalityType
<1> QED BY <1>3

(* How many of the keys the query x may see, of a tile of keys.            *)
SeenBy(key, x) == LET n == Smallest(key.start + key.tokens, x + 1) - key.start IN IF n < 0 THEN 0 ELSE n

LEMMA PairsCounted ==
  ASSUME NEW query, NEW key, query.start \in Int, query.tokens \in Int, key.start \in Int, key.tokens \in Int,
         NEW x \in query.start .. query.start + query.tokens - 1
  PROVE  CausalPairCount(query, key) \in Nat /\ SeenBy(key, x) <= CausalPairCount(query, key)
<1> DEFINE S == query.start .. query.start + query.tokens - 1
           w == [y \in S |-> SeenBy(key, y)]
           Body(f, s) == IF s = {} THEN 0 ELSE SeenBy(key, Pick(s)) + f[s \ {Pick(s)}]
           f == CHOOSE g : g = [s \in SUBSET S |-> Body(g, s)]
<1>1. IsFiniteSet(S)
  BY FS_Interval
<1>2. \A y \in S : w[y] = SeenBy(key, y) /\ w[y] \in Nat
  <2> SUFFICES ASSUME NEW y \in S PROVE SeenBy(key, y) \in Nat
    OBVIOUS
  <2>1. y \in Int /\ key.start \in Int /\ key.tokens \in Int
    OBVIOUS
  <2> HIDE DEF S
  <2> QED BY <2>1 DEF SeenBy, Smallest
<1>c. CausalPairCount(query, key) = f[S]
  BY DEF CausalPairCount, MapThenSumSet, MapThenFoldSet, SeenBy, Pick
<1> HIDE DEF S, w
<1>3. PICK g : IsSum(g, S, w)
  BY <1>1, SumExists
<1>4. \A h, s : s \in SUBSET S => Body(h, s) = IF s = {} THEN 0 ELSE w[Pick(s)] + h[s \ {Pick(s)}]
  <2> SUFFICES ASSUME NEW h, NEW s \in SUBSET S, s # {} PROVE SeenBy(key, Pick(s)) = w[Pick(s)]
    OBVIOUS
  <2>1. Pick(s) \in S
    BY <1>1, PickIn
  <2> QED BY <1>2, <2>1
<1> HIDE DEF Body
<1>5. \A h : h = [s \in SUBSET S |-> Body(h, s)] <=> IsSum(h, S, w)
  <2> SUFFICES ASSUME NEW h PROVE h = [s \in SUBSET S |-> Body(h, s)] <=> IsSum(h, S, w)
    OBVIOUS
  <2>1. [s \in SUBSET S |-> Body(h, s)] = [s \in SUBSET S |-> IF s = {} THEN 0 ELSE w[Pick(s)] + h[s \ {Pick(s)}]]
    BY <1>4
  <2> QED BY <2>1 DEF IsSum
<1>6. IsSum(f, S, w)
  <2>1. \E h : h = [s \in SUBSET S |-> Body(h, s)]
    BY <1>3, <1>5
  <2>2. f = [s \in SUBSET S |-> Body(f, s)]
    BY <2>1, Zenon
  <2> HIDE DEF f
  <2> QED BY <1>5, <2>2
<1> HIDE DEF f
<1>7. f[S] \in Nat /\ \A y \in S : w[y] <= f[S]
  BY <1>1, <1>2, <1>6, SumBounds
<1>8. x \in S
  BY DEF S
<1> QED BY <1>2, <1>7, <1>8, <1>c

(* Every tile of queries sees the first tile of keys.                      *)
LEMMA FirstTileSeen ==
  ASSUME NEW m, {m.seq_len, m.score_tile_tokens, m.context_tile_tokens} \subseteq Nat \ {0},
         NEW q \in 1 .. Len(QueryTiles(m))
  PROVE  1 \in DOMAIN KeyTiles(m) /\ 1 \in Legal(m, q)
<1> DEFINE n == m.seq_len
           a == m.score_tile_tokens
           b == m.context_tile_tokens
           query == QueryTiles(m)[q]
           key == KeyTiles(m)[1]
<1>0. n \in Nat /\ n > 0 /\ a \in Nat /\ a > 0 /\ b \in Nat /\ b > 0
  OBVIOUS
<1>1. /\ DOMAIN QueryTiles(m) = 1 .. (n + a - 1) \div a
      /\ \A i \in 1 .. (n + a - 1) \div a :
           QueryTiles(m)[i] = [start |-> (i - 1) * a, tokens |-> Smallest(a, n - (i - 1) * a)]
  BY DEF QueryTiles, TileRanges
<1>2. /\ DOMAIN KeyTiles(m) = 1 .. (n + b - 1) \div b
      /\ \A i \in 1 .. (n + b - 1) \div b :
           KeyTiles(m)[i] = [start |-> (i - 1) * b, tokens |-> Smallest(b, n - (i - 1) * b)]
  BY DEF KeyTiles, TileRanges
<1>l. Len(QueryTiles(m)) = (n + a - 1) \div a
  <2>1. IsList(QueryTiles(m))
    BY <1>0, TilesAreList DEF QueryTiles
  <2>2. (n + a - 1) \div a \in Nat
    <3> DEFINE x == n + a - 1
    <3> HIDE DEF n, a
    <3>1. x \in Nat
      BY <1>0
    <3> HIDE DEF x
    <3>2. x \div a \in Nat
      BY <1>0, <3>1
    <3> QED BY <3>2 DEF x
  <2>3. DOMAIN QueryTiles(m) = 1 .. Len(QueryTiles(m)) /\ Len(QueryTiles(m)) \in Nat
    BY <2>1, ListIs
  <2> DEFINE k == (n + a - 1) \div a
             h == Len(QueryTiles(m))
  <2>4. 1 .. k = 1 .. h /\ k \in Nat /\ h \in Nat
    BY <1>1, <2>2, <2>3
  <2> HIDE DEF k, h
  <2>5. k = h
    BY <2>4
  <2> QED BY <2>5 DEF k, h
<1> HIDE DEF n, a, b
<1>3. (n + b - 1) \div b >= 1 /\ (n + b - 1) \div b \in Int
  <2>1. n + b - 1 \in Nat /\ n + b - 1 >= b
    BY <1>0
  <2> DEFINE x == n + b - 1
  <2> HIDE DEF x
  <2>2. x \div b \in Int /\ x >= b /\ x \in Nat
    BY <1>0, <2>1 DEF x
  <2>3. x = b * (x \div b) + (x % b) /\ x % b \in 0 .. b - 1
    BY <1>0, <2>2
  <2>4. x \div b >= 1
    BY <1>0, <2>2
  <2> QED BY <2>2, <2>4 DEF x
<1>4. 1 \in DOMAIN KeyTiles(m) /\ key.start = 0 /\ key.tokens \in Nat /\ key.tokens > 0
  <2>1. 1 \in 1 .. (n + b - 1) \div b
    BY <1>3
  <2>2. (1 - 1) * b = 0 /\ n - 0 = n
    BY <1>0
  <2>3. key = [start |-> 0, tokens |-> Smallest(b, n)]
    BY <1>2, <2>1, <2>2
  <2>4. Smallest(b, n) \in Nat /\ Smallest(b, n) > 0
    BY <1>0 DEF Smallest
  <2> QED BY <1>2, <2>1, <2>3, <2>4
<1>5. query.start \in Nat /\ query.tokens \in Nat /\ query.tokens > 0
  <2>1. q \in 1 .. (n + a - 1) \div a
    BY <1>l
  <2>2. query = [start |-> (q - 1) * a, tokens |-> Smallest(a, n - (q - 1) * a)]
    BY <1>1, <2>1
  <2> DEFINE s == (q - 1) * a
  <2>3. q \in Nat /\ q >= 1 /\ q <= (n + a - 1) \div a
    BY <1>0, <2>1
  <2>4. s \in Nat
    BY <1>0, <2>3
  <2>5. s < n
    <3> DEFINE x == n + a - 1
               d == x \div a
    <3>1. x \in Nat /\ d \in Int
      BY <1>0
    <3>2. d * a <= x
      <4> HIDE DEF x
      <4> QED BY <1>0, <3>1
    <3> HIDE DEF d
    <3>3. q * a <= d * a
      BY <1>0, <2>3, <3>1 DEF d
    <3>4. q * a <= n + a - 1
      BY <1>0, <2>3, <3>1, <3>2, <3>3
    <3>5. s = q * a - a /\ q * a \in Nat
      BY <1>0, <2>3
    <3> QED BY <1>0, <3>4, <3>5
  <2> HIDE DEF s
  <2>6. Smallest(a, n - s) \in Nat /\ Smallest(a, n - s) > 0
    BY <1>0, <2>4, <2>5 DEF Smallest
  <2>7. query = [start |-> s, tokens |-> Smallest(a, n - s)]
    BY <2>2 DEF s
  <2> QED BY <2>4, <2>6, <2>7
<1>6. Pairs(m, q, 1) = CausalPairCount(query, key)
  BY DEF Pairs
<1> HIDE DEF query, key
<1>7. query.start \in query.start .. query.start + query.tokens - 1
  BY <1>5
<1>8. SeenBy(key, query.start) > 0 /\ SeenBy(key, query.start) \in Nat
  BY <1>4, <1>5 DEF SeenBy, Smallest
<1>9. CausalPairCount(query, key) \in Nat /\ SeenBy(key, query.start) <= CausalPairCount(query, key)
  <2>1. query.start \in Int /\ query.tokens \in Int /\ key.start \in Int /\ key.tokens \in Int
    BY <1>4, <1>5
  <2> QED BY <1>7, <2>1, PairsCounted, Zenon
<1>10. Pairs(m, q, 1) > 0
  BY <1>6, <1>8, <1>9
<1> QED BY <1>4, <1>10 DEF Legal

(* What a query's tile adds: it is scored against each tile of keys it     *)
(* sees, and then weighs their values.                                     *)
KeyTileScored(head, q, k) ==
  LET Q == Visible(Tensor("Q", head, q, 0))
      K == Tensor("K", head, k, 0)
  IN  {<<"k_prefill_tile_residency", {K}, {Visible(K)}, {}>>,
       <<"AttentionScore", {Q, Visible(K)}, {Tensor("score", head, q, k)}, {Q, Visible(K)}>>}
KeyTileWeighed(head, q, k, probabilities) ==
  LET P == Tensor("probability", head, q, k)
      V == Tensor("V", head, k, 0)
  IN  {<<"attention_probability_residency", {P}, {Visible(P)}, probabilities>>,
       <<"v_prefill_tile_residency", {V}, {Visible(V)}, {}>>,
       <<"AttentionContext", {Visible(P), Visible(V)}, {Tensor("context", head, q, k)},
         {Visible(P), Visible(V)} \cup probabilities>>}

PerKeyTile(keys, name, head, q) == {Tensor(name, head, q, k) : k \in keys}
QueryScored(keys, head, q) ==
  LET Q == Tensor("Q", head, q, 0)
  IN  {<<"q_operand_residency", {Q}, {Visible(Q)}, {}>>} \cup UNION {KeyTileScored(head, q, k) : k \in keys}
QueryWeighed(keys, head, q) ==
  LET scores        == PerKeyTile(keys, "score", head, q)
      probabilities == PerKeyTile(keys, "probability", head, q)
  IN  {<<"attention_softmax_accounting", scores, probabilities, scores>>}
      \cup (UNION {KeyTileWeighed(head, q, k, probabilities) : k \in keys})
      \cup ReductionShapes(PerKeyTile(keys, "context", head, q), Tensor("context_reduced", head, q, 0))

LEMMA NothingAdds ==
  ASSUME NEW L
  PROVE  Adds(L, <<>>, {})
<1>1. IsList(<<>>) /\ Len(<<>>) = 0 /\ 1 .. 0 = {}
  BY EmptyList
<1>2. {ShapeIn(L, <<>>, j) : j \in 1 .. Len(<<>>)} = {}
  BY <1>1
<1> QED BY <1>1, <1>2 DEF Adds

LEMMA QueryScoreAdds ==
  ASSUME NEW m, NEW head, NEW q, NEW k, NEW query, NEW L, Numbered(L), query \in 0 .. Len(L) - 1,
         L[query + 1].outputs = {Visible(Tensor("Q", head, q, 0))}
  PROVE  Adds(L, QueryScore(m, head, q, k, query, Len(L)), KeyTileScored(head, q, k))
<1> DEFINE id == Len(L)
           K == Tensor("K", head, k, 0)
           Q == Visible(Tensor("Q", head, q, 0))
           S == Tensor("score", head, q, k)
           R == Visible(K)
           a == PrefillOperand(id, "k_prefill_tile_residency", "K", head, k)
           b == AttentionRecord(m, id + 1, "AttentionScore", {Q, R}, S, {query, id}, QueryTiles(m)[q],
                                KeyTiles(m)[k], Pairs(m, q, k))
           c == <<a, b>>
<1>1. QueryScore(m, head, q, k, query, Len(L)) = c
  BY DEF QueryScore
<1>2. Shape(a, id, "PIMOperandResidency", "k_prefill_tile_residency", {K}, {R}, {})
  BY RecordShape DEF PrefillOperand, Residency
<1>3. Shape(b, id + 1, "AttentionScore", "AttentionScore", {Q, R}, {S}, {query, id})
  BY AttentionShape
<1>s. KeyTileScored(head, q, k) = {<<"k_prefill_tile_residency", {K}, {R}, {}>>, <<"AttentionScore", {Q, R}, {S}, {Q, R}>>}
  BY DEF KeyTileScored
<1> HIDE DEF a, b
<1>4. IsList(c) /\ Len(c) = 2 /\ c[1] = a /\ c[2] = b
  BY ListOfTwo
<1>5. Len(L) \in Nat /\ IsList(L)
  BY NumberedIds
<1>q. L[query + 1].outputs = {Q}
  OBVIOUS
<1> HIDE DEF c, K, Q, S, R
<1>6. Len(L) + 1 - 1 = id /\ Len(L) + 2 - 1 = id + 1 /\ {query, id} \subseteq 0 .. Len(L) + 2 - 2
  BY <1>5
<1>7. Follows(L, c, 1)
  BY <1>2, <1>4, <1>6 DEF Follows, Shape, Pure
<1>8. Follows(L, c, 2)
  BY <1>3, <1>4, <1>6 DEF Follows, Shape, Pure
<1>9. ShapeIn(L, c, 1) = <<"k_prefill_tile_residency", {K}, {R}, {}>>
  BY <1>2, <1>4 DEF Shape, ShapeIn, Outputs
<1>10. ShapeIn(L, c, 2) = <<"AttentionScore", {Q, R}, {S}, {Q, R}>>
  <2>1. ShapeIn(L, c, 2) = <<"AttentionScore", {Q, R}, {S}, Outputs(L, c, {query, id})>>
    BY <1>3, <1>4 DEF Shape, ShapeIn
  <2>2. At(L, c, query) = L[query + 1] /\ At(L, c, id) = c[1]
    BY <1>5 DEF At
  <2>3. c[1].outputs = {R}
    BY <1>2, <1>4 DEF Shape
  <2>4. Outputs(L, c, {query, id}) = At(L, c, query).outputs \cup At(L, c, id).outputs
    BY DEF Outputs
  <2>5. Outputs(L, c, {query, id}) = {Q, R}
    BY <1>q, <2>2, <2>3, <2>4
  <2> QED BY <2>1, <2>5
<1>11. \A j : j \in 1 .. Len(c) <=> j = 1 \/ j = 2
  BY <1>4
<1>12. KeyTileScored(head, q, k) = {ShapeIn(L, c, j) : j \in 1 .. Len(c)}
  BY <1>9, <1>10, <1>11, <1>s
<1>13. \A j \in 1 .. Len(c) : Follows(L, c, j)
  BY <1>7, <1>8, <1>11
<1> QED BY <1>1, <1>4, <1>12, <1>13 DEF Adds

LEMMA QueryContextAdds ==
  ASSUME NEW m, NEW head, NEW q, NEW k, NEW softmax, NEW L, Numbered(L), softmax \in 0 .. Len(L) - 1
  PROVE  Adds(L, QueryContext(m, head, q, k, softmax, Len(L)), KeyTileWeighed(head, q, k, L[softmax + 1].outputs))
<1> DEFINE id == Len(L)
           P == Tensor("probability", head, q, k)
           V == Tensor("V", head, k, 0)
           C == Tensor("context", head, q, k)
           R == Visible(V)
           U == Visible(P)
           T == L[softmax + 1].outputs
           a == Residency(id, "attention_probability_residency", P, U, {softmax})
           b == PrefillOperand(id + 1, "v_prefill_tile_residency", "V", head, k)
           d == AttentionRecord(m, id + 2, "AttentionContext", {U, R}, C, {id, softmax, id + 1}, QueryTiles(m)[q],
                                KeyTiles(m)[k], Pairs(m, q, k))
           c == <<a, b, d>>
           s1 == <<"attention_probability_residency", {P}, {U}, T>>
           s2 == <<"v_prefill_tile_residency", {V}, {R}, {}>>
           s3 == <<"AttentionContext", {U, R}, {C}, {U, R} \cup T>>
<1>1. QueryContext(m, head, q, k, softmax, Len(L)) = c
  BY DEF QueryContext
<1>2. /\ Shape(a, id, "PIMOperandResidency", "attention_probability_residency", {P}, {U}, {softmax})
      /\ Shape(b, id + 1, "PIMOperandResidency", "v_prefill_tile_residency", {V}, {R}, {})
  BY RecordShape DEF Residency, PrefillOperand
<1>3. Shape(d, id + 2, "AttentionContext", "AttentionContext", {U, R}, {C}, {id, softmax, id + 1})
  BY AttentionShape
<1>s. KeyTileWeighed(head, q, k, T) = {s1, s2, s3}
  BY DEF KeyTileWeighed
<1> HIDE DEF a, b, d
<1>4. IsList(c) /\ Len(c) = 3 /\ c[1] = a /\ c[2] = b /\ c[3] = d
  BY ListOfThree
<1>5. Len(L) \in Nat /\ IsList(L)
  BY NumberedIds
<1>t. L[softmax + 1].outputs = T
  OBVIOUS
<1> HIDE DEF c, P, V, C, R, U, T
<1>6. /\ Len(L) + 1 - 1 = id /\ Len(L) + 2 - 1 = id + 1 /\ Len(L) + 3 - 1 = id + 2
      /\ {softmax} \subseteq 0 .. Len(L) + 1 - 2
      /\ {id, softmax, id + 1} \subseteq 0 .. Len(L) + 3 - 2
  BY <1>5
<1>7. Follows(L, c, 1) /\ Follows(L, c, 2)
  BY <1>2, <1>4, <1>6 DEF Follows, Shape, Pure
<1>8. Follows(L, c, 3)
  BY <1>3, <1>4, <1>6 DEF Follows, Shape, Pure
<1>9. At(L, c, softmax) = L[softmax + 1] /\ At(L, c, id) = c[1] /\ At(L, c, id + 1) = c[2]
  BY <1>5 DEF At
<1>10. Outputs(L, c, {softmax}) = T
  BY <1>9, <1>t DEF Outputs
<1>11. ShapeIn(L, c, 1) = s1
  BY <1>2, <1>4, <1>10 DEF Shape, ShapeIn
<1>12. ShapeIn(L, c, 2) = s2
  BY <1>2, <1>4 DEF Shape, ShapeIn, Outputs
<1>13. ShapeIn(L, c, 3) = s3
  <2>1. ShapeIn(L, c, 3) = <<"AttentionContext", {U, R}, {C}, Outputs(L, c, {id, softmax, id + 1})>>
    BY <1>3, <1>4 DEF Shape, ShapeIn
  <2>2. c[1].outputs = {U} /\ c[2].outputs = {R}
    BY <1>2, <1>4 DEF Shape
  <2>3. Outputs(L, c, {id, softmax, id + 1})
          = At(L, c, id).outputs \cup At(L, c, softmax).outputs \cup At(L, c, id + 1).outputs
    BY DEF Outputs
  <2>4. Outputs(L, c, {id, softmax, id + 1}) = {U, R} \cup T
    BY <1>9, <1>t, <2>2, <2>3
  <2> QED BY <2>1, <2>4
<1>14. \A j : j \in 1 .. Len(c) <=> j = 1 \/ j = 2 \/ j = 3
  BY <1>4
<1> HIDE DEF s1, s2, s3
<1>15. KeyTileWeighed(head, q, k, T) = {ShapeIn(L, c, j) : j \in 1 .. Len(c)}
  BY <1>11, <1>12, <1>13, <1>14, <1>s
<1>16. \A j \in 1 .. Len(c) : Follows(L, c, j)
  BY <1>7, <1>8, <1>14
<1> QED BY <1>1, <1>4, <1>15, <1>16 DEF Adds, T

(* What the scored tiles of a query made.                                  *)
LEMMA QueryIsScored ==
  ASSUME NEW L, Numbered(L), NEW keys, NEW head, NEW q, QueryScored(keys, head, q) \subseteq Shapes(L)
  PROVE  \A t \in PerKeyTile(keys, "score", head, q) : Made(L, t)
<1> SUFFICES ASSUME NEW k \in keys PROVE Made(L, Tensor("score", head, q, k))
  BY DEF PerKeyTile
<1> DEFINE Q == Visible(Tensor("Q", head, q, 0))
           R == Visible(Tensor("K", head, k, 0))
           t == Tensor("score", head, q, k)
           s == <<"AttentionScore", {Q, R}, {t}, {Q, R}>>
<1>1. s \in KeyTileScored(head, q, k)
  BY DEF KeyTileScored
<1> HIDE DEF s
<1>2. s \in QueryScored(keys, head, q)
  BY <1>1 DEF QueryScored
<1>3. t \in s[3]
  <2> HIDE DEF Q, R, t
  <2> QED BY DEF s
<1> QED BY <1>2, <1>3, MadeShape

LEMMA AddQueryGrows ==
  ASSUME NEW m, IsList(KeyTiles(m)), NEW records, NEW head, NEW q, Numbered(records)
  PROVE  Grows(records, AddQuery(m, records, head, q),
               QueryScored(Legal(m, q), head, q) \cup QueryWeighed(Legal(m, q), head, q))
<1> DEFINE query == Len(records)
           n == Len(KeyTiles(m))
           keys == Legal(m, q)
           scores == PerKeyTile(keys, "score", head, q)
           probabilities == PerKeyTile(keys, "probability", head, q)
           contexts == PerKeyTile(keys, "context", head, q)
           output == Tensor("context_reduced", head, q, 0)
           Q == Tensor("Q", head, q, 0)
           r == PrefillOperand(query, "q_operand_residency", "Q", head, q)
           base == Append(records, r)
           chunk == [p \in (DOMAIN KeyTiles(m)) \X Nat |->
                       IF p[1] \in Legal(m, q) THEN QueryScore(m, head, q, p[1], query, p[2]) ELSE <<>>]
           shapes == [k \in 1 .. n |-> IF k \in keys THEN KeyTileScored(head, q, k) ELSE {}]
           first == {<<"q_operand_residency", {Q}, {Visible(Q)}, {}>>}
           each == UNION {KeyTileScored(head, q, k) : k \in keys}
           scored == AppendEach(base, chunk, n)
           softmax == Len(scored)
           s == Softmax(scored, scores, probabilities)
           next == Append(scored, s)
           chunk2 == [p \in (DOMAIN KeyTiles(m)) \X Nat |->
                        IF p[1] \in Legal(m, q) THEN QueryContext(m, head, q, p[1], softmax, p[2]) ELSE <<>>]
           shapes2 == [k \in 1 .. n |-> IF k \in keys THEN KeyTileWeighed(head, q, k, probabilities) ELSE {}]
           first2 == {<<"attention_softmax_accounting", scores, probabilities, scores>>}
           each2 == UNION {KeyTileWeighed(head, q, k, probabilities) : k \in keys}
           weighed == AppendEach(next, chunk2, n)
<1>1. AddQuery(m, records, head, q) = AddReduction(weighed, contexts, output)
  BY DEF AddQuery, PerKeyTile
<1>2. n \in Nat /\ DOMAIN KeyTiles(m) = 1 .. n /\ query \in Nat /\ IsList(records)
  BY ListIs, NumberedIds
<1>3. keys \subseteq 1 .. n
  BY <1>2 DEF Legal
<1>s. /\ QueryScored(keys, head, q) = first \cup each
      /\ QueryWeighed(keys, head, q) = first2 \cup each2 \cup ReductionShapes(contexts, output)
  BY DEF QueryScored, QueryWeighed
<1>4. \A t \in scores : t.name # "probability"
  <2>1. \A k : Tensor("score", head, q, k).name = "score"
    BY TensorShape DEF OfShape
  <2> QED BY <2>1 DEF PerKeyTile
<1>5. \A t \in probabilities : t.name = "probability"
  <2>1. \A k : Tensor("probability", head, q, k).name = "probability"
    BY TensorShape DEF OfShape
  <2> QED BY <2>1 DEF PerKeyTile
<1>6. \A t \in contexts : t.name # "probability" /\ \E k \in keys : t = Tensor("context", head, q, k)
  <2>1. \A k : Tensor("context", head, q, k).name = "context"
    BY TensorShape DEF OfShape
  <2> QED BY <2>1 DEF PerKeyTile
<1>k. keys = Legal(m, q)
  OBVIOUS
<1>7. Shape(r, query, "PIMOperandResidency", "q_operand_residency", {Q}, {Visible(Q)}, {})
  BY RecordShape DEF PrefillOperand, Residency
<1>q. Visible(Q) = Visible(Tensor("Q", head, q, 0))
  OBVIOUS
<1> HIDE DEF keys, scores, probabilities, contexts, output, r, Q
<1>8. Follows(records, <<r>>, 1) /\ {ShapeIn(records, <<r>>, 1)} = first
  <2> DEFINE c == <<r>>
  <2>2. c[1] = r
    OBVIOUS
  <2> HIDE DEF c
  <2>5. Pure(r)
    BY <1>7 DEF Shape, Pure
  <2>6. Len(records) + 1 - 1 = query
    BY <1>2
  <2>3. Follows(records, c, 1)
    BY <1>7, <2>2, <2>5, <2>6 DEF Follows, Shape
  <2>4. ShapeIn(records, c, 1) = <<"q_operand_residency", {Q}, {Visible(Q)}, {}>>
    BY <1>7, <2>2 DEF Shape, ShapeIn, Outputs
  <2> QED BY <2>3, <2>4 DEF c
<1>9. Grows(records, base, first) /\ Len(base) = query + 1 /\ base[query + 1] = r
  BY <1>8, AppendGrows
<1>b. Numbered(base)
  BY <1>9 DEF Grows
<1>i. ASSUME NEW k \in 1 .. n, NEW L, Numbered(L) PROVE <<k, Len(L)>> \in (DOMAIN KeyTiles(m)) \X Nat
  BY <1>i, <1>2, NumberedIds
<1> HIDE DEF base, first
<1>10. Draws(base, chunk, shapes, n)
  <2> SUFFICES ASSUME NEW k \in 1 .. n, NEW L, Numbered(L), Continues(L, base)
               PROVE  Adds(L, chunk[<<k, Len(L)>>], shapes[k])
    BY DEF Draws
  <2>1. Len(L) \in Nat /\ <<k, Len(L)>> \in (DOMAIN KeyTiles(m)) \X Nat
    BY <1>i, NumberedIds
  <2>2. CASE k \in Legal(m, q)
    <3>1. chunk[<<k, Len(L)>>] = QueryScore(m, head, q, k, query, Len(L))
      BY <2>1, <2>2
    <3>2. shapes[k] = KeyTileScored(head, q, k)
      BY <2>2, <1>k
    <3>3. L[query + 1] = r /\ query \in 0 .. Len(L) - 1
      BY <1>2, <1>9, <2>1 DEF Continues
    <3>4. L[query + 1].outputs = {Visible(Tensor("Q", head, q, 0))}
      BY <1>7, <1>q, <3>3 DEF Shape
    <3> HIDE DEF chunk, shapes
    <3> QED BY <3>1, <3>2, <3>3, <3>4, QueryScoreAdds
  <2>3. CASE k \notin Legal(m, q)
    <3>1. chunk[<<k, Len(L)>>] = <<>>
      BY <2>1, <2>3
    <3>2. shapes[k] = {}
      BY <2>3, <1>k
    <3> HIDE DEF chunk, shapes
    <3> QED BY <3>1, <3>2, NothingAdds
  <2> QED BY <2>2, <2>3
<1>11. UNION {shapes[k] : k \in 1 .. n} = each
  <2>1. \A k \in 1 .. n : shapes[k] = IF k \in keys THEN KeyTileScored(head, q, k) ELSE {}
    OBVIOUS
  <2> HIDE DEF shapes
  <2> QED BY <2>1, <1>3
<1> HIDE DEF chunk, shapes
<1>12. Grows(base, scored, each)
  <2>1. Grows(base, scored, UNION {shapes[k] : k \in 1 .. n})
    BY <1>2, <1>b, <1>10, EachGrows
  <2> QED BY <2>1, <1>11
<1> HIDE DEF scored, each
<1>13. Grows(records, scored, QueryScored(keys, head, q)) /\ Numbered(scored)
  <2>1. Grows(records, scored, first \cup each)
    BY <1>9, <1>12, GrowsTransitive
  <2> QED BY <2>1, <1>12, <1>s DEF Grows
<1>14. \A t \in scores : Made(scored, t)
  <2>1. QueryScored(keys, head, q) \subseteq Shapes(scored)
    BY <1>13 DEF Grows
  <2> QED BY <2>1, <1>13, QueryIsScored DEF scores
<1>15. softmax \in Nat /\ IsList(scored)
  BY <1>13, NumberedIds
<1>16. Grows(scored, next, first2) /\ Len(next) = softmax + 1 /\ next[softmax + 1] = s /\ s.outputs = probabilities
  <2>1. Shape(s, softmax, "AttentionSoftmax", "attention_softmax_accounting", scores, probabilities,
              Ids(Makers(scored, scores)))
    BY RecordShape DEF Softmax
  <2> HIDE DEF s
  <2>2. /\ s.record_id = Len(scored) /\ s.logical_dependencies = Ids(Makers(scored, s.inputs)) /\ s.inputs = scores
        /\ s.outputs = probabilities /\ s.op = "attention_softmax_accounting"
    BY <2>1 DEF Shape
  <2>3. Pure(s)
    BY <1>5, <2>2 DEF Pure
  <2>4. /\ Grows(scored, Append(scored, s), {<<s.op, s.inputs, s.outputs, s.inputs>>})
        /\ Len(Append(scored, s)) = Len(scored) + 1 /\ Append(scored, s)[Len(scored) + 1] = s
    BY <1>4, <1>13, <1>14, <2>2, <2>3, AccountingGrows
  <2>5. {<<s.op, s.inputs, s.outputs, s.inputs>>} = first2
    BY <2>2
  <2> HIDE DEF first2
  <2> QED BY <2>2, <2>4, <2>5
<1>n. Numbered(next)
  BY <1>16 DEF Grows
<1> HIDE DEF s, next, first2
<1>17. Draws(next, chunk2, shapes2, n)
  <2> SUFFICES ASSUME NEW k \in 1 .. n, NEW L, Numbered(L), Continues(L, next)
               PROVE  Adds(L, chunk2[<<k, Len(L)>>], shapes2[k])
    BY DEF Draws
  <2>1. Len(L) \in Nat /\ <<k, Len(L)>> \in (DOMAIN KeyTiles(m)) \X Nat
    BY <1>i, NumberedIds
  <2>2. CASE k \in Legal(m, q)
    <3>1. chunk2[<<k, Len(L)>>] = QueryContext(m, head, q, k, softmax, Len(L))
      BY <2>1, <2>2
    <3>2. shapes2[k] = KeyTileWeighed(head, q, k, probabilities)
      BY <2>2, <1>k
    <3>3. L[softmax + 1] = s /\ softmax \in 0 .. Len(L) - 1
      BY <1>15, <1>16, <2>1 DEF Continues
    <3>4. L[softmax + 1].outputs = probabilities
      BY <1>16, <3>3
    <3> HIDE DEF chunk2, shapes2
    <3> QED BY <3>1, <3>2, <3>3, <3>4, QueryContextAdds
  <2>3. CASE k \notin Legal(m, q)
    <3>1. chunk2[<<k, Len(L)>>] = <<>>
      BY <2>1, <2>3
    <3>2. shapes2[k] = {}
      BY <2>3, <1>k
    <3> HIDE DEF chunk2, shapes2
    <3> QED BY <3>1, <3>2, NothingAdds
  <2> QED BY <2>2, <2>3
<1>18. UNION {shapes2[k] : k \in 1 .. n} = each2
  <2>1. \A k \in 1 .. n : shapes2[k] = IF k \in keys THEN KeyTileWeighed(head, q, k, probabilities) ELSE {}
    OBVIOUS
  <2> HIDE DEF shapes2
  <2> QED BY <2>1, <1>3
<1>e. \A k \in keys : KeyTileWeighed(head, q, k, probabilities) \subseteq each2
  OBVIOUS
<1> HIDE DEF chunk2, shapes2
<1>19. Grows(next, weighed, each2)
  <2>1. Grows(next, weighed, UNION {shapes2[k] : k \in 1 .. n})
    BY <1>2, <1>n, <1>17, EachGrows
  <2> QED BY <2>1, <1>18
<1> HIDE DEF weighed, each2
<1>20. \A t \in contexts : Made(weighed, t)
  <2> SUFFICES ASSUME NEW k \in keys PROVE Made(weighed, Tensor("context", head, q, k))
    BY <1>6
  <2> DEFINE P == Visible(Tensor("probability", head, q, k))
             R == Visible(Tensor("V", head, k, 0))
             t == Tensor("context", head, q, k)
             x == <<"AttentionContext", {P, R}, {t}, {P, R} \cup probabilities>>
  <2>1. x \in KeyTileWeighed(head, q, k, probabilities)
    BY DEF KeyTileWeighed
  <2> HIDE DEF x
  <2>2. x \in Shapes(weighed) /\ Numbered(weighed)
    BY <1>e, <1>19, <2>1 DEF Grows
  <2>3. t \in x[3]
    <3> HIDE DEF P, R, t
    <3> QED BY DEF x
  <2> QED BY <2>2, <2>3, MadeShape
<1>21. Grows(weighed, AddReduction(weighed, contexts, output), ReductionShapes(contexts, output))
  <2>1. Numbered(weighed)
    BY <1>19 DEF Grows
  <2> QED BY <2>1, <1>6, <1>20, AddReductionGrows
<1>22. Grows(scored, weighed, first2 \cup each2)
  BY <1>13, <1>16, <1>19, GrowsTransitive
<1>23. Grows(scored, AddReduction(weighed, contexts, output), QueryWeighed(keys, head, q))
  <2>1. Grows(scored, AddReduction(weighed, contexts, output), first2 \cup each2 \cup ReductionShapes(contexts, output))
    BY <1>13, <1>21, <1>22, GrowsTransitive
  <2> QED BY <2>1, <1>s
<1>24. Grows(records, AddReduction(weighed, contexts, output), QueryScored(keys, head, q) \cup QueryWeighed(keys, head, q))
  BY <1>13, <1>23, GrowsTransitive
<1> QED BY <1>1, <1>24 DEF keys

(* The shapes of prefill attention are those of its queries, head by head. *)
QueryShapes(m, part) ==
  QueryScored(Legal(m, part.query), part.head, part.query) \cup QueryWeighed(Legal(m, part.query), part.head, part.query)

LEMMA PrefillShapes ==
  ASSUME NEW m, m.num_heads \in Nat, IsList(QueryTiles(m)), IsList(KeyTiles(m))
  PROVE  /\ Numbered(PrefillAttention(m))
         /\ \A k \in 1 .. Len(PrefillParts(m)) : PrefillParts(m)[k].query \in 1 .. Len(QueryTiles(m))
         /\ Shapes(PrefillAttention(m)) =
              UNION {QueryShapes(m, PrefillParts(m)[k]) : k \in 1 .. Len(PrefillParts(m))}
<1> DEFINE parts == PrefillParts(m)
           queries == Len(QueryTiles(m))
           n == m.num_heads * queries
           S(k) == QueryShapes(m, parts[k])
<1>1. parts = [k \in 1 .. n |-> Part("attend", (k - 1) \div queries, ((k - 1) % queries) + 1)]
  BY DEF PrefillParts
<1>2. n \in Nat /\ queries \in Nat
  BY ListIs
<1>d. PrefillAttention(m) = AddParts(m, parts)
  BY DEF PrefillAttention
<1>q. ASSUME NEW k \in 1 .. n PROVE parts[k].query \in 1 .. queries
  <2>1. parts[k].query = ((k - 1) % queries) + 1
    BY <1>1 DEF Part
  <2>2. queries # 0
    BY <1>2
  <2> HIDE DEF queries
  <2>3. queries \in Nat /\ queries > 0 /\ k - 1 \in Int
    BY <1>2, <2>2
  <2> DEFINE x == k - 1
  <2>4. (x % queries) + 1 \in 1 .. queries
    <3> HIDE DEF x
    <3>1. x % queries \in 0 .. queries - 1
      BY <2>3 DEF x
    <3> QED BY <2>3, <3>1
  <2> QED BY <2>1, <2>4
<1> HIDE DEF n, queries
<1>3. parts = [k \in 1 .. n |-> parts[k]] /\ \A k \in 1 .. n : parts[k].does = "attend"
  BY <1>1 DEF Part
<1>s. \A k : S(k) = QueryShapes(m, parts[k])
  OBVIOUS
<1> HIDE DEF parts, S
<1>4. IsList(parts) /\ Len(parts) = n
  BY <1>2, <1>3, ListOfFunction
<1>p. PICK a : IsParts(a, m, parts)
  BY <1>4, AddPartsIs
<1>5. /\ a[0] = <<>> /\ AddParts(m, parts) = a[n]
      /\ \A k \in 1 .. n : a[k] = AddPart(m, a[k - 1], parts[k])
  BY <1>p, <1>4 DEF IsParts
<1> DEFINE All(k) == UNION {S(j) : j \in 1 .. k}
           P(k) == Numbered(a[k]) /\ Shapes(a[k]) = All(k)
           T == {k \in Nat : k <= n => P(k)}
<1>6. 0 \in T
  <2>1. All(0) = {}
    OBVIOUS
  <2> QED BY <1>5, <2>1, NumberedEmpty
<1>7. ASSUME NEW k \in Nat, k \in T PROVE k + 1 \in T
  <2> SUFFICES ASSUME k + 1 <= n PROVE P(k + 1)
    OBVIOUS
  <2> DEFINE L == a[k]
             M == a[k + 1]
             head == parts[k + 1].head
             q == parts[k + 1].query
  <2>1. Numbered(L) /\ Shapes(L) = All(k) /\ k + 1 \in 1 .. n /\ (k + 1) - 1 = k
    BY <1>2, <1>7
  <2>2. M = AddPart(m, L, parts[k + 1]) /\ parts[k + 1].does = "attend"
    BY <1>3, <1>5, <2>1
  <2>3. All(k + 1) = All(k) \cup S(k + 1)
    <3>1. \A i : i \in 1 .. k + 1 <=> i \in 1 .. k \/ i = k + 1
      OBVIOUS
    <3> QED BY <3>1
  <2> HIDE DEF L, M, All
  <2>4. M = AddQuery(m, L, head, q)
    BY <2>2 DEF AddPart
  <2>5. S(k + 1) = QueryScored(Legal(m, q), head, q) \cup QueryWeighed(Legal(m, q), head, q)
    BY <1>s DEF QueryShapes
  <2> HIDE DEF head, q
  <2>6. Grows(L, M, S(k + 1))
    BY <2>1, <2>4, <2>5, AddQueryGrows
  <2> QED BY <2>1, <2>3, <2>6 DEF Grows, M
<1>8. n \in T
  <2> HIDE DEF T
  <2>1. \A k \in Nat : k \in T => k + 1 \in T
    BY <1>7
  <2> QED BY <1>2, <1>6, <2>1, InductionSet
<1>9. P(n)
  BY <1>2, <1>8
<1>10. Numbered(PrefillAttention(m)) /\ Shapes(PrefillAttention(m)) = UNION {S(k) : k \in 1 .. n}
  BY <1>5, <1>9, <1>d
<1> QED BY <1>2, <1>4, <1>10, <1>q DEF S, parts, queries

(***************************************************************************)
(* Nothing that is made is left unused. What a block's records make, a     *)
(* record of the block takes whose inputs no connection replaces, but for  *)
(* the operations that make the block's results.                           *)
(***************************************************************************)
TakenIn(S, mode, t)     == \E u \in S : ~IsRewired(mode, u[1]) /\ t \in u[2]
SpentIn(S, mode, ends)  == \A s \in S : s[1] \notin ends => \A t \in s[3] : TakenIn(S, mode, t)
Reduction               == "attention_context_reduction_accounting"
AttentionEnds           == {"AttentionContext", Reduction}

(* A reduction takes what the records it depends on make, and only the     *)
(* residencies of Q make a tensor of Q.                                    *)
Combines(S, mode) ==
  /\ SpentIn(S, mode, AttentionEnds)
  /\ \A s \in S : s[1] = Reduction => s[4] \subseteq s[2]
  /\ \A s \in S : s[1] # "q_operand_residency" => \A t \in s[3] : t.name # "Q"

LEMMA UnionCombines ==
  ASSUME NEW X, NEW mode, \A S \in X : Combines(S, mode)
  PROVE  Combines(UNION X, mode)
<1>1. ASSUME NEW s \in UNION X, s[1] \notin AttentionEnds, NEW t \in s[3] PROVE TakenIn(UNION X, mode, t)
  <2>1. PICK S \in X : s \in S
    OBVIOUS
  <2>2. TakenIn(S, mode, t)
    BY <1>1, <2>1 DEF Combines, SpentIn
  <2> QED BY <2>1, <2>2 DEF TakenIn
<1>2. \A s \in UNION X : s[1] = Reduction => s[4] \subseteq s[2]
  BY DEF Combines
<1>3. \A s \in UNION X : s[1] # "q_operand_residency" => \A t \in s[3] : t.name # "Q"
  BY DEF Combines
<1> QED BY <1>1, <1>2, <1>3 DEF Combines, SpentIn

(* A head: each tile is scored and weighed.                                *)
LEMMA HeadCombines ==
  ASSUME NEW n \in Nat, n > 0, NEW head
  PROVE  LET S == ScoreShapes(n, head) \cup WeighShapes(n, head)
         IN  /\ Combines(S, "decode")
             /\ \E s \in S : s[1] = "q_operand_residency"
             /\ \E s \in S : s[1] = "AttentionScore"
<1> DEFINE S == ScoreShapes(n, head) \cup WeighShapes(n, head)
           I == 1 .. n
           T(name, i) == Tensor(name, head, i, 0)
           scores == {T("score", i) : i \in I}
           probabilities == {T("probability", i) : i \in I}
           contexts == {T("context", i) : i \in I}
           output == Tensor("context_reduced", head, 0, 0)
           Q == Tensor("Q", head, 0, 0)
           U == Visible(Q)
           K(i) == Tensor("K.tile", head, i, 0)
           V(i) == Tensor("V.tile", head, i, 0)
           KR(i) == Placed(Tensor("K.tile", head, i, 0), "resident")
           VR(i) == Placed(Tensor("V.tile", head, i, 0), "resident")
           PR(i) == Visible(T("probability", i))
           first == <<"q_operand_residency", {Q}, {U}, {}>>
           read(i) == <<"kv_cache_k_tile_read", {K(i)}, {KR(i)}, {}>>
           score(i) == <<"AttentionScore", {U, KR(i)}, {T("score", i)}, {U, KR(i)}>>
           softmax == <<"attention_softmax_accounting", scores, probabilities, scores>>
           placed(i) == <<"attention_probability_residency", {T("probability", i)}, {PR(i)}, probabilities>>
           value(i) == <<"kv_cache_v_tile_read", {V(i)}, {VR(i)}, probabilities>>
           context(i) == <<"AttentionContext", {PR(i), VR(i)}, {T("context", i)}, {PR(i), VR(i)} \cup probabilities>>
           reduction == <<Reduction, contexts, {output}, contexts>>
           Each(i) == {read(i), score(i), placed(i), value(i), context(i)}
<1>1. \A s : s \in S <=> \/ s = first \/ s = softmax
                          \/ (s = reduction /\ Cardinality(contexts) > 1)
                          \/ \E i \in I : s \in Each(i)
  <2>1. ScoreShapes(n, head) = {first} \cup UNION {{read(i), score(i)} : i \in I}
    BY DEF ScoreShapes, TileScored
  <2>2. /\ scores = PerTile(n, "score", head) /\ probabilities = PerTile(n, "probability", head)
        /\ contexts = PerTile(n, "context", head)
    BY DEF PerTile
  <2>3. WeighShapes(n, head) = {softmax} \cup (UNION {{placed(i), value(i), context(i)} : i \in I})
                      \cup {s \in {reduction} : Cardinality(contexts) > 1}
    BY <2>2 DEF WeighShapes, TileWeighed, ReductionShapes, Reduction
  <2> HIDE DEF I, first, softmax, reduction, read, score, placed, value, context, contexts
  <2> QED BY <2>1, <2>3
<1>n. /\ \A i : /\ T("score", i).name # "Q" /\ T("probability", i).name # "Q" /\ T("context", i).name # "Q"
                /\ KR(i).name # "Q" /\ VR(i).name # "Q" /\ PR(i).name # "Q"
      /\ output.name # "Q"
  BY TensorShape DEF OfShape
<1>i. PICK one : one \in I
  OBVIOUS
<1> HIDE DEF S, I, T, output, Q, U, K, V, KR, VR, PR
<1>m. /\ \A i \in I : T("score", i) \in scores
      /\ \A t \in scores : \E i \in I : t = T("score", i)
      /\ \A t \in probabilities : \E i \in I : t = T("probability", i)
  OBVIOUS
<1> HIDE DEF scores, probabilities, contexts
<1>2. /\ first[1] = "q_operand_residency" /\ first[3] = {U}
      /\ softmax[1] = "attention_softmax_accounting" /\ softmax[2] = scores /\ softmax[3] = probabilities
      /\ reduction[1] = Reduction /\ reduction[2] = contexts /\ reduction[3] = {output} /\ reduction[4] = contexts
  OBVIOUS
<1>3. \A i : /\ read(i)[1] = "kv_cache_k_tile_read" /\ read(i)[3] = {KR(i)}
             /\ score(i)[1] = "AttentionScore" /\ score(i)[2] = {U, KR(i)} /\ score(i)[3] = {T("score", i)}
             /\ placed(i)[1] = "attention_probability_residency" /\ placed(i)[2] = {T("probability", i)}
             /\ placed(i)[3] = {PR(i)}
             /\ value(i)[1] = "kv_cache_v_tile_read" /\ value(i)[3] = {VR(i)}
             /\ context(i)[1] = "AttentionContext" /\ context(i)[2] = {PR(i), VR(i)}
             /\ context(i)[3] = {T("context", i)}
  OBVIOUS
<1> HIDE DEF first, softmax, reduction, read, score, placed, value, context
<1>4. /\ first \in S /\ softmax \in S
      /\ \A i \in I : read(i) \in S /\ score(i) \in S /\ placed(i) \in S /\ value(i) \in S /\ context(i) \in S
  BY <1>1
<1>5. ASSUME NEW s \in S
      PROVE  \/ s = first \/ s = softmax \/ s = reduction
             \/ \E i \in I : s = read(i) \/ s = score(i) \/ s = placed(i) \/ s = value(i) \/ s = context(i)
  BY <1>1
<1>6. /\ ~IsRewired("decode", "AttentionScore") /\ ~IsRewired("decode", "attention_softmax_accounting")
      /\ ~IsRewired("decode", "attention_probability_residency") /\ ~IsRewired("decode", "AttentionContext")
  BY DEF IsRewired
<1>7. \A i \in I : /\ TakenIn(S, "decode", U) /\ TakenIn(S, "decode", KR(i)) /\ TakenIn(S, "decode", T("score", i))
                   /\ TakenIn(S, "decode", T("probability", i)) /\ TakenIn(S, "decode", PR(i))
                   /\ TakenIn(S, "decode", VR(i))
  <2> SUFFICES ASSUME NEW i \in I
               PROVE  /\ TakenIn(S, "decode", U) /\ TakenIn(S, "decode", KR(i)) /\ TakenIn(S, "decode", T("score", i))
                      /\ TakenIn(S, "decode", T("probability", i)) /\ TakenIn(S, "decode", PR(i))
                      /\ TakenIn(S, "decode", VR(i))
    OBVIOUS
  <2>1. TakenIn(S, "decode", U) /\ TakenIn(S, "decode", KR(i))
    BY <1>3, <1>4, <1>6 DEF TakenIn
  <2>2. TakenIn(S, "decode", T("score", i))
    BY <1>2, <1>4, <1>6, <1>m DEF TakenIn
  <2>3. TakenIn(S, "decode", T("probability", i))
    BY <1>3, <1>4, <1>6 DEF TakenIn
  <2>4. TakenIn(S, "decode", PR(i)) /\ TakenIn(S, "decode", VR(i))
    BY <1>3, <1>4, <1>6 DEF TakenIn
  <2> QED BY <2>1, <2>2, <2>3, <2>4
<1>8. SpentIn(S, "decode", AttentionEnds)
  <2> SUFFICES ASSUME NEW s \in S, s[1] \notin AttentionEnds, NEW t \in s[3] PROVE TakenIn(S, "decode", t)
    BY DEF SpentIn
  <2>1. CASE s = first
    BY <2>1, <1>2, <1>7, <1>i
  <2>2. CASE s = softmax
    BY <2>2, <1>2, <1>7, <1>m
  <2>3. CASE s = reduction
    BY <2>3, <1>2 DEF AttentionEnds
  <2>4. ASSUME NEW i \in I, s = read(i) \/ s = score(i) \/ s = placed(i) \/ s = value(i) PROVE TakenIn(S, "decode", t)
    BY <2>4, <1>3, <1>7
  <2>5. ASSUME NEW i \in I, s = context(i) PROVE FALSE
    BY <2>5, <1>3 DEF AttentionEnds
  <2> QED BY <1>5, <2>1, <2>2, <2>3, <2>4, <2>5
<1>9. ASSUME NEW s \in S, s[1] = Reduction PROVE s[4] \subseteq s[2]
  <2>1. s = reduction
    BY <1>2, <1>3, <1>5, <1>9 DEF Reduction
  <2> QED BY <2>1, <1>2
<1>10. ASSUME NEW s \in S, s[1] # "q_operand_residency", NEW t \in s[3] PROVE t.name # "Q"
  <2>1. CASE s = first
    BY <2>1, <1>2, <1>10
  <2>2. CASE s = softmax
    BY <2>2, <1>2, <1>m, <1>n
  <2>3. CASE s = reduction
    BY <2>3, <1>2, <1>n
  <2>4. ASSUME NEW i \in I, s = read(i) \/ s = score(i) \/ s = placed(i) \/ s = value(i) \/ s = context(i)
        PROVE  t.name # "Q"
    BY <2>4, <1>3, <1>n
  <2> QED BY <1>5, <2>1, <2>2, <2>3, <2>4
<1>11. Combines(S, "decode")
  BY <1>8, <1>9, <1>10 DEF Combines
<1>12. (\E s \in S : s[1] = "q_operand_residency") /\ \E s \in S : s[1] = "AttentionScore"
  BY <1>2, <1>3, <1>4, <1>i
<1> QED BY <1>11, <1>12 DEF S

(* A query: each tile of keys that it sees is scored and weighed.          *)
LEMMA QueryCombines ==
  ASSUME NEW keys, keys # {}, NEW head, NEW q
  PROVE  LET S == QueryScored(keys, head, q) \cup QueryWeighed(keys, head, q)
         IN  /\ Combines(S, "prefill")
             /\ \E s \in S : s[1] = "q_operand_residency"
             /\ \E s \in S : s[1] = "AttentionScore"
<1> DEFINE S == QueryScored(keys, head, q) \cup QueryWeighed(keys, head, q)
           I == keys
           T(name, i) == Tensor(name, head, q, i)
           scores == {T("score", i) : i \in I}
           probabilities == {T("probability", i) : i \in I}
           contexts == {T("context", i) : i \in I}
           output == Tensor("context_reduced", head, q, 0)
           Q == Tensor("Q", head, q, 0)
           U == Visible(Q)
           K(i) == Tensor("K", head, i, 0)
           V(i) == Tensor("V", head, i, 0)
           KR(i) == Visible(Tensor("K", head, i, 0))
           VR(i) == Visible(Tensor("V", head, i, 0))
           PR(i) == Visible(T("probability", i))
           first == <<"q_operand_residency", {Q}, {U}, {}>>
           read(i) == <<"k_prefill_tile_residency", {K(i)}, {KR(i)}, {}>>
           score(i) == <<"AttentionScore", {U, KR(i)}, {T("score", i)}, {U, KR(i)}>>
           softmax == <<"attention_softmax_accounting", scores, probabilities, scores>>
           placed(i) == <<"attention_probability_residency", {T("probability", i)}, {PR(i)}, probabilities>>
           value(i) == <<"v_prefill_tile_residency", {V(i)}, {VR(i)}, {}>>
           context(i) == <<"AttentionContext", {PR(i), VR(i)}, {T("context", i)}, {PR(i), VR(i)} \cup probabilities>>
           reduction == <<Reduction, contexts, {output}, contexts>>
           Each(i) == {read(i), score(i), placed(i), value(i), context(i)}
<1>1. \A s : s \in S <=> \/ s = first \/ s = softmax
                          \/ (s = reduction /\ Cardinality(contexts) > 1)
                          \/ \E i \in I : s \in Each(i)
  <2>1. QueryScored(keys, head, q) = {first} \cup UNION {{read(i), score(i)} : i \in I}
    BY DEF QueryScored, KeyTileScored
  <2>2. /\ scores = PerKeyTile(keys, "score", head, q) /\ probabilities = PerKeyTile(keys, "probability", head, q)
        /\ contexts = PerKeyTile(keys, "context", head, q)
    BY DEF PerKeyTile
  <2>3. QueryWeighed(keys, head, q) = {softmax} \cup (UNION {{placed(i), value(i), context(i)} : i \in I})
                      \cup {s \in {reduction} : Cardinality(contexts) > 1}
    BY <2>2 DEF QueryWeighed, KeyTileWeighed, ReductionShapes, Reduction
  <2> HIDE DEF I, first, softmax, reduction, read, score, placed, value, context, contexts
  <2> QED BY <2>1, <2>3
<1>n. /\ \A i : /\ T("score", i).name # "Q" /\ T("probability", i).name # "Q" /\ T("context", i).name # "Q"
                /\ KR(i).name # "Q" /\ VR(i).name # "Q" /\ PR(i).name # "Q"
      /\ output.name # "Q"
  BY TensorShape DEF OfShape
<1>i. PICK one : one \in I
  OBVIOUS
<1> HIDE DEF S, I, T, output, Q, U, K, V, KR, VR, PR
<1>m. /\ \A i \in I : T("score", i) \in scores
      /\ \A t \in scores : \E i \in I : t = T("score", i)
      /\ \A t \in probabilities : \E i \in I : t = T("probability", i)
  OBVIOUS
<1> HIDE DEF scores, probabilities, contexts
<1>2. /\ first[1] = "q_operand_residency" /\ first[3] = {U}
      /\ softmax[1] = "attention_softmax_accounting" /\ softmax[2] = scores /\ softmax[3] = probabilities
      /\ reduction[1] = Reduction /\ reduction[2] = contexts /\ reduction[3] = {output} /\ reduction[4] = contexts
  OBVIOUS
<1>3. \A i : /\ read(i)[1] = "k_prefill_tile_residency" /\ read(i)[3] = {KR(i)}
             /\ score(i)[1] = "AttentionScore" /\ score(i)[2] = {U, KR(i)} /\ score(i)[3] = {T("score", i)}
             /\ placed(i)[1] = "attention_probability_residency" /\ placed(i)[2] = {T("probability", i)}
             /\ placed(i)[3] = {PR(i)}
             /\ value(i)[1] = "v_prefill_tile_residency" /\ value(i)[3] = {VR(i)}
             /\ context(i)[1] = "AttentionContext" /\ context(i)[2] = {PR(i), VR(i)}
             /\ context(i)[3] = {T("context", i)}
  OBVIOUS
<1> HIDE DEF first, softmax, reduction, read, score, placed, value, context
<1>4. /\ first \in S /\ softmax \in S
      /\ \A i \in I : read(i) \in S /\ score(i) \in S /\ placed(i) \in S /\ value(i) \in S /\ context(i) \in S
  BY <1>1
<1>5. ASSUME NEW s \in S
      PROVE  \/ s = first \/ s = softmax \/ s = reduction
             \/ \E i \in I : s = read(i) \/ s = score(i) \/ s = placed(i) \/ s = value(i) \/ s = context(i)
  BY <1>1
<1>6. /\ ~IsRewired("prefill", "AttentionScore") /\ ~IsRewired("prefill", "attention_softmax_accounting")
      /\ ~IsRewired("prefill", "attention_probability_residency") /\ ~IsRewired("prefill", "AttentionContext")
  BY DEF IsRewired
<1>7. \A i \in I : /\ TakenIn(S, "prefill", U) /\ TakenIn(S, "prefill", KR(i)) /\ TakenIn(S, "prefill", T("score", i))
                   /\ TakenIn(S, "prefill", T("probability", i)) /\ TakenIn(S, "prefill", PR(i))
                   /\ TakenIn(S, "prefill", VR(i))
  <2> SUFFICES ASSUME NEW i \in I
               PROVE  /\ TakenIn(S, "prefill", U) /\ TakenIn(S, "prefill", KR(i)) /\ TakenIn(S, "prefill", T("score", i))
                      /\ TakenIn(S, "prefill", T("probability", i)) /\ TakenIn(S, "prefill", PR(i))
                      /\ TakenIn(S, "prefill", VR(i))
    OBVIOUS
  <2>1. TakenIn(S, "prefill", U) /\ TakenIn(S, "prefill", KR(i))
    BY <1>3, <1>4, <1>6 DEF TakenIn
  <2>2. TakenIn(S, "prefill", T("score", i))
    BY <1>2, <1>4, <1>6, <1>m DEF TakenIn
  <2>3. TakenIn(S, "prefill", T("probability", i))
    BY <1>3, <1>4, <1>6 DEF TakenIn
  <2>4. TakenIn(S, "prefill", PR(i)) /\ TakenIn(S, "prefill", VR(i))
    BY <1>3, <1>4, <1>6 DEF TakenIn
  <2> QED BY <2>1, <2>2, <2>3, <2>4
<1>8. SpentIn(S, "prefill", AttentionEnds)
  <2> SUFFICES ASSUME NEW s \in S, s[1] \notin AttentionEnds, NEW t \in s[3] PROVE TakenIn(S, "prefill", t)
    BY DEF SpentIn
  <2>1. CASE s = first
    BY <2>1, <1>2, <1>7, <1>i
  <2>2. CASE s = softmax
    BY <2>2, <1>2, <1>7, <1>m
  <2>3. CASE s = reduction
    BY <2>3, <1>2 DEF AttentionEnds
  <2>4. ASSUME NEW i \in I, s = read(i) \/ s = score(i) \/ s = placed(i) \/ s = value(i) PROVE TakenIn(S, "prefill", t)
    BY <2>4, <1>3, <1>7
  <2>5. ASSUME NEW i \in I, s = context(i) PROVE FALSE
    BY <2>5, <1>3 DEF AttentionEnds
  <2> QED BY <1>5, <2>1, <2>2, <2>3, <2>4, <2>5
<1>9. ASSUME NEW s \in S, s[1] = Reduction PROVE s[4] \subseteq s[2]
  <2>1. s = reduction
    BY <1>2, <1>3, <1>5, <1>9 DEF Reduction
  <2> QED BY <2>1, <1>2
<1>10. ASSUME NEW s \in S, s[1] # "q_operand_residency", NEW t \in s[3] PROVE t.name # "Q"
  <2>1. CASE s = first
    BY <2>1, <1>2, <1>10
  <2>2. CASE s = softmax
    BY <2>2, <1>2, <1>m, <1>n
  <2>3. CASE s = reduction
    BY <2>3, <1>2, <1>n
  <2>4. ASSUME NEW i \in I, s = read(i) \/ s = score(i) \/ s = placed(i) \/ s = value(i) \/ s = context(i)
        PROVE  t.name # "Q"
    BY <2>4, <1>3, <1>n
  <2> QED BY <1>5, <2>1, <2>2, <2>3, <2>4
<1>11. Combines(S, "prefill")
  BY <1>8, <1>9, <1>10 DEF Combines
<1>12. (\E s \in S : s[1] = "q_operand_residency") /\ \E s \in S : s[1] = "AttentionScore"
  BY <1>2, <1>3, <1>4, <1>i
<1> QED BY <1>11, <1>12 DEF S

(* There is a tile of what there is something of.                          *)
LEMMA TilesThere ==
  ASSUME NEW total \in Nat \ {0}, NEW tile \in Nat \ {0}
  PROVE  /\ IsList(TileRanges(total, tile))
         /\ Len(TileRanges(total, tile)) \in Nat /\ Len(TileRanges(total, tile)) > 0
<1> DEFINE n == Len(TileRanges(total, tile))
           y == total + tile - 1
<1>1. IsList(TileRanges(total, tile))
  BY TilesAreList
<1>2. DOMAIN TileRanges(total, tile) = 1 .. y \div tile
  BY DEF TileRanges
<1>3. DOMAIN TileRanges(total, tile) = 1 .. n /\ n \in Nat
  BY <1>1, ListIs
<1>4. y \in Nat /\ y >= tile
  OBVIOUS
<1> HIDE DEF n, y
<1>5. y \div tile \in Nat /\ y = tile * (y \div tile) + (y % tile) /\ y % tile \in 0 .. tile - 1
  BY <1>4
<1>6. y \div tile >= 1
  BY <1>4, <1>5
<1>7. 1 \in 1 .. n
  BY <1>2, <1>3, <1>5, <1>6
<1> QED BY <1>1, <1>3, <1>7 DEF n

LEMMA DecodeCombines ==
  ASSUME NEW m, m.num_heads \in Nat, m.num_heads > 0, IsList(CacheTiles(m)), Len(CacheTiles(m)) > 0
  PROVE  LET S == Shapes(DecodeAttention(m))
         IN  /\ Combines(S, "decode")
             /\ \E s \in S : s[1] = "q_operand_residency"
             /\ \E s \in S : s[1] = "AttentionScore"
<1> DEFINE S == Shapes(DecodeAttention(m))
           n == Len(CacheTiles(m))
           OfHead(h) == ScoreShapes(n, h) \cup WeighShapes(n, h)
           X == {OfHead(h) : h \in 0 .. m.num_heads - 1}
<1>1. S = UNION X
  BY DecodeShapes
<1>2. n \in Nat /\ n > 0
  BY ListIs
<1>3. \A h : /\ Combines(OfHead(h), "decode")
             /\ \E s \in OfHead(h) : s[1] = "q_operand_residency"
             /\ \E s \in OfHead(h) : s[1] = "AttentionScore"
  BY <1>2, HeadCombines
<1>4. 0 \in 0 .. m.num_heads - 1
  OBVIOUS
<1>5. OfHead(0) \in X /\ \A T \in X : \E h : T = OfHead(h)
  BY <1>4
<1> HIDE DEF S, X, OfHead
<1>6. Combines(UNION X, "decode")
  BY <1>3, <1>5, UnionCombines
<1>7. OfHead(0) \subseteq S
  BY <1>1, <1>5
<1> QED BY <1>1, <1>3, <1>6, <1>7 DEF S

LEMMA PrefillCombines ==
  ASSUME NEW m, m.num_heads \in Nat, m.num_heads > 0,
         {m.seq_len, m.score_tile_tokens, m.context_tile_tokens} \subseteq Nat \ {0}
  PROVE  LET S == Shapes(PrefillAttention(m))
         IN  /\ Combines(S, "prefill") /\ Numbered(PrefillAttention(m))
             /\ \E s \in S : s[1] = "q_operand_residency"
             /\ \E s \in S : s[1] = "AttentionScore"
<1> DEFINE S == Shapes(PrefillAttention(m))
           parts == PrefillParts(m)
           n == Len(parts)
           Of(k) == QueryShapes(m, parts[k])
           X == {Of(k) : k \in 1 .. n}
<1>0. IsList(QueryTiles(m)) /\ IsList(KeyTiles(m))
  <2>1. m.seq_len \in Nat /\ m.score_tile_tokens \in Nat \ {0} /\ m.context_tile_tokens \in Nat \ {0}
    OBVIOUS
  <2> QED BY <2>1, TilesAreList DEF QueryTiles, KeyTiles
<1>1. S = UNION X /\ Numbered(PrefillAttention(m)) /\ \A k \in 1 .. n : parts[k].query \in 1 .. Len(QueryTiles(m))
  BY <1>0, PrefillShapes
<1>2. \A k \in 1 .. n : /\ Combines(Of(k), "prefill")
                        /\ \E s \in Of(k) : s[1] = "q_operand_residency"
                        /\ \E s \in Of(k) : s[1] = "AttentionScore"
  <2> SUFFICES ASSUME NEW k \in 1 .. n
               PROVE  /\ Combines(Of(k), "prefill")
                      /\ \E s \in Of(k) : s[1] = "q_operand_residency"
                      /\ \E s \in Of(k) : s[1] = "AttentionScore"
    OBVIOUS
  <2> DEFINE q == parts[k].query
             head == parts[k].head
             keys == Legal(m, q)
             scored == QueryScored(keys, head, q)
             weighed == QueryWeighed(keys, head, q)
  <2>1. keys # {}
    <3>1. q \in 1 .. Len(QueryTiles(m))
      BY <1>1
    <3> HIDE DEF q
    <3> QED BY <3>1, FirstTileSeen
  <2>2. Of(k) = scored \cup weighed
    BY DEF QueryShapes
  <2> HIDE DEF Of, keys, q, head
  <2>3. /\ Combines(scored \cup weighed, "prefill")
        /\ \E s \in scored \cup weighed : s[1] = "q_operand_residency"
        /\ \E s \in scored \cup weighed : s[1] = "AttentionScore"
    BY <2>1, QueryCombines
  <2> HIDE DEF scored, weighed
  <2> QED BY <2>2, <2>3
<1>3. n > 0
  <2> DEFINE queries == Len(QueryTiles(m))
             k == m.num_heads * queries
  <2>1. parts = [i \in 1 .. k |-> Part("attend", (i - 1) \div queries, ((i - 1) % queries) + 1)]
    BY DEF PrefillParts
  <2>2. queries \in Nat /\ queries > 0
    <3>1. m.seq_len \in Nat \ {0} /\ m.score_tile_tokens \in Nat \ {0}
      OBVIOUS
    <3> QED BY <3>1, TilesThere DEF QueryTiles
  <2> HIDE DEF queries
  <2>3. k \in Nat /\ k > 0
    <3>1. \A u, v \in Nat : u > 0 /\ v > 0 => u * v \in Nat /\ u * v > 0
      OBVIOUS
    <3> QED BY <2>2, <3>1
  <2> HIDE DEF k
  <2>4. IsList(parts) /\ Len(parts) = k
    <3>1. parts = [i \in 1 .. k |-> parts[i]]
      BY <2>1
    <3> HIDE DEF parts
    <3> QED BY <2>3, <3>1, ListOfFunction
  <2> QED BY <2>3, <2>4
<1>4. n \in Nat
  <2>1. IsList(parts) \/ n \in Nat
    <3> DEFINE k == m.num_heads * Len(QueryTiles(m))
    <3>1. k \in Nat
      BY <1>0, ListIs
    <3>2. parts = [i \in 1 .. k |-> parts[i]]
      BY DEF PrefillParts
    <3> HIDE DEF parts, k
    <3> QED BY <3>1, <3>2, ListOfFunction
  <2> QED BY <2>1, ListIs
<1>5. 1 \in 1 .. n
  BY <1>3, <1>4
<1>6. Of(1) \in X /\ \A T \in X : \E k \in 1 .. n : T = Of(k)
  BY <1>5
<1> HIDE DEF S, X, Of, n
<1>7. Combines(UNION X, "prefill")
  BY <1>2, <1>6, UnionCombines
<1>8. Of(1) \subseteq S
  BY <1>1, <1>6
<1> QED BY <1>1, <1>2, <1>5, <1>7, <1>8 DEF S

(* The same, said of the records of a block.                               *)
Spent(L, mode, ends) ==
  \A i \in 1 .. Len(L) :
    L[i].op \notin ends =>
      \A t \in L[i].outputs : \E k \in 1 .. Len(L) : ~IsRewired(mode, L[k].op) /\ t \in L[k].inputs

LEMMA ShapesSpent ==
  ASSUME NEW L, Numbered(L), NEW mode, NEW ends, SpentIn(Shapes(L), mode, ends)
  PROVE  Spent(L, mode, ends)
<1> SUFFICES ASSUME NEW i \in 1 .. Len(L), L[i].op \notin ends, NEW t \in L[i].outputs
             PROVE  \E k \in 1 .. Len(L) : ~IsRewired(mode, L[k].op) /\ t \in L[k].inputs
  BY DEF Spent
<1>1. ShapeIn(<<>>, L, i) \in Shapes(L)
  BY ShapesAre
<1>2. \A k : /\ ShapeIn(<<>>, L, k)[1] = L[k].op /\ ShapeIn(<<>>, L, k)[2] = L[k].inputs
             /\ ShapeIn(<<>>, L, k)[3] = L[k].outputs
  BY DEF ShapeIn
<1>3. TakenIn(Shapes(L), mode, t)
  BY <1>1, <1>2 DEF SpentIn
<1>4. PICK u \in Shapes(L) : ~IsRewired(mode, u[1]) /\ t \in u[2]
  BY <1>3 DEF TakenIn
<1>5. PICK k \in 1 .. Len(L) : u = ShapeIn(<<>>, L, k)
  BY <1>4, ShapesAre
<1> QED BY <1>2, <1>4, <1>5

AttentionSpent(L, mode) ==
  /\ Spent(L, mode, AttentionEnds)
  /\ \A j \in 1 .. Len(L) : L[j].op = Reduction => \A d \in L[j].logical_dependencies : L[d + 1].outputs \subseteq L[j].inputs
  /\ \A i \in 1 .. Len(L) : L[i].op # "q_operand_residency" => \A t \in L[i].outputs : t.name # "Q"
  /\ \A i \in 1 .. Len(L) : L[i].op \in {"AttentionScore", "AttentionContext"} => L[i].kind = L[i].op
  /\ \E i \in 1 .. Len(L) : L[i].op = "q_operand_residency"
  /\ \E i \in 1 .. Len(L) : L[i].op = "AttentionScore"

LEMMA AttentionIsSpent ==
  ASSUME NEW L, Numbered(L), NEW mode, Combines(Shapes(L), mode),
         \E s \in Shapes(L) : s[1] = "q_operand_residency", \E s \in Shapes(L) : s[1] = "AttentionScore"
  PROVE  AttentionSpent(L, mode)
<1>1. Spent(L, mode, AttentionEnds)
  BY ShapesSpent DEF Combines
<1>2. /\ Len(L) \in Nat
      /\ \A i \in 1 .. Len(L) : L[i].logical_dependencies \subseteq 0 .. i - 2 /\ Pure(L[i])
      /\ \A d : At(<<>>, L, d) = IF d < 0 THEN <<>>[d + 1] ELSE L[d - 0 + 1]
  BY NumberedIds
<1>3. \A i \in 1 .. Len(L) : ShapeIn(<<>>, L, i) \in Shapes(L)
  BY ShapesAre
<1>4. \A k : /\ ShapeIn(<<>>, L, k)[1] = L[k].op /\ ShapeIn(<<>>, L, k)[2] = L[k].inputs
             /\ ShapeIn(<<>>, L, k)[3] = L[k].outputs
             /\ ShapeIn(<<>>, L, k)[4] = Outputs(<<>>, L, L[k].logical_dependencies)
  BY DEF ShapeIn
<1>5. ASSUME NEW j \in 1 .. Len(L), L[j].op = Reduction, NEW d \in L[j].logical_dependencies
      PROVE  L[d + 1].outputs \subseteq L[j].inputs
  <2>1. Outputs(<<>>, L, L[j].logical_dependencies) \subseteq L[j].inputs
    BY <1>3, <1>4, <1>5 DEF Combines
  <2>2. d \in 0 .. j - 2
    BY <1>2
  <2>3. ~(d < 0) /\ d - 0 + 1 = d + 1
    BY <2>2
  <2>4. At(<<>>, L, d) = L[d + 1]
    BY <1>2, <2>3
  <2>5. At(<<>>, L, d).outputs \subseteq Outputs(<<>>, L, L[j].logical_dependencies)
    BY DEF Outputs
  <2> QED BY <2>1, <2>4, <2>5
<1>6. \A i \in 1 .. Len(L) : L[i].op # "q_operand_residency" => \A t \in L[i].outputs : t.name # "Q"
  BY <1>3, <1>4 DEF Combines
<1>7. \A i \in 1 .. Len(L) : L[i].op \in {"AttentionScore", "AttentionContext"} => L[i].kind = L[i].op
  BY <1>2 DEF Pure
<1>8. \A s \in Shapes(L) : \E i \in 1 .. Len(L) : L[i].op = s[1]
  BY <1>4, ShapesAre
<1>9. (\E i \in 1 .. Len(L) : L[i].op = "q_operand_residency") /\ \E i \in 1 .. Len(L) : L[i].op = "AttentionScore"
  BY <1>8
<1> QED BY <1>1, <1>5, <1>6, <1>7, <1>9 DEF AttentionSpent

(* A block C, connected from the moved block G: what no connection         *)
(* replaces takes what it took.                                            *)
Used(C, t) == \E k \in 1 .. Len(C) : t \in C[k].inputs
Keeps(C, G, mode) ==
  /\ IsList(C) /\ Len(C) = Len(G)
  /\ \A j \in 1 .. Len(G) :
       /\ C[j].op = G[j].op /\ C[j].outputs = G[j].outputs
       /\ ~IsRewired(mode, G[j].op) => C[j].inputs = G[j].inputs

LEMMA LiftedFields ==
  ASSUME NEW L, NEW G, NEW n, NEW l, IsLift(G, L, n, l), NEW j \in 1 .. Len(L)
  PROVE  /\ G[j].op = L[j].op /\ G[j].kind = L[j].kind /\ G[j].record_id = n + j - 1
         /\ G[j].inputs = {Moved(l, t) : t \in L[j].inputs}
         /\ G[j].outputs = {Moved(l, t) : t \in L[j].outputs}
         /\ G[j].logical_dependencies = {n + d : d \in L[j].logical_dependencies}
<1>1. LiftOf(G[j], L[j], n + j - 1, n, l)
  BY DEF IsLift
<1> QED BY <1>1 DEF LiftOf, Shape

LEMMA LiftedSpent ==
  ASSUME NEW L, NEW mode, NEW G, NEW n, NEW l, IsLift(G, L, n, l), NEW ends, Spent(L, mode, ends),
         NEW C, Keeps(C, G, mode), NEW j \in 1 .. Len(C), C[j].op \notin ends, NEW t \in C[j].outputs
  PROVE  Used(C, t)
<1>1. Len(C) = Len(L) /\ Len(G) = Len(L)
  BY DEF Keeps, IsLift
<1>2. /\ \A i \in 1 .. Len(L) : /\ G[i].op = L[i].op /\ G[i].inputs = {Moved(l, u) : u \in L[i].inputs}
                                /\ G[i].outputs = {Moved(l, u) : u \in L[i].outputs}
  BY LiftedFields
<1>3. j \in 1 .. Len(L) /\ L[j].op \notin ends /\ t \in G[j].outputs
  BY <1>1, <1>2 DEF Keeps
<1>4. PICK u \in L[j].outputs : t = Moved(l, u)
  BY <1>2, <1>3
<1>5. PICK k \in 1 .. Len(L) : ~IsRewired(mode, L[k].op) /\ u \in L[k].inputs
  BY <1>3, <1>4 DEF Spent
<1>6. t \in G[k].inputs
  BY <1>2, <1>4, <1>5
<1>7. C[k].inputs = G[k].inputs
  BY <1>1, <1>2, <1>5 DEF Keeps
<1> QED BY <1>1, <1>6, <1>7 DEF Used

(* A moved reduction takes what the moved records it depends on make.      *)
LEMMA LiftedReduction ==
  ASSUME NEW L, Numbered(L), NEW mode, AttentionSpent(L, mode), NEW G, NEW n \in Nat, NEW l, IsLift(G, L, n, l),
         NEW j \in 1 .. Len(L), L[j].op = Reduction,
         NEW i \in 1 .. Len(L), n + i - 1 \in G[j].logical_dependencies
  PROVE  G[i].outputs \subseteq G[j].inputs
<1>1. \A k \in 1 .. Len(L) : /\ G[k].inputs = {Moved(l, u) : u \in L[k].inputs}
                             /\ G[k].outputs = {Moved(l, u) : u \in L[k].outputs}
                             /\ G[k].logical_dependencies = {n + d : d \in L[k].logical_dependencies}
  BY LiftedFields
<1>2. PICK d \in L[j].logical_dependencies : n + i - 1 = n + d
  BY <1>1
<1>3. L[j].logical_dependencies \subseteq 0 .. j - 2 /\ Len(L) \in Nat
  BY NumberedIds
<1>4. d + 1 = i
  BY <1>2, <1>3
<1>5. L[i].outputs \subseteq L[j].inputs
  BY <1>2, <1>4 DEF AttentionSpent
<1> QED BY <1>1, <1>5

(* What ends attention goes to a reduction, or to the output projection.   *)
Contexts(C) == UNION {r.outputs : r \in Terminals(C)}
Reduces(C) ==
  /\ \A j \in 1 .. Len(C) : C[j].op = "AttentionContext" => C[j].kind = "AttentionContext"
  /\ \A j \in 1 .. Len(C) : C[j].op = Reduction =>
       \A i \in 1 .. Len(C) : C[i].op = "AttentionContext" /\ C[i].record_id \in C[j].logical_dependencies =>
         C[i].outputs \subseteq C[j].inputs

LEMMA EndsAreTaken ==
  ASSUME NEW C, IsList(C), Reduces(C), NEW i \in 1 .. Len(C), C[i].op \in AttentionEnds, NEW t \in C[i].outputs
  PROVE  Used(C, t) \/ t \in Contexts(C)
<1> DEFINE reductions == {r \in Range(C) : r.op = Reduction}
           reduced == UNION {r.logical_dependencies : r \in reductions}
<1>1. Terminals(C) = reductions \cup {r \in Range(C) : r.kind = "AttentionContext" /\ r.record_id \notin reduced}
  BY DEF Terminals, Reduction
<1>2. \A r : r \in Range(C) <=> \E k \in 1 .. Len(C) : C[k] = r
  BY ListIs
<1>3. CASE C[i].op = Reduction
  <2>1. C[i] \in Terminals(C)
    BY <1>1, <1>2, <1>3
  <2> QED BY <2>1 DEF Contexts
<1>4. CASE C[i].op = "AttentionContext" /\ C[i].record_id \notin reduced
  <2>1. C[i].kind = "AttentionContext" /\ C[i] \in Range(C)
    BY <1>2, <1>4 DEF Reduces
  <2>2. C[i] \in Terminals(C)
    BY <1>1, <1>4, <2>1
  <2> QED BY <2>2 DEF Contexts
<1>5. CASE C[i].op = "AttentionContext" /\ C[i].record_id \in reduced
  <2>1. PICK r \in Range(C) : r.op = Reduction /\ C[i].record_id \in r.logical_dependencies
    BY <1>5
  <2>2. PICK j \in 1 .. Len(C) : C[j] = r
    BY <1>2
  <2>3. C[i].outputs \subseteq C[j].inputs
    BY <1>5, <2>1, <2>2 DEF Reduces
  <2> QED BY <2>3 DEF Used
<1> QED BY <1>3, <1>4, <1>5 DEF AttentionEnds

(* A block that uses what was owed, and what it makes itself, but for what *)
(* it owes then and the results of the layer.                              *)
Free(moe, t) == t \in {ResultOf(moe, t.layer), Cached("K", t.layer), Cached("V", t.layer)}
Settles(moe, C, owed, then) ==
  /\ \A t \in owed : Used(C, t) \/ t \in then
  /\ \A j \in 1 .. Len(C) : \A t \in C[j].outputs : Used(C, t) \/ Free(moe, t) \/ t \in then

LEMMA PrefillSettles ==
  ASSUME NEW n \in Nat, NEW L, Numbered(L), AttentionSpent(L, "prefill"), NEW G, IsLift(G, L, n, layer)
  PROVE  LET C == ConnectPrefillAttention(G)
         IN  Settles(isMoE, C, {OfLayer("Q")}, Contexts(C))
<1> DEFINE From(r, name, id) == [r EXCEPT !.inputs = {OfLayer(name)}, !.logical_dependencies = {id}]
           C == ConnectPrefillAttention(G)
<1>1. IsList(G) /\ Len(G) = Len(L) /\ DOMAIN G = 1 .. Len(G) /\ Len(G) \in Nat
  BY ListIs DEF IsLift
<1>2. \A j \in 1 .. Len(G) :
        C[j] = CASE G[j].op = "q_operand_residency"      -> From(G[j], "Q", ids.q)
                 [] G[j].op = "k_prefill_tile_residency" -> From(G[j], "K", ids.k)
                 [] G[j].op = "v_prefill_tile_residency" -> From(G[j], "V", ids.v)
                 [] OTHER -> G[j]
  BY <1>1 DEF ConnectPrefillAttention
<1>3. IsList(C) /\ Len(C) = Len(G)
  <2>1. C = [i \in 1 .. Len(G) |-> C[i]]
    BY <1>1 DEF ConnectPrefillAttention
  <2> HIDE DEF C
  <2> QED BY <1>1, <2>1, ListOfFunction
<1>4. \A r, name, id : IsRecord(r) =>
        Shape(From(r, name, id), r.record_id, r.kind, r.op, {OfLayer(name)}, r.outputs, {id})
  <2> SUFFICES ASSUME NEW r, NEW name, NEW id, IsRecord(r)
               PROVE  Shape(From(r, name, id), r.record_id, r.kind, r.op, {OfLayer(name)}, r.outputs, {id})
    OBVIOUS
  <2> DEFINE ins == {OfLayer(name)}
             deps == {id}
  <2>1. From(r, name, id) = [r EXCEPT !.inputs = ins, !.logical_dependencies = deps]
    OBVIOUS
  <2> HIDE DEF ins, deps, From
  <2>2. Shape(From(r, name, id), r.record_id, r.kind, r.op, ins, r.outputs, deps)
    BY <2>1, Rewired
  <2> QED BY <2>2 DEF ins, deps
<1>5. \A j \in 1 .. Len(G) : /\ IsRecord(G[j]) /\ G[j].op = L[j].op /\ G[j].kind = L[j].kind
                             /\ G[j].record_id = n + j - 1
  <2>1. \A j \in 1 .. Len(G) : LiftOf(G[j], L[j], n + j - 1, n, layer)
    BY <1>1 DEF IsLift
  <2> QED BY <2>1 DEF LiftOf, Shape
<1> HIDE DEF C, From
<1>6. ASSUME NEW j \in 1 .. Len(G)
      PROVE  /\ C[j].op = G[j].op /\ C[j].outputs = G[j].outputs /\ C[j].kind = G[j].kind
             /\ C[j].record_id = G[j].record_id
             /\ ~IsRewired("prefill", G[j].op) => C[j] = G[j]
             /\ G[j].op = "q_operand_residency" => C[j].inputs = {OfLayer("Q")}
  <2>1. IsRecord(G[j])
    BY <1>5
  <2>2. CASE G[j].op = "q_operand_residency"
    <3>1. C[j] = From(G[j], "Q", ids.q)
      BY <1>2, <2>2
    <3>2. Shape(C[j], G[j].record_id, G[j].kind, G[j].op, {OfLayer("Q")}, G[j].outputs, {ids.q})
      BY <1>4, <2>1, <3>1
    <3> QED BY <2>2, <3>2 DEF Shape, IsRewired
  <2>3. CASE G[j].op = "k_prefill_tile_residency"
    <3>1. C[j] = From(G[j], "K", ids.k)
      BY <1>2, <2>3
    <3>2. Shape(C[j], G[j].record_id, G[j].kind, G[j].op, {OfLayer("K")}, G[j].outputs, {ids.k})
      BY <1>4, <2>1, <3>1
    <3> QED BY <2>3, <3>2 DEF Shape, IsRewired
  <2>4. CASE G[j].op = "v_prefill_tile_residency"
    <3>1. C[j] = From(G[j], "V", ids.v)
      BY <1>2, <2>4
    <3>2. Shape(C[j], G[j].record_id, G[j].kind, G[j].op, {OfLayer("V")}, G[j].outputs, {ids.v})
      BY <1>4, <2>1, <3>1
    <3> QED BY <2>4, <3>2 DEF Shape, IsRewired
  <2>5. CASE G[j].op \notin {"q_operand_residency", "k_prefill_tile_residency", "v_prefill_tile_residency"}
    <3>1. C[j] = G[j]
      BY <1>2, <2>5
    <3> QED BY <2>5, <3>1
  <2> QED BY <2>2, <2>3, <2>4, <2>5
<1>7. Keeps(C, G, "prefill")
  BY <1>3, <1>6 DEF Keeps
<1>8. Reduces(C)
  <2>1. \A j \in 1 .. Len(C) : C[j].op = "AttentionContext" => C[j].kind = "AttentionContext"
    BY <1>1, <1>3, <1>5, <1>6 DEF AttentionSpent
  <2>2. ASSUME NEW j \in 1 .. Len(C), C[j].op = Reduction, NEW i \in 1 .. Len(C),
               C[i].record_id \in C[j].logical_dependencies
        PROVE  C[i].outputs \subseteq C[j].inputs
    <3>1. i \in 1 .. Len(L) /\ j \in 1 .. Len(L) /\ L[j].op = Reduction
      BY <1>1, <1>3, <1>5, <1>6, <2>2
    <3>2. ~IsRewired("prefill", G[j].op)
      BY <1>1, <1>5, <3>1 DEF IsRewired, Reduction
    <3>3. C[j] = G[j] /\ C[i].outputs = G[i].outputs /\ C[i].record_id = n + i - 1
      BY <1>1, <1>5, <1>6, <3>1, <3>2
    <3>4. n + i - 1 \in G[j].logical_dependencies
      BY <2>2, <3>3
    <3>5. G[i].outputs \subseteq G[j].inputs
      BY <3>1, <3>4, LiftedReduction
    <3> QED BY <3>3, <3>5
  <2> QED BY <2>1, <2>2 DEF Reduces
<1>9. ASSUME NEW j \in 1 .. Len(C), NEW t \in C[j].outputs PROVE Used(C, t) \/ t \in Contexts(C)
  <2>1. Spent(L, "prefill", AttentionEnds)
    BY DEF AttentionSpent
  <2>2. CASE C[j].op \notin AttentionEnds
    BY <1>7, <1>9, <2>1, <2>2, LiftedSpent
  <2>3. CASE C[j].op \in AttentionEnds
    BY <1>3, <1>8, <1>9, <2>3, EndsAreTaken
  <2> QED BY <2>2, <2>3
<1>10. Used(C, OfLayer("Q"))
  <2>1. PICK i \in 1 .. Len(L) : L[i].op = "q_operand_residency"
    BY DEF AttentionSpent
  <2>2. i \in 1 .. Len(C) /\ OfLayer("Q") \in C[i].inputs
    BY <1>1, <1>3, <1>5, <1>6, <2>1
  <2> QED BY <2>2 DEF Used
<1> QED BY <1>9, <1>10 DEF Settles, C

(* What a step of the connection leaves as it was.                         *)
LEMMA StepIs ==
  ASSUME NEW r, IsRecord(r), NEW R, NEW keep,
         r.kind = "AttentionScore" => r.op = "AttentionScore" /\ r.record_id # keep, r.record_id = keep => IsQ(r)
  PROVE  LET s == DecodeStep(r, R, keep)
         IN  /\ s.op = r.op /\ s.kind = r.kind /\ s.record_id = r.record_id
             /\ r.kind # "AttentionScore" /\ r.record_id # keep => s.inputs = r.inputs
             /\ r.kind = "AttentionScore" => VisibleQ \in s.inputs /\ \A t \in r.inputs : t.name # "Q" => t \in s.inputs
             /\ r.kind # "AttentionScore" /\ r.record_id = keep => s.inputs = {OfLayer("Q")}
             /\ r.op = Reduction /\ r.kind # "AttentionScore" /\ r.record_id # keep => s = r
<1> DEFINE s == DecodeStep(r, R, keep)
<1>1. CASE r.kind = "AttentionScore"
  <2> DEFINE ins == {t \in r.inputs : t.name # "Q"} \cup {VisibleQ}
             deps == {ids.q, keep} \cup (r.logical_dependencies \ R)
  <2>1. s = [r EXCEPT !.inputs = ins, !.logical_dependencies = deps]
    BY <1>1 DEF DecodeStep, VisibleQ
  <2>e. VisibleQ \in ins /\ \A t \in r.inputs : t.name # "Q" => t \in ins
    OBVIOUS
  <2> HIDE DEF ins, deps, s
  <2>2. Shape(s, r.record_id, r.kind, r.op, ins, r.outputs, deps)
    BY <2>1, Rewired
  <2> QED BY <1>1, <2>2, <2>e DEF Shape, s
<1>2. CASE r.kind # "AttentionScore" /\ r.record_id = keep
  <2> DEFINE ins == {OfLayer("Q")}
             outs == {VisibleQ}
             deps == {ids.q}
  <2>1. s = WithAll(r, ins, outs, deps)
    BY <1>2 DEF DecodeStep, VisibleQ, WithAll, IsQ
  <2>e. ins = {OfLayer("Q")}
    OBVIOUS
  <2> HIDE DEF ins, outs, deps, s
  <2>2. Shape(s, r.record_id, r.kind, r.op, ins, outs, deps)
    BY <2>1, ReplacedAll
  <2> QED BY <1>2, <2>2, <2>e DEF Shape, s
<1>3. CASE r.kind # "AttentionScore" /\ r.record_id # keep /\ r.op = "kv_cache_k_tile_read"
  <2>1. s = [r EXCEPT !.logical_dependencies = {ids.k_write}]
    BY <1>3 DEF DecodeStep
  <2> HIDE DEF s
  <2>2. Shape(s, r.record_id, r.kind, r.op, r.inputs, r.outputs, {ids.k_write})
    BY <2>1, ReplaceField
  <2> QED BY <1>3, <2>2 DEF Shape, s, Reduction
<1>4. CASE r.kind # "AttentionScore" /\ r.record_id # keep /\ r.op = "kv_cache_v_tile_read"
  <2> DEFINE deps == {ids.v_write} \cup r.logical_dependencies
  <2>1. s = [r EXCEPT !.logical_dependencies = deps]
    BY <1>4 DEF DecodeStep
  <2> HIDE DEF deps, s
  <2>2. Shape(s, r.record_id, r.kind, r.op, r.inputs, r.outputs, deps)
    BY <2>1, ReplaceField
  <2> QED BY <1>4, <2>2 DEF Shape, s, Reduction
<1>5. CASE /\ r.kind # "AttentionScore" /\ r.record_id # keep
           /\ r.op # "kv_cache_k_tile_read" /\ r.op # "kv_cache_v_tile_read"
  <2>1. s = r
    BY <1>5 DEF DecodeStep
  <2> QED BY <1>5, <2>1
<1> QED BY <1>1, <1>2, <1>3, <1>4, <1>5

(* The connected block K is what is kept of the records C.                 *)
LEMMA DecodeKeeps ==
  ASSUME NEW M, NEW n, NEW L, NEW G, NEW e, Decoding(M, n, L, G, e)
  PROVE  IsKept(ConnectDecodeAttention(G), Stepped(G, n, e), KeptRecords(G, e))
<1> DEFINE C == Stepped(G, n, e)
           S == KeptRecords(G, e)
           K == ConnectDecodeAttention(G)
<1>1. /\ n \in Nat /\ Len(L) \in Nat /\ Len(G) = Len(L) /\ DOMAIN G = 1 .. Len(G)
      /\ \A i \in 1 .. Len(G) : G[i].record_id = n + i - 1
  BY DecodingIs
<1>2. Min(Residencies(G)) = n + e - 1 /\ e \in 1 .. Len(G)
  BY DEF Decoding, SharedBy
<1>3. K = Keeping(C, S)
  <2> DEFINE keep == n + e - 1
             T == {i \in DOMAIN G : G[i].op = "q_operand_residency" => G[i].record_id = keep}
  <2>1. K = Keeping([i \in DOMAIN G |-> DecodeStep(G[i], Residencies(G), keep)], T)
    BY <1>2 DEF ConnectDecodeAttention, DecodeStep
  <2>2. C = [i \in DOMAIN G |-> DecodeStep(G[i], Residencies(G), keep)]
    BY <1>1 DEF Stepped
  <2>3. T = S
    <3>1. \A i \in 1 .. Len(G) : G[i].record_id = keep <=> i = e
      BY <1>1, <1>2
    <3> QED BY <1>1, <3>1 DEF KeptRecords, IsQ
  <2> QED BY <2>1, <2>2, <2>3
<1> HIDE DEF K
<1>4. IsList(C) /\ Len(C) = Len(L)
  <2>1. C = [i \in 1 .. Len(G) |-> C[i]]
    BY DEF Stepped
  <2> HIDE DEF C
  <2> QED BY <1>1, <2>1, ListOfFunction
<1>5. S \subseteq 1 .. Len(C)
  BY <1>1, <1>4 DEF KeptRecords
<1> HIDE DEF C, S
<1>6. IsKept(K, C, S)
  BY <1>3, <1>4, <1>5, KeepingIs
<1> QED BY <1>6 DEF C, S, K

(* What is kept takes what it took, but for Q.                             *)
LEMMA SteppedTakes ==
  ASSUME NEW M, NEW n, NEW L, NEW G, NEW e, Decoding(M, n, L, G, e), Numbered(L), AttentionSpent(L, "decode"),
         NEW i \in 1 .. Len(G)
  PROVE  LET C == Stepped(G, n, e)
         IN  /\ C[i].op = L[i].op /\ C[i].kind = L[i].kind /\ C[i].record_id = n + i - 1
             /\ i = e => C[i].inputs = {OfLayer("Q")} /\ C[i].outputs = {VisibleQ}
             /\ ~IsQ(G[i]) => /\ C[i].outputs = G[i].outputs
                              /\ \A t \in G[i].inputs : t.name # "Q" => t \in C[i].inputs
             /\ C[i].op = "AttentionScore" => VisibleQ \in C[i].inputs
             /\ C[i].op = Reduction => C[i] = G[i]
<1> DEFINE C == Stepped(G, n, e)
           r == G[i]
           R == Residencies(G)
           keep == n + e - 1
<1>1. /\ n \in Nat /\ Len(L) \in Nat /\ Len(G) = Len(L) /\ IsRecord(r) /\ r.record_id = n + i - 1 /\ r.op = L[i].op
      /\ r.kind = L[i].kind
  BY DecodingIs
<1>2. e \in 1 .. Len(G) /\ IsQ(G[e])
  BY DEF Decoding, SharedBy
<1>3. C[i] = DecodeStep(r, R, keep)
  BY DEF Stepped
<1>4. C[e].outputs = {VisibleQ}
  BY SharedStepped
<1>5. ~IsQ(G[i]) => C[i].outputs = G[i].outputs
  BY OtherStepped
<1>6. r.record_id = keep <=> i = e
  BY <1>1, <1>2
<1>7. r.kind = "AttentionScore" => r.op = "AttentionScore" /\ ~IsQ(r)
  BY LiftedShares
<1>8. r.op = "AttentionScore" => r.kind = "AttentionScore"
  BY <1>1 DEF AttentionSpent
<1>9. r.kind # "AttentionScore" /\ ~IsQ(r) => \A t \in r.inputs : t.name # "Q"
  BY LiftedShares
<1> HIDE DEF C, R, keep, r
<1>11. i = e => IsQ(r) /\ r.op # Reduction /\ r.kind # "AttentionScore"
  BY <1>2, <1>7 DEF r, IsQ, Reduction
<1>r. r.kind = "AttentionScore" => r.record_id # keep
  BY <1>6, <1>11
<1>k. r.record_id = keep => IsQ(r)
  BY <1>6, <1>11
<1>10. /\ C[i].op = r.op /\ C[i].kind = r.kind /\ C[i].record_id = r.record_id
       /\ r.kind # "AttentionScore" /\ r.record_id # keep => C[i].inputs = r.inputs
       /\ r.kind = "AttentionScore" => VisibleQ \in C[i].inputs /\ \A t \in r.inputs : t.name # "Q" => t \in C[i].inputs
       /\ r.kind # "AttentionScore" /\ r.record_id = keep => C[i].inputs = {OfLayer("Q")}
       /\ r.op = Reduction /\ r.kind # "AttentionScore" /\ r.record_id # keep => C[i] = r
  BY <1>1, <1>3, <1>7, <1>r, <1>k, StepIs
<1>12. i = e => C[i].inputs = {OfLayer("Q")} /\ C[i].outputs = {VisibleQ}
  BY <1>4, <1>6, <1>10, <1>11
<1>13. ASSUME ~IsQ(r) PROVE \A t \in r.inputs : t.name # "Q" => t \in C[i].inputs
  <2>1. r.record_id # keep
    BY <1>6, <1>11, <1>13
  <2>2. r.kind = "AttentionScore" \/ r.kind # "AttentionScore"
    OBVIOUS
  <2> QED BY <1>10, <2>1, <2>2
<1>14. r.op = Reduction => C[i] = r
  BY <1>6, <1>7, <1>10, <1>11 DEF Reduction
<1>15. r.op = "AttentionScore" => VisibleQ \in C[i].inputs
  BY <1>8, <1>10
<1> QED BY <1>1, <1>5, <1>10, <1>12, <1>13, <1>14, <1>15 DEF r, C

LEMMA DecodeSettles ==
  ASSUME NEW M, NEW n, NEW L, NEW G, NEW e, Decoding(M, n, L, G, e), Numbered(L), AttentionSpent(L, "decode")
  PROVE  LET K == ConnectDecodeAttention(G)
         IN  Settles(isMoE, K, {OfLayer("Q")}, Contexts(K))
<1> DEFINE C == Stepped(G, n, e)
           S == KeptRecords(G, e)
           K == ConnectDecodeAttention(G)
<1>1. n \in Nat /\ Len(L) \in Nat /\ Len(G) = Len(L) /\ \A i \in 1 .. Len(G) : G[i].op = L[i].op
  BY DecodingIs
<1>2. \A i \in 1 .. Len(G) :
        /\ C[i].op = L[i].op /\ C[i].kind = L[i].kind /\ C[i].record_id = n + i - 1
        /\ i = e => C[i].inputs = {OfLayer("Q")} /\ C[i].outputs = {VisibleQ}
        /\ ~IsQ(G[i]) => /\ C[i].outputs = G[i].outputs
                         /\ \A t \in G[i].inputs : t.name # "Q" => t \in C[i].inputs
        /\ C[i].op = "AttentionScore" => VisibleQ \in C[i].inputs
        /\ C[i].op = Reduction => C[i] = G[i]
  BY SteppedTakes
<1>3. e \in 1 .. Len(G) /\ IsQ(G[e]) /\ IsLift(G, L, n, layer) /\ Good(L, "decode")
  BY DEF Decoding, SharedBy
<1>4. PICK p : KeptBy(p, K, C, S)
  BY DecodeKeeps DEF IsKept
<1>5. \A i : i \in S <=> i \in 1 .. Len(G) /\ (IsQ(G[i]) => i = e)
  BY DEF KeptRecords
<1> HIDE DEF C, S, K
<1>6. /\ IsList(K) /\ \A j \in 1 .. Len(K) : p[j] \in S /\ K[j] = C[p[j]]
      /\ \A i \in S : \E j \in 1 .. Len(K) : p[j] = i
  BY <1>4 DEF KeptBy
<1>7. \A i \in S : \A t \in C[i].inputs : Used(K, t)
  BY <1>6 DEF Used
<1>8. Used(K, OfLayer("Q"))
  <2>1. e \in S /\ OfLayer("Q") \in C[e].inputs
    BY <1>2, <1>3, <1>5
  <2> QED BY <1>7, <2>1
<1>9. Used(K, VisibleQ)
  <2>1. PICK i \in 1 .. Len(L) : L[i].op = "AttentionScore"
    BY DEF AttentionSpent
  <2>2. i \in S
    BY <1>1, <1>5, <2>1 DEF IsQ
  <2> QED BY <1>1, <1>2, <1>7, <2>1, <2>2
<1>10. Reduces(K)
  <2>1. ASSUME NEW j \in 1 .. Len(K), K[j].op = "AttentionContext" PROVE K[j].kind = "AttentionContext"
    <3>1. p[j] \in 1 .. Len(L) /\ K[j] = C[p[j]]
      BY <1>1, <1>5, <1>6
    <3>2. L[p[j]].op = "AttentionContext" /\ K[j].kind = L[p[j]].kind
      BY <1>1, <1>2, <2>1, <3>1
    <3> QED BY <3>1, <3>2 DEF AttentionSpent
  <2>2. ASSUME NEW j \in 1 .. Len(K), K[j].op = Reduction, NEW i \in 1 .. Len(K), K[i].op = "AttentionContext",
               K[i].record_id \in K[j].logical_dependencies
        PROVE  K[i].outputs \subseteq K[j].inputs
    <3> DEFINE a == p[j]
               b == p[i]
    <3>1. a \in 1 .. Len(L) /\ b \in 1 .. Len(L) /\ K[j] = C[a] /\ K[i] = C[b]
      BY <1>1, <1>5, <1>6
    <3> HIDE DEF a, b
    <3>2. L[a].op = Reduction /\ L[b].op = "AttentionContext" /\ C[a] = G[a] /\ C[b].record_id = n + b - 1
      BY <1>1, <1>2, <2>2, <3>1
    <3>3. ~IsQ(G[b])
      BY <1>1, <3>1, <3>2 DEF IsQ
    <3>4. C[b].outputs = G[b].outputs
      BY <1>1, <1>2, <3>1, <3>3
    <3>5. n + b - 1 \in G[a].logical_dependencies
      BY <2>2, <3>1, <3>2
    <3>6. G[b].outputs \subseteq G[a].inputs
      BY <1>1, <1>3, <3>1, <3>2, <3>5, LiftedReduction
    <3> QED BY <3>1, <3>2, <3>4, <3>6
  <2> QED BY <2>1, <2>2 DEF Reduces
<1>11. ASSUME NEW j \in 1 .. Len(K), NEW t \in K[j].outputs PROVE Used(K, t) \/ t \in Contexts(K)
  <2> DEFINE i == p[j]
  <2>1. i \in S /\ K[j] = C[i]
    BY <1>6
  <2> HIDE DEF i
  <2>2. CASE i = e
    BY <1>2, <1>3, <1>9, <1>11, <2>1, <2>2
  <2>3. CASE K[j].op \in AttentionEnds
    BY <1>6, <1>10, <1>11, <2>3, EndsAreTaken
  <2>4. CASE i # e /\ K[j].op \notin AttentionEnds
    <3>1. i \in 1 .. Len(L) /\ ~IsQ(G[i]) /\ L[i].op \notin AttentionEnds /\ t \in G[i].outputs
      BY <1>1, <1>2, <1>5, <1>11, <2>1, <2>4
    <3>o. G[i].outputs = {Moved(layer, u) : u \in L[i].outputs}
      BY <1>3, <3>1, LiftedFields
    <3>2. PICK u \in L[i].outputs : t = Moved(layer, u)
      BY <3>1, <3>o
    <3>3. PICK k \in 1 .. Len(L) : ~IsRewired("decode", L[k].op) /\ u \in L[k].inputs
      BY <3>1, <3>2 DEF AttentionSpent, Spent
    <3>a. G[k].inputs = {Moved(layer, v) : v \in L[k].inputs}
      BY <1>3, <3>3, LiftedFields
    <3>4. t \in G[k].inputs
      BY <3>2, <3>3, <3>a
    <3>5. u.name # "Q"
      BY <1>1, <3>1 DEF AttentionSpent, IsQ
    <3>6. Local(u)
      BY <1>3, <3>1, GoodIds
    <3>7. t.name # "Q"
      BY <3>2, <3>5, <3>6, MovedLocal
    <3>8. ~IsQ(G[k]) /\ k \in S
      BY <1>1, <1>5, <3>3 DEF IsRewired, IsQ
    <3>9. t \in C[k].inputs
      BY <1>1, <1>2, <3>3, <3>4, <3>7, <3>8
    <3> QED BY <1>7, <3>8, <3>9
  <2> QED BY <2>2, <2>3, <2>4
<1> QED BY <1>8, <1>11 DEF Settles, K

(***************************************************************************)
(* The feed-forward network: all that its records make is taken, but for T.*)
(***************************************************************************)
TakenFrom(L, mode, t) == \E k \in 1 .. Len(L) : ~IsRewired(mode, L[k].op) /\ t \in L[k].inputs
SpentBut(L, mode, T)  == \A i \in 1 .. Len(L) : \A t \in L[i].outputs : t \in T \/ TakenFrom(L, mode, t)

LEMMA SpentConcat ==
  ASSUME NEW A, NEW B, IsList(A), IsList(B), NEW mode, NEW S, NEW T, NEW U, SpentBut(A, mode, S), SpentBut(B, mode, T),
         \A t \in S : t \in U \/ TakenFrom(B, mode, t), T \subseteq U
  PROVE  SpentBut(A \o B, mode, U)
<1> DEFINE N == A \o B
<1>1. /\ IsList(N) /\ Len(N) = Len(A) + Len(B) /\ Len(A) \in Nat /\ Len(B) \in Nat
      /\ \A i \in 1 .. Len(A) : N[i] = A[i]
      /\ \A i \in 1 .. Len(B) : N[Len(A) + i] = B[i]
  BY ListConcat, ListIs
<1> HIDE DEF N
<1>2. \A t : TakenFrom(A, mode, t) => TakenFrom(N, mode, t)
  <2>1. \A k \in 1 .. Len(A) : k \in 1 .. Len(N) /\ N[k] = A[k]
    BY <1>1
  <2> QED BY <2>1 DEF TakenFrom
<1>3. \A t : TakenFrom(B, mode, t) => TakenFrom(N, mode, t)
  <2>1. \A k \in 1 .. Len(B) : Len(A) + k \in 1 .. Len(N) /\ N[Len(A) + k] = B[k]
    BY <1>1
  <2> QED BY <2>1 DEF TakenFrom
<1>4. ASSUME NEW i \in 1 .. Len(N), NEW t \in N[i].outputs PROVE t \in U \/ TakenFrom(N, mode, t)
  <2>1. CASE i <= Len(A)
    <3>1. i \in 1 .. Len(A) /\ t \in A[i].outputs
      BY <1>1, <1>4, <2>1
    <3>2. t \in S \/ TakenFrom(A, mode, t)
      BY <3>1 DEF SpentBut
    <3> QED BY <1>2, <1>3, <3>2
  <2>2. CASE ~(i <= Len(A))
    <3>1. i - Len(A) \in 1 .. Len(B) /\ Len(A) + (i - Len(A)) = i
      BY <1>1, <2>2
    <3>2. t \in B[i - Len(A)].outputs
      BY <1>1, <1>4, <3>1
    <3>3. t \in T \/ TakenFrom(B, mode, t)
      BY <3>1, <3>2 DEF SpentBut
    <3> QED BY <1>3, <3>3
  <2> QED BY <2>1, <2>2
<1> QED BY <1>4 DEF SpentBut, N

LEMMA GatedSpent ==
  ASSUME NEW m, NEW base, NEW up_weight, NEW gate_weight
  PROVE  LET c == FFNGated(m, base, up_weight, gate_weight)
         IN  /\ IsList(c) /\ SpentBut(c, "feed_forward", {Whole("intermediate")})
             /\ TakenFrom(c, "feed_forward", Whole("hidden.reused"))
             /\ TakenFrom(c, "feed_forward", Resident("up_weight", 0))
             /\ TakenFrom(c, "feed_forward", Resident("gate_weight", 0))
<1> DEFINE U == Whole("up")
           UV == Visible(Whole("up"))
           G == Whole("gate")
           GV == Visible(Whole("gate"))
           A == Whole("activated")
           AV == Visible(Whole("activated"))
           I == Whole("intermediate")
           H == Whole("hidden.reused")
           WU == Resident("up_weight", 0)
           WG == Resident("gate_weight", 0)
           r1 == FFNProjection(m, base + 1, "ffn_up_projection", Whole("hidden.reused"), "up_weight", Whole("up"), {base, up_weight})
           r2 == Residency(base + 2, "ffn_up_intermediate_residency", Whole("up"), Visible(Whole("up")), {base + 1})
           r3 == FFNProjection(m, base + 3, "ffn_gate_projection", Whole("hidden.reused"), "gate_weight", Whole("gate"), {base, gate_weight})
           r4 == Residency(base + 4, "ffn_gate_intermediate_residency", Whole("gate"), Visible(Whole("gate")), {base + 3})
           r5 == Elementwise(base + 5, "ffn_gate_activation_accounting", {Visible(Whole("gate"))}, Whole("activated"), {base + 4})
           r6 == Residency(base + 6, "ffn_activated_gate_residency", Whole("activated"), Visible(Whole("activated")), {base + 5})
           r7 == Elementwise(base + 7, "ffn_gated_multiply_accounting", {Visible(Whole("activated")), Visible(Whole("up"))},
                           Whole("intermediate"), {base + 6, base + 2})
           c == <<r1, r2, r3, r4, r5, r6, r7>>
<1>1. FFNGated(m, base, up_weight, gate_weight) = c
  BY DEF FFNGated
<1>s1. Shape(r1, base + 1, "FFNProjection", "ffn_up_projection", {H, WU}, {U}, {base, up_weight})
  BY RecordShape DEF FFNProjection
<1>s2. Shape(r2, base + 2, "PIMOperandResidency", "ffn_up_intermediate_residency", {U}, {UV}, {base + 1})
  BY RecordShape DEF Residency
<1>s3. Shape(r3, base + 3, "FFNProjection", "ffn_gate_projection", {H, WG}, {G}, {base, gate_weight})
  BY RecordShape DEF FFNProjection
<1>s4. Shape(r4, base + 4, "PIMOperandResidency", "ffn_gate_intermediate_residency", {G}, {GV}, {base + 3})
  BY RecordShape DEF Residency
<1>s5. Shape(r5, base + 5, "PIMElementwise", "ffn_gate_activation_accounting", {GV}, {A}, {base + 4})
  BY RecordShape DEF Elementwise
<1>s6. Shape(r6, base + 6, "PIMOperandResidency", "ffn_activated_gate_residency", {A}, {AV}, {base + 5})
  BY RecordShape DEF Residency
<1>s7. Shape(r7, base + 7, "PIMElementwise", "ffn_gated_multiply_accounting", {AV, UV}, {I}, {base + 6, base + 2})
  BY RecordShape DEF Elementwise
<1> HIDE DEF r1, r2, r3, r4, r5, r6, r7
<1>2. /\ IsList(c) /\ Len(c) = 7
      /\ c[1] = r1 /\ c[2] = r2 /\ c[3] = r3 /\ c[4] = r4 /\ c[5] = r5 /\ c[6] = r6 /\ c[7] = r7
  <2>1. c \in Seq({r1, r2, r3, r4, r5, r6, r7}) /\ Len(c) = 7
    OBVIOUS
  <2> QED BY <2>1 DEF IsList
<1> HIDE DEF c, U, UV, G, GV, A, AV, I, H, WU, WG
<1>3. /\ r1.outputs = {U} /\ r2.outputs = {UV} /\ r3.outputs = {G} /\ r4.outputs = {GV} /\ r5.outputs = {A}
      /\ r6.outputs = {AV} /\ r7.outputs = {I}
  BY <1>s1, <1>s2, <1>s3, <1>s4, <1>s5, <1>s6, <1>s7 DEF Shape
<1>4. /\ H \in r1.inputs /\ WU \in r1.inputs /\ U \in r2.inputs /\ WG \in r3.inputs /\ G \in r4.inputs
      /\ GV \in r5.inputs /\ A \in r6.inputs /\ AV \in r7.inputs /\ UV \in r7.inputs
  BY <1>s1, <1>s2, <1>s3, <1>s4, <1>s5, <1>s6, <1>s7 DEF Shape
<1>5. /\ r1.op = "ffn_up_projection" /\ r2.op = "ffn_up_intermediate_residency" /\ r3.op = "ffn_gate_projection"
      /\ r4.op = "ffn_gate_intermediate_residency" /\ r5.op = "ffn_gate_activation_accounting"
      /\ r6.op = "ffn_activated_gate_residency" /\ r7.op = "ffn_gated_multiply_accounting"
  BY <1>s1, <1>s2, <1>s3, <1>s4, <1>s5, <1>s6, <1>s7 DEF Shape
<1>6. /\ ~IsRewired("feed_forward", r1.op) /\ ~IsRewired("feed_forward", r2.op) /\ ~IsRewired("feed_forward", r3.op)
      /\ ~IsRewired("feed_forward", r4.op) /\ ~IsRewired("feed_forward", r5.op) /\ ~IsRewired("feed_forward", r6.op)
      /\ ~IsRewired("feed_forward", r7.op)
  BY <1>5 DEF IsRewired
<1>7. \A j : j \in 1 .. Len(c) <=> j \in {1, 2, 3, 4, 5, 6, 7}
  BY <1>2
<1>8. \A t : (\/ t \in r1.inputs \/ t \in r2.inputs \/ t \in r3.inputs \/ t \in r4.inputs \/ t \in r5.inputs
              \/ t \in r6.inputs \/ t \in r7.inputs) => TakenFrom(c, "feed_forward", t)
  BY <1>2, <1>6, <1>7 DEF TakenFrom
<1>9. ASSUME NEW i \in 1 .. Len(c), NEW t \in c[i].outputs PROVE t \in {I} \/ TakenFrom(c, "feed_forward", t)
  <2>1. t \in {U, UV, G, GV, A, AV, I}
    BY <1>2, <1>3, <1>7, <1>9
  <2> QED BY <1>4, <1>8, <2>1
<1> QED BY <1>1, <1>2, <1>4, <1>8, <1>9 DEF SpentBut, I, H, WU, WG

LEMMA ReluSpent ==
  ASSUME NEW m, NEW base, NEW up_weight
  PROVE  LET c == FFNRelu(m, base, up_weight)
         IN  /\ IsList(c) /\ SpentBut(c, "feed_forward", {Whole("intermediate")})
             /\ TakenFrom(c, "feed_forward", Whole("hidden.reused"))
             /\ TakenFrom(c, "feed_forward", Resident("up_weight", 0))
<1> DEFINE U == Whole("up")
           UV == Visible(Whole("up"))
           I == Whole("intermediate")
           H == Whole("hidden.reused")
           WU == Resident("up_weight", 0)
           r1 == FFNProjection(m, base + 1, "ffn_up_projection", Whole("hidden.reused"), "up_weight", Whole("up"), {base, up_weight})
           r2 == Residency(base + 2, "ffn_up_intermediate_residency", Whole("up"), Visible(Whole("up")), {base + 1})
           r3 == Elementwise(base + 3, "ffn_relu_activation_accounting", {Visible(Whole("up"))}, Whole("intermediate"), {base + 2})
           c == <<r1, r2, r3>>
<1>1. FFNRelu(m, base, up_weight) = c
  BY DEF FFNRelu
<1>s1. Shape(r1, base + 1, "FFNProjection", "ffn_up_projection", {H, WU}, {U}, {base, up_weight})
  BY RecordShape DEF FFNProjection
<1>s2. Shape(r2, base + 2, "PIMOperandResidency", "ffn_up_intermediate_residency", {U}, {UV}, {base + 1})
  BY RecordShape DEF Residency
<1>s3. Shape(r3, base + 3, "PIMElementwise", "ffn_relu_activation_accounting", {UV}, {I}, {base + 2})
  BY RecordShape DEF Elementwise
<1> HIDE DEF r1, r2, r3
<1>2. IsList(c) /\ Len(c) = 3 /\ c[1] = r1 /\ c[2] = r2 /\ c[3] = r3
  BY ListOfThree
<1> HIDE DEF c, U, UV, I, H, WU
<1>3. r1.outputs = {U} /\ r2.outputs = {UV} /\ r3.outputs = {I}
  BY <1>s1, <1>s2, <1>s3 DEF Shape
<1>4. H \in r1.inputs /\ WU \in r1.inputs /\ U \in r2.inputs /\ UV \in r3.inputs
  BY <1>s1, <1>s2, <1>s3 DEF Shape
<1>5. r1.op = "ffn_up_projection" /\ r2.op = "ffn_up_intermediate_residency" /\ r3.op = "ffn_relu_activation_accounting"
  BY <1>s1, <1>s2, <1>s3 DEF Shape
<1>6. ~IsRewired("feed_forward", r1.op) /\ ~IsRewired("feed_forward", r2.op) /\ ~IsRewired("feed_forward", r3.op)
  BY <1>5 DEF IsRewired
<1>7. \A j : j \in 1 .. Len(c) <=> j \in {1, 2, 3}
  BY <1>2
<1>8. \A t : t \in r1.inputs \/ t \in r2.inputs \/ t \in r3.inputs => TakenFrom(c, "feed_forward", t)
  BY <1>2, <1>6, <1>7 DEF TakenFrom
<1>9. ASSUME NEW i \in 1 .. Len(c), NEW t \in c[i].outputs PROVE t \in {I} \/ TakenFrom(c, "feed_forward", t)
  <2>1. t \in {U, UV, I}
    BY <1>2, <1>3, <1>7, <1>9
  <2> QED BY <1>4, <1>8, <2>1
<1> QED BY <1>1, <1>2, <1>4, <1>8, <1>9 DEF SpentBut, I, H, WU

(* The operands of the network: the tiles of the hidden state are put      *)
(* together, the weights are resident.                                     *)
FFNResidents(m) == {Resident(FFNWeights(m)[i], 0) : i \in 1 .. Len(FFNWeights(m))}

LEMMA FFNOperandsSpent ==
  ASSUME NEW m, IsList(TileRanges(m.hidden_size, m.ffn_activation_tile_size)),
         Len(TileRanges(m.hidden_size, m.ffn_activation_tile_size)) > 0
  PROVE  LET L == FFNOperands(m)
         IN  /\ IsList(L) /\ SpentBut(L, "feed_forward", {Whole("hidden.reused")} \cup FFNResidents(m))
             /\ \E i \in 1 .. Len(L) : L[i].op = "ffn_hidden_activation_tile_setup"
<1> DEFINE n == Len(TileRanges(m.hidden_size, m.ffn_activation_tile_size))
           w == FFNWeights(m)
           Tile(i) == Tensor("hidden.tile", 0, i, 0)
           Setup(i) == Record(i - 1, "PIMDataMove", "ffn_hidden_activation_tile_setup",
                              {Tile(i)}, {Placed(Tile(i), "resident")}, {})
           A == [i \in 1 .. n |-> Setup(i)]
           B == [i \in DOMAIN w |-> WeightMove(n + i - 1, w[i], 0)]
           tiles == {Placed(Tile(i), "resident") : i \in 1 .. n}
           H == Whole("hidden.reused")
           r == Record(n + Len(w), "PIMOperandReuse", "ffn_hidden_reuse", tiles, {H}, 0 .. n - 1)
           residents == FFNResidents(m)
           c == <<r>>
           M == A \o B
           L == M \o c
           mode == "feed_forward"
<1>1. FFNOperands(m) = L
  BY DEF FFNOperands, FFNWeights
<1>2. /\ IsList(w) /\ Len(w) \in Nat \ {0} /\ DOMAIN w = 1 .. Len(w) /\ n \in Nat
      /\ \A i \in 1 .. Len(w) : w[i] \in Weights
  BY FFNWeightsAre, ListIs
<1>4. \A i : Shape(Setup(i), i - 1, "PIMDataMove", "ffn_hidden_activation_tile_setup",
                   {Tile(i)}, {Placed(Tile(i), "resident")}, {})
  BY RecordShape
<1>5. Shape(r, n + Len(w), "PIMOperandReuse", "ffn_hidden_reuse", tiles, {H}, 0 .. n - 1)
  BY RecordShape
<1>e. \A t : t \in residents <=> \E i \in 1 .. Len(w) : t = Resident(w[i], 0)
  BY DEF FFNResidents
<1>n. n > 0
  OBVIOUS
<1> HIDE DEF w, Setup, r, n, H, residents
<1>6. IsList(A) /\ Len(A) = n /\ \A i \in 1 .. n : A[i] = Setup(i)
  <2>1. A = [i \in 1 .. n |-> A[i]] /\ \A i \in 1 .. n : A[i] = Setup(i)
    OBVIOUS
  <2> HIDE DEF A
  <2> QED BY <1>2, <2>1, ListOfFunction
<1>7. IsList(B) /\ Len(B) = Len(w) /\ \A i \in 1 .. Len(w) : B[i] = WeightMove(n + i - 1, w[i], 0)
  <2>1. B = [i \in 1 .. Len(w) |-> B[i]] /\ \A i \in 1 .. Len(w) : B[i] = WeightMove(n + i - 1, w[i], 0)
    BY <1>2
  <2> HIDE DEF B
  <2> QED BY <1>2, <2>1, ListOfFunction
<1> HIDE DEF A, B
<1>8. SpentBut(A, mode, tiles)
  <2>1. \A i \in 1 .. Len(A) : A[i].outputs = {Placed(Tile(i), "resident")}
    BY <1>4, <1>6 DEF Shape
  <2> QED BY <1>6, <2>1 DEF SpentBut
<1>9. SpentBut(B, mode, residents)
  <2> SUFFICES ASSUME NEW i \in 1 .. Len(B), NEW t \in B[i].outputs PROVE t \in residents
    BY DEF SpentBut
  <2>1. w[i] \in Weights /\ B[i] = WeightMove(n + i - 1, w[i], 0) /\ i \in 1 .. Len(w)
    BY <1>2, <1>7
  <2>2. Shape(WeightMove(n + i - 1, w[i], 0), n + i - 1, "PIMDataMove", "weight_residency",
              {Tensor(w[i], 0, 0, 0)}, {Resident(w[i], 0)}, {})
    BY <2>1, WeightMoveShape
  <2>3. B[i].outputs = {Resident(w[i], 0)}
    BY <2>1, <2>2 DEF Shape
  <2> QED BY <1>e, <2>1, <2>3
<1>10. IsList(c) /\ Len(c) = 1 /\ c[1] = r
  BY <1>2, ListAppend
<1> HIDE DEF c
<1>11. \A j : j \in 1 .. Len(c) <=> j = 1
  BY <1>10
<1>12. SpentBut(c, mode, {H})
  BY <1>5, <1>10, <1>11 DEF SpentBut, Shape
<1>13. \A t \in tiles : TakenFrom(c, mode, t)
  <2>1. ~IsRewired(mode, c[1].op)
    BY <1>5, <1>10 DEF Shape, IsRewired
  <2>2. c[1].inputs = tiles
    BY <1>5, <1>10 DEF Shape
  <2> HIDE DEF tiles
  <2> QED BY <1>11, <2>1, <2>2 DEF TakenFrom
<1> DEFINE both == tiles \cup residents
           rest == {H} \cup residents
           one == {H}
<1> HIDE DEF tiles
<1>14. IsList(M) /\ SpentBut(M, mode, both)
  <2>1. \A t \in tiles : t \in both \/ TakenFrom(B, mode, t)
    OBVIOUS
  <2>2. residents \subseteq both
    OBVIOUS
  <2>3. IsList(M)
    BY <1>6, <1>7, ListConcat
  <2> HIDE DEF both, mode
  <2>4. SpentBut(A \o B, mode, both)
    BY <1>6, <1>7, <1>8, <1>9, <2>1, <2>2, SpentConcat
  <2> QED BY <2>3, <2>4
<1>m. /\ \A i \in 1 .. Len(A) : M[i] = A[i]
      /\ Len(M) = Len(A) + Len(B)
  BY <1>6, <1>7, ListConcat
<1> HIDE DEF M
<1>15. IsList(L) /\ SpentBut(L, mode, rest)
  <2>1. \A t \in both : t \in rest \/ TakenFrom(c, mode, t)
    BY <1>13
  <2>2. one \subseteq rest
    OBVIOUS
  <2>3. SpentBut(c, mode, one)
    BY <1>12
  <2>4. IsList(L)
    BY <1>10, <1>14, ListConcat
  <2> HIDE DEF both, rest, one, mode
  <2>5. SpentBut(M \o c, mode, rest)
    BY <1>10, <1>14, <2>1, <2>2, <2>3, SpentConcat
  <2> QED BY <2>4, <2>5
<1>16. \E i \in 1 .. Len(L) : L[i].op = "ffn_hidden_activation_tile_setup"
  <2>1. (\A i \in 1 .. Len(M) : L[i] = M[i]) /\ Len(L) = Len(M) + Len(c)
    BY <1>10, <1>14, ListConcat
  <2> HIDE DEF L
  <2>2. 1 \in 1 .. Len(A) /\ 1 \in 1 .. Len(M) /\ 1 \in 1 .. Len(L)
    BY <1>2, <1>6, <1>7, <1>10, <1>m, <1>n, <2>1
  <2>3. L[1] = Setup(1)
    BY <1>6, <1>m, <2>1, <2>2
  <2>4. L[1].op = "ffn_hidden_activation_tile_setup"
    BY <1>4, <2>3 DEF Shape
  <2> QED BY <2>2, <2>4
<1> HIDE DEF L
<1> QED BY <1>1, <1>15, <1>16 DEF residents, H

LEMMA FFNSpent ==
  ASSUME NEW m, IsList(TileRanges(m.hidden_size, m.ffn_activation_tile_size)),
         Len(TileRanges(m.hidden_size, m.ffn_activation_tile_size)) > 0
  PROVE  /\ SpentBut(FFN(m), "feed_forward", {Whole("hidden_out")})
         /\ \E i \in 1 .. Len(FFN(m)) : FFN(m)[i].op = "ffn_hidden_activation_tile_setup"
<1> DEFINE O == FFNOperands(m)
           base == Len(O) - 1
           up == WeightId(O, "up_weight")
           gate == WeightId(O, "gate_weight")
           down == WeightId(O, "down_weight")
           middle == IF m.ffn_variant \in Gated THEN FFNGated(m, base, up, gate) ELSE FFNRelu(m, base, up)
           inner == O \o middle
           next == Len(inner)
           I == Whole("intermediate")
           B == Placed(Whole("intermediate"), "bank_local")
           R(name) == Resident(name, 0)
           H == Whole("hidden.reused")
           D == Whole("hidden_out")
           r1 == Residency(next, "ffn_intermediate_bank_local_residency", I, B, {next - 1})
           r2 == FFNProjection(m, next + 1, "ffn_down_projection", B, "down_weight", D, {next, down})
           last == <<r1, r2>>
           mode == "feed_forward"
           made == {H} \cup FFNResidents(m)
           out1 == {I}
           then == {I, R("down_weight")}
           out2 == {D}
<1>1. FFN(m) = inner \o last
  BY DEF FFN
<1>2. IsList(O) /\ SpentBut(O, mode, made) /\ \E i \in 1 .. Len(O) : O[i].op = "ffn_hidden_activation_tile_setup"
  BY FFNOperandsSpent
<1>3. \A t \in FFNResidents(m) : t \in {R("up_weight"), R("down_weight")} \/ (m.ffn_variant \in Gated /\ t = R("gate_weight"))
  <2>1. CASE m.ffn_variant \in Gated
    <3> DEFINE w == <<"up_weight", "gate_weight", "down_weight">>
    <3>1. FFNWeights(m) = w
      BY <2>1 DEF FFNWeights
    <3>2. IsList(w) /\ Len(w) = 3 /\ w[1] = "up_weight" /\ w[2] = "gate_weight" /\ w[3] = "down_weight"
      BY ListOfThree
    <3> HIDE DEF w, R
    <3>3. \A i \in 1 .. 3 : i = 1 \/ i = 2 \/ i = 3
      OBVIOUS
    <3> QED BY <2>1, <3>1, <3>2, <3>3 DEF FFNResidents, R
  <2>2. CASE m.ffn_variant \notin Gated
    <3> DEFINE w == <<"up_weight", "down_weight">>
    <3>1. FFNWeights(m) = w
      BY <2>2 DEF FFNWeights
    <3>2. IsList(w) /\ Len(w) = 2 /\ w[1] = "up_weight" /\ w[2] = "down_weight"
      BY ListOfTwo
    <3> HIDE DEF w, R
    <3>3. \A i \in 1 .. 2 : i = 1 \/ i = 2
      OBVIOUS
    <3> QED BY <2>2, <3>1, <3>2, <3>3 DEF FFNResidents, R
  <2> QED BY <2>1, <2>2
<1>4. /\ IsList(middle) /\ SpentBut(middle, mode, out1)
      /\ TakenFrom(middle, mode, H) /\ TakenFrom(middle, mode, R("up_weight"))
      /\ m.ffn_variant \in Gated => TakenFrom(middle, mode, R("gate_weight"))
  <2>1. CASE m.ffn_variant \in Gated
    <3>1. middle = FFNGated(m, base, up, gate)
      BY <2>1
    <3> HIDE DEF middle, base, up, gate
    <3> QED BY <3>1, GatedSpent
  <2>2. CASE m.ffn_variant \notin Gated
    <3>1. middle = FFNRelu(m, base, up)
      BY <2>2
    <3> HIDE DEF middle, base, up
    <3> QED BY <2>2, <3>1, ReluSpent
  <2> QED BY <2>1, <2>2
<1> HIDE DEF O, middle
<1>5. \A t \in made : t \in then \/ TakenFrom(middle, mode, t)
  <2> HIDE DEF R, H
  <2> QED BY <1>3, <1>4
<1>6. out1 \subseteq then
  OBVIOUS
<1>7. IsList(inner) /\ SpentBut(inner, mode, then)
  <2>1. IsList(inner)
    BY <1>2, <1>4, ListConcat
  <2> HIDE DEF made, then, out1, mode
  <2>2. SpentBut(O \o middle, mode, then)
    BY <1>2, <1>4, <1>5, <1>6, SpentConcat
  <2> QED BY <2>1, <2>2
<1>i. (\A i \in 1 .. Len(O) : inner[i] = O[i]) /\ Len(inner) = Len(O) + Len(middle) /\ Len(O) \in Nat /\ Len(middle) \in Nat
  BY <1>2, <1>4, ListConcat, ListIs
<1>s1. Shape(r1, next, "PIMOperandResidency", "ffn_intermediate_bank_local_residency", {I}, {B}, {next - 1})
  BY RecordShape DEF Residency
<1>s2. Shape(r2, next + 1, "FFNProjection", "ffn_down_projection", {B, R("down_weight")}, {D}, {next, down})
  BY RecordShape DEF FFNProjection
<1> HIDE DEF r1, r2, inner
<1>8. IsList(last) /\ Len(last) = 2 /\ last[1] = r1 /\ last[2] = r2
  BY ListOfTwo
<1> HIDE DEF last, I, B, R, D
<1>9. /\ r1.inputs = {I} /\ r1.outputs = {B} /\ r1.op = "ffn_intermediate_bank_local_residency"
      /\ r2.inputs = {B, R("down_weight")} /\ r2.outputs = {D} /\ r2.op = "ffn_down_projection"
  BY <1>s1, <1>s2 DEF Shape
<1>10. ~IsRewired(mode, r1.op) /\ ~IsRewired(mode, r2.op)
  BY <1>9 DEF IsRewired
<1>11. \A j : j \in 1 .. Len(last) <=> j = 1 \/ j = 2
  BY <1>8
<1>12. TakenFrom(last, mode, I) /\ TakenFrom(last, mode, B) /\ TakenFrom(last, mode, R("down_weight"))
  BY <1>8, <1>9, <1>10, <1>11 DEF TakenFrom
<1>13. SpentBut(last, mode, out2)
  BY <1>8, <1>9, <1>11, <1>12 DEF SpentBut
<1>14. \A t \in then : t \in out2 \/ TakenFrom(last, mode, t)
  BY <1>12
<1>15. SpentBut(inner \o last, mode, out2)
  <2>1. out2 \subseteq out2
    OBVIOUS
  <2> HIDE DEF then, out2, mode
  <2> QED BY <1>7, <1>8, <1>13, <1>14, <2>1, SpentConcat
<1>16. \E i \in 1 .. Len(inner \o last) : (inner \o last)[i].op = "ffn_hidden_activation_tile_setup"
  <2>1. PICK i \in 1 .. Len(O) : O[i].op = "ffn_hidden_activation_tile_setup"
    BY <1>2
  <2>2. (\A j \in 1 .. Len(inner) : (inner \o last)[j] = inner[j]) /\ Len(inner \o last) = Len(inner) + Len(last)
    BY <1>7, <1>8, ListConcat
  <2>3. i \in 1 .. Len(inner) /\ i \in 1 .. Len(inner \o last)
    BY <1>8, <1>i, <2>2
  <2> QED BY <1>i, <2>1, <2>2, <2>3
<1> QED BY <1>1, <1>15, <1>16 DEF D

(***************************************************************************)
(* The same for a mixture of experts, said of the shapes of its records.   *)
(***************************************************************************)
SpentShapes(S, mode, T) == \A s \in S : \A t \in s[3] : t \in T \/ TakenIn(S, mode, t)

LEMMA SpentAsShapes ==
  ASSUME NEW L, Numbered(L), NEW mode, NEW T
  PROVE  SpentBut(L, mode, T) <=> SpentShapes(Shapes(L), mode, T)
<1>1. \A s : s \in Shapes(L) <=> \E i \in 1 .. Len(L) : s = ShapeIn(<<>>, L, i)
  BY ShapesAre
<1>2. \A k : /\ ShapeIn(<<>>, L, k)[1] = L[k].op /\ ShapeIn(<<>>, L, k)[2] = L[k].inputs
             /\ ShapeIn(<<>>, L, k)[3] = L[k].outputs
  BY DEF ShapeIn
<1>3. \A t : TakenIn(Shapes(L), mode, t) <=> TakenFrom(L, mode, t)
  <2>1. ASSUME NEW t, TakenIn(Shapes(L), mode, t) PROVE TakenFrom(L, mode, t)
    <3>1. PICK u \in Shapes(L) : ~IsRewired(mode, u[1]) /\ t \in u[2]
      BY <2>1 DEF TakenIn
    <3>2. PICK k \in 1 .. Len(L) : u = ShapeIn(<<>>, L, k)
      BY <1>1
    <3> QED BY <1>2, <3>1, <3>2 DEF TakenFrom
  <2>2. ASSUME NEW t, TakenFrom(L, mode, t) PROVE TakenIn(Shapes(L), mode, t)
    <3>1. PICK k \in 1 .. Len(L) : ~IsRewired(mode, L[k].op) /\ t \in L[k].inputs
      BY <2>2 DEF TakenFrom
    <3>2. ShapeIn(<<>>, L, k) \in Shapes(L)
      BY <1>1
    <3> QED BY <1>2, <3>1, <3>2 DEF TakenIn
  <2> QED BY <2>1, <2>2
<1>4. ASSUME SpentBut(L, mode, T) PROVE SpentShapes(Shapes(L), mode, T)
  <2> SUFFICES ASSUME NEW s \in Shapes(L), NEW t \in s[3] PROVE t \in T \/ TakenFrom(L, mode, t)
    BY <1>3 DEF SpentShapes
  <2>1. PICK i \in 1 .. Len(L) : s = ShapeIn(<<>>, L, i)
    BY <1>1
  <2> QED BY <1>2, <1>4, <2>1 DEF SpentBut
<1>5. ASSUME SpentShapes(Shapes(L), mode, T) PROVE SpentBut(L, mode, T)
  <2> SUFFICES ASSUME NEW i \in 1 .. Len(L), NEW t \in L[i].outputs PROVE t \in T \/ TakenIn(Shapes(L), mode, t)
    BY <1>3 DEF SpentBut
  <2>1. ShapeIn(<<>>, L, i) \in Shapes(L)
    BY <1>1
  <2> QED BY <1>2, <1>5, <2>1 DEF SpentShapes
<1> QED BY <1>4, <1>5

LEMMA RoutingSpent ==
  ASSUME NEW m
  PROVE  LET S == Shapes(Routing(m))
         IN  /\ SpentShapes(S, "feed_forward", {Whole("dispatched")})
             /\ \E s \in S : s[1] = "moe_router_input_setup"
<1> DEFINE HI == Whole("hidden")
           RI == Whole("router_input")
           W0 == Tensor("router_weight", 0, 0, 0)
           RW == Resident("router_weight", 0)
           RL == Whole("router_logits")
           RV == Visible(Whole("router_logits"))
           TK == Whole("topk_experts")
           DA == Whole("dispatch_accounted")
           DI == Whole("dispatched")
           r1 == DynamicMove(0, "moe_router_input_setup", Whole("hidden"), Whole("router_input"), {})
           r2 == WeightMove(1, "router_weight", 0)
           r3 == MoECompute(m, 2, "MoERouter", "moe_router_projection",
                            {Whole("router_input"), Resident("router_weight", 0)},
                            Whole("router_logits"), {0, 1}, m.num_experts, m.hidden_size)
           r4 == Residency(3, "moe_router_logits_residency", Whole("router_logits"),
                           Visible(Whole("router_logits")), {2})
           r5 == Accounting(4, "MoETopK", {Visible(Whole("router_logits"))}, Whole("topk_experts"), {3})
           r6 == Accounting(5, "MoEDispatch", {Whole("hidden"), Whole("topk_experts")},
                            Whole("dispatch_accounted"), {4})
           r7 == DynamicMove(6, "moe_token_dispatch_materialized", Whole("dispatch_accounted"),
                             Whole("dispatched"), {5})
           c == <<r1, r2, r3, r4, r5, r6, r7>>
<1>1. Routing(m) = c
  BY DEF Routing
<1>s1. Shape(r1, 0, "PIMDataMove", "moe_router_input_setup", {HI}, {RI}, {})
  BY RecordShape DEF DynamicMove
<1>s2. Shape(r2, 1, "PIMDataMove", "weight_residency", {W0}, {RW}, {})
  BY RecordShape DEF WeightMove
<1>s3. Shape(r3, 2, "MoERouter", "moe_router_projection", {RI, RW}, {RL}, {0, 1})
  BY RecordShape DEF MoECompute
<1>s4. Shape(r4, 3, "PIMOperandResidency", "moe_router_logits_residency", {RL}, {RV}, {2})
  BY RecordShape DEF Residency
<1>s5. Shape(r5, 4, "MoETopK", "MoETopK", {RV}, {TK}, {3})
  BY RecordShape DEF Accounting
<1>s6. Shape(r6, 5, "MoEDispatch", "MoEDispatch", {HI, TK}, {DA}, {4})
  BY RecordShape DEF Accounting
<1>s7. Shape(r7, 6, "PIMDataMove", "moe_token_dispatch_materialized", {DA}, {DI}, {5})
  BY RecordShape DEF DynamicMove
<1> HIDE DEF r1, r2, r3, r4, r5, r6, r7
<1>2. /\ IsList(c) /\ Len(c) = 7
      /\ c[1] = r1 /\ c[2] = r2 /\ c[3] = r3 /\ c[4] = r4 /\ c[5] = r5 /\ c[6] = r6 /\ c[7] = r7
  <2>1. c \in Seq({r1, r2, r3, r4, r5, r6, r7}) /\ Len(c) = 7
    OBVIOUS
  <2> QED BY <2>1 DEF IsList
<1> HIDE DEF c, HI, RI, W0, RW, RL, RV, TK, DA, DI
<1>3. /\ r1.outputs = {RI} /\ r2.outputs = {RW} /\ r3.outputs = {RL} /\ r4.outputs = {RV} /\ r5.outputs = {TK}
      /\ r6.outputs = {DA} /\ r7.outputs = {DI}
  BY <1>s1, <1>s2, <1>s3, <1>s4, <1>s5, <1>s6, <1>s7 DEF Shape
<1>4. RI \in r3.inputs /\ RW \in r3.inputs /\ RL \in r4.inputs /\ RV \in r5.inputs /\ TK \in r6.inputs /\ DA \in r7.inputs
  BY <1>s3, <1>s4, <1>s5, <1>s6, <1>s7 DEF Shape
<1>5. /\ r1.op = "moe_router_input_setup" /\ r3.op = "moe_router_projection" /\ r4.op = "moe_router_logits_residency"
      /\ r5.op = "MoETopK" /\ r6.op = "MoEDispatch" /\ r7.op = "moe_token_dispatch_materialized"
  BY <1>s1, <1>s3, <1>s4, <1>s5, <1>s6, <1>s7 DEF Shape
<1>6. /\ ~IsRewired("feed_forward", r3.op) /\ ~IsRewired("feed_forward", r4.op) /\ ~IsRewired("feed_forward", r5.op)
      /\ ~IsRewired("feed_forward", r6.op) /\ ~IsRewired("feed_forward", r7.op)
  BY <1>5 DEF IsRewired
<1>7. \A j : j \in 1 .. Len(c) <=> j \in {1, 2, 3, 4, 5, 6, 7}
  BY <1>2
<1>8. \A t : (t \in r3.inputs \/ t \in r4.inputs \/ t \in r5.inputs \/ t \in r6.inputs \/ t \in r7.inputs)
               => TakenFrom(c, "feed_forward", t)
  BY <1>2, <1>6, <1>7 DEF TakenFrom
<1>9. ASSUME NEW i \in 1 .. Len(c), NEW t \in c[i].outputs PROVE t \in {DI} \/ TakenFrom(c, "feed_forward", t)
  <2>1. t \in {RI, RW, RL, RV, TK, DA, DI}
    BY <1>2, <1>3, <1>7, <1>9
  <2> QED BY <1>4, <1>8, <2>1
<1>10. SpentBut(c, "feed_forward", {DI})
  BY <1>9 DEF SpentBut
<1>11. Numbered(c)
  BY <1>1, RoutingNumbered
<1> DEFINE mode == "feed_forward"
           ends == {DI}
<1>12. SpentShapes(Shapes(c), mode, ends)
  <2>1. SpentBut(c, mode, ends)
    BY <1>10
  <2> HIDE DEF mode, ends
  <2> QED BY <1>11, <2>1, SpentAsShapes
<1>13. \E s \in Shapes(c) : s[1] = "moe_router_input_setup"
  <2>1. ShapeIn(<<>>, c, 1) \in Shapes(c)
    BY <1>7, <1>11, ShapesAre
  <2>2. ShapeIn(<<>>, c, 1)[1] = c[1].op
    BY DEF ShapeIn
  <2> QED BY <1>2, <1>5, <2>1, <2>2
<1> QED BY <1>1, <1>12, <1>13 DEF DI

LEMMA ExpertSpent ==
  ASSUME NEW e
  PROVE  LET S == ExpertShapes(e)
             V == Visible(Tensor("expert_output", e, 0, 0))
         IN  /\ SpentShapes(S, "feed_forward", {V}) /\ TakenIn(S, "feed_forward", Whole("dispatched"))
             /\ \E s \in S : s[1] = "expert_output_residency" /\ V \in s[3]
<1> DEFINE DI == Whole("dispatched")
           Wup == Tensor("expert_up_weight", e, 0, 0)
           Rup == Resident("expert_up_weight", e)
           Wgate == Tensor("expert_gate_weight", e, 0, 0)
           Rgate == Resident("expert_gate_weight", e)
           Wdown == Tensor("expert_down_weight", e, 0, 0)
           Rdown == Resident("expert_down_weight", e)
           U == Tensor("expert_up", e, 0, 0)
           G == Tensor("expert_gate", e, 0, 0)
           A == Tensor("expert_activated", e, 0, 0)
           P == Tensor("expert_gated", e, 0, 0)
           B == Placed(Tensor("expert_gated", e, 0, 0), "bank_local")
           O == Tensor("expert_output", e, 0, 0)
           V == Visible(Tensor("expert_output", e, 0, 0))
           x1 == <<"weight_residency", {Wup}, {Rup}, {}>>
           x2 == <<"moe_expert_projection", {DI, Rup}, {U}, {DI, Rup}>>
           x3 == <<"weight_residency", {Wgate}, {Rgate}, {}>>
           x4 == <<"moe_expert_projection", {DI, Rgate}, {G}, {DI, Rgate}>>
           x5 == <<"weight_residency", {Wdown}, {Rdown}, {}>>
           x6 == <<"gate_activation", {G}, {A}, {G}>>
           x7 == <<"gated_multiply", {A, U}, {P}, {A, U}>>
           x8 == <<"expert_intermediate_residency", {P}, {B}, {P}>>
           x9 == <<"moe_expert_projection", {B, Rdown}, {O}, {B, Rdown}>>
           x10 == <<"expert_output_residency", {O}, {V}, {O}>>
           S == ExpertShapes(e)
<1>1. S = {x1, x2, x3, x4, x5, x6, x7, x8, x9, x10}
  BY DEF ExpertShapes
<1> HIDE DEF S, DI, Wup, Rup, Wgate, Rgate, Wdown, Rdown, U, G, A, P, B, O, V
<1>2. /\ x1[3] = {Rup} /\ x2[3] = {U} /\ x3[3] = {Rgate} /\ x4[3] = {G} /\ x5[3] = {Rdown} /\ x6[3] = {A}
      /\ x7[3] = {P} /\ x8[3] = {B} /\ x9[3] = {O} /\ x10[3] = {V}
  OBVIOUS
<1>3. /\ DI \in x2[2] /\ Rup \in x2[2] /\ Rgate \in x4[2] /\ G \in x6[2] /\ A \in x7[2] /\ U \in x7[2]
      /\ P \in x8[2] /\ B \in x9[2] /\ Rdown \in x9[2] /\ O \in x10[2]
  OBVIOUS
<1>4. /\ x2[1] = "moe_expert_projection" /\ x4[1] = "moe_expert_projection" /\ x6[1] = "gate_activation"
      /\ x7[1] = "gated_multiply" /\ x8[1] = "expert_intermediate_residency" /\ x9[1] = "moe_expert_projection"
      /\ x10[1] = "expert_output_residency"
  OBVIOUS
<1> HIDE DEF x1, x2, x3, x4, x5, x6, x7, x8, x9, x10
<1>5. \A s \in {x2, x4, x6, x7, x8, x9, x10} : ~IsRewired("feed_forward", s[1])
  BY <1>4 DEF IsRewired
<1>6. \A s \in {x2, x4, x6, x7, x8, x9, x10} : \A t \in s[2] : TakenIn(S, "feed_forward", t)
  BY <1>1, <1>5 DEF TakenIn
<1>7. \A t \in {DI, Rup, Rgate, G, A, U, P, B, Rdown, O} : TakenIn(S, "feed_forward", t)
  BY <1>3, <1>6
<1>8. ASSUME NEW s \in S, NEW t \in s[3] PROVE t \in {V} \/ TakenIn(S, "feed_forward", t)
  <2>1. t \in {Rup, U, Rgate, G, Rdown, A, P, B, O, V}
    BY <1>1, <1>2
  <2> QED BY <1>7, <2>1
<1>9. x10 \in S /\ x10[1] = "expert_output_residency" /\ V \in x10[3]
  BY <1>1, <1>2, <1>4
<1>10. TakenIn(S, "feed_forward", DI)
  BY <1>7
<1> QED BY <1>8, <1>9, <1>10 DEF SpentShapes, V, DI, S

LEMMA MoESpent ==
  ASSUME NEW m, IsList(m.selected_experts), Len(m.selected_experts) > 0
  PROVE  /\ SpentBut(MoE(m), "feed_forward", {Placed(Whole("combined"), "materialized")})
         /\ \E i \in 1 .. Len(MoE(m)) : MoE(m)[i].op = "moe_router_input_setup"
<1> DEFINE q == m.selected_experts
           n == Len(q)
           routing == Shapes(Routing(m))
           E(i) == ExpertShapes(q[i])
           V(i) == Visible(Tensor("expert_output", q[i], 0, 0))
           A == routing \cup UNION {E(i) : i \in 1 .. n}
           made == MadeBy(A, "expert_output_residency")
           C == Whole("combined")
           D == Placed(Whole("combined"), "materialized")
           DI == Whole("dispatched")
           x1 == <<"MoECombine", made, {C}, made>>
           x2 == <<"moe_expert_output_combine_materialized", {C}, {D}, {C}>>
           S == Shapes(MoE(m))
           mode == "feed_forward"
           ends == {D}
<1>1. Numbered(MoE(m)) /\ S = Combined(A)
  BY MoEShapes
<1>2. S = A \cup {x1, x2}
  BY <1>1 DEF Combined
<1>3. 1 \in 1 .. n
  BY ListIs
<1>4. SpentShapes(routing, mode, {DI}) /\ \E s \in routing : s[1] = "moe_router_input_setup"
  BY RoutingSpent
<1>5. \A i : /\ SpentShapes(E(i), mode, {V(i)}) /\ TakenIn(E(i), mode, DI)
             /\ \E s \in E(i) : s[1] = "expert_output_residency" /\ V(i) \in s[3]
  BY ExpertSpent
<1>6. /\ x1[1] = "MoECombine" /\ x1[2] = made /\ x1[3] = {C}
      /\ x2[1] = "moe_expert_output_combine_materialized" /\ x2[2] = {C} /\ x2[3] = {D}
  OBVIOUS
<1>7. \A t : t \in made <=> \E s \in A : s[1] = "expert_output_residency" /\ t \in s[3]
  BY DEF MadeBy
<1>8. ~IsRewired(mode, x1[1]) /\ ~IsRewired(mode, x2[1])
  BY <1>6 DEF IsRewired
<1> HIDE DEF x1, x2, made, C, D, DI, mode, routing, E, V, n
<1>9. \A s : s \in A <=> s \in routing \/ \E i \in 1 .. n : s \in E(i)
  OBVIOUS
<1> HIDE DEF A, S
<1>10. (\A t \in made : TakenIn(S, mode, t)) /\ TakenIn(S, mode, C)
  BY <1>2, <1>6, <1>8 DEF TakenIn
<1>11. \A i \in 1 .. n : V(i) \in made
  BY <1>5, <1>7, <1>9
<1>12. \A t : (\/ TakenIn(routing, mode, t) \/ \E i \in 1 .. n : TakenIn(E(i), mode, t)) => TakenIn(S, mode, t)
  BY <1>2, <1>9 DEF TakenIn
<1>13. ASSUME NEW s \in S, NEW t \in s[3] PROVE t \in ends \/ TakenIn(S, mode, t)
  <2>1. CASE s \in routing
    <3>1. t = DI \/ TakenIn(routing, mode, t)
      BY <1>4, <1>13, <2>1 DEF SpentShapes
    <3>2. TakenIn(S, mode, DI)
      BY <1>3, <1>5, <1>12
    <3> QED BY <1>12, <3>1, <3>2
  <2>2. ASSUME NEW i \in 1 .. n, s \in E(i) PROVE TakenIn(S, mode, t)
    <3>1. t = V(i) \/ TakenIn(E(i), mode, t)
      BY <1>5, <1>13, <2>2 DEF SpentShapes
    <3> QED BY <1>10, <1>11, <1>12, <3>1
  <2>3. CASE s = x1
    BY <1>6, <1>10, <1>13, <2>3
  <2>4. CASE s = x2
    BY <1>6, <1>13, <2>4
  <2> QED BY <1>2, <1>9, <2>1, <2>2, <2>3, <2>4
<1>14. SpentBut(MoE(m), mode, ends)
  <2>1. SpentShapes(Shapes(MoE(m)), mode, ends)
    BY <1>13 DEF SpentShapes, S
  <2> HIDE DEF ends
  <2> QED BY <1>1, <2>1, SpentAsShapes
<1>15. \E i \in 1 .. Len(MoE(m)) : MoE(m)[i].op = "moe_router_input_setup"
  <2>1. PICK s \in routing : s[1] = "moe_router_input_setup"
    BY <1>4
  <2>2. s \in Shapes(MoE(m))
    BY <1>2, <1>9 DEF S
  <2>3. PICK i \in 1 .. Len(MoE(m)) : s = ShapeIn(<<>>, MoE(m), i)
    BY <1>1, <2>2, ShapesAre
  <2>4. ShapeIn(<<>>, MoE(m), i)[1] = MoE(m)[i].op
    BY DEF ShapeIn
  <2> QED BY <2>1, <2>3, <2>4
<1> QED BY <1>14, <1>15 DEF mode, D

(***************************************************************************)
(* The blocks but attention: what each uses of what was owed to it.        *)
(***************************************************************************)
LEMMA FreeResults ==
  ASSUME NEW moe, NEW l
  PROVE  Free(moe, ResultOf(moe, l)) /\ Free(moe, Cached("K", l)) /\ Free(moe, Cached("V", l))
<1>1. ASSUME NEW name, NEW place, NEW t, t = [Placed(Whole(name), place) EXCEPT !.layer = l] PROVE t.layer = l
  <2> DEFINE u == Placed(Whole(name), place)
  <2>1. IsTensor(u)
    BY WholeShape DEF OfShape
  <2> HIDE DEF u
  <2>2. t = [u EXCEPT !.layer = l]
    BY <1>1 DEF u
  <2> QED BY <2>1, <2>2 DEF IsTensor
<1>2. ResultOf(moe, l).layer = l
  <2> DEFINE name == IF moe THEN "combined" ELSE "hidden_out"
             place == IF moe THEN "materialized" ELSE "plain"
  <2>1. ResultOf(moe, l) = [Placed(Whole(name), place) EXCEPT !.layer = l]
    BY DEF ResultOf
  <2> HIDE DEF name, place
  <2> QED BY <1>1, <2>1
<1>3. \A name : Cached(name, l).layer = l
  BY <1>1 DEF Cached
<1> QED BY <1>2, <1>3 DEF Free

(* What the moved block makes is taken by it, but for the T it ends with.  *)
LEMMA LiftedSpentBut ==
  ASSUME NEW L, NEW mode, NEW G, NEW n, NEW l, IsLift(G, L, n, l), NEW T, SpentBut(L, mode, T),
         NEW C, Keeps(C, G, mode), NEW j \in 1 .. Len(C), NEW t \in C[j].outputs
  PROVE  Used(C, t) \/ \E u \in T : t = Moved(l, u)
<1>1. Len(C) = Len(L) /\ Len(G) = Len(L)
  BY DEF Keeps, IsLift
<1>2. /\ \A i \in 1 .. Len(L) : /\ G[i].op = L[i].op /\ G[i].inputs = {Moved(l, u) : u \in L[i].inputs}
                                /\ G[i].outputs = {Moved(l, u) : u \in L[i].outputs}
  BY LiftedFields
<1>3. j \in 1 .. Len(L) /\ t \in G[j].outputs
  BY <1>1, <1>2 DEF Keeps
<1>4. PICK u \in L[j].outputs : t = Moved(l, u)
  BY <1>2, <1>3
<1>5. CASE u \in T
  BY <1>4, <1>5
<1>6. CASE u \notin T
  <2>1. PICK k \in 1 .. Len(L) : ~IsRewired(mode, L[k].op) /\ u \in L[k].inputs
    BY <1>3, <1>4, <1>6 DEF SpentBut, TakenFrom
  <2>2. t \in G[k].inputs
    BY <1>2, <1>4, <2>1
  <2>3. C[k].inputs = G[k].inputs
    BY <1>1, <1>2, <2>1 DEF Keeps
  <2> QED BY <1>1, <2>1, <2>2, <2>3 DEF Used
<1> QED BY <1>5, <1>6

SetupOps == {"ffn_hidden_activation_tile_setup", "moe_router_input_setup"}

LEMMA FeedForwardSettles ==
  ASSUME NEW n, NEW L, NEW G, IsLift(G, L, n, layer), NEW result, SpentBut(L, "feed_forward", {result}),
         Moved(layer, result) = ResultOf(isMoE, layer), \E i \in 1 .. Len(L) : L[i].op \in SetupOps
  PROVE  Settles(isMoE, [i \in DOMAIN G |-> ConnectFeedForward(G[i])], {OfLayer("attention_output")}, {})
<1> DEFINE C == [i \in DOMAIN G |-> ConnectFeedForward(G[i])]
           A == OfLayer("attention_output")
           T == {result}
           mode == "feed_forward"
<1>1. IsList(G) /\ Len(G) = Len(L) /\ DOMAIN G = 1 .. Len(G) /\ Len(G) \in Nat
  BY ListIs DEF IsLift
<1>2. \A j \in 1 .. Len(G) : C[j] = ConnectFeedForward(G[j])
  BY <1>1
<1>3. IsList(C) /\ Len(C) = Len(G)
  <2>1. C = [i \in 1 .. Len(G) |-> C[i]]
    BY <1>1
  <2> HIDE DEF C
  <2> QED BY <1>1, <2>1, ListOfFunction
<1> HIDE DEF C
<1>4. ASSUME NEW j \in 1 .. Len(G)
      PROVE  /\ C[j].op = G[j].op /\ C[j].outputs = G[j].outputs
             /\ ~IsRewired(mode, G[j].op) => C[j].inputs = G[j].inputs
             /\ G[j].op \in SetupOps => C[j].inputs = {A}
  <2>1. IsRecord(G[j])
    BY <1>1 DEF IsLift, LiftOf, Shape
  <2>2. CASE G[j].op \in SetupOps
    <3> DEFINE ins == {OfLayer("attention_output")}
               deps == {ids.o}
    <3>1. C[j] = [G[j] EXCEPT !.inputs = ins, !.logical_dependencies = deps]
      BY <1>2, <2>2 DEF ConnectFeedForward, SetupOps
    <3>2. ins = {A}
      OBVIOUS
    <3>4. IsRewired(mode, G[j].op)
      BY <2>2 DEF IsRewired, SetupOps
    <3> DEFINE g == G[j]
               c == [g EXCEPT !.inputs = ins, !.logical_dependencies = deps]
    <3>5. C[j] = c /\ IsRecord(g)
      BY <2>1, <3>1
    <3> HIDE DEF ins, deps, A, g
    <3>3. Shape(c, g.record_id, g.kind, g.op, ins, g.outputs, deps)
      BY <3>5, Rewired
    <3> HIDE DEF c
    <3> QED BY <3>2, <3>3, <3>4, <3>5 DEF Shape, g
  <2>3. CASE G[j].op \notin SetupOps
    BY <1>2, <2>3 DEF ConnectFeedForward, SetupOps
  <2> QED BY <2>2, <2>3
<1>5. Keeps(C, G, mode)
  BY <1>3, <1>4 DEF Keeps
<1>6. Used(C, A)
  <2>1. PICK i \in 1 .. Len(L) : L[i].op \in SetupOps
    OBVIOUS
  <2>2. G[i].op = L[i].op
    BY <2>1, LiftedFields
  <2>3. i \in 1 .. Len(C) /\ C[i].inputs = {A}
    BY <1>1, <1>3, <1>4, <2>1, <2>2
  <2> QED BY <2>3 DEF Used
<1>7. ASSUME NEW j \in 1 .. Len(C), NEW t \in C[j].outputs PROVE Used(C, t) \/ Free(isMoE, t)
  <2>1. SpentBut(L, mode, T)
    OBVIOUS
  <2>2. \A u \in T : Moved(layer, u) = ResultOf(isMoE, layer)
    OBVIOUS
  <2> HIDE DEF T, mode
  <2>3. Used(C, t) \/ \E u \in T : t = Moved(layer, u)
    BY <1>5, <1>7, <2>1, LiftedSpentBut
  <2> QED BY <2>2, <2>3, FreeResults
<1> QED BY <1>6, <1>7 DEF Settles, C, A

LEMMA CacheWritesSettle ==
  ASSUME NEW n, NEW L, L \in {DecodeCacheWrites, PrefillCacheWrites}, NEW G, IsLift(G, L, n, layer)
  PROVE  LET C == [i \in DOMAIN G |-> ConnectCacheWrite(G[i])]
         IN  /\ Used(C, OfLayer("K")) /\ Used(C, OfLayer("V"))
             /\ \A j \in 1 .. Len(C) : \A t \in C[j].outputs : Free(isMoE, t)
<1> DEFINE C == [i \in DOMAIN G |-> ConnectCacheWrite(G[i])]
           KC == Placed(Whole("K"), "kv_cache")
           VC == Placed(Whole("V"), "kv_cache")
<1>1. \A id, op, name : CacheWrite(id, op, name).inputs = {Whole(name)}
                        /\ CacheWrite(id, op, name).outputs = {Placed(Whole(name), "kv_cache")}
  BY RecordShape DEF CacheWrite, Shape
<1>2. /\ Len(L) = 2 /\ L[1].inputs = {Whole("K")} /\ L[2].inputs = {Whole("V")}
      /\ L[1].outputs = {KC} /\ L[2].outputs = {VC}
  <2>1. ASSUME NEW a, NEW b PROVE LET c == <<CacheWrite(0, a, "K"), CacheWrite(1, b, "V")>>
                                  IN  /\ Len(c) = 2 /\ c[1].inputs = {Whole("K")} /\ c[2].inputs = {Whole("V")}
                                      /\ c[1].outputs = {KC} /\ c[2].outputs = {VC}
    BY <1>1, ListOfTwo
  <2> QED BY <2>1 DEF DecodeCacheWrites, PrefillCacheWrites
<1>3. IsList(G) /\ Len(G) = 2 /\ DOMAIN G = 1 .. 2
  BY <1>2, ListIs DEF IsLift
<1>4. ASSUME NEW j \in {1, 2}
      PROVE  /\ G[j].inputs = {Moved(layer, t) : t \in L[j].inputs} /\ G[j].outputs = {Moved(layer, t) : t \in L[j].outputs}
             /\ IsRecord(G[j])
  <2>1. j \in 1 .. Len(L)
    BY <1>2
  <2>2. LiftOf(G[j], L[j], n + j - 1, n, layer)
    BY <2>1 DEF IsLift
  <2> QED BY <2>2 DEF LiftOf, Shape
<1>5. \A j \in {1, 2} : C[j] = ConnectCacheWrite(G[j])
  BY <1>3
<1>6. IsList(C) /\ Len(C) = 2
  <2>1. C = [i \in 1 .. 2 |-> C[i]]
    BY <1>3
  <2> HIDE DEF C
  <2> QED BY <2>1, ListOfFunction
<1> HIDE DEF C, KC, VC
<1>7. ASSUME NEW j \in {1, 2} PROVE C[j].inputs = G[j].inputs /\ C[j].outputs = G[j].outputs
  <2> DEFINE deps == {IF G[j].op \in {"kv_cache_k_append", "kv_cache_k_prefill_population"} THEN ids.k ELSE ids.v}
  <2>1. C[j] = [G[j] EXCEPT !.logical_dependencies = deps]
    BY <1>5 DEF ConnectCacheWrite
  <2>2. IsRecord(G[j])
    BY <1>4
  <2> DEFINE g == G[j]
             c == [g EXCEPT !.logical_dependencies = deps]
  <2>3. C[j] = c
    BY <2>1
  <2> HIDE DEF deps, g
  <2>4. Shape(c, g.record_id, g.kind, g.op, g.inputs, g.outputs, deps)
    BY <2>2, ReplaceField DEF g
  <2> HIDE DEF c
  <2> QED BY <2>3, <2>4 DEF Shape, g
<1>8. C[1].inputs = {OfLayer("K")} /\ C[2].inputs = {OfLayer("V")}
  <2>1. C[1].inputs = {Moved(layer, t) : t \in L[1].inputs} /\ C[2].inputs = {Moved(layer, t) : t \in L[2].inputs}
    BY <1>4, <1>7
  <2>2. C[1].inputs = {Moved(layer, Whole("K"))} /\ C[2].inputs = {Moved(layer, Whole("V"))}
    BY <1>2, <2>1
  <2> QED BY <2>2, SourceIs
<1>9. C[1].outputs = {Cached("K", layer)} /\ C[2].outputs = {Cached("V", layer)}
  <2>1. C[1].outputs = {Moved(layer, t) : t \in L[1].outputs} /\ C[2].outputs = {Moved(layer, t) : t \in L[2].outputs}
    BY <1>4, <1>7
  <2>2. C[1].outputs = {Moved(layer, KC)} /\ C[2].outputs = {Moved(layer, VC)}
    BY <1>2, <2>1
  <2> QED BY <2>2, MovedIs DEF KC, VC
<1>10. \A j : j \in 1 .. Len(C) <=> j \in {1, 2}
  BY <1>6
<1>11. Used(C, OfLayer("K")) /\ Used(C, OfLayer("V"))
  BY <1>8, <1>10 DEF Used
<1>12. \A j \in 1 .. Len(C) : \A t \in C[j].outputs : Free(isMoE, t)
  BY <1>9, <1>10, FreeResults
<1> QED BY <1>11, <1>12 DEF C

(* The projections make what is owed after them.                           *)
LEMMA ProjectionsMake ==
  ASSUME NEW n, NEW m, NEW q_dim, NEW kv_dim, NEW G, IsLift(G, QKVProjections(m, q_dim, kv_dim), n, layer)
  PROVE  \A j \in 1 .. Len(G) : \A t \in G[j].outputs : t \in {OfLayer("Q"), OfLayer("K"), OfLayer("V")}
<1> DEFINE L == QKVProjections(m, q_dim, kv_dim)
           a == Projection(m, 0, "q_projection", Whole("hidden"), Whole("Q"), q_dim)
           b == Projection(m, 1, "k_projection", Whole("hidden"), Whole("K"), kv_dim)
           c == Projection(m, 2, "v_projection", Whole("hidden"), Whole("V"), kv_dim)
<1>1. \A id, op, input, output, dim : Projection(m, id, op, input, output, dim).outputs = {output}
  BY RecordShape DEF Projection, Shape
<1>2. L = <<a, b, c>>
  BY DEF QKVProjections
<1>3. a.outputs = {Whole("Q")} /\ b.outputs = {Whole("K")} /\ c.outputs = {Whole("V")}
  BY <1>1
<1> HIDE DEF a, b, c
<1>4. Len(L) = 3 /\ L[1].outputs = {Whole("Q")} /\ L[2].outputs = {Whole("K")} /\ L[3].outputs = {Whole("V")}
  BY <1>2, <1>3, ListOfThree
<1> HIDE DEF L
<1>5. ASSUME NEW j \in 1 .. Len(G), NEW t \in G[j].outputs PROVE t \in {OfLayer("Q"), OfLayer("K"), OfLayer("V")}
  <2>1. j \in 1 .. Len(L) /\ (j = 1 \/ j = 2 \/ j = 3)
    BY <1>4 DEF IsLift, L
  <2>2. G[j].outputs = {Moved(layer, u) : u \in L[j].outputs}
    BY <2>1, LiftedFields DEF L
  <2>3. PICK u \in L[j].outputs : t = Moved(layer, u)
    BY <1>5, <2>2
  <2>4. u = Whole("Q") \/ u = Whole("K") \/ u = Whole("V")
    BY <1>4, <2>1, <2>3
  <2> QED BY <2>3, <2>4, SourceIs
<1> QED BY <1>5

LEMMA OProjectionSettles ==
  ASSUME NEW n, NEW m, NEW q_dim, NEW G, IsLift(G, OProjection(m, q_dim), n, layer)
  PROVE  Settles(isMoE, <<ConnectOProjection(G[1])>>, ids.contexts, {OfLayer("attention_output")})
<1> DEFINE L == OProjection(m, q_dim)
           p == Projection(m, 0, "o_projection", Whole("attention_context"), Whole("attention_output"), q_dim)
           r == ConnectOProjection(G[1])
           W == Placed(OfLayer("o_projection"), "weight.resident")
           C == <<r>>
<1>1. L = <<p>> /\ p.outputs = {Whole("attention_output")}
  <2>1. Shape(p, 0, "FFNProjection", "o_projection",
              {Whole("attention_context"), Placed(Whole("o_projection"), "weight.resident")}, {Whole("attention_output")}, {})
    BY RecordShape DEF Projection
  <2> QED BY <2>1 DEF OProjection, Shape
<1> HIDE DEF p
<1>2. Len(L) = 1 /\ L[1].outputs = {Whole("attention_output")}
  BY <1>1, EmptyList, ListAppend
<1> HIDE DEF L
<1>3. IsRecord(G[1]) /\ G[1].outputs = {Moved(layer, u) : u \in L[1].outputs}
  <2>1. 1 \in 1 .. Len(L)
    BY <1>2
  <2>2. LiftOf(G[1], L[1], n + 1 - 1, n, layer)
    BY <2>1 DEF IsLift, L
  <2> QED BY <2>2 DEF LiftOf, Shape
<1>4. G[1].outputs = {OfLayer("attention_output")}
  <2>1. G[1].outputs = {Moved(layer, Whole("attention_output"))}
    BY <1>2, <1>3
  <2> QED BY <2>1, SourceIs
<1>5. Shape(r, G[1].record_id, G[1].kind, G[1].op, ids.contexts \cup {W}, G[1].outputs, ids.terminals)
  BY <1>3, Rewired DEF ConnectOProjection
<1> HIDE DEF r, W
<1>6. IsList(C) /\ Len(C) = 1 /\ C[1] = r
  BY EmptyList, ListAppend
<1> HIDE DEF C
<1>7. \A j : j \in 1 .. Len(C) <=> j = 1
  BY <1>6
<1>8. \A t \in ids.contexts : Used(C, t)
  BY <1>5, <1>6, <1>7 DEF Used, Shape
<1>9. \A j \in 1 .. Len(C) : \A t \in C[j].outputs : t \in {OfLayer("attention_output")}
  BY <1>4, <1>5, <1>6, <1>7 DEF Shape
<1> QED BY <1>8, <1>9 DEF Settles, C, r

LEMMA SingleMakes ==
  ASSUME NEW r, NEW kind, NEW op, Shape(r, 0, kind, op, {}, {}, {})
  PROVE  \A j \in 1 .. Len(RenumberRecords(<<r>>, next_id)) : RenumberRecords(<<r>>, next_id)[j].outputs = {}
<1> DEFINE C == RenumberRecords(<<r>>, next_id)
           F(i) == [<<r>>[i] EXCEPT !.record_id = next_id + i - 1,
                                    !.logical_dependencies = {next_id + d : d \in <<r>>[i].logical_dependencies}]
<1>1. C = [i \in 1 .. 1 |-> F(i)]
  BY DEF RenumberRecords
<1>2. <<r>>[1] = r
  OBVIOUS
<1>3. C = [i \in 1 .. 1 |-> C[i]] /\ C[1] = F(1)
  <2> HIDE DEF C, F
  <2> QED BY <1>1
<1>4. F(1).outputs = {}
  <2> DEFINE x == next_id + 1 - 1
             deps == {next_id + d : d \in r.logical_dependencies}
             q == [r EXCEPT !.record_id = x]
  <2>1. F(1) = [q EXCEPT !.logical_dependencies = deps]
    BY <1>2
  <2>2. IsRecord(r) /\ r.outputs = {}
    BY DEF Shape
  <2> HIDE DEF F, x, deps
  <2>3. Shape(q, x, r.kind, r.op, r.inputs, r.outputs, r.logical_dependencies)
    BY <2>2, ReplaceField
  <2> HIDE DEF q
  <2>4. IsRecord(q) /\ q.outputs = {}
    BY <2>2, <2>3 DEF Shape
  <2>5. Shape(F(1), q.record_id, q.kind, q.op, q.inputs, q.outputs, deps)
    BY <2>1, <2>4, ReplaceField
  <2> QED BY <2>4, <2>5 DEF Shape
<1> HIDE DEF C, F
<1>5. IsList(C) /\ Len(C) = 1
  BY <1>3, ListOfFunction
<1>6. \A j \in 1 .. Len(C) : j = 1
  BY <1>5
<1> QED BY <1>3, <1>4, <1>6 DEF C

(***************************************************************************)
(* The invariant: of all that was made, what is not taken yet is a result, *)
(* in the cache, or owed to the block that comes next.                     *)
(***************************************************************************)
Settled(moe, N, owed) ==
  \A i \in 1 .. Len(N) : \A t \in N[i].outputs : Used(N, t) \/ Free(moe, t) \/ t \in owed

Owed(at, l, contexts) ==
  IF at = "cache_writes"      THEN {Moved(l, Whole("Q")), Moved(l, Whole("K")), Moved(l, Whole("V"))}
  ELSE IF at = "attention"    THEN {Moved(l, Whole("Q"))}
  ELSE IF at = "o_projection" THEN contexts
  ELSE IF at = "feed_forward" THEN {Moved(l, Whole("attention_output"))}
  ELSE {}

UsedInv == Settled(isMoE, trace \o block, Owed(pc, layer, ids.contexts))

LEMMA SettledAppend ==
  ASSUME NEW moe, NEW M, NEW C, IsList(M), IsList(C), NEW owed, NEW then, Settled(moe, M, owed), Settles(moe, C, owed, then)
  PROVE  Settled(moe, M \o C, then)
<1> DEFINE N == M \o C
<1>1. /\ Len(N) = Len(M) + Len(C) /\ Len(M) \in Nat /\ Len(C) \in Nat
      /\ \A i \in 1 .. Len(M) : N[i] = M[i]
      /\ \A i \in 1 .. Len(C) : N[Len(M) + i] = C[i]
  BY ListConcat, ListIs
<1> HIDE DEF N
<1>2. \A t : Used(M, t) => Used(N, t)
  <2>1. \A k \in 1 .. Len(M) : k \in 1 .. Len(N) /\ N[k] = M[k]
    BY <1>1
  <2> QED BY <2>1 DEF Used
<1>3. \A t : Used(C, t) => Used(N, t)
  <2>1. \A k \in 1 .. Len(C) : Len(M) + k \in 1 .. Len(N) /\ N[Len(M) + k] = C[k]
    BY <1>1
  <2> QED BY <2>1 DEF Used
<1>4. ASSUME NEW i \in 1 .. Len(N), NEW t \in N[i].outputs PROVE Used(N, t) \/ Free(moe, t) \/ t \in then
  <2>1. CASE i <= Len(M)
    <3>1. i \in 1 .. Len(M) /\ t \in M[i].outputs
      BY <1>1, <1>4, <2>1
    <3>2. Used(M, t) \/ Free(moe, t) \/ t \in owed
      BY <3>1 DEF Settled
    <3>3. t \in owed => Used(C, t) \/ t \in then
      BY DEF Settles
    <3> QED BY <1>2, <1>3, <3>2, <3>3
  <2>2. CASE ~(i <= Len(M))
    <3>1. i - Len(M) \in 1 .. Len(C) /\ Len(M) + (i - Len(M)) = i
      BY <1>1, <2>2
    <3>2. t \in C[i - Len(M)].outputs
      BY <1>1, <1>4, <3>1
    <3>3. Used(C, t) \/ Free(moe, t) \/ t \in then
      BY <3>1, <3>2 DEF Settles
    <3> QED BY <1>3, <3>3
  <2> QED BY <2>1, <2>2
<1> QED BY <1>4 DEF Settled, N

LEMMA AfterUsed ==
  ASSUME IInv, UsedInv, IInv', block = <<>>, workload' = workload, trace' = trace,
         Settles(isMoE, block', Owed(pc, layer, ids.contexts), Owed(pc', layer', ids'.contexts))
  PROVE  UsedInv'
<1> DEFINE owed == Owed(pc, layer, ids.contexts)
           then == Owed(pc', layer', ids'.contexts)
<1>1. IsList(trace) /\ IsList(block') /\ isMoE' = isMoE
  BY DEF IInv, isMoE
<1>2. Settled(isMoE, trace, owed)
  <2>1. trace \o block = trace
    BY <1>1, ConcatEmpty
  <2> QED BY <2>1 DEF UsedInv
<1>3. Settles(isMoE, block', owed, then)
  OBVIOUS
<1> HIDE DEF owed, then
<1>4. Settled(isMoE, trace \o block', then)
  BY <1>1, <1>2, <1>3, SettledAppend
<1> QED BY <1>1, <1>4 DEF UsedInv, then

LEMMA InitUsed == Init => UsedInv
<1> SUFFICES ASSUME Init PROVE UsedInv
  OBVIOUS
<1>1. trace \o block = <<>>
  BY EmptyList, ConcatEmpty DEF Init
<1>2. \A i \in 1 .. Len(<<>>) : FALSE
  BY EmptyList
<1> QED BY <1>1, <1>2 DEF UsedInv, Settled

(* A barrier, or the drain, between the layers, where nothing is owed.     *)
LEMMA SingleUsed ==
  ASSUME IInv, UsedInv, IInv', block = <<>>, workload' = workload, trace' = trace,
         NEW r, NEW kind, NEW op, Shape(r, 0, kind, op, {}, {}, {}), block' = RenumberRecords(<<r>>, next_id),
         pc \in {"layer_start", "transition", "drain"}
  PROVE  UsedInv'
<1>1. Owed(pc, layer, ids.contexts) = {}
  BY DEF Owed
<1>2. \A j \in 1 .. Len(block') : block'[j].outputs = {}
  BY SingleMakes
<1>3. Settles(isMoE, block', Owed(pc, layer, ids.contexts), Owed(pc', layer', ids'.contexts))
  BY <1>1, <1>2 DEF Settles
<1> QED BY <1>3, AfterUsed

LEMMA LayerStartUsed == ASSUME IInv, UsedInv, LayerStart PROVE UsedInv'
<1> DEFINE r == Barrier("layer_start")
<1>1. /\ pc = "layer_start" /\ block = <<>> /\ block' = RenumberRecords(<<r>>, next_id)
      /\ workload' = workload /\ trace' = trace
  BY DEF LayerStart, Emit
<1>2. Shape(r, 0, "Barrier", "layer_start", {}, {}, {})
  BY RecordShape DEF Barrier
<1>3. IInv'
  BY LayerStartInv
<1> HIDE DEF r
<1> QED BY <1>1, <1>2, <1>3, SingleUsed

LEMMA LayerTransitionUsed == ASSUME IInv, UsedInv, LayerTransition PROVE UsedInv'
<1> DEFINE r == Barrier("layer_transition")
<1>1. /\ pc = "transition" /\ block = <<>> /\ block' = RenumberRecords(<<r>>, next_id)
      /\ workload' = workload /\ trace' = trace
  BY DEF LayerTransition, Emit
<1>2. Shape(r, 0, "Barrier", "layer_transition", {}, {}, {})
  BY RecordShape DEF Barrier
<1>3. IInv'
  BY LayerTransitionInv
<1> HIDE DEF r
<1> QED BY <1>1, <1>2, <1>3, SingleUsed

LEMMA FinalDrainUsed == ASSUME IInv, UsedInv, FinalDrain PROVE UsedInv'
<1>1. /\ pc = "drain" /\ block = <<>> /\ block' = RenumberRecords(<<Drain>>, next_id)
      /\ workload' = workload /\ trace' = trace
  BY DEF FinalDrain, Emit
<1>2. Shape(Drain, 0, "Drain", "final_drain", {}, {}, {})
  BY RecordShape DEF Drain
<1>3. IInv'
  BY FinalDrainInv
<1> QED BY <1>1, <1>2, <1>3, SingleUsed

LEMMA ProjectionsUsed == ASSUME IInv, UsedInv, Projections PROVE UsedInv'
<1> DEFINE kv_dim == attention.kv_heads * attention.head_dim
           L == QKVProjections(feedForward, QDim, kv_dim)
           G == Generated(L)
           outs == {OfLayer("Q"), OfLayer("K"), OfLayer("V")}
<1>1. /\ pc = "projections" /\ block = <<>> /\ block' = G /\ pc' = "cache_writes"
      /\ workload' = workload /\ trace' = trace /\ layer' = layer
  BY DEF Projections, Emit
<1>2. Good(L, "projections")
  <2>1. Len(<<>>) = 0 /\ Good(<<>>, "projections")
    BY EmptyList, GoodEmpty
  <2> HIDE DEF kv_dim
  <2>2. Fits(<<>>, L, {Whole("Q"), Whole("K"), Whole("V")}, "projections")
    BY <2>1, QKVFits
  <2> DEFINE made == {Whole("Q"), Whole("K"), Whole("V")}
  <2> HIDE DEF made, L
  <2> QED BY <2>2, FitsEmpty DEF made
<1>3. next_id \in Nat
  BY <1>1, BeforeBlock
<1> HIDE DEF kv_dim
<1>4. IsLift(G, L, next_id, layer)
  <2> HIDE DEF L
  <2> QED BY <1>2, <1>3, GeneratedIs
<1> HIDE DEF G
<1>5. \A j \in 1 .. Len(G) : \A t \in G[j].outputs : t \in outs
  BY <1>4, ProjectionsMake
<1>6. Owed(pc, layer, ids.contexts) = {} /\ Owed(pc', layer', ids'.contexts) = outs
  BY <1>1, SourceIs DEF Owed
<1>7. Settles(isMoE, block', Owed(pc, layer, ids.contexts), Owed(pc', layer', ids'.contexts))
  <2> HIDE DEF outs
  <2> QED BY <1>1, <1>5, <1>6 DEF Settles
<1>8. IInv'
  BY ProjectionsInv
<1> QED BY <1>1, <1>7, <1>8, AfterUsed

LEMMA CacheWritesUsed == ASSUME IInv, UsedInv, CacheWrites PROVE UsedInv'
<1> DEFINE L == IF isPrefill THEN PrefillCacheWrites ELSE DecodeCacheWrites
           G == Generated(L)
           C == [i \in DOMAIN G |-> ConnectCacheWrite(G[i])]
<1>1. L \in {DecodeCacheWrites, PrefillCacheWrites}
  OBVIOUS
<1>2. /\ pc = "cache_writes" /\ block = <<>> /\ block' = C /\ pc' = "attention"
      /\ workload' = workload /\ trace' = trace /\ layer' = layer
  BY DEF CacheWrites, Emit
<1> HIDE DEF L
<1>3. Good(L, "cache_writes")
  BY <1>1, CacheWritesAre
<1>4. next_id \in Nat
  BY <1>2, BeforeBlock
<1>5. IsLift(G, L, next_id, layer)
  BY <1>3, <1>4, GeneratedIs
<1> HIDE DEF G
<1>6. /\ Used(C, OfLayer("K")) /\ Used(C, OfLayer("V"))
      /\ \A j \in 1 .. Len(C) : \A t \in C[j].outputs : Free(isMoE, t)
  BY <1>1, <1>5, CacheWritesSettle
<1> HIDE DEF C
<1>7. /\ Owed(pc, layer, ids.contexts) = {OfLayer("Q"), OfLayer("K"), OfLayer("V")}
      /\ Owed(pc', layer', ids'.contexts) = {OfLayer("Q")}
  BY <1>2, SourceIs DEF Owed
<1>8. Settles(isMoE, block', Owed(pc, layer, ids.contexts), Owed(pc', layer', ids'.contexts))
  BY <1>2, <1>6, <1>7 DEF Settles
<1>9. IInv'
  BY CacheWritesInv
<1> QED BY <1>2, <1>8, <1>9, AfterUsed

LEMMA OutputProjectionUsed == ASSUME IInv, UsedInv, OutputProjection PROVE UsedInv'
<1> DEFINE L == OProjection(feedForward, QDim)
           G == Generated(L)
           C == <<ConnectOProjection(G[1])>>
           then == {OfLayer("attention_output")}
<1>1. /\ pc = "o_projection" /\ block = <<>> /\ block' = C /\ pc' = "feed_forward"
      /\ workload' = workload /\ trace' = trace /\ layer' = layer
  BY DEF OutputProjection, Emit
<1>2. Good(L, "o_projection")
  <2>1. Len(<<>>) = 0 /\ Good(<<>>, "o_projection")
    BY EmptyList, GoodEmpty
  <2>2. Fits(<<>>, L, {Whole("attention_output")}, "o_projection")
    BY <2>1, OProjectionFits
  <2> DEFINE made == {Whole("attention_output")}
  <2> HIDE DEF made, L
  <2> QED BY <2>2, FitsEmpty DEF made
<1>3. next_id \in Nat
  BY <1>1, BeforeBlock
<1>4. IsLift(G, L, next_id, layer)
  <2> HIDE DEF L
  <2> QED BY <1>2, <1>3, GeneratedIs
<1> HIDE DEF G
<1>5. Settles(isMoE, C, ids.contexts, then)
  BY <1>4, OProjectionSettles
<1>6. Owed(pc, layer, ids.contexts) = ids.contexts /\ Owed(pc', layer', ids'.contexts) = then
  BY <1>1, SourceIs DEF Owed
<1> HIDE DEF C, then
<1>7. Settles(isMoE, block', Owed(pc, layer, ids.contexts), Owed(pc', layer', ids'.contexts))
  BY <1>1, <1>5, <1>6
<1>8. IInv'
  BY OutputProjectionInv
<1> QED BY <1>1, <1>7, <1>8, AfterUsed

LEMMA FeedForwardUsed == ASSUME IInv, UsedInv, FeedForward PROVE UsedInv'
<1> DEFINE L == IF isMoE THEN MoE(feedForward) ELSE FFN(feedForward)
           G == Generated(L)
           C == [i \in DOMAIN G |-> ConnectFeedForward(G[i])]
           result == IF isMoE THEN Placed(Whole("combined"), "materialized") ELSE Whole("hidden_out")
           owed == {OfLayer("attention_output")}
<1>1. /\ pc = "feed_forward" /\ block = <<>> /\ block' = C /\ pc' = "transition"
      /\ workload' = workload /\ trace' = trace /\ layer' = layer
  BY DEF FeedForward, Emit
<1>w. workload \in Workloads /\ Supported(workload)
  BY DEF IInv, Accepted
<1>2. /\ Good(L, "feed_forward") /\ SpentBut(L, "feed_forward", {result})
      /\ \E i \in 1 .. Len(L) : L[i].op \in SetupOps
  <2>1. CASE isMoE
    <3>1. IsList(feedForward.selected_experts)
      BY <2>1, Manifests DEF IInv
    <3>2. Len(feedForward.selected_experts) > 0
      <4>1. ValidMoE(feedForward)
        BY <1>w, <2>1 DEF Supported, isMoE, feedForward
      <4> QED BY <4>1 DEF ValidMoE
    <3>3. Good(MoE(feedForward), "feed_forward")
      BY <3>1, MoEGood
    <3>4. /\ SpentBut(MoE(feedForward), "feed_forward", {Placed(Whole("combined"), "materialized")})
          /\ \E i \in 1 .. Len(MoE(feedForward)) : MoE(feedForward)[i].op = "moe_router_input_setup"
      BY <3>1, <3>2, MoESpent
    <3> QED BY <2>1, <3>3, <3>4 DEF SetupOps
  <2>2. CASE ~isMoE
    <3>1. feedForward.hidden_size \in Nat \ {0} /\ feedForward.ffn_activation_tile_size \in Nat \ {0}
      <4>1. feedForward.hidden_size \in Int /\ feedForward.ffn_activation_tile_size \in Int
        BY <1>w, <2>2, WorkloadsAssumption DEF isMoE, feedForward
      <4>2. ValidFFN(feedForward)
        BY <1>w, <2>2 DEF Supported, isMoE, feedForward
      <4>3. feedForward.hidden_size > 0 /\ feedForward.ffn_activation_tile_size > 0
        BY <4>2 DEF ValidFFN
      <4> QED BY <4>1, <4>3
    <3>2. /\ IsList(TileRanges(feedForward.hidden_size, feedForward.ffn_activation_tile_size))
          /\ Len(TileRanges(feedForward.hidden_size, feedForward.ffn_activation_tile_size)) > 0
      BY <3>1, TilesThere
    <3>3. Good(FFN(feedForward), "feed_forward")
      BY <3>2, FFNGood
    <3>4. /\ SpentBut(FFN(feedForward), "feed_forward", {Whole("hidden_out")})
          /\ \E i \in 1 .. Len(FFN(feedForward)) : FFN(feedForward)[i].op = "ffn_hidden_activation_tile_setup"
      BY <3>2, FFNSpent
    <3> QED BY <2>2, <3>3, <3>4 DEF SetupOps
  <2> QED BY <2>1, <2>2
<1>3. Moved(layer, result) = ResultOf(isMoE, layer)
  BY MovedIs DEF ResultOf
<1> HIDE DEF L, result
<1>4. next_id \in Nat
  BY <1>1, BeforeBlock
<1>5. IsLift(G, L, next_id, layer)
  BY <1>2, <1>4, GeneratedIs
<1> HIDE DEF G
<1>6. Settles(isMoE, C, owed, {})
  BY <1>2, <1>3, <1>5, FeedForwardSettles
<1>7. Owed(pc, layer, ids.contexts) = owed /\ Owed(pc', layer', ids'.contexts) = {}
  BY <1>1, SourceIs DEF Owed
<1> HIDE DEF C, owed
<1>8. Settles(isMoE, block', Owed(pc, layer, ids.contexts), Owed(pc', layer', ids'.contexts))
  BY <1>1, <1>6, <1>7
<1>9. IInv'
  BY FeedForwardInv
<1> QED BY <1>1, <1>8, <1>9, AfterUsed

LEMMA PrefillUsed ==
  ASSUME IInv, block = <<>>, pc = "attention", isPrefill
  PROVE  LET C == ConnectPrefillAttention(Generated(PrefillAttention(attention)))
         IN  Settles(isMoE, C, {OfLayer("Q")}, Contexts(C))
<1> DEFINE L == PrefillAttention(attention)
           G == Generated(L)
<1>1. /\ attention.num_heads \in Nat /\ attention.num_heads > 0
      /\ IsList(QueryTiles(attention)) /\ IsList(KeyTiles(attention))
  BY Manifests DEF IInv
<1>2. {attention.seq_len, attention.score_tile_tokens, attention.context_tile_tokens} \subseteq Nat \ {0}
  <2>1. workload \in Workloads /\ ValidAttention(attention)
    BY DEF IInv, Accepted, Supported, attention
  <2>2. attention.seq_len \in Int /\ attention.score_tile_tokens \in Int /\ attention.context_tile_tokens \in Int
    BY <2>1, WorkloadsAssumption DEF attention
  <2>3. attention.seq_len > 0 /\ attention.score_tile_tokens > 0 /\ attention.context_tile_tokens > 0
    BY <2>1 DEF ValidAttention
  <2> QED BY <2>2, <2>3
<1>3. Good(L, "prefill")
  BY <1>1, PrefillAttentionGood
<1>4. Numbered(L) /\ AttentionSpent(L, "prefill")
  <2>1. /\ Combines(Shapes(L), "prefill") /\ Numbered(L)
        /\ \E s \in Shapes(L) : s[1] = "q_operand_residency"
        /\ \E s \in Shapes(L) : s[1] = "AttentionScore"
    BY <1>1, <1>2, PrefillCombines
  <2> HIDE DEF L
  <2> QED BY <2>1, AttentionIsSpent
<1> HIDE DEF L
<1>5. next_id \in Nat
  BY BeforeBlock
<1>6. IsLift(G, L, next_id, layer)
  BY <1>3, <1>5, GeneratedIs
<1> HIDE DEF G
<1>7. LET C == ConnectPrefillAttention(G) IN Settles(isMoE, C, {OfLayer("Q")}, Contexts(C))
  BY <1>4, <1>5, <1>6, PrefillSettles
<1> QED BY <1>7 DEF G, L

LEMMA DecodeUsed ==
  ASSUME IInv, block = <<>>, pc = "attention", ~isPrefill
  PROVE  LET C == ConnectDecodeAttention(Generated(DecodeAttention(attention)))
         IN  Settles(isMoE, C, {OfLayer("Q")}, Contexts(C))
<1> DEFINE L == DecodeAttention(attention)
           G == Generated(L)
<1>1. /\ attention.num_heads \in Nat \ {0} /\ attention.num_heads \in Nat /\ attention.num_heads > 0
      /\ IsList(CacheTiles(attention))
  BY Manifests DEF IInv
<1>2. Len(CacheTiles(attention)) > 0
  <2>1. workload \in Workloads /\ ValidAttention(attention)
    BY DEF IInv, Accepted, Supported, attention
  <2>2. attention.past_len \in Int /\ attention.score_tile_tokens \in Int
    BY <2>1, WorkloadsAssumption DEF attention
  <2>3. attention.past_len > 0 /\ attention.score_tile_tokens > 0
    BY <2>1 DEF ValidAttention, IInv, PhaseFits
  <2>4. attention.past_len \in Nat \ {0} /\ attention.score_tile_tokens \in Nat \ {0}
    BY <2>2, <2>3
  <2> QED BY <2>4, TilesThere DEF CacheTiles
<1>3. Good(L, "decode") /\ \E i \in 1 .. Len(L) : IsQ(L[i])
  BY <1>1, DecodeAttentionGood
<1>4. Numbered(L) /\ AttentionSpent(L, "decode")
  <2>1. /\ Combines(Shapes(L), "decode")
        /\ \E s \in Shapes(L) : s[1] = "q_operand_residency"
        /\ \E s \in Shapes(L) : s[1] = "AttentionScore"
    BY <1>1, <1>2, DecodeCombines
  <2>2. Numbered(L)
    BY <1>1, PartsGrow
  <2> HIDE DEF L
  <2> QED BY <2>1, <2>2, AttentionIsSpent
<1> HIDE DEF L
<1>5. /\ Stage(isMoE, trace, next_id, layer) /\ next_id \in Nat
      /\ Ready(trace, "attention", ids, layer, isMoE)
  BY BeforeBlock
<1>6. /\ Made(trace, Cached("K", layer)) /\ Made(trace, Cached("V", layer)) /\ Made(trace, Moved(layer, Whole("Q")))
      /\ Known(trace, ids.q) /\ Known(trace, ids.k_write) /\ Known(trace, ids.v_write)
  BY <1>5 DEF Ready
<1>7. IsLift(G, L, next_id, layer)
  BY <1>3, <1>5, GeneratedIs
<1> HIDE DEF G
<1>8. PICK e : SharedBy(G, next_id, e)
  BY <1>3, <1>5, <1>7, FirstResidency
<1>9. Decoding(trace, next_id, L, G, e)
  BY <1>3, <1>5, <1>6, <1>7, <1>8 DEF Decoding
<1>10. LET C == ConnectDecodeAttention(G) IN Settles(isMoE, C, {OfLayer("Q")}, Contexts(C))
  BY <1>4, <1>9, DecodeSettles
<1> QED BY <1>10 DEF G, L

LEMMA AttentionUsed == ASSUME IInv, UsedInv, Attention PROVE UsedInv'
<1> DEFINE G == Generated(IF attention.phase = "prefill" THEN PrefillAttention(attention) ELSE DecodeAttention(attention))
           C == IF isPrefill THEN ConnectPrefillAttention(G) ELSE ConnectDecodeAttention(G)
           owed == {OfLayer("Q")}
<1>1. /\ pc = "attention" /\ block = <<>> /\ block' = C /\ pc' = "o_projection"
      /\ workload' = workload /\ trace' = trace /\ layer' = layer
      /\ ids' = [ids EXCEPT !.terminals = Ids(Terminals(C)), !.contexts = Contexts(C)]
  BY DEF Attention, Emit, Contexts
<1>2. Settles(isMoE, C, owed, Contexts(C))
  <2>1. CASE isPrefill
    <3>1. C = ConnectPrefillAttention(Generated(PrefillAttention(attention)))
      BY <2>1, DispatchFits
    <3> HIDE DEF C
    <3> QED BY <1>1, <2>1, <3>1, PrefillUsed
  <2>2. CASE ~isPrefill
    <3>1. C = ConnectDecodeAttention(Generated(DecodeAttention(attention)))
      BY <2>2, DispatchFits
    <3> HIDE DEF C
    <3> QED BY <1>1, <2>2, <3>1, DecodeUsed
  <2> QED BY <2>1, <2>2
<1> HIDE DEF C
<1>3. ids'.contexts = Contexts(C)
  <2> DEFINE terminals == Ids(Terminals(C))
             contexts == Contexts(C)
  <2>1. IsIds(ids) /\ ids' = [ids EXCEPT !.terminals = terminals, !.contexts = contexts]
    BY <1>1 DEF IInv
  <2> HIDE DEF terminals, contexts
  <2>2. ids' = [q |-> ids.q, k |-> ids.k, v |-> ids.v, k_write |-> ids.k_write, v_write |-> ids.v_write, o |-> ids.o,
                terminals |-> terminals, contexts |-> contexts]
    BY <2>1 DEF IsIds
  <2> QED BY <2>2 DEF contexts
<1>4. Owed(pc, layer, ids.contexts) = owed /\ Owed(pc', layer', ids'.contexts) = Contexts(C)
  BY <1>1, <1>3, SourceIs DEF Owed
<1> HIDE DEF owed
<1>5. Settles(isMoE, block', Owed(pc, layer, ids.contexts), Owed(pc', layer', ids'.contexts))
  BY <1>1, <1>2, <1>4
<1>6. IInv'
  BY AttentionInv
<1> QED BY <1>1, <1>5, <1>6, AfterUsed

LEMMA ExtendUsed == ASSUME IInv, UsedInv, Extend PROVE UsedInv'
<1>1. workload' = workload /\ layer' = layer /\ pc' = pc /\ ids' = ids
  BY DEF Extend
<1>2. trace' \o block' = trace \o block
  BY Extended
<1>3. isMoE' = isMoE
  BY <1>1 DEF isMoE
<1> QED BY <1>1, <1>2, <1>3 DEF UsedInv

LEMMA NextUsed == IInv /\ UsedInv /\ [Next]_vars => UsedInv'
<1> SUFFICES ASSUME IInv, UsedInv, [Next]_vars PROVE UsedInv'
  OBVIOUS
<1>1. CASE LayerStart
  BY <1>1, LayerStartUsed
<1>2. CASE Projections
  BY <1>2, ProjectionsUsed
<1>3. CASE CacheWrites
  BY <1>3, CacheWritesUsed
<1>4. CASE Attention
  BY <1>4, AttentionUsed
<1>5. CASE OutputProjection
  BY <1>5, OutputProjectionUsed
<1>6. CASE FeedForward
  BY <1>6, FeedForwardUsed
<1>7. CASE LayerTransition
  BY <1>7, LayerTransitionUsed
<1>8. CASE FinalDrain
  BY <1>8, FinalDrainUsed
<1>9. CASE Extend
  BY <1>9, ExtendUsed
<1>10. CASE UNCHANGED vars
  BY <1>10 DEF UsedInv, vars, isMoE
<1> QED BY <1>1, <1>2, <1>3, <1>4, <1>5, <1>6, <1>7, <1>8, <1>9, <1>10 DEF Next, Done

(* At a layer's end nothing a block made was forgotten by those after it:  *)
(* not a head, a tile or an expert that nobody combines, nor what decoding *)
(* redirects to the one residency of Q it keeps; where the attention is of *)
(* the phase that the generator connects.                                  *)
THEOREM AlwaysEveryResultUsed == Spec /\ PhaseFits => []EveryResultUsed
<1>1. IInv /\ UsedInv => EveryResultUsed
  <2> SUFFICES ASSUME IInv, UsedInv, pc \in {"layer_start", "drain"}, block = <<>>,
                      NEW i \in DOMAIN trace, NEW t \in trace[i].outputs
               PROVE  \/ t \in UNION {r.inputs : r \in Range(trace)}
                      \/ t \in {Result(t.layer), Cached("K", t.layer), Cached("V", t.layer)}
    BY DEF EveryResultUsed
  <2>1. IsList(trace) /\ trace \o block = trace
    BY ConcatEmpty DEF IInv
  <2>2. DOMAIN trace = 1 .. Len(trace) /\ \A x : x \in Range(trace) <=> \E k \in 1 .. Len(trace) : trace[k] = x
    BY <2>1, ListIs
  <2>3. Owed(pc, layer, ids.contexts) = {}
    BY DEF Owed
  <2>4. Used(trace, t) \/ Free(isMoE, t)
    BY <2>1, <2>2, <2>3 DEF UsedInv, Settled
  <2>5. Used(trace, t) => t \in UNION {r.inputs : r \in Range(trace)}
    BY <2>2 DEF Used
  <2>6. Free(isMoE, t) => t \in {Result(t.layer), Cached("K", t.layer), Cached("V", t.layer)}
    BY SourceIs DEF Free
  <2> QED BY <2>4, <2>5, <2>6
<1>2. Init /\ PhaseFits => IInv /\ UsedInv
  BY InitInv, InitUsed
<1>3. IInv /\ UsedInv /\ [Next]_vars => (IInv /\ UsedInv)'
  BY NextInv, NextUsed
<1> QED BY <1>1, <1>2, <1>3, PTL DEF Spec
=============================================================================
