---------------------------- MODULE BufferLemmas ----------------------------
(***************************************************************************)
(* Facts about the request buffers (ReqBuffer of i_controller.h: a list    *)
(* from whose middle requests are erased) that the proofs cite.            *)
(***************************************************************************)
EXTENDS SequencesExt, SequenceTheorems, FiniteSetTheorems, FunctionTheorems, WellFoundedInduction, TLAPS

(* Removing position k from a list keeps the others, in their order.       *)
LEMMA RemoveAtProperties ==
  ASSUME NEW S, NEW q \in Seq(S), NEW k \in DOMAIN q
  PROVE  /\ RemoveAt(q, k) \in Seq(S)
         /\ Len(RemoveAt(q, k)) = Len(q) - 1
         /\ \A j \in 1 .. Len(q) - 1 : RemoveAt(q, k)[j] = IF j < k THEN q[j] ELSE q[j + 1]
<1> DEFINE l == SubSeq(q, 1, k - 1)
           r == SubSeq(q, k + 1, Len(q))
<1>1. /\ Len(q) \in Nat /\ k \in 1 .. Len(q) /\ \A j \in 1 .. Len(q) : q[j] \in S
  BY LenProperties, ElementOfSeq
<1>2. /\ l \in Seq(S) /\ Len(l) = k - 1
      /\ \A j \in 1 .. k - 1 : l[j] = q[j]
  <2>1. \A j \in 1 .. k - 1 : q[j] \in S
    BY <1>1
  <2> QED
    BY <1>1, <2>1, SubSeqProperties
<1>3. /\ r \in Seq(S) /\ Len(r) = Len(q) - k
      /\ \A j \in 1 .. Len(q) - k : r[j] = q[k + j]
  <2>1. \A j \in k + 1 .. Len(q) : q[j] \in S
    BY <1>1
  <2>2. /\ r \in Seq(S) /\ Len(r) = IF k + 1 <= Len(q) THEN Len(q) - (k + 1) + 1 ELSE 0
        /\ \A j \in 1 .. Len(q) - (k + 1) + 1 : r[j] = q[(k + 1) + j - 1]
    BY <1>1, <2>1, SubSeqProperties
  <2> QED
    BY <1>1, <2>2
<1>4. /\ l \o r \in Seq(S) /\ Len(l \o r) = Len(l) + Len(r)
      /\ \A j \in 1 .. Len(l) + Len(r) :
           (l \o r)[j] = IF j <= Len(l) THEN l[j] ELSE r[j - Len(l)]
  BY <1>2, <1>3, ConcatProperties
<1>5. RemoveAt(q, k) = l \o r
  BY DEF RemoveAt
<1> HIDE DEF l, r
<1>6. ASSUME NEW j \in 1 .. Len(q) - 1
      PROVE  (l \o r)[j] = IF j < k THEN q[j] ELSE q[j + 1]
  <2>1. CASE j < k
    BY <1>1, <1>2, <1>3, <1>4, <2>1
  <2>2. CASE ~(j < k)
    <3>1. j - Len(l) \in 1 .. Len(q) - k /\ k + (j - Len(l)) = j + 1
      BY <1>1, <1>2, <2>2
    <3>2. j \in 1 .. Len(l) + Len(r) /\ ~(j <= Len(l))
      BY <1>1, <1>2, <1>3, <2>2
    <3>3. (l \o r)[j] = r[j - Len(l)]
      BY <1>4, <3>2
    <3> QED BY <1>3, <2>2, <3>1, <3>3
  <2> QED BY <2>1, <2>2
<1>7. Len(l \o r) = Len(q) - 1
  BY <1>1, <1>2, <1>3, <1>4
<1> QED
  BY <1>4, <1>5, <1>6, <1>7

(* What is left after removing a position was in the list before, at a     *)
(* position of its own.                                                    *)
LEMMA RemoveAtElements ==
  ASSUME NEW S, NEW q \in Seq(S), NEW k \in DOMAIN q
  PROVE  /\ \A j \in DOMAIN RemoveAt(q, k) : \E m \in DOMAIN q : m # k /\ RemoveAt(q, k)[j] = q[m]
         /\ \A m \in DOMAIN q \ {k} : \E j \in DOMAIN RemoveAt(q, k) : RemoveAt(q, k)[j] = q[m]
         /\ \A i, j \in DOMAIN RemoveAt(q, k) : i # j =>
              \E m, n \in DOMAIN q : /\ m # k /\ n # k /\ m # n
                                     /\ RemoveAt(q, k)[i] = q[m] /\ RemoveAt(q, k)[j] = q[n]
<1> DEFINE d == RemoveAt(q, k)
           old(j) == IF j < k THEN j ELSE j + 1
<1>1. /\ Len(q) \in Nat /\ DOMAIN q = 1 .. Len(q) /\ k \in 1 .. Len(q)
  BY LenProperties
<1>2. /\ d \in Seq(S) /\ Len(d) = Len(q) - 1
      /\ \A j \in 1 .. Len(q) - 1 : d[j] = q[old(j)]
  BY RemoveAtProperties
<1>3. DOMAIN d = 1 .. Len(q) - 1
  BY <1>1, <1>2, LenProperties
<1>4. \A j \in 1 .. Len(q) - 1 : old(j) \in 1 .. Len(q) /\ old(j) # k
  BY <1>1
<1>5. \A i, j \in 1 .. Len(q) - 1 : i # j => old(i) # old(j)
  BY <1>1
<1>6. \A m \in (1 .. Len(q)) \ {k} : \E j \in 1 .. Len(q) - 1 : old(j) = m
  <2> SUFFICES ASSUME NEW m \in (1 .. Len(q)) \ {k}
               PROVE  \E j \in 1 .. Len(q) - 1 : old(j) = m
    OBVIOUS
  <2>1. CASE m < k
    <3>1. m \in 1 .. Len(q) - 1 /\ old(m) = m
      BY <1>1, <2>1
    <3> QED BY <3>1
  <2>2. CASE m > k
    <3>1. m - 1 \in 1 .. Len(q) - 1 /\ old(m - 1) = m
      BY <1>1, <2>2
    <3> QED BY <3>1
  <2> QED BY <1>1, <2>1, <2>2
<1> HIDE DEF d, old
<1>7. /\ \A j \in DOMAIN d : \E m \in DOMAIN q : m # k /\ d[j] = q[m]
      /\ \A m \in DOMAIN q \ {k} : \E j \in DOMAIN d : d[j] = q[m]
      /\ \A i, j \in DOMAIN d : i # j =>
           \E m, n \in DOMAIN q : m # k /\ n # k /\ m # n /\ d[i] = q[m] /\ d[j] = q[n]
  <2>1. \A j \in DOMAIN d : \E m \in DOMAIN q : m # k /\ d[j] = q[m]
    BY <1>1, <1>2, <1>3, <1>4
  <2>2. \A m \in DOMAIN q \ {k} : \E j \in DOMAIN d : d[j] = q[m]
    BY <1>1, <1>2, <1>3, <1>6
  <2>3. ASSUME NEW i \in DOMAIN d, NEW j \in DOMAIN d, i # j
        PROVE  \E m, n \in DOMAIN q : m # k /\ n # k /\ m # n /\ d[i] = q[m] /\ d[j] = q[n]
    <3>1. old(i) \in DOMAIN q /\ old(j) \in DOMAIN q /\ old(i) # k /\ old(j) # k /\ old(i) # old(j)
      BY <1>1, <1>3, <1>4, <1>5, <2>3
    <3>2. d[i] = q[old(i)] /\ d[j] = q[old(j)]
      BY <1>2, <1>3
    <3> QED BY <3>1, <3>2
  <2> QED BY <2>1, <2>2, <2>3
<1> QED
  BY <1>7 DEF d

-----------------------------------------------------------------------------
(* How often a list holds an element of T.                                 *)
CountIn(q, T) == Cardinality({k \in DOMAIN q : q[k] \in T})

LEMMA CountNat ==
  ASSUME NEW S, NEW q \in Seq(S), NEW T
  PROVE  /\ IsFiniteSet({k \in DOMAIN q : q[k] \in T}) /\ CountIn(q, T) \in Nat
         /\ CountIn(q, T) = 0 <=> \A k \in DOMAIN q : q[k] \notin T
<1> DEFINE C == {k \in DOMAIN q : q[k] \in T}
<1>1. Len(q) \in Nat /\ DOMAIN q = 1 .. Len(q)
  BY LenProperties
<1>2. \A m \in Nat : IsFiniteSet(1 .. m)
  <2> SUFFICES ASSUME NEW m \in Nat PROVE IsFiniteSet(1 .. m)
    OBVIOUS
  <2>1. 1 \in Int /\ m \in Int
    OBVIOUS
  <2> QED BY ONLY <2>1, FS_Interval
<1>3. C \in SUBSET DOMAIN q
  OBVIOUS
<1>4. IsFiniteSet(C)
  BY <1>1, <1>2, <1>3, FS_Subset
<1>5. Cardinality(C) \in Nat /\ (Cardinality(C) = 0 <=> C = {})
  BY <1>4, FS_CardinalityType, FS_EmptySet
<1> QED BY <1>4, <1>5 DEF CountIn

LEMMA CountEmpty == \A T : CountIn(<<>>, T) = 0
<1> SUFFICES ASSUME NEW T PROVE CountIn(<<>>, T) = 0
  OBVIOUS
<1>1. {k \in DOMAIN <<>> : <<>>[k] \in T} = {}
  OBVIOUS
<1> QED BY <1>1, FS_EmptySet DEF CountIn

LEMMA CountAppend ==
  ASSUME NEW S, NEW q \in Seq(S), NEW e \in S, NEW T
  PROVE  CountIn(Append(q, e), T) = CountIn(q, T) + (IF e \in T THEN 1 ELSE 0)
<1> DEFINE a == Append(q, e)
           C == {k \in DOMAIN q : q[k] \in T}
           D == {k \in DOMAIN a : a[k] \in T}
<1>1. Len(q) \in Nat /\ DOMAIN q = 1 .. Len(q)
  BY LenProperties
<1>2. /\ a \in Seq(S) /\ Len(a) = Len(q) + 1
      /\ \A k \in 1 .. Len(q) : a[k] = q[k]
      /\ a[Len(q) + 1] = e
  BY AppendProperties
<1>3. DOMAIN a = 1 .. Len(q) + 1
  BY <1>2, LenProperties
<1>4. IsFiniteSet(C) /\ Cardinality(C) \in Nat
  BY CountNat DEF CountIn
<1> HIDE DEF a
<1>5. CASE e \in T
  <2>1. D = C \cup {Len(q) + 1} /\ Len(q) + 1 \notin C
    BY <1>1, <1>2, <1>3, <1>5
  <2>2. Cardinality(D) = Cardinality(C) + 1
    BY <1>4, <2>1, FS_AddElement
  <2> QED BY <1>5, <2>2 DEF CountIn, a
<1>6. CASE e \notin T
  <2>1. D = C
    BY <1>1, <1>2, <1>3, <1>6
  <2>2. CountIn(a, T) = CountIn(q, T)
    BY <2>1 DEF CountIn
  <2>3. CountIn(q, T) \in Nat
    BY CountNat
  <2>4. CountIn(q, T) = CountIn(q, T) + (IF e \in T THEN 1 ELSE 0)
    BY <1>6, <2>3
  <2> QED BY <2>2, <2>4 DEF a
<1> QED BY <1>5, <1>6

LEMMA CountRemoveAt ==
  ASSUME NEW S, NEW q \in Seq(S), NEW k \in DOMAIN q, NEW T
  PROVE  CountIn(RemoveAt(q, k), T) = CountIn(q, T) - (IF q[k] \in T THEN 1 ELSE 0)
<1> DEFINE d == RemoveAt(q, k)
           C == {j \in DOMAIN q : q[j] \in T}
           D == {j \in DOMAIN d : d[j] \in T}
           old == [j \in D |-> IF j < k THEN j ELSE j + 1]
<1>1. /\ Len(q) \in Nat /\ DOMAIN q = 1 .. Len(q) /\ k \in 1 .. Len(q)
  BY LenProperties
<1>2. /\ d \in Seq(S) /\ Len(d) = Len(q) - 1
      /\ \A j \in 1 .. Len(q) - 1 : d[j] = IF j < k THEN q[j] ELSE q[j + 1]
  BY RemoveAtProperties
<1>3. DOMAIN d = 1 .. Len(q) - 1
  BY <1>1, <1>2, LenProperties
<1> HIDE DEF d
<1>4. old \in Bijection(D, C \ {k})
  <2>1. old \in [D -> C \ {k}]
    BY <1>1, <1>2, <1>3
  <2>2. \A i, j \in D : old[i] = old[j] => i = j
    BY <1>1, <1>3
  <2>3. ASSUME NEW m \in C \ {k} PROVE \E j \in D : old[j] = m
    <3>1. CASE m < k
      <4>1. m \in D /\ old[m] = m
        BY <1>1, <1>2, <1>3, <3>1
      <4> QED BY <4>1
    <3>2. CASE m > k
      <4>1. m - 1 \in D /\ old[m - 1] = m
        BY <1>1, <1>2, <1>3, <3>2
      <4> QED BY <4>1
    <3> QED BY <1>1, <3>1, <3>2
  <2> HIDE DEF old
  <2> QED BY <2>1, <2>2, <2>3, Fun_IsBij
<1>5. IsFiniteSet(C) /\ IsFiniteSet(D) /\ Cardinality(C) \in Nat
  BY <1>2, CountNat DEF CountIn
<1>6. Cardinality(D) = Cardinality(C \ {k})
  BY <1>4, <1>5, FS_Bijection DEF ExistsBijection
<1>7. Cardinality(C \ {k}) = IF k \in C THEN Cardinality(C) - 1 ELSE Cardinality(C)
  BY <1>5, FS_RemoveElement
<1>8. k \in C <=> q[k] \in T
  OBVIOUS
<1> QED BY <1>5, <1>6, <1>7, <1>8 DEF CountIn, d

(* The first n elements and the others.                                    *)
LEMMA CountSubSeq ==
  ASSUME NEW S, NEW q \in Seq(S), NEW n \in 0 .. Len(q), NEW T
  PROVE  /\ IsFiniteSet({k \in 1 .. n : q[k] \in T})
         /\ CountIn(SubSeq(q, n + 1, Len(q)), T)
              = CountIn(q, T) - Cardinality({k \in 1 .. n : q[k] \in T})
<1> DEFINE r == SubSeq(q, n + 1, Len(q))
           C == {j \in DOMAIN q : q[j] \in T}
           F == {j \in 1 .. n : q[j] \in T}
           D == {j \in DOMAIN r : r[j] \in T}
           old == [j \in D |-> j + n]
<1>1. /\ Len(q) \in Nat /\ DOMAIN q = 1 .. Len(q) /\ n \in Nat /\ n <= Len(q)
      /\ \A j \in 1 .. Len(q) : q[j] \in S
  BY LenProperties, ElementOfSeq
<1>2. /\ r \in Seq(S) /\ Len(r) = Len(q) - n
      /\ \A j \in 1 .. Len(q) - n : r[j] = q[j + n]
  <2>1. n + 1 \in Int /\ Len(q) \in Int /\ \A j \in n + 1 .. Len(q) : q[j] \in S
    BY <1>1
  <2>2. /\ r \in Seq(S) /\ Len(r) = IF n + 1 <= Len(q) THEN Len(q) - (n + 1) + 1 ELSE 0
        /\ \A j \in 1 .. Len(q) - (n + 1) + 1 : r[j] = q[(n + 1) + j - 1]
    BY <2>1, SubSeqProperties
  <2> QED BY <1>1, <2>2
<1>3. DOMAIN r = 1 .. Len(q) - n
  BY <1>2, LenProperties
<1> HIDE DEF r
<1>4. old \in Bijection(D, C \ F)
  <2>1. old \in [D -> C \ F]
    BY <1>1, <1>2, <1>3
  <2>2. \A i, j \in D : old[i] = old[j] => i = j
    BY <1>1, <1>3
  <2>3. ASSUME NEW m \in C \ F PROVE \E j \in D : old[j] = m
    <3>1. m - n \in D /\ old[m - n] = m
      BY <1>1, <1>2, <1>3
    <3> QED BY <3>1
  <2> HIDE DEF old
  <2> QED BY <2>1, <2>2, <2>3, Fun_IsBij
<1>5. IsFiniteSet(C) /\ IsFiniteSet(D) /\ Cardinality(C) \in Nat
  BY <1>2, CountNat DEF CountIn
<1>6. Cardinality(D) = Cardinality(C \ F)
  BY <1>4, <1>5, FS_Bijection DEF ExistsBijection
<1>7. C \cap F = F
  BY <1>1
<1>8. IsFiniteSet(F) /\ Cardinality(C \ F) = Cardinality(C) - Cardinality(F)
  <2>1. F \in SUBSET C
    BY <1>7
  <2> HIDE DEF C, F
  <2>2. IsFiniteSet(F)
    BY <1>5, <2>1, FS_Subset
  <2>3. Cardinality(C \ F) = Cardinality(C) - Cardinality(C \cap F)
    BY <1>5, FS_Difference
  <2> QED BY <1>7, <2>2, <2>3
<1> QED BY <1>6, <1>8 DEF CountIn, r

(* What is cut from a function on 1 .. L is cut from a sequence.             *)
LEMMA TailOfFunction ==
  ASSUME NEW S, NEW q, NEW L \in Nat, NEW n \in 0 .. L, \A k \in 1 .. L : q[k] \in S
  PROVE  /\ SubSeq(q, 1, L) \in Seq(S)
         /\ Len(SubSeq(q, 1, L)) = L /\ DOMAIN SubSeq(q, 1, L) = 1 .. L
         /\ \A k \in 1 .. L : SubSeq(q, 1, L)[k] = q[k]
         /\ SubSeq(q, n + 1, L) = SubSeq(SubSeq(q, 1, L), n + 1, L)
<1> DEFINE a == SubSeq(q, 1, L)
           r == SubSeq(q, n + 1, L)
           d == SubSeq(a, n + 1, L)
<1>1. 1 \in Int /\ n + 1 \in Int /\ L \in Int
  OBVIOUS
<1>2. /\ a \in Seq(S) /\ Len(a) = IF 1 <= L THEN L - 1 + 1 ELSE 0
      /\ \A k \in 1 .. L - 1 + 1 : a[k] = q[1 + k - 1]
  BY <1>1, SubSeqProperties
<1>3. Len(a) = L /\ DOMAIN a = 1 .. L /\ \A k \in 1 .. L : a[k] = q[k]
  BY <1>2, LenProperties
<1>4. /\ r \in Seq(S) /\ Len(r) = IF n + 1 <= L THEN L - (n + 1) + 1 ELSE 0
      /\ \A k \in 1 .. L - (n + 1) + 1 : r[k] = q[(n + 1) + k - 1]
  BY <1>1, SubSeqProperties
<1>5. /\ d \in Seq(S) /\ Len(d) = IF n + 1 <= L THEN L - (n + 1) + 1 ELSE 0
      /\ \A k \in 1 .. L - (n + 1) + 1 : d[k] = a[(n + 1) + k - 1]
  <2>1. \A k \in n + 1 .. L : a[k] \in S
    BY <1>3
  <2> HIDE DEF a
  <2> QED BY <1>1, <2>1, SubSeqProperties
<1> HIDE DEF a, d, r
<1>6. ASSUME NEW k \in 1 .. Len(r) PROVE r[k] = d[k]
  <2>1. k \in 1 .. L - (n + 1) + 1 /\ (n + 1) + k - 1 \in 1 .. L
    <3>1. Len(r) \in Nat
      BY <1>4, LenProperties
    <3>2. n + 1 <= L /\ Len(r) = L - (n + 1) + 1
      BY <1>4, <3>1
    <3> QED BY <3>1, <3>2
  <2> QED BY <1>3, <1>4, <1>5, <2>1
<1>7. r = d
  BY <1>4, <1>5, <1>6, SeqEqual
<1> QED BY <1>2, <1>3, <1>7 DEF a, d, r

(* Something that is there at most once is counted by whether it is there. *)
LEMMA CountOne ==
  ASSUME NEW S, \A x, y \in S : x = y
  PROVE  Cardinality(S) = IF S = {} THEN 0 ELSE 1
<1>1. CASE S = {}
  BY <1>1, FS_EmptySet
<1>2. CASE S # {}
  <2>1. PICK x : S = {x}
    BY <1>2
  <2> QED BY <1>2, <2>1, FS_Singleton
<1> QED BY <1>1, <1>2

-----------------------------------------------------------------------------
(* Induction, with the property given as the set of those that have it.    *)

LEMMA LeastNat ==
  ASSUME NEW T \in SUBSET Nat, T # {}
  PROVE  \E x \in T : \A y \in T : x <= y
<1>1. \A R, S : IsWellFoundedOn(R, S) =>
        (\A U : U \subseteq S /\ U # {} => \E x \in U : \A y \in U : ~(<<y, x>> \in R))
  <2> SUFFICES ASSUME NEW R, NEW S, IsWellFoundedOn(R, S), NEW U, U \subseteq S, U # {}
               PROVE  \E x \in U : \A y \in U : ~(<<y, x>> \in R)
    OBVIOUS
  <2> QED BY WFMin
<1>2. PICK x \in T : \A y \in T : ~(<<y, x>> \in OpToRel(<, Nat))
  BY <1>1, NatLessThanWellFounded
<1>3. \A y \in T : ~(y < x)
  BY <1>2 DEF OpToRel
<1> QED BY <1>3

LEMMA InductionSet ==
  ASSUME NEW T, 0 \in T, \A n \in Nat : n \in T => n + 1 \in T
  PROVE  \A n \in Nat : n \in T
<1> DEFINE F == {n \in Nat : n \notin T}
<1> SUFFICES ASSUME F # {} PROVE FALSE
  OBVIOUS
<1>1. PICK n \in F : \A m \in F : n <= m
  BY LeastNat
<1>2. n # 0 /\ n - 1 \in Nat /\ (n - 1) + 1 = n
  BY <1>1
<1>3. n - 1 \notin F
  BY <1>1, <1>2
<1> QED BY <1>1, <1>2, <1>3

LEMMA MinNat ==
  ASSUME NEW T \in SUBSET Nat, T # {}
  PROVE  Min(T) \in T /\ \A y \in T : Min(T) <= y
<1>1. \E x \in T : \A y \in T : x <= y
  BY LeastNat
<1> QED BY <1>1 DEF Min

(* The first position of a list that is in a set, 0 when there is none.    *)
LEMMA FirstPosition ==
  ASSUME NEW n \in Nat, NEW T \in SUBSET (1 .. n)
  PROVE  LET f == IF T # {} THEN Min(T) ELSE 0
         IN  /\ f \in 0 .. n /\ (f = 0 <=> T = {})
             /\ f # 0 => f \in T
             /\ \A k \in T : f <= k
<1>1. CASE T = {}
  BY <1>1
<1>2. CASE T # {}
  <2>1. T \in SUBSET Nat
    OBVIOUS
  <2>2. Min(T) \in T /\ \A y \in T : Min(T) <= y
    BY <1>2, <2>1, MinNat
  <2>3. \A m \in T : m \in 0 .. n /\ m # 0
    OBVIOUS
  <2>4. PICK m \in T : m = Min(T)
    BY <2>2
  <2>5. m \in 0 .. n /\ m # 0 /\ \A k \in T : m <= k
    BY <2>2, <2>3, <2>4
  <2> QED BY <1>2, <2>4, <2>5
<1> QED BY <1>1, <1>2

-----------------------------------------------------------------------------
(* What a list holds.                                                      *)
LEMMA RangeType ==
  ASSUME NEW S, NEW q \in Seq(S)
  PROVE  Range(q) \in SUBSET S /\ (\A x : x \in Range(q) <=> \E k \in 1 .. Len(q) : q[k] = x)
<1>1. DOMAIN q = 1 .. Len(q) /\ \A k \in 1 .. Len(q) : q[k] \in S
  BY LenProperties, ElementOfSeq
<1> QED BY <1>1 DEF Range

LEMMA RangeAppend ==
  ASSUME NEW S, NEW q \in Seq(S), NEW e \in S
  PROVE  Range(Append(q, e)) = Range(q) \cup {e}
<1> DEFINE a == Append(q, e)
<1>1. /\ a \in Seq(S) /\ Len(a) = Len(q) + 1
      /\ (\A k \in 1 .. Len(q) : a[k] = q[k]) /\ a[Len(q) + 1] = e
  BY AppendProperties
<1> HIDE DEF a
<1>2. /\ \A x : x \in Range(q) <=> \E k \in 1 .. Len(q) : q[k] = x
      /\ \A x : x \in Range(a) <=> \E k \in 1 .. Len(a) : a[k] = x
  BY <1>1, RangeType
<1>3. Len(q) \in Nat
  BY LenProperties
<1>4. \A x : x \in Range(a) <=> x \in Range(q) \/ x = e
  BY <1>1, <1>2, <1>3
<1> QED BY <1>4 DEF a

LEMMA RangeConcat ==
  ASSUME NEW S, NEW q \in Seq(S), NEW r \in Seq(S)
  PROVE  Range(q \o r) = Range(q) \cup Range(r)
<1> DEFINE a == q \o r
<1>1. /\ a \in Seq(S) /\ Len(a) = Len(q) + Len(r)
      /\ \A k \in 1 .. Len(q) + Len(r) : a[k] = IF k <= Len(q) THEN q[k] ELSE r[k - Len(q)]
  BY ConcatProperties
<1> HIDE DEF a
<1>2. /\ \A x : x \in Range(q) <=> \E k \in 1 .. Len(q) : q[k] = x
      /\ \A x : x \in Range(r) <=> \E k \in 1 .. Len(r) : r[k] = x
      /\ \A x : x \in Range(a) <=> \E k \in 1 .. Len(a) : a[k] = x
  BY <1>1, RangeType
<1>3. Len(q) \in Nat /\ Len(r) \in Nat
  BY LenProperties
<1>4. ASSUME NEW x \in Range(r) PROVE x \in Range(a)
  <2>1. PICK k \in 1 .. Len(r) : r[k] = x
    BY <1>2
  <2>2. /\ k + Len(q) \in 1 .. Len(q) + Len(r) /\ ~(k + Len(q) <= Len(q))
        /\ (k + Len(q)) - Len(q) = k
    BY <1>3
  <2>3. a[k + Len(q)] = x
    BY <1>1, <2>1, <2>2
  <2> QED BY <1>1, <1>2, <2>2, <2>3
<1>5. \A x \in Range(q) : x \in Range(a)
  BY <1>1, <1>2, <1>3
<1>6. ASSUME NEW x \in Range(a) PROVE x \in Range(q) \cup Range(r)
  <2>1. PICK k \in 1 .. Len(q) + Len(r) : a[k] = x
    BY <1>1, <1>2
  <2>2. CASE k <= Len(q)
    BY <1>1, <1>2, <1>3, <2>1, <2>2
  <2>3. CASE ~(k <= Len(q))
    <3>1. k - Len(q) \in 1 .. Len(r)
      BY <1>3, <2>3
    <3> QED BY <1>1, <1>2, <2>1, <2>3, <3>1
  <2> QED BY <2>2, <2>3
<1> QED BY <1>4, <1>5, <1>6 DEF a

-----------------------------------------------------------------------------
(* Appending and then removing an earlier position: the order of the two   *)
(* does not matter.                                                        *)
LEMMA RemoveAtAppend ==
  ASSUME NEW S, NEW q \in Seq(S), NEW e \in S, NEW k \in DOMAIN q
  PROVE  RemoveAt(Append(q, e), k) = Append(RemoveAt(q, k), e)
<1> DEFINE a == Append(q, e)
           l == RemoveAt(a, k)
           d == RemoveAt(q, k)
           r == Append(d, e)
<1>1. Len(q) \in Nat /\ DOMAIN q = 1 .. Len(q) /\ k \in 1 .. Len(q)
  BY LenProperties
<1>2. a \in Seq(S) /\ Len(a) = Len(q) + 1 /\ (\A j \in 1 .. Len(q) : a[j] = q[j]) /\ a[Len(q) + 1] = e
  BY AppendProperties
<1> HIDE DEF a
<1>3. k \in DOMAIN a
  BY <1>1, <1>2, LenProperties
<1>4. /\ l \in Seq(S) /\ Len(l) = Len(q)
      /\ \A j \in 1 .. Len(q) : l[j] = IF j < k THEN a[j] ELSE a[j + 1]
  <2>1. /\ l \in Seq(S) /\ Len(l) = Len(a) - 1
        /\ \A j \in 1 .. Len(a) - 1 : l[j] = IF j < k THEN a[j] ELSE a[j + 1]
    BY <1>2, <1>3, RemoveAtProperties
  <2>2. Len(a) - 1 = Len(q)
    BY <1>1, <1>2
  <2> QED BY <2>1, <2>2
<1>5. /\ d \in Seq(S) /\ Len(d) = Len(q) - 1
      /\ \A j \in 1 .. Len(q) - 1 : d[j] = IF j < k THEN q[j] ELSE q[j + 1]
  BY RemoveAtProperties
<1> HIDE DEF l, d
<1>6. /\ r \in Seq(S) /\ Len(r) = Len(q)
      /\ (\A j \in 1 .. Len(q) - 1 : r[j] = d[j]) /\ r[Len(q)] = e
  <2>1. /\ r \in Seq(S) /\ Len(r) = Len(d) + 1
        /\ (\A j \in 1 .. Len(d) : r[j] = d[j]) /\ r[Len(d) + 1] = e
    BY <1>5, AppendProperties
  <2>2. Len(d) + 1 = Len(q)
    BY <1>1, <1>5
  <2> QED BY <1>5, <2>1, <2>2
<1> HIDE DEF r
<1>7. ASSUME NEW j \in 1 .. Len(l) PROVE l[j] = r[j]
  <2>1. CASE j = Len(q)
    <3>1. l[j] = a[j + 1]
      BY <1>1, <1>4, <2>1
    <3> QED BY <1>2, <1>6, <2>1, <3>1
  <2>2. CASE j # Len(q)
    <3>1. j \in 1 .. Len(q) - 1 /\ j \in 1 .. Len(q) /\ j + 1 \in 1 .. Len(q)
      BY <1>1, <1>4, <2>2
    <3>2. r[j] = IF j < k THEN q[j] ELSE q[j + 1]
      BY <1>5, <1>6, <3>1
    <3>3. l[j] = IF j < k THEN q[j] ELSE q[j + 1]
      BY <1>2, <1>4, <3>1
    <3> QED BY <3>2, <3>3
  <2> QED BY <2>1, <2>2
<1>8. l = r
  BY <1>4, <1>6, <1>7, SeqEqual
<1> QED BY <1>8 DEF l, r, a, d
=============================================================================
