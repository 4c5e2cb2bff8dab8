----------------------- MODULE ConcreteLowering_proofs -----------------------
(***************************************************************************)
(* What the layout of a channel promises, whatever its levels and sizes:   *)
(* every address has its coordinates within the hierarchy, and the digits  *)
(* of a flat bank number tell the bank. On it rests what the lowering      *)
(* promises, with any arguments and on any number of ranks: the sequence   *)
(* of records is one validate_sequence accepts, every record is valid, the *)
(* stream replays as the transactions it was lowered from, and no work is  *)
(* lost.                                                                   *)
(***************************************************************************)
EXTENDS ConcreteLowering, BufferLemmas

(***************************************************************************)
(* Arithmetic.                                                             *)
(***************************************************************************)
LEMMA DivMod ==
  ASSUME NEW a \in Int, NEW n \in Nat \ {0}
  PROVE  /\ a \div n \in Int /\ a % n \in 0 .. n - 1 /\ a = n * (a \div n) + (a % n)
         /\ a \in Nat => a \div n \in Nat
  OBVIOUS

LEMMA TimesMonotone ==
  ASSUME NEW a \in Int, NEW b \in Int, NEW c \in Nat, a <= b
  PROVE  a * c <= b * c /\ c * a <= c * b
  OBVIOUS

LEMMA TimesNat ==
  ASSUME NEW a \in Nat \ {0}, NEW b \in Nat \ {0}
  PROVE  a * b \in Nat \ {0} /\ a * b >= a /\ a * b >= b
  OBVIOUS

LEMMA DivModUnique ==
  ASSUME NEW n \in Nat \ {0}, NEW q \in Int, NEW r \in 0 .. n - 1
  PROVE  (n * q + r) \div n = q /\ (n * q + r) % n = r
<1> DEFINE a == n * q + r
<1>1. a \in Int OBVIOUS
<1> HIDE DEF a
<1>2. /\ a \div n \in Int /\ a % n \in 0 .. n - 1 /\ a = n * (a \div n) + (a % n)
  BY <1>1, DivMod
<1> DEFINE d == a \div n
           m == a % n
<1>3. d \in Int /\ m \in 0 .. n - 1 /\ n * q + r = n * d + m BY <1>2 DEF a
<1> HIDE DEF d, m
<1>4. CASE d >= q + 1
  <2>1. n * (q + 1) <= n * d BY <1>3, <1>4
  <2> QED BY <1>3, <2>1
<1>5. CASE q >= d + 1
  <2>1. n * (d + 1) <= n * q BY <1>3, <1>5
  <2> QED BY <1>3, <2>1
<1>6. d = q BY <1>3, <1>4, <1>5
<1>7. m = r BY <1>3, <1>6
<1> QED BY <1>6, <1>7 DEF d, m, a

(* A multiple of the modulus does not matter.                              *)
LEMMA ModMultiple ==
  ASSUME NEW a \in Int, NEW c \in Int, NEW n \in Nat \ {0}
  PROVE  (a + n * c) % n = a % n /\ (a + n * c) \div n = (a \div n) + c
<1> DEFINE q == a \div n
           r == a % n
<1>1. q \in Int /\ r \in 0 .. n - 1 /\ a = n * q + r
  BY DivMod
<1> HIDE DEF q, r
<1>2. a + n * c = n * (q + c) + r /\ q + c \in Int
  BY <1>1
<1>3. (n * (q + c) + r) \div n = q + c /\ (n * (q + c) + r) % n = r
  <2> DEFINE p == q + c
  <2>1. p \in Int BY <1>2
  <2> HIDE DEF p
  <2>2. (n * p + r) \div n = p /\ (n * p + r) % n = r BY <1>1, <2>1, DivModUnique
  <2> QED BY <2>2 DEF p
<1>4. (a + n * c) \div n = q + c /\ (a + n * c) % n = r
  BY <1>2, <1>3
<1> QED BY <1>4 DEF q, r

LEMMA ModOfMod ==
  ASSUME NEW a \in Int, NEW b \in Int, NEW n \in Nat \ {0}
  PROVE  ((a % n) + b) % n = (a + b) % n
<1> DEFINE q == a \div n
           r == a % n
<1>1. q \in Int /\ r \in 0 .. n - 1 /\ a = n * q + r
  BY DivMod
<1> HIDE DEF q, r
<1> DEFINE x == r + b
<1>2. x \in Int /\ a + b = x + n * q BY <1>1
<1> HIDE DEF x
<1>3. (x + n * q) % n = x % n BY <1>1, <1>2, ModMultiple
<1>4. (a + b) % n = x % n BY <1>2, <1>3
<1> QED BY <1>4 DEF r, x

(* The remainder by a product, digit by digit.                             *)
LEMMA ModProduct ==
  ASSUME NEW v \in Int, NEW r \in Nat \ {0}, NEW w \in Nat \ {0}
  PROVE  v % (r * w) = w * ((v \div w) % r) + (v % w)
<1> DEFINE q == v \div w
           z == v % w
<1>1. q \in Int /\ z \in 0 .. w - 1 /\ v = w * q + z BY DivMod
<1> HIDE DEF q, z
<1> DEFINE x == q \div r
           y == q % r
<1>2. x \in Int /\ y \in 0 .. r - 1 /\ q = r * x + y BY <1>1, DivMod
<1> HIDE DEF x, y
<1> DEFINE n == r * w
           d == w * y + z
<1>3. n \in Nat \ {0} BY TimesNat
<1>4. v = n * x + d BY <1>1, <1>2
<1>5. d \in 0 .. n - 1
  <2>1. w * y \in Nat /\ w * y <= w * (r - 1) BY <1>2, TimesMonotone
  <2>2. w * (r - 1) = n - w OBVIOUS
  <2> QED BY <1>1, <1>3, <2>1, <2>2
<1> HIDE DEF n, d
<1>6. (n * x + d) % n = d BY <1>2, <1>3, <1>5, DivModUnique
<1> QED BY <1>4, <1>6 DEF n, d, y, z, q

(***************************************************************************)
(* Recursion over the numbers up to n, one from the other.                 *)
(***************************************************************************)
Recursive(f, S, a, n, g) ==
  f \in [0 .. n -> S] /\ f[0] = a /\ \A i \in 1 .. n : f[i] = g[<<i, f[i - 1]>>]
StepFunction(g, n, S) == g \in [(1 .. n) \X S -> S]

LEMMA RecursionExists ==
  ASSUME NEW S, NEW a \in S, NEW n \in Nat, NEW g, StepFunction(g, n, S)
  PROVE  \E f : Recursive(f, S, a, n, g)
<1> DEFINE Upto(m) == \E f \in [0 .. m -> S] : f[0] = a /\ \A i \in 1 .. m : f[i] = g[<<i, f[i - 1]>>]
           T == {m \in Nat : m <= n => Upto(m)}
<1>1. 0 \in T
  <2> DEFINE f == [i \in 0 .. 0 |-> a]
  <2>1. f \in [0 .. 0 -> S] /\ f[0] = a /\ \A i \in 1 .. 0 : f[i] = g[<<i, f[i - 1]>>] OBVIOUS
  <2> HIDE DEF f
  <2>2. Upto(0) BY <2>1
  <2> QED BY <2>2
<1>2. ASSUME NEW m \in Nat, m \in T PROVE m + 1 \in T
  <2> SUFFICES ASSUME m + 1 <= n PROVE Upto(m + 1) OBVIOUS
  <2>1. PICK f \in [0 .. m -> S] : f[0] = a /\ \A i \in 1 .. m : f[i] = g[<<i, f[i - 1]>>]
    BY <1>2
  <2>0. g \in [(1 .. n) \X S -> S] BY DEF StepFunction
  <2> DEFINE h == [i \in 0 .. m + 1 |-> IF i = m + 1 THEN g[<<m + 1, f[m]>>] ELSE f[i]]
  <2>2. f[m] \in S /\ m + 1 \in 1 .. n BY <2>1
  <2>3. g[<<m + 1, f[m]>>] \in S BY <2>0, <2>2
  <2>4. h \in [0 .. m + 1 -> S] BY <2>1, <2>3
  <2>5. h[0] = a BY <2>1
  <2>6. ASSUME NEW i \in 1 .. m + 1 PROVE h[i] = g[<<i, h[i - 1]>>]
    <3>1. CASE i = m + 1
      <4>1. h[i] = g[<<m + 1, f[m]>>] /\ h[i - 1] = f[m] BY <3>1
      <4> QED BY <3>1, <4>1
    <3>2. CASE i # m + 1
      <4>1. h[i] = f[i] /\ h[i - 1] = f[i - 1] /\ i \in 1 .. m BY <3>2
      <4> QED BY <2>1, <4>1
    <3> QED BY <3>1, <3>2
  <2> QED BY <2>4, <2>5, <2>6
<1> HIDE DEF T
<1>3. \A m \in Nat : m \in T BY <1>1, <1>2, InductionSet
<1>4. Upto(n) BY <1>3 DEF T
<1> QED BY <1>4 DEF Recursive

(***************************************************************************)
(* Mixed-radix numbers.                                                    *)
(***************************************************************************)
Radices == {r \in Seq(Nat \ {0}) : Len(r) > 0}

LEMMA Weights ==
  ASSUME NEW radices \in Radices
  PROVE  LET n == Len(radices)
             w == Weight(radices)
         IN  /\ \A i \in 1 .. n : w[i] \in Nat \ {0}
             /\ w[n] = 1
             /\ \A i \in 1 .. n - 1 : w[i] = radices[i + 1] * w[i + 1]
<1> DEFINE n == Len(radices)
           P == Nat \ {0}
           Body(w) == [i \in DOMAIN radices |-> IF i = Len(radices) THEN 1 ELSE radices[i + 1] * w[i + 1]]
<1>1. /\ n \in Nat \ {0} /\ DOMAIN radices = 1 .. n
      /\ \A i \in 1 .. n : radices[i] \in P
  BY DEF Radices
<1>2. \E w : w = Body(w)
  <2> DEFINE m == n - 1
             g == [p \in (1 .. m) \X P |-> radices[n - p[1] + 1] * p[2]]
  <2>1. m \in Nat BY <1>1
  <2>2. g \in [(1 .. m) \X P -> P]
    <3>1. ASSUME NEW p \in (1 .. m) \X P PROVE radices[n - p[1] + 1] * p[2] \in P
      <4>1. n - p[1] + 1 \in 1 .. n /\ p[2] \in P BY <1>1
      <4>2. radices[n - p[1] + 1] \in P BY <1>1, <4>1
      <4> QED BY <4>1, <4>2, TimesNat
    <3> QED BY <3>1
  <2>3. \A i \in 1 .. m, x \in P : g[<<i, x>>] = radices[n - i + 1] * x
    OBVIOUS
  <2> HIDE DEF g
  <2>4. PICK f \in [0 .. m -> P] : f[0] = 1 /\ \A i \in 1 .. m : f[i] = g[<<i, f[i - 1]>>]
    <3> DEFINE one == 1
    <3>1. one \in P OBVIOUS
    <3> HIDE DEF P, m, one
    <3>2. PICK f : Recursive(f, P, one, m, g)
      BY <2>1, <2>2, <3>1, RecursionExists DEF StepFunction
    <3>3. f \in [0 .. m -> P] /\ f[0] = one /\ \A i \in 1 .. m : f[i] = g[<<i, f[i - 1]>>]
      BY <3>2 DEF Recursive
    <3> QED BY <3>3 DEF one
  <2> DEFINE w == [i \in 1 .. n |-> f[n - i]]
  <2>5. ASSUME NEW i \in 1 .. n, i # n PROVE w[i] = radices[i + 1] * w[i + 1]
    <3>1. n - i \in 1 .. m /\ n - (i + 1) = (n - i) - 1 /\ i + 1 \in 1 .. n
      <4> HIDE DEF n, w
      <4> QED BY <1>1, <2>5
    <3>2. f[(n - i) - 1] \in P BY <2>4, <3>1
    <3>3. f[n - i] = radices[n - (n - i) + 1] * f[(n - i) - 1] BY <2>3, <2>4, <3>1, <3>2
    <3>4. n - (n - i) + 1 = i + 1 BY <1>1
    <3> QED BY <3>1, <3>3, <3>4
  <2>6. w[n] = 1 BY <1>1, <2>4
  <2>7. w = Body(w) BY <1>1, <2>5, <2>6
  <2> QED BY <2>7
<1> DEFINE w == Weight(radices)
<1>3. w = Body(w)
  <2>1. w = CHOOSE v : v = Body(v) BY DEF Weight
  <2> QED BY <1>2, <2>1
<1> HIDE DEF w
<1>4. w[n] = 1 /\ \A i \in 1 .. n - 1 : w[i] = radices[i + 1] * w[i + 1]
  <2>1. \A i \in 1 .. n : w[i] = IF i = n THEN 1 ELSE radices[i + 1] * w[i + 1] BY <1>1, <1>3
  <2> HIDE DEF n
  <2> QED BY <1>1, <2>1
<1>5. \A i \in 1 .. n : w[i] \in P
  <2> DEFINE T == {k \in Nat : k < n => w[n - k] \in P}
  <2>1. 0 \in T BY <1>1, <1>4
  <2>2. ASSUME NEW k \in Nat, k \in T PROVE k + 1 \in T
    <3> SUFFICES ASSUME k + 1 < n PROVE w[n - (k + 1)] \in P OBVIOUS
    <3>1. n - (k + 1) \in 1 .. n - 1 /\ n - (k + 1) + 1 = n - k /\ n - k \in 1 .. n BY <1>1
    <3>2. w[n - k] \in P BY <2>2
    <3>3. w[n - (k + 1)] = radices[n - k] * w[n - k] BY <1>4, <3>1
    <3>4. radices[n - k] \in P BY <1>1, <3>1
    <3> QED BY <3>2, <3>3, <3>4, TimesNat
  <2> HIDE DEF T
  <2>3. \A k \in Nat : k \in T BY <2>1, <2>2, InductionSet
  <2>4. ASSUME NEW i \in 1 .. n PROVE w[i] \in P
    <3>1. n - i \in Nat /\ n - i < n /\ n - (n - i) = i BY <1>1
    <3> QED BY <2>3, <3>1 DEF T
  <2> QED BY <2>4
<1> QED BY <1>4, <1>5 DEF w

LEMMA DigitsInRange ==
  ASSUME NEW radices \in Radices, NEW value \in Int, NEW i \in 1 .. Len(radices)
  PROVE  Digits(value, radices)[i] \in 0 .. radices[i] - 1
<1>1. radices[i] \in Nat \ {0} /\ DOMAIN radices = 1 .. Len(radices) BY DEF Radices
<1>2. Weight(radices)[i] \in Nat \ {0} BY Weights
<1> DEFINE q == value \div Weight(radices)[i]
<1>3. q \in Int BY <1>2, DivMod
<1> HIDE DEF q
<1>4. q % radices[i] \in 0 .. radices[i] - 1 BY <1>1, <1>3, DivMod
<1> QED BY <1>1, <1>4 DEF Digits, q

(* The digits of a number tell it.                                         *)
LEMMA DigitsTell ==
  ASSUME NEW radices \in Radices,
         NEW u \in 0 .. radices[1] * Weight(radices)[1] - 1, NEW v \in 0 .. radices[1] * Weight(radices)[1] - 1,
         \A i \in 1 .. Len(radices) : Digits(u, radices)[i] = Digits(v, radices)[i]
  PROVE  u = v
<1> DEFINE n == Len(radices)
           w == Weight(radices)
<1>1. /\ n \in Nat \ {0} /\ DOMAIN radices = 1 .. n
      /\ \A i \in 1 .. n : radices[i] \in Nat \ {0} /\ w[i] \in Nat \ {0}
      /\ w[n] = 1 /\ \A i \in 1 .. n - 1 : w[i] = radices[i + 1] * w[i + 1]
  BY Weights DEF Radices
<1>2. \A i \in 1 .. n : (u \div w[i]) % radices[i] = (v \div w[i]) % radices[i]
  BY <1>1 DEF Digits
<1>3. u \in Nat /\ v \in Nat /\ u < radices[1] * w[1] /\ v < radices[1] * w[1]
  <2>1. radices[1] * w[1] \in Nat BY <1>1, TimesNat
  <2> QED BY <2>1
<1> HIDE DEF w
<1> DEFINE T == {k \in Nat : k < n => u % (radices[n - k] * w[n - k]) = v % (radices[n - k] * w[n - k])}
<1>4. ASSUME NEW i \in 1 .. n, u % w[i] = v % w[i]
      PROVE  u % (radices[i] * w[i]) = v % (radices[i] * w[i])
  <2> DEFINE r == radices[i]
             z == w[i]
  <2>1. r \in Nat \ {0} /\ z \in Nat \ {0} /\ u \in Int /\ v \in Int BY <1>1, <1>3
  <2>2. (u \div z) % r = (v \div z) % r /\ u % z = v % z BY <1>2, <1>4
  <2> HIDE DEF r, z
  <2>3. u % (r * z) = z * ((u \div z) % r) + (u % z) BY <2>1, ModProduct
  <2>4. v % (r * z) = z * ((v \div z) % r) + (v % z) BY <2>1, ModProduct
  <2>5. u % (r * z) = v % (r * z) BY <2>2, <2>3, <2>4
  <2> QED BY <2>5 DEF r, z
<1>5. 0 \in T
  <2>1. u % 1 = 0 /\ v % 1 = 0 BY <1>3
  <2>2. n \in 1 .. n /\ w[n] = 1 BY <1>1
  <2>3. u % w[n] = v % w[n] BY <2>1, <2>2
  <2>4. u % (radices[n] * w[n]) = v % (radices[n] * w[n]) BY <1>4, <2>2, <2>3
  <2>5. n - 0 = n BY <1>1
  <2> QED BY <2>4, <2>5
<1>6. ASSUME NEW k \in Nat, k \in T PROVE k + 1 \in T
  <2> SUFFICES ASSUME k + 1 < n
               PROVE  u % (radices[n - (k + 1)] * w[n - (k + 1)]) = v % (radices[n - (k + 1)] * w[n - (k + 1)])
    OBVIOUS
  <2> DEFINE i == n - (k + 1)
  <2>1. i \in 1 .. n - 1 /\ i \in 1 .. n /\ i + 1 = n - k BY <1>1
  <2>2. w[i] = radices[n - k] * w[n - k] BY <1>1, <2>1
  <2>3. u % w[i] = v % w[i] BY <1>6, <2>2
  <2> HIDE DEF i
  <2>4. u % (radices[i] * w[i]) = v % (radices[i] * w[i]) BY <1>4, <2>1, <2>3
  <2> QED BY <2>4 DEF i
<1> HIDE DEF T
<1>7. n - 1 \in T
  <2>1. \A k \in Nat : k \in T BY <1>5, <1>6, InductionSet
  <2> QED BY <1>1, <2>1
<1> DEFINE m == radices[1] * w[1]
<1>8. u % m = v % m
  <2>1. n - (n - 1) = 1 /\ n - 1 < n BY <1>1
  <2> QED BY <1>7, <2>1 DEF T
<1>9. m \in Nat \ {0} BY <1>1, TimesNat
<1>10. u < m /\ v < m BY <1>3
<1> HIDE DEF m
<1>11. u % m = u /\ v % m = v BY <1>3, <1>9, <1>10
<1> QED BY <1>8, <1>11

(***************************************************************************)
(* The levels that tell a bank.                                            *)
(***************************************************************************)
(* q has the levels of T among the first m, each of them once.             *)
Lists(q, T, m) ==
  /\ q \in Seq(DOMAIN LevelSize)
  /\ \A i \in 1 .. Len(q) : \E j \in 1 .. m : q[i] = LevelNames[j] /\ LevelNames[j] \in T
  /\ \A j \in 1 .. m : LevelNames[j] \in T => \E i \in 1 .. Len(q) : q[i] = LevelNames[j]
  /\ \A i, j \in 1 .. Len(q) : q[i] = q[j] => i = j

LEMMA Names ==
  /\ Len(LevelNames) \in Nat \ {0} /\ DOMAIN LevelNames = 1 .. Len(LevelNames)
  /\ \A i \in 1 .. Len(LevelNames) : LevelNames[i] \in DOMAIN LevelSize
  /\ \A l \in DOMAIN LevelSize : \E i \in 1 .. Len(LevelNames) : LevelNames[i] = l
  /\ \A i, j \in 1 .. Len(LevelNames) : LevelNames[i] = LevelNames[j] => i = j
<1>1. Len(LevelNames) \in Nat /\ DOMAIN LevelNames = 1 .. Len(LevelNames)
      /\ \A i \in 1 .. Len(LevelNames) : LevelNames[i] \in DOMAIN LevelSize
  BY LayoutAssumption
<1>2. /\ \A l \in DOMAIN LevelSize : \E i \in 1 .. Len(LevelNames) : LevelNames[i] = l
      /\ \A i, j \in 1 .. Len(LevelNames) : LevelNames[i] = LevelNames[j] => i = j
  BY <1>1, LayoutAssumption
<1>3. "Rank" \in DOMAIN LevelSize BY LayoutAssumption
<1>4. \E i \in 1 .. Len(LevelNames) : LevelNames[i] = "Rank" BY <1>2, <1>3
<1>5. Len(LevelNames) # 0 BY <1>4
<1> QED BY <1>1, <1>2, <1>5

LEMMA InOrderLists == ASSUME NEW T PROVE Lists(InOrder(T), T, Len(LevelNames))
<1> DEFINE n == Len(LevelNames)
           D == DOMAIN LevelSize
           Body(f) == [k \in 0 .. n |-> IF k = 0 THEN <<>>
                                        ELSE IF LevelNames[k] \in T THEN Append(f[k - 1], LevelNames[k]) ELSE f[k - 1]]
           found == CHOOSE f : f = Body(f)
           g == [p \in (1 .. n) \X Seq(D) |->
                   IF LevelNames[p[1]] \in T THEN Append(p[2], LevelNames[p[1]]) ELSE p[2]]
<1>1. n \in Nat /\ \A k \in 1 .. n : LevelNames[k] \in D BY Names
<1>2. InOrder(T) = found[n] BY DEF InOrder
<1>3. StepFunction(g, n, Seq(D))
  <2>1. ASSUME NEW p \in (1 .. n) \X Seq(D)
        PROVE  (IF LevelNames[p[1]] \in T THEN Append(p[2], LevelNames[p[1]]) ELSE p[2]) \in Seq(D)
    <3>1. LevelNames[p[1]] \in D /\ p[2] \in Seq(D) BY <1>1
    <3> QED BY <3>1, AppendProperties
  <2>2. g \in [(1 .. n) \X Seq(D) -> Seq(D)] BY <2>1
  <2> QED BY <2>2 DEF StepFunction
<1>4. \A k \in 1 .. n, q \in Seq(D) :
        g[<<k, q>>] = IF LevelNames[k] \in T THEN Append(q, LevelNames[k]) ELSE q
  OBVIOUS
<1>5. \E f : f = Body(f)
  <2>1. <<>> \in Seq(D) OBVIOUS
  <2>2. PICK f : Recursive(f, Seq(D), <<>>, n, g)
    <3> HIDE DEF g, n, D
    <3> QED BY <1>1, <1>3, <2>1, RecursionExists
  <2>3. f \in [0 .. n -> Seq(D)] /\ f[0] = <<>> /\ \A k \in 1 .. n : f[k] = g[<<k, f[k - 1]>>]
    BY <2>2 DEF Recursive
  <2> HIDE DEF g
  <2>4. \A k \in 1 .. n : f[k] = IF LevelNames[k] \in T THEN Append(f[k - 1], LevelNames[k]) ELSE f[k - 1]
    <3> TAKE k \in 1 .. n
    <3>1. k - 1 \in 0 .. n BY <1>1
    <3>2. f[k - 1] \in Seq(D) BY <2>3, <3>1
    <3> QED BY <1>4, <2>3, <3>2
  <2>5. \A k \in 0 .. n : f[k] = IF k = 0 THEN <<>>
                     ELSE IF LevelNames[k] \in T THEN Append(f[k - 1], LevelNames[k]) ELSE f[k - 1]
    <3> HIDE DEF n
    <3> TAKE k \in 0 .. n
    <3>1. CASE k = 0 BY <2>3, <3>1
    <3>2. CASE k # 0
      <4>1. k \in 1 .. n BY <1>1, <3>2
      <4> QED BY <2>4, <3>2, <4>1
    <3> QED BY <3>1, <3>2
  <2>6. f = [k \in 0 .. n |-> f[k]] BY <2>3
  <2>7. f = Body(f) BY <2>5, <2>6
  <2> WITNESS f
  <2> QED BY <2>7
<1>6. found = Body(found) BY <1>5
<1> HIDE DEF found
<1>7. /\ found[0] = <<>>
      /\ \A k \in 1 .. n : found[k] = IF LevelNames[k] \in T THEN Append(found[k - 1], LevelNames[k]) ELSE found[k - 1]
  <2>1. \A k \in 0 .. n : found[k] = IF k = 0 THEN <<>>
                     ELSE IF LevelNames[k] \in T THEN Append(found[k - 1], LevelNames[k]) ELSE found[k - 1]
    BY <1>6
  <2> QED BY <1>1, <2>1
<1> DEFINE S == {m \in Nat : m <= n => Lists(found[m], T, m)}
<1>8. 0 \in S
  <2>1. Lists(<<>>, T, 0) BY DEF Lists
  <2> QED BY <1>7, <2>1
<1>9. ASSUME NEW m \in Nat, m \in S PROVE m + 1 \in S
  <2> SUFFICES ASSUME m + 1 <= n PROVE Lists(found[m + 1], T, m + 1) OBVIOUS
  <2>1. Lists(found[m], T, m) /\ m + 1 \in 1 .. n /\ (m + 1) - 1 = m BY <1>9
  <2> DEFINE q == found[m]
             l == LevelNames[m + 1]
             a == Append(q, l)
  <2>2. q \in Seq(D) /\ l \in D BY <1>1, <2>1 DEF Lists
  <2>3. CASE l \notin T
    <3>1. found[m + 1] = q BY <1>7, <2>1, <2>3
    <3> QED BY <2>1, <2>3, <3>1 DEF Lists
  <2>4. CASE l \in T
    <3>1. found[m + 1] = a BY <1>7, <2>1, <2>4
    <3> HIDE DEF q
    <3>2. a \in Seq(D) /\ Len(a) = Len(q) + 1 /\ a[Len(q) + 1] = l /\ \A i \in 1 .. Len(q) : a[i] = q[i]
      BY <2>2
    <3>3. Len(q) \in Nat BY <2>2
    <3> HIDE DEF a
    <3>4. \A i \in 1 .. Len(q) : q[i] # l
      <4> SUFFICES ASSUME NEW i \in 1 .. Len(q), q[i] = l PROVE FALSE OBVIOUS
      <4>1. PICK j \in 1 .. m : q[i] = LevelNames[j] BY <2>1 DEF Lists, q
      <4>2. j \in 1 .. n /\ j # m + 1 BY <2>1
      <4> QED BY <2>1, <4>1, <4>2, Names
    <3>5. \A i \in 1 .. Len(a) : \E j \in 1 .. m + 1 : a[i] = LevelNames[j] /\ LevelNames[j] \in T
      <4> TAKE i \in 1 .. Len(a)
      <4>1. CASE i = Len(q) + 1 BY <2>4, <3>2, <4>1
      <4>2. CASE i \in 1 .. Len(q)
        <5>1. PICK j \in 1 .. m : q[i] = LevelNames[j] /\ LevelNames[j] \in T BY <2>1, <4>2 DEF Lists, q
        <5> QED BY <3>2, <4>2, <5>1
      <4> QED BY <3>2, <3>3, <4>1, <4>2
    <3>6. \A j \in 1 .. m + 1 : LevelNames[j] \in T => \E i \in 1 .. Len(a) : a[i] = LevelNames[j]
      <4> TAKE j \in 1 .. m + 1
      <4> SUFFICES ASSUME LevelNames[j] \in T PROVE \E i \in 1 .. Len(a) : a[i] = LevelNames[j] OBVIOUS
      <4>1. CASE j = m + 1 BY <3>2, <3>3, <4>1
      <4>2. CASE j \in 1 .. m
        <5>1. PICK i \in 1 .. Len(q) : q[i] = LevelNames[j] BY <2>1, <4>2 DEF Lists, q
        <5> QED BY <3>2, <3>3, <5>1
      <4> QED BY <4>1, <4>2
    <3>7. \A i, j \in 1 .. Len(q) : q[i] = q[j] => i = j BY <2>1 DEF Lists, q
    <3>8. \A i, j \in 1 .. Len(a) : a[i] = a[j] => i = j
      BY <3>2, <3>3, <3>4, <3>7
    <3>9. Lists(a, T, m + 1) BY <3>2, <3>5, <3>6, <3>8 DEF Lists
    <3> QED BY <3>1, <3>9
  <2> QED BY <2>3, <2>4
<1> HIDE DEF S
<1>10. \A m \in Nat : m \in S BY <1>8, <1>9, InductionSet
<1>11. Lists(found[n], T, n) BY <1>1, <1>10 DEF S
<1> QED BY <1>2, <1>11

(* The bank levels, in some order.                                         *)
LEMMA Positions ==
  /\ BankPositions \in Seq(BankLevels)
  /\ \A l \in BankLevels : \E i \in 1 .. Len(BankPositions) : BankPositions[i] = l
  /\ \A i, j \in 1 .. Len(BankPositions) : BankPositions[i] = BankPositions[j] => i = j
<1> DEFINE D == DOMAIN LevelSize
           slow == InOrder(BankLevels \ FastLevels)
           fast == InOrder(FastLevels)
           q == BankPositions
<1>1. Lists(slow, BankLevels \ FastLevels, Len(LevelNames)) /\ Lists(fast, FastLevels, Len(LevelNames))
  BY InOrderLists
<1> HIDE DEF slow, fast
<1>2. /\ slow \in Seq(D) /\ fast \in Seq(D)
      /\ \A i \in 1 .. Len(slow) : slow[i] \in BankLevels \ FastLevels
      /\ \A i \in 1 .. Len(fast) : fast[i] \in FastLevels
      /\ \A l \in BankLevels \ FastLevels : \E i \in 1 .. Len(slow) : slow[i] = l
      /\ \A l \in FastLevels : \E i \in 1 .. Len(fast) : fast[i] = l
      /\ \A i, j \in 1 .. Len(slow) : slow[i] = slow[j] => i = j
      /\ \A i, j \in 1 .. Len(fast) : fast[i] = fast[j] => i = j
  <2>1. BankLevels \subseteq D /\ FastLevels \subseteq BankLevels BY DEF BankLevels, FastLevels
  <2>2. \A l \in BankLevels : \E i \in 1 .. Len(LevelNames) : LevelNames[i] = l BY <2>1, Names
  <2>3. slow \in Seq(D) /\ fast \in Seq(D) BY <1>1 DEF Lists
  <2>4. /\ \A i \in 1 .. Len(slow) : slow[i] \in BankLevels \ FastLevels
        /\ \A i \in 1 .. Len(fast) : fast[i] \in FastLevels
    BY <1>1 DEF Lists
  <2>5. /\ \A l \in BankLevels \ FastLevels : \E i \in 1 .. Len(slow) : slow[i] = l
        /\ \A l \in FastLevels : \E i \in 1 .. Len(fast) : fast[i] = l
    <3>1. ASSUME NEW l \in BankLevels \ FastLevels PROVE \E i \in 1 .. Len(slow) : slow[i] = l
      <4>1. PICK j \in 1 .. Len(LevelNames) : LevelNames[j] = l BY <2>2
      <4> QED BY <1>1, <4>1 DEF Lists
    <3>2. ASSUME NEW l \in FastLevels PROVE \E i \in 1 .. Len(fast) : fast[i] = l
      <4>1. PICK j \in 1 .. Len(LevelNames) : LevelNames[j] = l BY <2>1, <2>2
      <4> QED BY <1>1, <4>1 DEF Lists
    <3> QED BY <3>1, <3>2
  <2> QED BY <1>1, <2>3, <2>4, <2>5 DEF Lists
<1>3. /\ q \in Seq(D) /\ Len(q) = Len(slow) + Len(fast)
      /\ \A i \in 1 .. Len(q) : q[i] = IF i <= Len(slow) THEN slow[i] ELSE fast[i - Len(slow)]
  BY <1>2, ConcatProperties DEF BankPositions, slow, fast
<1>4. Len(slow) \in Nat /\ Len(fast) \in Nat BY <1>2
<1> HIDE DEF q
<1>5. FastLevels \subseteq BankLevels BY DEF FastLevels
<1>6. \A i \in 1 .. Len(q) : q[i] \in BankLevels
  BY <1>2, <1>3, <1>4, <1>5
<1>7. q \in Seq(BankLevels)
  BY <1>3, <1>6
<1>8. ASSUME NEW l \in BankLevels PROVE \E i \in 1 .. Len(q) : q[i] = l
  <2>1. CASE l \in FastLevels
    <3>1. PICK i \in 1 .. Len(fast) : fast[i] = l BY <1>2, <2>1
    <3>2. i + Len(slow) \in 1 .. Len(q) /\ ~(i + Len(slow) <= Len(slow)) /\ (i + Len(slow)) - Len(slow) = i
      BY <1>3, <1>4
    <3> QED BY <1>3, <3>1, <3>2
  <2>2. CASE l \notin FastLevels
    <3>1. PICK i \in 1 .. Len(slow) : slow[i] = l BY <1>2, <2>2
    <3> QED BY <1>3, <1>4, <3>1
  <2> QED BY <2>1, <2>2
<1>9. ASSUME NEW i \in 1 .. Len(q), NEW j \in 1 .. Len(q), q[i] = q[j] PROVE i = j
  <2> DEFINE n == Len(slow)
             m == Len(fast)
  <2>1. /\ n \in Nat /\ m \in Nat /\ Len(q) = n + m
        /\ \A k \in 1 .. Len(q) : k <= n => q[k] = slow[k] /\ k \in 1 .. n
        /\ \A k \in 1 .. Len(q) : ~(k <= n) => q[k] = fast[k - n] /\ k - n \in 1 .. m
    BY <1>3, <1>4
  <2> HIDE DEF n, m
  <2>2. CASE i <= n /\ j <= n BY <1>2, <1>9, <2>1, <2>2 DEF n
  <2>3. CASE ~(i <= n) /\ ~(j <= n)
    <3>1. i - n = j - n BY <1>2, <1>9, <2>1, <2>3 DEF m
    <3> QED BY <2>1, <3>1
  <2>4. CASE i <= n /\ ~(j <= n)
    <3>1. q[i] \notin FastLevels /\ q[j] \in FastLevels BY <1>2, <2>1, <2>4 DEF n, m
    <3> QED BY <1>9, <3>1
  <2>5. CASE ~(i <= n) /\ j <= n
    <3>1. q[j] \notin FastLevels /\ q[i] \in FastLevels BY <1>2, <2>1, <2>5 DEF n, m
    <3> QED BY <1>9, <3>1
  <2> QED BY <2>2, <2>3, <2>4, <2>5
<1> QED BY <1>7, <1>8, <1>9 DEF q

Index(l) == CHOOSE i \in DOMAIN BankPositions : BankPositions[i] = l

LEMMA BankRadices ==
  /\ BankCounts \in Radices /\ Len(BankCounts) = Len(BankPositions)
  /\ \A i \in 1 .. Len(BankPositions) :
       BankPositions[i] \in BankLevels /\ BankCounts[i] = LevelSize[BankPositions[i]]
  /\ \A l \in BankLevels : /\ Index(l) \in 1 .. Len(BankPositions)
                           /\ BankPositions[Index(l)] = l
  /\ "Rank" \in BankLevels
<1> DEFINE n == Len(BankPositions)
<1>1. /\ n \in Nat /\ DOMAIN BankPositions = 1 .. n
      /\ \A i \in 1 .. n : BankPositions[i] \in BankLevels
  BY Positions
<1>2. "Rank" \in BankLevels BY LayoutAssumption DEF BankLevels
<1>3. n > 0
  <2>1. \E i \in 1 .. n : BankPositions[i] = "Rank" BY <1>2, Positions
  <2> QED BY <1>1, <2>1
<1>4. \A i \in 1 .. n : BankCounts[i] = LevelSize[BankPositions[i]] /\ BankCounts[i] \in Nat \ {0}
  BY <1>1, LayoutAssumption DEF BankCounts, BankLevels
<1>5. DOMAIN BankCounts = 1 .. n BY <1>1 DEF BankCounts
<1>6. BankCounts \in Seq(Nat \ {0}) /\ Len(BankCounts) = n
  <2>1. BankCounts = [i \in 1 .. n |-> BankCounts[i]] BY <1>1 DEF BankCounts
  <2> QED BY <1>1, <1>4, <2>1
<1>7. \A l \in BankLevels : \E i \in DOMAIN BankPositions : BankPositions[i] = l
  BY <1>1, Positions
<1>8. \A l \in BankLevels : Index(l) \in 1 .. n /\ BankPositions[Index(l)] = l
  BY <1>1, <1>7 DEF Index
<1> QED BY <1>1, <1>2, <1>3, <1>4, <1>6, <1>8 DEF Radices

LEMMA IndexOf == \A i \in 1 .. Len(BankPositions) : Index(BankPositions[i]) = i
<1> TAKE i \in 1 .. Len(BankPositions)
<1>1. BankPositions[i] \in BankLevels BY BankRadices
<1> DEFINE k == Index(BankPositions[i])
<1>2. k \in 1 .. Len(BankPositions) /\ BankPositions[k] = BankPositions[i] BY <1>1, BankRadices
<1> HIDE DEF k
<1>3. k = i BY <1>2, Positions
<1> QED BY <1>3 DEF k

(* Where a flat bank lies.                                                 *)
LEMMA FlatBank ==
  ASSUME NEW bank \in Int, NEW av, DOMAIN av = DOMAIN LevelSize
  PROVE  /\ DOMAIN DecomposeFlatBank(bank, av) = DOMAIN LevelSize
         /\ \A l \in BankLevels :
              /\ DecomposeFlatBank(bank, av)[l] = Digits(bank, BankCounts)[Index(l)]
              /\ DecomposeFlatBank(bank, av)[l] \in 0 .. LevelSize[l] - 1
         /\ \A l \in DOMAIN LevelSize \ BankLevels : DecomposeFlatBank(bank, av)[l] = av[l]
<1> DEFINE d == DecomposeFlatBank(bank, av)
<1>1. d = [l \in DOMAIN LevelSize |-> IF l \in BankLevels THEN Digits(bank, BankCounts)[Index(l)] ELSE av[l]]
  BY DEF DecomposeFlatBank, Index
<1> HIDE DEF d
<1>2. BankLevels \subseteq DOMAIN LevelSize BY DEF BankLevels
<1>3. ASSUME NEW l \in BankLevels PROVE Digits(bank, BankCounts)[Index(l)] \in 0 .. LevelSize[l] - 1
  <2> DEFINE i == Index(l)
  <2>1. i \in 1 .. Len(BankCounts) /\ BankCounts[i] = LevelSize[l] BY BankRadices
  <2> HIDE DEF i
  <2>2. Digits(bank, BankCounts)[i] \in 0 .. BankCounts[i] - 1 BY <2>1, BankRadices, DigitsInRange
  <2> QED BY <2>1, <2>2 DEF i
<1> QED BY <1>1, <1>2, <1>3 DEF d

LEMMA RankOfFlatBank ==
  ASSUME NEW bank \in Int
  PROVE  /\ RankForFlatBank(bank) \in Ranks
         /\ \A av : DOMAIN av = DOMAIN LevelSize => DecomposeFlatBank(bank, av)["Rank"] = RankForFlatBank(bank)
<1>1. RankForFlatBank(bank) = Digits(bank, BankCounts)[Index("Rank")] BY DEF RankForFlatBank, Index
<1>2. "Rank" \in BankLevels BY BankRadices
<1>3. \A av : DOMAIN av = DOMAIN LevelSize => DecomposeFlatBank(bank, av)["Rank"] = RankForFlatBank(bank)
  BY <1>1, <1>2, FlatBank
<1>4. DecomposeFlatBank(bank, LevelSize)["Rank"] \in Ranks BY <1>2, FlatBank DEF Ranks
<1> QED BY <1>3, <1>4

(* The bank of an address is the one its bank coordinates come from.       *)
LEMMA BankFromCoordinates ==
  ASSUME NEW b \in Banks, NEW x, NEW av, DOMAIN x = DOMAIN LevelSize, DOMAIN av = DOMAIN LevelSize,
         \A l \in BankLevels : x[l] = DecomposeFlatBank(b, av)[l]
  PROVE  BankOf(x) = b
<1> DEFINE n == Len(BankCounts)
           Fits(c) == \A l \in BankLevels : DecomposeFlatBank(c, x)[l] = x[l]
           c == BankOf(x)
<1>0. Banks \subseteq Int
  <2>1. BankCounts[1] \in Nat \ {0} /\ Weight(BankCounts)[1] \in Nat \ {0}
    BY BankRadices, Weights DEF Radices
  <2>2. BankCounts[1] * Weight(BankCounts)[1] \in Nat BY <2>1, TimesNat
  <2> QED BY <2>2 DEF Banks
<1>1. Fits(b) BY <1>0, FlatBank
<1>2. c \in Banks /\ Fits(c) BY <1>1 DEF BankOf
<1> HIDE DEF c
<1>3. \A i \in 1 .. n : Digits(c, BankCounts)[i] = Digits(b, BankCounts)[i]
  <2> TAKE i \in 1 .. n
  <2> DEFINE l == BankPositions[i]
  <2>1. l \in BankLevels /\ Index(l) = i BY BankRadices, IndexOf
  <2> HIDE DEF l
  <2>2. DecomposeFlatBank(c, x)[l] = DecomposeFlatBank(b, av)[l] BY <1>2, <2>1
  <2>3. DecomposeFlatBank(c, x)[l] = Digits(c, BankCounts)[i] BY <1>0, <1>2, <2>1, FlatBank
  <2>4. DecomposeFlatBank(b, av)[l] = Digits(b, BankCounts)[i] BY <1>0, <2>1, FlatBank
  <2> QED BY <2>2, <2>3, <2>4
<1>4. c = b BY <1>2, <1>3, BankRadices, DigitsTell DEF Banks
<1> QED BY <1>4 DEF c

(***************************************************************************)
(* Byte addresses.                                                         *)
(***************************************************************************)
LEMMA TransactionsOfRow ==
  LevelSize["Column"] \div Prefetch \in Nat \ {0} /\ LevelSize["Column"] \div Prefetch <= LevelSize["Column"]
<1> DEFINE s == LevelSize["Column"]
           q == s \div Prefetch
<1>1. s \in Nat \ {0} /\ Prefetch \in Nat \ {0} /\ s % Prefetch = 0 BY LayoutAssumption
<1> HIDE DEF s
<1>2. q \in Nat /\ s = Prefetch * q + (s % Prefetch) BY <1>1, DivMod
<1> HIDE DEF q
<1>3. s = Prefetch * q BY <1>1, <1>2
<1>4. q # 0 BY <1>1, <1>3
<1>5. q <= s BY <1>1, <1>2, <1>3, <1>4, TimesNat
<1> QED BY <1>2, <1>4, <1>5 DEF q, s

LEMMA AddressLevels ==
  /\ AddressRadices \in Radices /\ Len(AddressRadices) = Len(LevelNames)
  /\ \A i \in 1 .. Len(LevelNames) : AddressRadices[i] <= LevelSize[LevelNames[i]]
  /\ Transactions \in Nat \ {0} /\ CapacityBytes \in Nat \ {0}
<1> DEFINE n == Len(LevelNames)
           r == AddressRadices
<1>1. \A i \in 1 .. n : r[i] \in Nat \ {0} /\ r[i] <= LevelSize[LevelNames[i]]
  <2> TAKE i \in 1 .. n
  <2>1. LevelNames[i] \in DOMAIN LevelSize /\ i \in DOMAIN LevelNames BY Names
  <2>2. LevelSize[LevelNames[i]] \in Nat \ {0} BY <2>1, LayoutAssumption
  <2>3. r[i] = IF LevelNames[i] = "Column" THEN LevelSize["Column"] \div Prefetch ELSE LevelSize[LevelNames[i]]
    BY <2>1 DEF AddressRadices
  <2> QED BY <2>2, <2>3, TransactionsOfRow
<1>2. r = [i \in 1 .. n |-> r[i]] BY Names DEF AddressRadices
<1>3. n \in Nat \ {0} BY Names
<1> HIDE DEF r
<1>4. r \in Seq(Nat \ {0}) /\ Len(r) = n BY <1>1, <1>2, <1>3
<1>5. r \in Radices BY <1>3, <1>4 DEF Radices
<1>6. r[1] \in Nat \ {0} /\ Weight(r)[1] \in Nat \ {0} BY <1>1, <1>3, <1>4, <1>5, Weights
<1>7. Transactions \in Nat \ {0} BY <1>6, TimesNat DEF Transactions, r
<1>8. CapacityBytes \in Nat \ {0} BY <1>7, LayoutAssumption, TimesNat DEF CapacityBytes
<1> QED BY <1>1, <1>4, <1>5, <1>7, <1>8 DEF r

(* addr_vec_from_byte_address: every byte lies in the hierarchy.           *)
THEOREM ByteAddressInLayout ==
  ASSUME NEW address \in Int
  PROVE  InLayout(AddrVecFromByteAddress(address))
<1> DEFINE v == address \div TxBytes
           digits == Digits(v, AddressRadices)
           Pos(l) == CHOOSE i \in DOMAIN LevelNames : LevelNames[i] = l
           av == AddrVecFromByteAddress(address)
<1>1. v \in Int BY LayoutAssumption, DivMod
<1> HIDE DEF v
<1>2. av = [l \in DOMAIN LevelSize |-> digits[Pos(l)]] BY DEF AddrVecFromByteAddress, v
<1> HIDE DEF av, digits
<1>3. ASSUME NEW l \in DOMAIN LevelSize PROVE av[l] >= 0 /\ av[l] < LevelSize[l]
  <2> DEFINE i == Pos(l)
  <2>1. \E j \in DOMAIN LevelNames : LevelNames[j] = l BY LayoutAssumption
  <2>2. i \in DOMAIN LevelNames /\ LevelNames[i] = l BY <2>1
  <2>3. av[l] = digits[i] BY <1>2
  <2> HIDE DEF i
  <2>4. i \in 1 .. Len(AddressRadices) BY <2>2, Names, AddressLevels
  <2>5. digits[i] \in 0 .. AddressRadices[i] - 1 BY <1>1, <2>4, AddressLevels, DigitsInRange DEF digits
  <2>6. AddressRadices \in Seq(Nat \ {0}) BY AddressLevels DEF Radices
  <2>7. AddressRadices[i] \in Nat BY <2>4, <2>6
  <2>8. LevelSize[l] \in Nat BY LayoutAssumption
  <2>9. i \in 1 .. Len(LevelNames) BY <2>4, AddressLevels
  <2>10. AddressRadices[i] <= LevelSize[l] BY <2>2, <2>9, AddressLevels
  <2> QED BY <2>3, <2>5, <2>7, <2>8, <2>10
<1>4. DOMAIN av = DOMAIN LevelSize BY <1>2
<1> QED BY <1>3, <1>4 DEF InLayout, av

(***************************************************************************)
(* The sequence is accepted. The invariant says that the modes and loads   *)
(* the lowering keeps agree with those the validator derives from the      *)
(* records.                                                                *)
(***************************************************************************)
IsOutput(o) ==
  /\ o = [rank_modes |-> o.rank_modes, load_ready |-> o.load_ready, trace |-> o.trace,
          last |-> o.last, valid |-> o.valid, work |-> o.work]
  /\ o.rank_modes \in [Ranks -> ModeOpcodes]
  /\ o.load_ready \subseteq Ranks
  /\ o.trace.bcasts \subseteq Ranks
  /\ o.trace.accepted = TRUE

(* A load the lowering counts on was broadcast.                            *)
LoadsAgree(o, r) ==
  /\ o.rank_modes[r] # "SB" /\ r \in o.load_ready => r \in o.trace.bcasts
  /\ o.rank_modes[r] = "HAB_PIM" => r \in o.load_ready

(* A trace that has no record yet has left every rank as it was.           *)
Untouched(o) == o.last = NoRecord => \A r \in Ranks : o.rank_modes[r] = "SB"

Agree(o) ==
  /\ IsOutput(o)
  /\ o.trace.modes = o.rank_modes
  /\ \A r \in Ranks : LoadsAgree(o, r)
  /\ Untouched(o)

(* What the loops rely on: a rank whose all-bank work has begun is in its  *)
(* mode, and the ranks of per-bank work are in single-bank mode.           *)
LoopInv ==
  /\ pc = "all_bank" /\ done # 0 =>
       \A r \in Ranks : Visited(r) => out.rank_modes[r] = "HAB_PIM"
  /\ pc \in {"single", "compact"} =>
       \A r \in AllBankTargetRanks(semantic) :
         \/ r \in left /\ pc = "single"
         \/ r \in Ranks /\ out.rank_modes[r] = "SB"
  /\ pc = "compact" => Len(semantic.bank_sequence) > 1

IInv == Agree(out) /\ LoopInv

(***************************************************************************)
(* The helpers keep the agreement and do what their names say.             *)
(***************************************************************************)
LEMMA RankOfRankAddrVec ==
  ASSUME NEW s, NEW i, NEW burst, NEW r
  PROVE  /\ RankAddrVec(BaseAddrVec(s), r)["Rank"] = r
         /\ RankAddrVec(AddrVecFromSemantic(s, i, burst), r)["Rank"] = r
<1>1. "Rank" \in DOMAIN LevelSize BY LayoutAssumption
<1>2. "Rank" \in DOMAIN AddrVecFromSemantic(s, i, burst)
  BY <1>1 DEF AddrVecFromSemantic, DecomposeFlatBank
<1>3. "Rank" \in DOMAIN BaseAddrVec(s)
  BY <1>1 DEF BaseAddrVec, AddrVecFromSemantic, DecomposeFlatBank
<1> QED BY <1>2, <1>3 DEF RankAddrVec

(* The validator's next state, field by field.                             *)
LEMMA ValidateAccepted ==
  ASSUME NEW t, NEW opcode, NEW ranks, t.accepted = TRUE, \A r \in ranks : Allowed(t, opcode, r)
  PROVE  ValidateNext(t, opcode, ranks).accepted = TRUE
<1> DEFINE accepted == t.accepted /\ \A r \in ranks : Allowed(t, opcode, r)
<1>1. accepted = TRUE
  OBVIOUS
<1>2. ValidateNext(t, opcode, ranks).accepted = accepted
  BY DEF ValidateNext
<1> QED BY <1>1, <1>2

LEMMA ValidateModes ==
  ASSUME NEW t, NEW opcode, NEW ranks, t.modes \in [Ranks -> ModeOpcodes]
  PROVE  ValidateNext(t, opcode, ranks).modes =
           [r \in Ranks |-> IF r \in ranks /\ opcode \in ModeOpcodes THEN opcode ELSE t.modes[r]]
BY DEF ValidateNext

LEMMA ValidateBcasts ==
  ASSUME NEW t, NEW opcode, NEW ranks
  PROVE  /\ opcode \in {"SB", "HAB"} => ValidateNext(t, opcode, ranks).bcasts = t.bcasts \ ranks
         /\ opcode = "PIM_BCAST" => ValidateNext(t, opcode, ranks).bcasts = t.bcasts \cup ranks
         /\ opcode \notin {"SB", "HAB", "PIM_BCAST"} => ValidateNext(t, opcode, ranks).bcasts = t.bcasts
BY DEF ValidateNext

(* A record that leaves the modes alone and is allowed.                    *)
LEMMA AppendAgrees ==
  ASSUME NEW o, Agree(o), NEW record, record.opcode \in Opcodes \ ModeOpcodes,
         NEW ranks, ranks = RecordRankIds(record), ranks \subseteq Ranks,
         \A r \in ranks : Allowed(o.trace, record.opcode, r)
  PROVE  /\ Agree(Append1(o, record))
         /\ Append1(o, record).rank_modes = o.rank_modes
         /\ Append1(o, record).load_ready = o.load_ready
         /\ record.opcode = "PIM_BCAST" => ranks \subseteq Append1(o, record).trace.bcasts
<1> DEFINE n == Append1(o, record)
           v == ValidateNext(o.trace, record.opcode, ranks)
<1>1. /\ n.rank_modes = o.rank_modes /\ n.load_ready = o.load_ready
      /\ n.trace = v /\ n.last = record
      /\ n = [rank_modes |-> n.rank_modes, load_ready |-> n.load_ready, trace |-> n.trace,
              last |-> n.last, valid |-> n.valid, work |-> n.work]
  BY DEF Append1
<1>2. IsOutput(o) /\ o.trace.modes = o.rank_modes /\ \A r \in Ranks : LoadsAgree(o, r)
  BY DEF Agree
<1>3. record.opcode \notin ModeOpcodes /\ record.opcode \notin {"SB", "HAB"} /\ record.opcode # "none"
  BY DEF ModeOpcodes, Opcodes, HostOpcodes
<1> HIDE DEF n
<1>4. v.modes = o.rank_modes
  BY <1>2, <1>3, ValidateModes DEF IsOutput
<1>5. v.accepted = TRUE
  BY <1>2, ValidateAccepted DEF IsOutput
<1>6. /\ o.trace.bcasts \subseteq v.bcasts /\ v.bcasts \subseteq Ranks
      /\ record.opcode = "PIM_BCAST" => ranks \subseteq v.bcasts
  <2>1. CASE record.opcode = "PIM_BCAST"
    BY <1>2, <2>1, ValidateBcasts DEF IsOutput
  <2>2. CASE record.opcode # "PIM_BCAST"
    <3>1. v.bcasts = o.trace.bcasts BY <1>3, <2>2, ValidateBcasts
    <3> QED BY <1>2, <2>2, <3>1 DEF IsOutput
  <2> QED BY <2>1, <2>2
<1> HIDE DEF v
<1>7. IsOutput(n)
  BY <1>1, <1>2, <1>4, <1>5, <1>6 DEF IsOutput
<1>8. \A r \in Ranks : LoadsAgree(n, r)
  BY <1>1, <1>2, <1>6 DEF LoadsAgree
<1>9. Untouched(n)
  BY <1>1, <1>3 DEF Untouched, NoRecord
<1>10. Agree(n)
  BY <1>1, <1>4, <1>7, <1>8, <1>9 DEF Agree
<1> QED BY <1>1, <1>6, <1>10 DEF n

(* A mode command, and the lowering's own note of it.                      *)
LEMMA SwitchAgrees ==
  ASSUME NEW o, Agree(o), NEW av, NEW r \in Ranks, av["Rank"] = r, NEW mode \in ModeOpcodes,
         mode = "HAB_PIM" => r \in o.load_ready /\ o.rank_modes[r] # "SB"
  PROVE  /\ Agree(SetMode(Append1(o, Record(mode, av, 1)), r, mode))
         /\ SetMode(Append1(o, Record(mode, av, 1)), r, mode).rank_modes = [o.rank_modes EXCEPT ![r] = mode]
<1> DEFINE rec == Record(mode, av, 1)
           a == Append1(o, rec)
           n == SetMode(a, r, mode)
           v == ValidateNext(o.trace, mode, {r})
<1>1. IsOutput(o) /\ o.trace.modes = o.rank_modes /\ \A q \in Ranks : LoadsAgree(o, q)
  BY DEF Agree
<1>2. rec.opcode = mode /\ RecordRankIds(rec) = {r}
  BY DEF Record, RecordRankIds
<1>3. a.rank_modes = o.rank_modes /\ a.load_ready = o.load_ready /\ a.trace = v /\ a.last = rec
  BY <1>2 DEF Append1
<1>4. /\ n.rank_modes = [a.rank_modes EXCEPT ![r] = mode]
      /\ n.load_ready = IF mode = "HAB_PIM" THEN a.load_ready ELSE a.load_ready \ {r}
      /\ n.trace = a.trace /\ n.last = a.last
      /\ n = [rank_modes |-> n.rank_modes, load_ready |-> n.load_ready, trace |-> n.trace,
              last |-> n.last, valid |-> n.valid, work |-> n.work]
  <2> HIDE DEF a
  <2> QED BY DEF SetMode, WithRanks
<1> HIDE DEF n, a
<1>5. Allowed(o.trace, mode, r)
  <2>1. CASE mode = "HAB_PIM"
    <3>1. r \in o.trace.bcasts BY <1>1, <2>1 DEF LoadsAgree
    <3> QED BY <3>1, <2>1 DEF Allowed, HostOpcodes
  <2>2. CASE mode # "HAB_PIM"
    BY <2>2 DEF Allowed, HostOpcodes, ModeOpcodes
  <2> QED BY <2>1, <2>2
<1>6. v.accepted = TRUE
  BY <1>1, <1>5, ValidateAccepted DEF IsOutput
<1>7. v.modes = [o.rank_modes EXCEPT ![r] = mode]
  BY <1>1, ValidateModes DEF IsOutput
<1>8. v.bcasts = IF mode = "HAB_PIM" THEN o.trace.bcasts ELSE o.trace.bcasts \ {r}
  <2>1. CASE mode = "HAB_PIM"
    <3>1. v.bcasts = o.trace.bcasts BY <2>1, ValidateBcasts
    <3> QED BY <2>1, <3>1
  <2>2. CASE mode # "HAB_PIM"
    <3>1. v.bcasts = o.trace.bcasts \ {r} BY <2>2, ValidateBcasts DEF ModeOpcodes
    <3> QED BY <2>2, <3>1
  <2> QED BY <2>1, <2>2
<1> HIDE DEF v
<1>9. IsOutput(n)
  BY <1>1, <1>3, <1>4, <1>6, <1>8 DEF IsOutput
<1>10. \A q \in Ranks : LoadsAgree(n, q)
  BY <1>1, <1>3, <1>4, <1>8 DEF LoadsAgree, IsOutput, ModeOpcodes
<1>11. Untouched(n)
  BY <1>2, <1>3, <1>4 DEF Untouched, NoRecord, ModeOpcodes
<1>12. Agree(n)
  BY <1>1, <1>3, <1>4, <1>7, <1>9, <1>10, <1>11 DEF Agree
<1> QED BY <1>3, <1>4, <1>12 DEF n, a

LEMMA SingleBankAgrees ==
  ASSUME NEW o, Agree(o), NEW av, NEW r \in Ranks, av["Rank"] = r
  PROVE  /\ Agree(ToSingleBank(o, av))
         /\ ToSingleBank(o, av).rank_modes = [o.rank_modes EXCEPT ![r] = "SB"]
<1>1. CASE o.rank_modes[r] = "SB"
  <2>1. o.rank_modes = [o.rank_modes EXCEPT ![r] = "SB"]
    BY <1>1 DEF Agree, IsOutput
  <2> QED BY <1>1, <2>1 DEF ToSingleBank
<1>2. CASE o.rank_modes[r] # "SB"
  <2>1. ToSingleBank(o, av) = SetMode(Append1(o, Record("SB", av, 1)), r, "SB")
    BY <1>2 DEF ToSingleBank
  <2>2. "SB" \in ModeOpcodes /\ "SB" # "HAB_PIM" BY DEF ModeOpcodes
  <2> QED BY <2>1, <2>2, SwitchAgrees
<1> QED BY <1>1, <1>2

LEMMA HostAllBankAgrees ==
  ASSUME NEW o, Agree(o), NEW av, NEW r \in Ranks, av["Rank"] = r
  PROVE  /\ Agree(ToHostAllBank(o, av))
         /\ ToHostAllBank(o, av).rank_modes = [o.rank_modes EXCEPT ![r] = "HAB"]
<1>1. CASE o.rank_modes[r] = "HAB"
  <2>1. o.rank_modes = [o.rank_modes EXCEPT ![r] = "HAB"]
    BY <1>1 DEF Agree, IsOutput
  <2> QED BY <1>1, <2>1 DEF ToHostAllBank
<1>2. CASE o.rank_modes[r] # "HAB"
  <2>1. ToHostAllBank(o, av) = SetMode(Append1(o, Record("HAB", av, 1)), r, "HAB")
    BY <1>2 DEF ToHostAllBank
  <2>2. "HAB" \in ModeOpcodes /\ "HAB" # "HAB_PIM" BY DEF ModeOpcodes
  <2> QED BY <2>1, <2>2, SwitchAgrees
<1> QED BY <1>1, <1>2

LEMMA LoadAgrees ==
  ASSUME NEW o, Agree(o), NEW av, NEW r \in Ranks, av["Rank"] = r, o.rank_modes[r] = "HAB", NEW repeat
  PROVE  /\ Agree(Load(o, av, repeat))
         /\ Load(o, av, repeat).rank_modes = o.rank_modes
<1> DEFINE rec == Record("PIM_BCAST", av, repeat)
           a == Append1(o, rec)
           n == Load(o, av, repeat)
<1>1. rec.opcode = "PIM_BCAST" /\ RecordRankIds(rec) = {r}
  BY DEF Record, RecordRankIds
<1>2. rec.opcode \in Opcodes \ ModeOpcodes
  BY <1>1 DEF Opcodes, ModeOpcodes
<1>3. \A q \in {r} : Allowed(o.trace, rec.opcode, q)
  BY <1>1 DEF Allowed, HostOpcodes, Agree
<1>4. /\ Agree(a) /\ a.rank_modes = o.rank_modes /\ a.load_ready = o.load_ready
      /\ r \in a.trace.bcasts
  <2> HIDE DEF rec, a
  <2>1. {r} \subseteq Ranks OBVIOUS
  <2> QED BY <1>1, <1>2, <1>3, <2>1, AppendAgrees DEF a
<1>5. a.last # NoRecord
  <2> HIDE DEF rec
  <2>1. a.last = rec BY DEF Append1
  <2> QED BY <1>1, <2>1 DEF NoRecord
<1>6. /\ n.rank_modes = o.rank_modes /\ n.load_ready = o.load_ready \cup {r}
      /\ n.trace = a.trace /\ n.last = a.last
      /\ n = [rank_modes |-> n.rank_modes, load_ready |-> n.load_ready, trace |-> n.trace,
              last |-> n.last, valid |-> n.valid, work |-> n.work]
  <2> HIDE DEF a
  <2> QED BY DEF Load, WithRanks, a
<1> HIDE DEF n, a
<1>7. IsOutput(n)
  BY <1>4, <1>6 DEF Agree, IsOutput
<1>8. \A q \in Ranks : LoadsAgree(n, q)
  BY <1>4, <1>6 DEF Agree, LoadsAgree
<1>9. Agree(n)
  BY <1>4, <1>5, <1>6, <1>7, <1>8 DEF Agree, Untouched
<1> QED BY <1>6, <1>9 DEF n

LEMMA EnsureLoadAgrees ==
  ASSUME NEW o, Agree(o), NEW av, NEW r \in Ranks, av["Rank"] = r
  PROVE  /\ Agree(EnsureAllBankLoad(o, av))
         /\ EnsureAllBankLoad(o, av).rank_modes = [o.rank_modes EXCEPT ![r] = "HAB"]
<1> DEFINE hab == ToHostAllBank(o, av)
<1>1. Agree(hab) /\ hab.rank_modes = [o.rank_modes EXCEPT ![r] = "HAB"]
  BY HostAllBankAgrees
<1>2. hab.rank_modes[r] = "HAB"
  BY <1>1 DEF Agree, IsOutput
<1> HIDE DEF hab
<1>3. Agree(Load(hab, av, 1)) /\ Load(hab, av, 1).rank_modes = hab.rank_modes
  BY <1>1, <1>2, LoadAgrees, Zenon
<1>4. EnsureAllBankLoad(o, av) \in {hab, Load(hab, av, 1)}
  BY DEF EnsureAllBankLoad, hab
<1> QED BY <1>1, <1>3, <1>4

LEMMA PIMAllBankAgrees ==
  ASSUME NEW o, Agree(o), NEW av, NEW r \in Ranks, av["Rank"] = r, PIMAllBankPrepared(o, r)
  PROVE  /\ Agree(ToPIMAllBank(o, av))
         /\ ToPIMAllBank(o, av).rank_modes = [o.rank_modes EXCEPT ![r] = "HAB_PIM"]
<1>1. CASE o.rank_modes[r] = "HAB_PIM"
  <2>1. o.rank_modes = [o.rank_modes EXCEPT ![r] = "HAB_PIM"]
    BY <1>1 DEF Agree, IsOutput
  <2> QED BY <1>1, <2>1 DEF ToPIMAllBank
<1>2. CASE o.rank_modes[r] # "HAB_PIM"
  <2>1. ToPIMAllBank(o, av) = SetMode(Append1(o, Record("HAB_PIM", av, 1)), r, "HAB_PIM")
    BY <1>2 DEF ToPIMAllBank
  <2>2. r \in o.load_ready /\ o.rank_modes[r] # "SB"
    BY <1>2 DEF PIMAllBankPrepared
  <2>3. "HAB_PIM" \in ModeOpcodes BY DEF ModeOpcodes
  <2> QED BY <2>1, <2>2, <2>3, SwitchAgrees
<1> QED BY <1>1, <1>2

(* Work in the mode it needs.                                              *)
LEMMA MacAllBankAgrees ==
  ASSUME NEW o, Agree(o), NEW av, NEW r \in Ranks, av["Rank"] = r, o.rank_modes[r] = "HAB_PIM", NEW repeat
  PROVE  /\ Agree(Append1(o, Record("PIM_MAC_AB", av, repeat)))
         /\ Append1(o, Record("PIM_MAC_AB", av, repeat)).rank_modes = o.rank_modes
<1> DEFINE rec == Record("PIM_MAC_AB", av, repeat)
<1>1. rec.opcode = "PIM_MAC_AB" /\ RecordRankIds(rec) = {r} /\ {r} \subseteq Ranks
  BY DEF Record, RecordRankIds
<1>2. rec.opcode \in Opcodes \ ModeOpcodes
  BY <1>1 DEF Opcodes, ModeOpcodes
<1>3. r \in o.trace.bcasts /\ o.trace.modes[r] = "HAB_PIM"
  BY DEF Agree, LoadsAgree
<1>4. \A q \in {r} : Allowed(o.trace, rec.opcode, q)
  BY <1>1, <1>3 DEF Allowed, HostOpcodes
<1> HIDE DEF rec
<1>5. Agree(Append1(o, rec)) /\ Append1(o, rec).rank_modes = o.rank_modes
  BY <1>1, <1>2, <1>4, AppendAgrees
<1> QED BY <1>5 DEF rec

LEMMA LeaveAllBankAgrees ==
  ASSUME NEW o, Agree(o), NEW av, NEW r \in Ranks, av["Rank"] = r
  PROVE  Agree(LeaveAllBank(o, av))
<1>1. "SB" \in ModeOpcodes /\ "SB" # "HAB_PIM" BY DEF ModeOpcodes
<1>2. LeaveAllBank(o, av) = SetMode(Append1(o, Record("SB", av, 1)), r, "SB")
  BY DEF LeaveAllBank
<1>3. /\ Agree(SetMode(Append1(o, Record("SB", av, 1)), r, "SB"))
      /\ SetMode(Append1(o, Record("SB", av, 1)), r, "SB").rank_modes = [o.rank_modes EXCEPT ![r] = "SB"]
  BY <1>1, SwitchAgrees
<1> QED BY <1>2, <1>3

LEMMA SingleBankWorkAgrees ==
  ASSUME NEW o, Agree(o), NEW record, record.opcode \in HostOpcodes \cup {"PIM_MAC"},
         \A r \in RecordRankIds(record) : r \in Ranks /\ o.rank_modes[r] = "SB"
  PROVE  Agree(Append1(o, record)) /\ Append1(o, record).rank_modes = o.rank_modes
<1>1. record.opcode \in Opcodes \ ModeOpcodes
  BY DEF Opcodes, ModeOpcodes, HostOpcodes
<1>2. \A r \in RecordRankIds(record) : Allowed(o.trace, record.opcode, r)
  BY DEF Allowed, HostOpcodes, Agree
<1>3. RecordRankIds(record) \subseteq Ranks
  OBVIOUS
<1> QED BY <1>1, <1>2, <1>3, AppendAgrees

(* The command a trace may begin with changes nothing.                     *)
LEMMA FirstRecordAgrees ==
  ASSUME NEW o, Agree(o), o.last = NoRecord, NEW av
  PROVE  /\ Agree(Append1(o, Record("SB", av, 1)))
         /\ Append1(o, Record("SB", av, 1)).rank_modes = o.rank_modes
<1> DEFINE rec == Record("SB", av, 1)
           n == Append1(o, rec)
           ranks == RecordRankIds(rec)
           v == ValidateNext(o.trace, "SB", ranks)
<1>1. rec.opcode = "SB" BY DEF Record
<1>2. /\ n.rank_modes = o.rank_modes /\ n.load_ready = o.load_ready /\ n.trace = v /\ n.last = rec
      /\ n = [rank_modes |-> n.rank_modes, load_ready |-> n.load_ready, trace |-> n.trace,
              last |-> n.last, valid |-> n.valid, work |-> n.work]
  <2> HIDE DEF rec
  <2> QED BY <1>1 DEF Append1
<1> HIDE DEF n, rec, ranks
<1>3. IsOutput(o) /\ o.trace.modes = o.rank_modes /\ \A r \in Ranks : o.rank_modes[r] = "SB"
  BY DEF Agree, Untouched
<1>4. v.modes = o.rank_modes
  <2>1. v.modes = [r \in Ranks |-> IF r \in ranks /\ "SB" \in ModeOpcodes THEN "SB" ELSE o.trace.modes[r]]
    BY <1>3, ValidateModes DEF IsOutput
  <2> QED BY <1>3, <2>1 DEF IsOutput
<1>5. v.bcasts \subseteq Ranks
  BY <1>3, ValidateBcasts DEF IsOutput
<1>6. v.accepted = TRUE
  <2>1. \A r \in ranks : Allowed(o.trace, "SB", r)
    BY DEF Allowed, HostOpcodes
  <2> QED BY <1>3, <2>1, ValidateAccepted DEF IsOutput
<1> HIDE DEF v
<1>7. IsOutput(n) BY <1>2, <1>3, <1>5, <1>6 DEF IsOutput
<1>8. \A r \in Ranks : LoadsAgree(n, r)
  BY <1>2, <1>3 DEF LoadsAgree
<1>9. Untouched(n) BY <1>1, <1>2 DEF Untouched, NoRecord
<1>10. Agree(n) BY <1>2, <1>3, <1>4, <1>7, <1>8, <1>9 DEF Agree
<1> QED BY <1>2, <1>10 DEF n, rec

(***************************************************************************)
(* The invariant is inductive.                                             *)
(***************************************************************************)
LEMMA InitIInv == Init => IInv
<1> SUFFICES ASSUME Init PROVE IInv OBVIOUS
<1>1. out = Empty /\ pc = "begin" BY DEF Init
<1>2. /\ out.rank_modes = [r \in Ranks |-> "SB"] /\ out.load_ready = {} /\ out.trace = EmptyTrace
      /\ out = [rank_modes |-> out.rank_modes, load_ready |-> out.load_ready, trace |-> out.trace,
                last |-> out.last, valid |-> out.valid, work |-> out.work]
  BY <1>1 DEF Empty
<1>3. IsOutput(out)
  BY <1>2 DEF IsOutput, EmptyTrace, ModeOpcodes
<1>4. Agree(out)
  BY <1>2, <1>3 DEF Agree, LoadsAgree, Untouched, EmptyTrace
<1>5. LoopInv BY <1>1 DEF LoopInv
<1> QED BY <1>4, <1>5 DEF IInv

(* Outside of the loops that rely on modes, agreement is all there is.     *)
LEMMA VisitLoop ==
  ASSUME NEW i, NEW chunk, NEW share, Visit(i, chunk, share),
         pc \notin {"all_bank", "single", "compact"}
  PROVE  LoopInv'
<1>1. pc' \notin {"all_bank", "single", "compact"}
  BY DEF Visit
<1> QED BY <1>1 DEF LoopInv

LEMMA HostStep ==
  ASSUME IInv, LowerHost(semantic) PROVE IInv'
<1> DEFINE chunk == HostChunk(semantic, done)
           av == AddrVecFromByteAddress(chunk.base)
           single == ToSingleBank(out, av)
<1>1. PICK opcode \in HostOpcodes :
         out' = Append1(single, HostRecord(opcode, av, chunk.repeat, chunk.base, chunk.stride))
  BY DEF LowerHost, HostOpcodes
<1>2. av["Rank"] \in Ranks /\ Visit(0, chunk.repeat, StreamCount(semantic) * semantic.repeat) /\ pc = "host"
  BY DEF LowerHost
<1>3. Agree(single) /\ single.rank_modes = [out.rank_modes EXCEPT ![av["Rank"]] = "SB"]
  <2> HIDE DEF av
  <2> QED BY <1>2, SingleBankAgrees DEF IInv
<1> DEFINE rec == HostRecord(opcode, av, chunk.repeat, chunk.base, chunk.stride)
<1>4. rec.opcode = opcode /\ RecordRankIds(rec) = {av["Rank"]}
  BY DEF HostRecord, RecordRankIds
<1>5. single.rank_modes[av["Rank"]] = "SB"
  <2> HIDE DEF av, single
  <2> QED BY <1>2, <1>3 DEF IInv, Agree, IsOutput
<1>6. Agree(out')
  <2> HIDE DEF rec, single, av
  <2> QED BY <1>1, <1>2, <1>3, <1>4, <1>5, SingleBankWorkAgrees DEF rec
<1>7. LoopInv'
  BY <1>2, VisitLoop
<1> QED BY <1>6, <1>7 DEF IInv

LEMMA SerialStep ==
  ASSUME IInv, LowerSerial(semantic) PROVE IInv'
<1> PICK i \in left :
      LET av    == AddrVecFromSemantic(semantic, i, semantic.burst_length)
          chunk == Smaller(MAX_REPEAT, BankShare(semantic, i) - done)
      IN  /\ Visited(i) /\ av["Rank"] \in Ranks
          /\ out' = Append1(ToSingleBank(out, av), Record("PIM_MAC", av, chunk))
          /\ Visit(i, chunk, BankShare(semantic, i))
  BY DEF LowerSerial
<1> DEFINE av == AddrVecFromSemantic(semantic, i, semantic.burst_length)
           chunk == Smaller(MAX_REPEAT, BankShare(semantic, i) - done)
           single == ToSingleBank(out, av)
           rec == Record("PIM_MAC", av, chunk)
<1>1. /\ out' = Append1(single, rec) /\ av["Rank"] \in Ranks
      /\ Visit(i, chunk, BankShare(semantic, i)) /\ pc = "serial"
  BY DEF LowerSerial
<1>2. Agree(single) /\ single.rank_modes = [out.rank_modes EXCEPT ![av["Rank"]] = "SB"]
  <2> HIDE DEF av
  <2> QED BY <1>1, SingleBankAgrees DEF IInv
<1>3. rec.opcode = "PIM_MAC" /\ RecordRankIds(rec) = {av["Rank"]}
  BY DEF Record, RecordRankIds
<1>4. single.rank_modes[av["Rank"]] = "SB"
  <2> HIDE DEF av, single
  <2> QED BY <1>1, <1>2 DEF IInv, Agree, IsOutput
<1>5. Agree(out')
  <2> HIDE DEF rec, single, av
  <2>1. rec.opcode \in HostOpcodes \cup {"PIM_MAC"}
    BY <1>3
  <2>2. \A q \in RecordRankIds(rec) : q \in Ranks /\ single.rank_modes[q] = "SB"
    BY <1>1, <1>3, <1>4
  <2>3. Agree(Append1(single, rec)) /\ Append1(single, rec).rank_modes = single.rank_modes
    BY <1>2, <2>1, <2>2, SingleBankWorkAgrees, Zenon
  <2> QED BY <1>1, <2>3
<1>6. LoopInv'
  BY <1>1, VisitLoop
<1> QED BY <1>5, <1>6 DEF IInv

LEMMA LoadStep ==
  ASSUME IInv, LowerLoad(semantic) PROVE IInv'
<1> PICK r \in Ranks :
      LET av    == RankAddrVec(BaseAddrVec(semantic), r)
          chunk == Smaller(MAX_REPEAT, Total(semantic) - done)
      IN  /\ Visited(r)
          /\ out' = Load(ToHostAllBank(out, av), av, chunk)
          /\ Visit(r, chunk, Total(semantic))
  BY DEF LowerLoad
<1> DEFINE av == RankAddrVec(BaseAddrVec(semantic), r)
           chunk == Smaller(MAX_REPEAT, Total(semantic) - done)
           hab == ToHostAllBank(out, av)
<1>1. out' = Load(hab, av, chunk) /\ Visit(r, chunk, Total(semantic)) /\ pc = "load"
  BY DEF LowerLoad
<1>2. av["Rank"] = r BY RankOfRankAddrVec
<1> HIDE DEF av
<1>3. Agree(hab) /\ hab.rank_modes = [out.rank_modes EXCEPT ![r] = "HAB"]
  BY <1>2, HostAllBankAgrees DEF IInv
<1>4. hab.rank_modes[r] = "HAB"
  BY <1>3 DEF Agree, IsOutput, IInv
<1> HIDE DEF hab
<1>5. Agree(Load(hab, av, chunk)) /\ Load(hab, av, chunk).rank_modes = hab.rank_modes
  <2> HIDE DEF chunk
  <2> QED BY <1>2, <1>3, <1>4, LoadAgrees, Zenon
<1>6. LoopInv'
  BY <1>1, VisitLoop
<1> QED BY <1>1, <1>5, <1>6 DEF IInv

LEMMA ComputeAllStep ==
  ASSUME IInv, LowerComputeAll(semantic) PROVE IInv'
<1> DEFINE request == AddrVecFromSemantic(semantic, done % semantic.num_requests, semantic.burst_length)
<1> PICK r \in Ranks :
      LET av     == RankAddrVec(request, r)
          loaded == EnsureAllBankLoad(out, av)
      IN  /\ PIMAllBankPrepared(loaded, r)
          /\ out' = LeaveAllBank(Append1(ToPIMAllBank(loaded, av), Record("PIM_MAC_AB", av, 1)), av)
  BY DEF LowerComputeAll
<1> DEFINE av == RankAddrVec(request, r)
           loaded == EnsureAllBankLoad(out, av)
           pim == ToPIMAllBank(loaded, av)
           issued == Append1(pim, Record("PIM_MAC_AB", av, 1))
<1>1. out' = LeaveAllBank(issued, av) /\ PIMAllBankPrepared(loaded, r)
  OBVIOUS
<1>2. av["Rank"] = r BY RankOfRankAddrVec
<1> HIDE DEF av
<1>3. Agree(loaded) BY <1>2, EnsureLoadAgrees DEF IInv
<1> HIDE DEF loaded
<1>4. Agree(pim) /\ pim.rank_modes = [loaded.rank_modes EXCEPT ![r] = "HAB_PIM"]
  BY <1>1, <1>2, <1>3, PIMAllBankAgrees
<1>5. pim.rank_modes[r] = "HAB_PIM"
  BY <1>3, <1>4 DEF Agree, IsOutput
<1> HIDE DEF pim
<1>6. Agree(issued) /\ issued.rank_modes = pim.rank_modes
  BY <1>2, <1>4, <1>5, MacAllBankAgrees, Zenon
<1> HIDE DEF issued
<1>7. Agree(out') BY <1>1, <1>2, <1>6, LeaveAllBankAgrees
<1>8. LoopInv'
  <2>1. pc' \in {"end", "compute_all"} BY DEF LowerComputeAll
  <2> QED BY <2>1 DEF LoopInv
<1> QED BY <1>7, <1>8 DEF IInv

LEMMA AllBankStep ==
  ASSUME IInv, LowerAllBank(semantic) PROVE IInv'
<1> DEFINE chunk == Smaller(MAX_REPEAT, AllBankShare(semantic) - done)
           share == AllBankShare(semantic)
<1> PICK r \in Ranks :
      LET av     == RankAddrVec(BaseAddrVec(semantic), r)
          loaded == IF done = 0 THEN EnsureAllBankLoad(out, av) ELSE out
          issued == Append1(ToPIMAllBank(loaded, av), Record("PIM_MAC_AB", av, chunk))
      IN  /\ Visited(r) /\ PIMAllBankPrepared(loaded, r)
          /\ out' = IF done + chunk = share THEN LeaveAllBank(issued, av) ELSE issued
          /\ Visit(r, chunk, share)
  BY DEF LowerAllBank
<1> DEFINE av == RankAddrVec(BaseAddrVec(semantic), r)
           loaded == IF done = 0 THEN EnsureAllBankLoad(out, av) ELSE out
           pim == ToPIMAllBank(loaded, av)
           issued == Append1(pim, Record("PIM_MAC_AB", av, chunk))
<1>1. /\ out' = IF done + chunk = share THEN LeaveAllBank(issued, av) ELSE issued
      /\ PIMAllBankPrepared(loaded, r) /\ Visited(r) /\ Visit(r, chunk, share)
  OBVIOUS
<1>2. av["Rank"] = r BY RankOfRankAddrVec
<1>p. pc = "all_bank" BY DEF LowerAllBank
<1> HIDE DEF av, chunk, share
<1>3. Agree(loaded)
  <2>1. Agree(out) BY DEF IInv
  <2>2. Agree(EnsureAllBankLoad(out, av)) BY <1>2, <2>1, EnsureLoadAgrees
  <2> QED BY <2>1, <2>2
<1> HIDE DEF loaded
<1>4. Agree(pim) /\ pim.rank_modes = [loaded.rank_modes EXCEPT ![r] = "HAB_PIM"]
  BY <1>1, <1>2, <1>3, PIMAllBankAgrees
<1>5. pim.rank_modes[r] = "HAB_PIM"
  BY <1>3, <1>4 DEF Agree, IsOutput
<1> HIDE DEF pim
<1>6. Agree(issued) /\ issued.rank_modes = pim.rank_modes
  BY <1>2, <1>4, <1>5, MacAllBankAgrees, Zenon
<1> HIDE DEF issued
<1>7. Agree(out')
  <2>1. Agree(LeaveAllBank(issued, av)) BY <1>2, <1>6, LeaveAllBankAgrees
  <2> QED BY <1>1, <1>6, <2>1
<1>8. LoopInv'
  <2>1. pc' \in {"end", "all_bank"} BY <1>1, <1>p DEF Visit
  <2>2. ASSUME pc' = "all_bank", done' # 0, NEW q \in Ranks, Visited(q)'
        PROVE  out'.rank_modes[q] = "HAB_PIM"
    <3>1. done + chunk # share /\ left' = left BY <1>1, <2>2 DEF Visit
    <3>2. q \in left /\ r \in left /\ q <= r /\ r <= q BY <1>1, <2>2, <3>1 DEF Visited
    <3>3. q \in Int /\ r \in Int BY DEF Ranks
    <3>4. q = r BY <3>2, <3>3
    <3>5. out' = issued BY <1>1, <3>1
    <3> QED BY <1>5, <1>6, <3>4, <3>5
  <2> QED BY <2>1, <2>2 DEF LoopInv
<1> QED BY <1>7, <1>8 DEF IInv

LEMMA PerBankStep ==
  ASSUME IInv, LowerPerBank(semantic) PROVE IInv'
<1> DEFINE compact == options.interleave_banks /\ Len(semantic.bank_sequence) > 1
<1> PICK r \in Ranks :
      LET last   == left = {r}
          single == ToSingleBank(out, RankAddrVec(BaseAddrVec(semantic), r))
      IN  /\ Visited(r)
          /\ out' = IF last /\ single.last = NoRecord
                     THEN Append1(single, Record("SB", BaseAddrVec(semantic), 1)) ELSE single
          /\ pc'   = CASE ~last -> pc [] last /\ compact -> "compact" [] last /\ ~compact -> "serial"
          /\ left' = CASE ~last -> left \ {r}
                       [] last /\ compact -> {0}
                       [] last /\ ~compact -> {i \in 0 .. Len(semantic.bank_sequence) - 1 : BankShare(semantic, i) > 0}
          /\ UNCHANGED <<options, todo, done>>
  BY DEF LowerPerBank
<1> DEFINE av == RankAddrVec(BaseAddrVec(semantic), r)
           single == ToSingleBank(out, av)
           first == Append1(single, Record("SB", BaseAddrVec(semantic), 1))
<1>1. \/ out' = first /\ single.last = NoRecord
      \/ out' = single
  OBVIOUS
<1>2. /\ left # {r} => pc' = "single" /\ left' = left \ {r}
      /\ left = {r} /\ compact => pc' = "compact"
      /\ left = {r} /\ ~compact => pc' = "serial"
      /\ todo' = todo /\ pc = "single"
  BY DEF LowerPerBank
<1>3. av["Rank"] = r BY RankOfRankAddrVec
<1> HIDE DEF av
<1>4. Agree(single) /\ single.rank_modes = [out.rank_modes EXCEPT ![r] = "SB"]
  BY <1>3, SingleBankAgrees DEF IInv
<1> HIDE DEF single
<1>5. single.last = NoRecord => Agree(first) /\ first.rank_modes = single.rank_modes
  BY <1>4, FirstRecordAgrees, Zenon
<1> HIDE DEF first
<1>6. Agree(out') /\ out'.rank_modes = [out.rank_modes EXCEPT ![r] = "SB"]
  BY <1>1, <1>4, <1>5
<1>7. LoopInv'
  <2>1. semantic' = semantic BY <1>2 DEF semantic
  <2>2. ASSUME pc' \in {"single", "compact"}, NEW q \in AllBankTargetRanks(semantic)
        PROVE  (q \in left' /\ pc' = "single") \/ (q \in Ranks /\ out'.rank_modes[q] = "SB")
    <3>1. q \in left \/ (q \in Ranks /\ out.rank_modes[q] = "SB")
      BY <1>2 DEF IInv, LoopInv
    <3>2. out.rank_modes \in [Ranks -> ModeOpcodes] BY DEF IInv, Agree, IsOutput
    <3>3. CASE q = r BY <1>6, <3>2, <3>3
    <3>4. CASE q # r /\ q \notin left BY <1>6, <3>1, <3>2, <3>4
    <3>5. CASE q # r /\ q \in left
      <4>1. left # {r} BY <3>5
      <4> QED BY <1>2, <3>5, <4>1
    <3> QED BY <3>3, <3>4, <3>5
  <2>3. pc' = "compact" => compact
    BY <1>2
  <2>4. AllBankTargetRanks(semantic)' = AllBankTargetRanks(semantic)
    BY <2>1 DEF AllBankTargetRanks
  <2>5. pc' # "all_bank" BY <1>2
  <2> QED BY <2>1, <2>2, <2>3, <2>4, <2>5 DEF LoopInv
<1> QED BY <1>6, <1>7 DEF IInv

LEMMA CompactStep ==
  ASSUME IInv, LowerCompact(semantic) PROVE IInv'
<1> PICK chunk, place :
      /\ out' = Append1(out, CompactRecord(BaseAddrVec(semantic), chunk, semantic.bank_sequence, done,
                                          options.interleave_depth, place))
      /\ Visit(0, chunk, Total(semantic))
  BY DEF LowerCompact
<1> DEFINE rec == CompactRecord(BaseAddrVec(semantic), chunk, semantic.bank_sequence, done,
                                options.interleave_depth, place)
<1>1. pc = "compact" BY DEF LowerCompact
<1>2. semantic.bank_sequence # <<>>
  BY <1>1 DEF IInv, LoopInv
<1>3. rec.opcode = "PIM_MAC" /\ rec.bank_sequence = semantic.bank_sequence
  BY DEF CompactRecord
<1> HIDE DEF rec
<1>4. RecordRankIds(rec) = AllBankTargetRanks(semantic)
  BY <1>2, <1>3 DEF RecordRankIds, AllBankTargetRanks
<1>5. \A q \in AllBankTargetRanks(semantic) : q \in Ranks /\ out.rank_modes[q] = "SB"
  BY <1>1 DEF IInv, LoopInv
<1>6. Agree(out') /\ out'.rank_modes = out.rank_modes
  <2>1. rec.opcode \in HostOpcodes \cup {"PIM_MAC"} BY <1>3
  <2>2. \A q \in RecordRankIds(rec) : q \in Ranks /\ out.rank_modes[q] = "SB" BY <1>4, <1>5
  <2>3. Agree(Append1(out, rec)) /\ Append1(out, rec).rank_modes = out.rank_modes
    BY <2>1, <2>2, SingleBankWorkAgrees, Zenon DEF IInv
  <2> QED BY <2>3 DEF rec
<1>7. LoopInv'
  <2>1. pc' \in {"compact", "end"} /\ semantic' = semantic
    BY <1>1 DEF Visit, semantic
  <2>2. AllBankTargetRanks(semantic)' = AllBankTargetRanks(semantic)
    BY <2>1 DEF AllBankTargetRanks
  <2>3. Len(semantic.bank_sequence) > 1 BY <1>1 DEF IInv, LoopInv
  <2> QED BY <1>5, <1>6, <2>1, <2>2, <2>3 DEF LoopInv
<1> QED BY <1>6, <1>7 DEF IInv

LEMMA BeginStep ==
  ASSUME IInv, Begin(semantic) PROVE IInv'
<1>1. /\ pc' = Loop(semantic) /\ done' = 0 /\ todo' = todo
      /\ out' = [out EXCEPT !.work = Empty.work]
      /\ Loop(semantic) = "single" => left' = AllBankTargetRanks(semantic)
  BY DEF Begin
<1>2. pc' # "compact"
  BY <1>1 DEF Loop
<1>3. Agree(out')
  <2>1. IsOutput(out) BY DEF IInv, Agree
  <2> DEFINE n == [out EXCEPT !.work = Empty.work]
  <2>2. /\ n.rank_modes = out.rank_modes /\ n.load_ready = out.load_ready /\ n.trace = out.trace
        /\ n.last = out.last
        /\ n = [rank_modes |-> n.rank_modes, load_ready |-> n.load_ready, trace |-> n.trace,
                last |-> n.last, valid |-> n.valid, work |-> n.work]
    BY <2>1 DEF IsOutput
  <2> HIDE DEF n
  <2>3. IsOutput(n) BY <2>1, <2>2 DEF IsOutput
  <2>4. Agree(n) BY <2>2, <2>3 DEF IInv, Agree, LoadsAgree, Untouched
  <2> QED BY <1>1, <2>4 DEF n
<1>4. LoopInv'
  <2>1. semantic' = semantic BY <1>1 DEF semantic
  <2>2. AllBankTargetRanks(semantic)' = AllBankTargetRanks(semantic)
    BY <2>1 DEF AllBankTargetRanks
  <2> QED BY <1>1, <1>2, <2>1, <2>2 DEF LoopInv
<1> QED BY <1>3, <1>4 DEF IInv

LEMMA StepIInv == IInv /\ [Next]_vars => IInv'
<1> SUFFICES ASSUME IInv, [Next]_vars PROVE IInv' OBVIOUS
<1>1. CASE NextRecord(semantic)
  BY <1>1 DEF NextRecord, IInv, LoopInv
<1>2. CASE UNCHANGED vars
  BY <1>2 DEF vars, IInv, LoopInv, Visited, semantic, AllBankTargetRanks
<1>3. CASE Lowered /\ UNCHANGED vars
  BY <1>2, <1>3
<1> QED
  BY <1>1, <1>2, <1>3, BeginStep, HostStep, AllBankStep, PerBankStep, CompactStep, SerialStep,
     LoadStep, ComputeAllStep DEF Next

(***************************************************************************)
(* No call of the lowering that returns at all is refused by the sequence  *)
(* validation it ends with: the modes and loads it keeps per rank are the  *)
(* ones the records establish, whatever the workload mixes.                *)
(***************************************************************************)
THEOREM AlwaysSequenceAccepted == Spec => []SequenceAccepted
<1>1. IInv => SequenceAccepted
  BY DEF IInv, Agree, IsOutput, SequenceAccepted
<1> QED BY <1>1, InitIInv, StepIInv, PTL DEF Spec

-----------------------------------------------------------------------------
(***************************************************************************)
(* The second invariant: how far the loops are. What is lowered is within  *)
(* the device and every chunk within the share of what is visited.         *)
(***************************************************************************)
Share(i) ==
  CASE pc = "host"     -> StreamCount(semantic) * semantic.repeat
    [] pc = "all_bank" -> AllBankShare(semantic)
    [] pc = "serial"   -> BankShare(semantic, i)
    [] OTHER           -> Total(semantic)

RankLoops == {"all_bank", "single", "load", "compute_all"}
Loops == RankLoops \cup {"host", "compact", "serial"}

WorkInv ==
  /\ options \in Options /\ pc \in Loops \cup {"begin", "end"}
  /\ todo \in Seq({s \in Semantics : Placed(s)})
  /\ \A i \in DOMAIN todo : Skipped(todo[i]) \/ Lowerable(todo[i])
  /\ pc # "begin" => todo # <<>> /\ ~Skipped(semantic)
  /\ pc \in RankLoops \cup {"host"} => Loop(semantic) = pc
  /\ pc \in {"compact", "serial"} => Loop(semantic) = "single"
  /\ pc = "compact" => Len(semantic.bank_sequence) > 1 /\ options.interleave_banks
  /\ pc = "serial" => ~(Len(semantic.bank_sequence) > 1 /\ options.interleave_banks)

ProgressInv ==
  /\ done \in Nat
  /\ pc \in {"begin", "single"} => done = 0
  /\ pc \in RankLoops => left \subseteq Ranks
  /\ pc \in {"host", "compact"} => left = {0}
  /\ pc = "serial" => left \subseteq 0 .. Len(semantic.bank_sequence) - 1
  /\ pc \in Loops => \A i \in left : Share(i) \in Nat \ {0} /\ (Visited(i) => done < Share(i))

(***************************************************************************)
(* What a record of a workload is, and where its requests lie.             *)
(***************************************************************************)
Record0 == {s \in Semantics : Placed(s)}

LEMMA RecordFields ==
  ASSUME NEW s \in Record0
  PROVE  /\ s.num_requests \in Int /\ s.repeat \in Int /\ s.burst_length \in Nat \ {0}
         /\ s.base_byte \in Int /\ s.stride_bytes \in Int /\ s.bytes \in Nat
         /\ s.bank_sequence \in Seq(Banks)
         /\ s.row_start \in Nat /\ s.row_count \in Nat \ {0} /\ s.row_start + s.row_count <= LevelSize["Row"]
         /\ s.column_start \in Nat /\ s.dependency_count \in Nat \ {0}
         /\ s.column_start + s.dependency_count <= LevelSize["Column"]
         /\ s.resolved_row \in Int /\ s.resolved_column \in Int
         /\ s.kind \in PerBankKinds => s.bank_sequence # <<>>
BY DEF Record0, Semantics, Placed, FitsLayout

LEMMA BanksInt == \A b \in Banks : b \in Nat
<1>1. BankCounts[1] \in Nat \ {0} /\ Weight(BankCounts)[1] \in Nat \ {0}
  BY BankRadices, Weights DEF Radices
<1>2. BankCounts[1] * Weight(BankCounts)[1] \in Nat BY <1>1, TimesNat
<1> QED BY <1>2 DEF Banks

LEMMA LevelsOfAddress ==
  /\ {"Rank", "Bank", "Row", "Column"} \subseteq DOMAIN LevelSize
  /\ "Row" \notin BankLevels /\ "Column" \notin BankLevels /\ "Rank" \in BankLevels
  /\ \A l \in DOMAIN LevelSize : LevelSize[l] \in Nat \ {0}
BY LayoutAssumption DEF BankLevels

LEMMA PlaceInLayout ==
  ASSUME NEW s \in Record0, NEW cycle \in Nat
  PROVE  /\ SemanticPlace(s, cycle).row \in 0 .. LevelSize["Row"] - 1
         /\ SemanticPlace(s, cycle).column \in 0 .. LevelSize["Column"] - 1
<1> DEFINE c == cycle \div s.dependency_count
           x == (s.resolved_row - s.row_start) + c
           y == (s.resolved_column - s.column_start) + cycle
<1>1. /\ s.row_start \in Nat /\ s.row_count \in Nat \ {0} /\ s.row_start + s.row_count <= LevelSize["Row"]
      /\ s.column_start \in Nat /\ s.dependency_count \in Nat \ {0}
      /\ s.column_start + s.dependency_count <= LevelSize["Column"]
      /\ s.resolved_row \in Int /\ s.resolved_column \in Int
  BY RecordFields
<1>2. LevelSize["Row"] \in Nat /\ LevelSize["Column"] \in Nat BY LevelsOfAddress
<1>3. c \in Int
  <2> DEFINE n == s.dependency_count
  <2>1. n \in Nat \ {0} BY <1>1
  <2> HIDE DEF n
  <2>2. cycle \div n \in Int BY <2>1, DivMod
  <2> QED BY <2>2 DEF n
<1>4. x \in Int /\ y \in Int
  <2> HIDE DEF c
  <2> QED BY <1>1, <1>3
<1>5. SemanticPlace(s, cycle).row = s.row_start + (x % s.row_count)
      /\ SemanticPlace(s, cycle).column = s.column_start + (y % s.dependency_count)
  BY DEF SemanticPlace
<1> HIDE DEF x, y
<1>6. x % s.row_count \in 0 .. s.row_count - 1 /\ y % s.dependency_count \in 0 .. s.dependency_count - 1
  BY <1>1, <1>4, DivMod
<1> QED BY <1>1, <1>2, <1>5, <1>6

LEMMA AddressInLayout ==
  ASSUME NEW s \in Record0, NEW i \in Nat, NEW burst \in Nat \ {0}
  PROVE  InLayout(AddrVecFromSemantic(s, i, burst))
<1> DEFINE phase == i \div burst
           span == IF s.kind \in PerBankKinds THEN Len(s.bank_sequence) ELSE 1
           cycle == phase \div span
           where == SemanticPlace(s, cycle)
           av == [l \in DOMAIN LevelSize |->
                    CASE l = "Row" -> where.row [] l = "Column" -> where.column [] OTHER -> 0]
           bank == s.bank_sequence[(phase % span) + 1]
<1>1. AddrVecFromSemantic(s, i, burst) =
        IF s.kind \in PerBankKinds THEN DecomposeFlatBank(bank, av) ELSE av
  BY DEF AddrVecFromSemantic
<1>2. phase \in Nat BY DivMod
<1>3. span \in Nat \ {0} /\ (s.kind \in PerBankKinds => span = Len(s.bank_sequence))
  <2>1. Len(s.bank_sequence) \in Nat /\ (s.kind \in PerBankKinds => Len(s.bank_sequence) # 0)
    BY RecordFields, EmptySeq, LenProperties
  <2> QED BY <2>1
<1> HIDE DEF phase, span
<1>4. cycle \in Nat /\ phase % span \in 0 .. span - 1
  <2>1. phase \in Int /\ span \in Nat \ {0} BY <1>2, <1>3
  <2>2. phase % span \in 0 .. span - 1 BY <2>1, DivMod
  <2>3. phase \div span \in Nat BY <1>2, <2>1, DivMod
  <2> QED BY <2>2, <2>3
<1> HIDE DEF cycle
<1>5. where.row \in 0 .. LevelSize["Row"] - 1 /\ where.column \in 0 .. LevelSize["Column"] - 1
  BY <1>4, PlaceInLayout
<1> HIDE DEF where
<1>6. DOMAIN av = DOMAIN LevelSize /\ av["Row"] = where.row /\ av["Column"] = where.column
      /\ \A l \in DOMAIN LevelSize \ {"Row", "Column"} : av[l] = 0
  BY LevelsOfAddress
<1> HIDE DEF av
<1>7. \A l \in DOMAIN LevelSize : av[l] \in 0 .. LevelSize[l] - 1
  <2> TAKE l \in DOMAIN LevelSize
  <2>1. LevelSize[l] \in Nat \ {0} BY LevelsOfAddress
  <2>2. CASE l \in {"Row", "Column"} BY <1>5, <1>6, <2>2
  <2>3. CASE l \notin {"Row", "Column"} BY <1>6, <2>1, <2>3
  <2> QED BY <2>2, <2>3
<1>8. CASE s.kind \in PerBankKinds
  <2> DEFINE d == DecomposeFlatBank(bank, av)
  <2>1. bank \in Int
    <3>1. (phase % span) + 1 \in 1 .. Len(s.bank_sequence) BY <1>3, <1>4, <1>8
    <3> DEFINE q == s.bank_sequence
               j == (phase % span) + 1
    <3>a. q \in Seq(Banks) /\ j \in 1 .. Len(q) BY <3>1, RecordFields
    <3> HIDE DEF q, j
    <3>b. q[j] \in Banks BY <3>a, ElementOfSeq
    <3>2. q[j] \in Int BY <3>b, BanksInt
    <3>3. q[j] = bank BY DEF q, j
    <3> QED BY <3>2, <3>3
  <2> HIDE DEF bank
  <2>2. DOMAIN d = DOMAIN LevelSize /\ \A l \in DOMAIN LevelSize : d[l] \in 0 .. LevelSize[l] - 1
    BY <1>6, <1>7, <2>1, FlatBank
  <2> HIDE DEF d
  <2>3. \A l \in DOMAIN LevelSize : d[l] >= 0 /\ d[l] < LevelSize[l] BY <2>2, LevelsOfAddress
  <2>4. InLayout(d) BY <2>2, <2>3 DEF InLayout
  <2> QED BY <1>1, <1>8, <2>4 DEF d
<1>9. CASE s.kind \notin PerBankKinds
  <2>1. \A l \in DOMAIN LevelSize : av[l] >= 0 /\ av[l] < LevelSize[l] BY <1>7, LevelsOfAddress
  <2>2. InLayout(av) BY <1>6, <2>1 DEF InLayout
  <2> QED BY <1>1, <1>9, <2>2
<1> QED BY <1>8, <1>9

LEMMA RankAddressInLayout ==
  ASSUME NEW av, InLayout(av), NEW r \in Ranks
  PROVE  InLayout(RankAddrVec(av, r))
<1>1. r >= 0 /\ r < LevelSize["Rank"] BY LevelsOfAddress DEF Ranks
<1>2. DOMAIN RankAddrVec(av, r) = DOMAIN av BY DEF RankAddrVec
<1>3. \A l \in DOMAIN av : RankAddrVec(av, r)[l] = IF l = "Rank" THEN r ELSE av[l] BY DEF RankAddrVec
<1> QED BY <1>1, <1>2, <1>3 DEF InLayout
(***************************************************************************)
(* Records that are valid, and helpers that append nothing else. Commands  *)
(* other than PIM_MAC and PIM_MAC_AB are no work for a bank.               *)
(***************************************************************************)
Sound(o) == o.valid = TRUE /\ o.work \in [Banks -> Nat]

LEMMA RecordValid ==
  ASSUME NEW opcode \in Opcodes \ HostOpcodes, NEW av, InLayout(av), NEW n \in 1 .. MAX_REPEAT
  PROVE  ValidateRecord(Record(opcode, av, n))
<1> DEFINE rec == Record(opcode, av, n)
<1>1. rec.opcode = opcode /\ rec.addr_vec = av /\ rec.repeat = n /\ rec.bank_sequence = <<>>
  BY DEF Record
<1> HIDE DEF rec
<1>2. ValidateRecord(rec) BY <1>1 DEF ValidateRecord
<1> QED BY <1>2 DEF rec

LEMMA WorkNat ==
  ASSUME NEW record, NEW b, record.repeat \in Nat
  PROVE  WorkFor(record, b) \in Nat
<1> DEFINE S == {k \in 1 .. record.repeat : BankOf(Expand(record, k - 1)) = b}
           n == record.repeat
<1>1. IsFiniteSet(1 .. n)
  <2>1. n \in Int /\ 1 \in Int OBVIOUS
  <2> HIDE DEF n
  <2> QED BY <2>1, FS_Interval
<1>2. S \subseteq 1 .. n OBVIOUS
<1>3. WorkFor(record, b) =
        CASE record.opcode = "PIM_MAC_AB" -> IF RankForFlatBank(b) = record.addr_vec["Rank"] THEN record.repeat ELSE 0
          [] record.opcode = "PIM_MAC" -> Cardinality(S)
          [] OTHER -> 0
  BY DEF WorkFor
<1> HIDE DEF S, n
<1>4. Cardinality(S) \in Nat BY <1>1, <1>2, FS_Subset, FS_CardinalityType
<1> QED BY <1>3, <1>4

LEMMA AppendSound ==
  ASSUME NEW o, Sound(o), NEW record, ValidateRecord(record)
  PROVE  /\ Sound(Append1(o, record)) /\ Append1(o, record).last = record
         /\ Append1(o, record).work = [b \in Banks |-> o.work[b] + WorkFor(record, b)]
<1> DEFINE n == Append1(o, record)
<1>1. /\ n.valid = (o.valid /\ ValidateRecord(record)) /\ n.last = record
      /\ n.work = [b \in Banks |-> o.work[b] + WorkFor(record, b)]
  BY DEF Append1
<1> HIDE DEF n
<1>2. record.repeat \in Nat BY RepeatAssumption DEF ValidateRecord
<1>3. \A b \in Banks : o.work[b] \in Nat /\ WorkFor(record, b) \in Nat
  BY <1>2, WorkNat DEF Sound
<1>4. n.work \in [Banks -> Nat] BY <1>1, <1>3
<1>5. n.valid = TRUE BY <1>1 DEF Sound
<1> QED BY <1>1, <1>4, <1>5 DEF n, Sound

Idle == Opcodes \ (HostOpcodes \cup {"PIM_MAC", "PIM_MAC_AB"})

LEMMA AppendIdle ==
  ASSUME NEW o, Sound(o), NEW opcode \in Idle, NEW av, InLayout(av), NEW n \in 1 .. MAX_REPEAT
  PROVE  /\ Sound(Append1(o, Record(opcode, av, n))) /\ Append1(o, Record(opcode, av, n)).work = o.work
         /\ Append1(o, Record(opcode, av, n)).last = Record(opcode, av, n)
<1> DEFINE rec == Record(opcode, av, n)
<1>1. ValidateRecord(rec) BY RecordValid DEF Idle
<1>2. rec.opcode = opcode /\ opcode # "PIM_MAC" /\ opcode # "PIM_MAC_AB" BY DEF Record, Idle
<1> HIDE DEF rec
<1>3. \A b : WorkFor(rec, b) = 0 BY <1>2 DEF WorkFor
<1>4. Sound(Append1(o, rec)) /\ Append1(o, rec).last = rec
      /\ Append1(o, rec).work = [b \in Banks |-> o.work[b] + WorkFor(rec, b)]
  BY <1>1, AppendSound
<1>5. Append1(o, rec).work = o.work
  <2>1. \A b \in Banks : o.work[b] \in Nat BY DEF Sound
  <2>2. \A b \in Banks : o.work[b] + WorkFor(rec, b) = o.work[b] BY <1>3, <2>1
  <2>3. o.work = [b \in Banks |-> o.work[b]] BY DEF Sound
  <2> QED BY <1>4, <2>2, <2>3
<1> QED BY <1>4, <1>5 DEF rec

LEMMA SwitchSound ==
  ASSUME NEW o, Sound(o), NEW mode \in ModeOpcodes, NEW av, InLayout(av), NEW r
  PROVE  /\ Sound(SetMode(Append1(o, Record(mode, av, 1)), r, mode))
         /\ SetMode(Append1(o, Record(mode, av, 1)), r, mode).work = o.work
         /\ SetMode(Append1(o, Record(mode, av, 1)), r, mode).last = Record(mode, av, 1)
<1> DEFINE a == Append1(o, Record(mode, av, 1))
           n == SetMode(a, r, mode)
<1>1. mode \in Idle /\ 1 \in 1 .. MAX_REPEAT BY RepeatAssumption DEF Idle, Opcodes, ModeOpcodes, HostOpcodes
<1>2. Sound(a) /\ a.work = o.work /\ a.last = Record(mode, av, 1) BY <1>1, AppendIdle
<1> HIDE DEF a
<1>3. n.valid = a.valid /\ n.work = a.work /\ n.last = a.last BY DEF SetMode, WithRanks
<1> HIDE DEF n
<1>4. Sound(n) /\ n.work = o.work /\ n.last = Record(mode, av, 1) BY <1>2, <1>3 DEF Sound
<1> QED BY <1>4 DEF n, a

LEMMA SingleBankSound ==
  ASSUME NEW o, Sound(o), NEW av, InLayout(av)
  PROVE  Sound(ToSingleBank(o, av)) /\ ToSingleBank(o, av).work = o.work
<1>1. "SB" \in ModeOpcodes BY DEF ModeOpcodes
<1>2. ToSingleBank(o, av) \in {o, SetMode(Append1(o, Record("SB", av, 1)), av["Rank"], "SB")}
  BY DEF ToSingleBank
<1> QED BY <1>1, <1>2, SwitchSound

LEMMA HostAllBankSound ==
  ASSUME NEW o, Sound(o), NEW av, InLayout(av)
  PROVE  Sound(ToHostAllBank(o, av)) /\ ToHostAllBank(o, av).work = o.work
<1>1. "HAB" \in ModeOpcodes BY DEF ModeOpcodes
<1>2. ToHostAllBank(o, av) \in {o, SetMode(Append1(o, Record("HAB", av, 1)), av["Rank"], "HAB")}
  BY DEF ToHostAllBank
<1> QED BY <1>1, <1>2, SwitchSound

LEMMA PIMAllBankSound ==
  ASSUME NEW o, Sound(o), NEW av, InLayout(av)
  PROVE  Sound(ToPIMAllBank(o, av)) /\ ToPIMAllBank(o, av).work = o.work
<1>1. "HAB_PIM" \in ModeOpcodes BY DEF ModeOpcodes
<1>2. ToPIMAllBank(o, av) \in {o, SetMode(Append1(o, Record("HAB_PIM", av, 1)), av["Rank"], "HAB_PIM")}
  BY DEF ToPIMAllBank
<1> QED BY <1>1, <1>2, SwitchSound

LEMMA LeaveAllBankSound ==
  ASSUME NEW o, Sound(o), NEW av, InLayout(av)
  PROVE  /\ Sound(LeaveAllBank(o, av)) /\ LeaveAllBank(o, av).work = o.work
         /\ LeaveAllBank(o, av).last.opcode = "SB"
<1>1. "SB" \in ModeOpcodes BY DEF ModeOpcodes
<1>2. LeaveAllBank(o, av) = SetMode(Append1(o, Record("SB", av, 1)), av["Rank"], "SB")
  BY DEF LeaveAllBank
<1>3. Record("SB", av, 1).opcode = "SB" BY DEF Record
<1> QED BY <1>1, <1>2, <1>3, SwitchSound

LEMMA LoadSound ==
  ASSUME NEW o, Sound(o), NEW av, InLayout(av), NEW n \in 1 .. MAX_REPEAT
  PROVE  /\ Sound(Load(o, av, n)) /\ Load(o, av, n).work = o.work
         /\ Load(o, av, n).last.opcode = "PIM_BCAST"
<1> DEFINE rec == Record("PIM_BCAST", av, n)
           a == Append1(o, rec)
           l == Load(o, av, n)
<1>1. "PIM_BCAST" \in Idle BY DEF Idle, Opcodes, HostOpcodes
<1>2. Sound(a) /\ a.work = o.work /\ a.last = rec BY <1>1, AppendIdle
<1>3. rec.opcode = "PIM_BCAST" BY DEF Record
<1> HIDE DEF rec
<1>4. l.valid = a.valid /\ l.work = a.work /\ l.last = a.last
  <2> HIDE DEF a
  <2> QED BY DEF Load, WithRanks, a, rec
<1> HIDE DEF a, l
<1>5. Sound(l) /\ l.work = o.work /\ l.last.opcode = "PIM_BCAST" BY <1>2, <1>3, <1>4 DEF Sound
<1> QED BY <1>5 DEF l

LEMMA EnsureLoadSound ==
  ASSUME NEW o, Sound(o), NEW av, InLayout(av)
  PROVE  Sound(EnsureAllBankLoad(o, av)) /\ EnsureAllBankLoad(o, av).work = o.work
<1> DEFINE hab == ToHostAllBank(o, av)
<1>1. Sound(hab) /\ hab.work = o.work BY HostAllBankSound
<1>2. EnsureAllBankLoad(o, av) \in {hab, Load(hab, av, 1)} BY DEF EnsureAllBankLoad
<1> HIDE DEF hab
<1>3. 1 \in 1 .. MAX_REPEAT BY RepeatAssumption
<1> QED BY <1>1, <1>2, <1>3, LoadSound
(***************************************************************************)
(* Shares and chunks.                                                      *)
(***************************************************************************)
LEMMA CeilingBounds ==
  ASSUME NEW a \in Nat \ {0}, NEW b \in Nat \ {0}
  PROVE  Ceiling(a, b) \in Nat \ {0} /\ b * Ceiling(a, b) >= a /\ b * (Ceiling(a, b) - 1) < a
<1> DEFINE x == a + b - 1
           c == x \div b
<1>1. x \in Nat OBVIOUS
<1> HIDE DEF x
<1>2. c \in Nat /\ x % b \in 0 .. b - 1 /\ x = b * c + (x % b)
  <2>1. x \in Int BY <1>1
  <2>2. x \div b \in Int /\ x % b \in 0 .. b - 1 /\ x = b * (x \div b) + (x % b) /\ x \div b \in Nat
    BY <1>1, <2>1, DivMod
  <2> QED BY <2>2
<1>3. Ceiling(a, b) = c BY DEF Ceiling, x
<1> HIDE DEF c
<1> DEFINE m == x % b
<1>4. m \in 0 .. b - 1 /\ a + b - 1 = b * c + m BY <1>2 DEF x
<1> HIDE DEF m
<1>5. b * (c - 1) = b * c - b BY <1>2
<1>6. c # 0 BY <1>4
<1> QED BY <1>2, <1>3, <1>4, <1>5, <1>6

LEMMA ChunkBounds ==
  ASSUME NEW n \in Nat, NEW share \in Nat, n < share
  PROVE  Smaller(MAX_REPEAT, share - n) \in 1 .. MAX_REPEAT /\ n + Smaller(MAX_REPEAT, share - n) <= share
BY RepeatAssumption DEF Smaller

LEMMA LoopKinds ==
  ASSUME NEW s
  PROVE  /\ Loop(s) = "host" <=> s.kind \in HostKinds \/ IsWeight(s)
         /\ Loop(s) \in {"all_bank", "single"} => s.kind \in PerBankKinds
         /\ Loop(s) = "all_bank" => Len(s.bank_sequence) > 1
         /\ Loop(s) = "compute_all" => s.kind \in ComputeAllKinds
         /\ Loop(s) \in RankLoops \cup {"host"}
<1>1. CASE s.kind \in HostKinds \/ IsWeight(s)
  <2>2. s.kind \notin PerBankKinds /\ s.kind \notin ComputeAllKinds
    BY <1>1 DEF HostKinds, IsWeight, PerBankKinds, WeightStationaryKinds, ComputeAllKinds
  <2>3. Loop(s) = "host" BY <1>1, <2>2 DEF Loop
  <2> QED BY <1>1, <2>3
<1>2. CASE ~(s.kind \in HostKinds \/ IsWeight(s)) /\ s.kind \in PerBankKinds
  <2>1. Loop(s) = IF options.interleave_banks /\ Len(s.bank_sequence) > 1 /\ MacMode(s.kind) = "all_bank"
                  THEN "all_bank" ELSE "single"
    BY <1>2 DEF Loop, PerBankKinds, ComputeAllKinds, WeightStationaryKinds
  <2> QED BY <1>2, <2>1 DEF RankLoops
<1>3. CASE ~(s.kind \in HostKinds \/ IsWeight(s)) /\ s.kind \notin PerBankKinds
  <2>1. Loop(s) = IF s.kind \in ComputeAllKinds THEN "compute_all" ELSE "load" BY <1>3 DEF Loop
  <2> QED BY <1>3, <2>1 DEF RankLoops
<1> QED BY <1>1, <1>2, <1>3

LEMMA InWork ==
  ASSUME WorkInv, pc # "begin" \/ (todo # <<>> /\ ~Skipped(semantic))
  PROVE  /\ semantic \in Record0 /\ Lowerable(semantic) /\ ~Skipped(semantic)
         /\ Total(semantic) \in Nat \ {0}
         /\ semantic.num_requests \in Nat \ {0} /\ semantic.repeat \in Nat \ {0}
<1>1. todo \in Seq(Record0) /\ todo # <<>> /\ ~Skipped(semantic) BY DEF WorkInv, Record0
<1>2. semantic = todo[1] /\ 1 \in DOMAIN todo BY <1>1 DEF semantic
<1>3. semantic \in Record0 BY <1>1, <1>2
<1>4. Lowerable(semantic) BY <1>1, <1>2 DEF WorkInv
<1>5. semantic.num_requests \in Nat \ {0} /\ semantic.repeat \in Nat \ {0}
  BY <1>3, <1>4, RecordFields DEF Lowerable
<1> DEFINE a == semantic.num_requests
           b == semantic.repeat
<1>6. a \in Nat \ {0} /\ b \in Nat \ {0} BY <1>5
<1> HIDE DEF a, b
<1>7. a * b \in Nat \ {0} BY <1>6, TimesNat
<1> QED BY <1>1, <1>3, <1>4, <1>5, <1>7 DEF Total, a, b

LEMMA PerBankLength ==
  ASSUME NEW s \in Record0, s.kind \in PerBankKinds
  PROVE  Len(s.bank_sequence) \in Nat \ {0}
BY RecordFields, EmptySeq, LenProperties

LEMMA StreamNat ==
  ASSUME NEW s \in Record0, Lowerable(s)
  PROVE  StreamCount(s) \in Nat \ {0} /\ StreamStride(s) \in Int
<1>1. s.num_requests \in Nat \ {0} /\ s.bytes \in Nat /\ s.stride_bytes \in Int
  BY RecordFields DEF Lowerable
<1> DEFINE n == IF s.bytes = 0 THEN 1 ELSE s.bytes
<1>2. n \in Nat \ {0} BY <1>1
<1> HIDE DEF n
<1>3. TxBytes \in Nat \ {0} BY LayoutAssumption
<1>4. Ceiling(n, TxBytes) \in Nat \ {0} BY <1>2, <1>3, CeilingBounds
<1>5. StreamCount(s) = IF IsWeight(s) THEN Ceiling(n, TxBytes) ELSE s.num_requests BY DEF StreamCount, n
<1> QED BY <1>1, <1>3, <1>4, <1>5 DEF StreamStride

(* Neither the record nor what is made of it changes while it is lowered.  *)
LEMMA SameRecord ==
  ASSUME UNCHANGED <<options, todo>>
  PROVE  /\ semantic' = semantic /\ options' = options /\ todo' = todo
         /\ Loop(semantic)' = Loop(semantic)
         /\ Skipped(semantic)' <=> Skipped(semantic)
         /\ (\A i \in DOMAIN todo : Skipped(todo[i]) \/ Lowerable(todo[i])) =>
              (\A i \in DOMAIN todo : Skipped(todo[i]) \/ Lowerable(todo[i]))'
<1>1. semantic' = semantic /\ options' = options /\ todo' = todo BY DEF semantic
<1>2. MacMode(semantic.kind)' = MacMode(semantic.kind) BY <1>1 DEF MacMode
<1>3. Loop(semantic)' = Loop(semantic) BY <1>1, <1>2 DEF Loop, IsWeight
<1>4. Skipped(semantic)' <=> Skipped(semantic) BY <1>1 DEF Skipped, IsWeight
<1>5. ASSUME \A i \in DOMAIN todo : Skipped(todo[i]) \/ Lowerable(todo[i])
      PROVE  (\A i \in DOMAIN todo : Skipped(todo[i]) \/ Lowerable(todo[i]))'
  BY <1>1, <1>5 DEF Skipped, Lowerable, IsWeight, StreamCount, StreamStride
<1> QED BY <1>1, <1>3, <1>4, <1>5

LEMMA WorkKept ==
  ASSUME WorkInv, UNCHANGED <<options, todo>>, pc # "begin",
         \/ pc' \in {pc, "end"}
         \/ /\ pc = "single"
            /\ pc' = IF options.interleave_banks /\ Len(semantic.bank_sequence) > 1 THEN "compact" ELSE "serial"
  PROVE  WorkInv'
<1>1. /\ semantic' = semantic /\ options' = options /\ todo' = todo
      /\ Loop(semantic)' = Loop(semantic) /\ (Skipped(semantic)' <=> Skipped(semantic))
      /\ (\A i \in DOMAIN todo : Skipped(todo[i]) \/ Lowerable(todo[i]))'
  BY SameRecord DEF WorkInv
<1>2. options' \in Options /\ pc' \in Loops \cup {"begin", "end"} /\ todo' \in Seq({s \in Semantics : Placed(s)})
  BY <1>1 DEF WorkInv, Loops, RankLoops
<1>4. pc' # "begin" => todo' # <<>> /\ ~Skipped(semantic)' BY <1>1 DEF WorkInv
<1>5. pc' \in RankLoops \cup {"host"} => Loop(semantic)' = pc' BY <1>1 DEF WorkInv, RankLoops
<1>6. pc' \in {"compact", "serial"} => Loop(semantic)' = "single" BY <1>1 DEF WorkInv, RankLoops
<1>7. pc' = "compact" => Len(semantic'.bank_sequence) > 1 /\ options'.interleave_banks BY <1>1 DEF WorkInv
<1>8. pc' = "serial" => ~(Len(semantic'.bank_sequence) > 1 /\ options'.interleave_banks) BY <1>1 DEF WorkInv
<1> QED BY <1>1, <1>2, <1>4, <1>5, <1>6, <1>7, <1>8 DEF WorkInv
(***************************************************************************)
(* The loops make progress within their shares.                            *)
(***************************************************************************)
LEMMA LeftInt == ProgressInv /\ pc \in Loops => \A i \in left : i \in Int
<1> SUFFICES ASSUME ProgressInv, pc \in Loops PROVE \A i \in left : i \in Int OBVIOUS
<1>1. CASE pc \in RankLoops
  <2>1. left \subseteq Ranks BY <1>1 DEF ProgressInv
  <2>2. \A i \in Ranks : i \in Int BY LevelsOfAddress DEF Ranks
  <2> QED BY <2>1, <2>2
<1>2. CASE pc \in {"host", "compact"} BY <1>2 DEF ProgressInv
<1>3. CASE pc = "serial" BY <1>3 DEF ProgressInv
<1> QED BY <1>1, <1>2, <1>3 DEF Loops

LEMMA VisitProgress ==
  ASSUME WorkInv, ProgressInv, pc \in Loops \ {"single", "compute_all"}, NEW i \in left, Visited(i),
         NEW chunk \in Nat \ {0}, NEW share, share = Share(i), done + chunk <= share, Visit(i, chunk, share)
  PROVE  WorkInv' /\ ProgressInv'
<1>1. /\ done' = (IF done + chunk = share THEN 0 ELSE done + chunk)
      /\ left' = (IF done + chunk = share THEN left \ {i} ELSE left)
      /\ pc' = (IF left' = {} THEN "end" ELSE pc)
      /\ UNCHANGED <<options, todo>>
  BY DEF Visit
<1>2. WorkInv'
  <2>1. pc # "begin" BY DEF Loops, RankLoops
  <2> QED BY <1>1, <2>1, WorkKept
<1>3. done \in Nat /\ share \in Nat BY DEF ProgressInv
<1>4. done' \in Nat /\ left' \subseteq left BY <1>1, <1>3
<1>5. pc' = pc => \A j : Share(j)' = Share(j)
  <2>1. semantic' = semantic BY <1>1, SameRecord
  <2> QED BY <2>1 DEF Share
<1>6. pc' \in {"begin", "single"} => done' = 0 BY <1>1 DEF Loops, RankLoops
<1>7. pc' \in RankLoops => left' \subseteq Ranks
  <2>1. "end" \notin RankLoops BY DEF RankLoops
  <2> QED BY <1>1, <1>4, <2>1 DEF ProgressInv
<1>8. pc' \in {"host", "compact"} => left' = {0}
  <2> SUFFICES ASSUME pc' \in {"host", "compact"} PROVE left' = {0} OBVIOUS
  <2>1. pc' = pc /\ left' # {} BY <1>1
  <2>2. left = {0} BY <2>1 DEF ProgressInv
  <2> QED BY <1>4, <2>1, <2>2
<1>9. pc' = "serial" => left' \subseteq 0 .. Len(semantic'.bank_sequence) - 1
  <2>1. semantic' = semantic BY <1>1, SameRecord
  <2> QED BY <1>1, <1>4, <2>1 DEF ProgressInv
<1>10. ASSUME pc' \in Loops, NEW j \in left' PROVE Share(j)' \in Nat \ {0} /\ (Visited(j)' => done' < Share(j)')
  <2>1. pc' = pc BY <1>1, <1>10 DEF Loops, RankLoops
  <2>2. Share(j)' = Share(j) /\ Share(j) \in Nat \ {0} BY <1>4, <1>5, <1>10, <2>1 DEF ProgressInv
  <2>3. CASE done + chunk = share BY <1>1, <2>2, <2>3
  <2>4. CASE done + chunk # share /\ Visited(j)'
    <3>1. left' = left /\ done' = done + chunk BY <1>1, <2>4
    <3>2. j <= i /\ i <= j BY <1>10, <2>4, <3>1 DEF Visited
    <3>3. i \in Int /\ j \in Int BY <1>4, <1>10, LeftInt
    <3>4. j = i BY <3>2, <3>3
    <3> QED BY <1>3, <2>2, <2>4, <3>1, <3>4
  <2> QED BY <2>2, <2>3, <2>4
<1> QED BY <1>2, <1>4, <1>6, <1>7, <1>8, <1>9, <1>10 DEF ProgressInv

LEMMA BeginProgress ==
  ASSUME WorkInv, ProgressInv, Begin(semantic) PROVE WorkInv' /\ ProgressInv'
<1>1. /\ pc = "begin" /\ todo # <<>> /\ ~Skipped(semantic) /\ done' = 0 /\ UNCHANGED <<options, todo>>
      /\ pc' = Loop(semantic)
      /\ left' = CASE Loop(semantic) = "host" -> {0}
                   [] Loop(semantic) \in {"all_bank", "single"} -> AllBankTargetRanks(semantic)
                   [] OTHER -> Ranks
  BY DEF Begin
<1>2. Loop(semantic) \in RankLoops \cup {"host"} BY LoopKinds
<1>3. /\ semantic' = semantic /\ options' = options /\ todo' = todo
      /\ Loop(semantic)' = Loop(semantic) /\ (Skipped(semantic)' <=> Skipped(semantic))
      /\ (\A i \in DOMAIN todo : Skipped(todo[i]) \/ Lowerable(todo[i]))'
  BY <1>1, SameRecord DEF WorkInv
<1>4. WorkInv'
  <2>1. options' \in Options /\ pc' \in Loops \cup {"begin", "end"} /\ todo' \in Seq({s \in Semantics : Placed(s)})
    BY <1>1, <1>2, <1>3 DEF WorkInv, Loops
  <2>2. pc' # "begin" => todo' # <<>> /\ ~Skipped(semantic)' BY <1>1, <1>3
  <2>3. pc' \in RankLoops \cup {"host"} => Loop(semantic)' = pc' BY <1>1, <1>3
  <2>4. pc' \notin {"compact", "serial"} BY <1>1, <1>2 DEF RankLoops
  <2> QED BY <1>3, <2>1, <2>2, <2>3, <2>4 DEF WorkInv
<1>5. /\ semantic \in Record0 /\ Lowerable(semantic) /\ ~Skipped(semantic)
      /\ Total(semantic) \in Nat \ {0}
      /\ semantic.num_requests \in Nat \ {0} /\ semantic.repeat \in Nat \ {0} BY <1>1, InWork
<1>6. pc' # "single" => \A i : Share(i)' \in Nat \ {0}
  <2> SUFFICES ASSUME pc' # "single", NEW i PROVE Share(i)' \in Nat \ {0} OBVIOUS
  <2>1. CASE pc' = "host"
    <3> DEFINE n == StreamCount(semantic)
               m == semantic.repeat
    <3>1. n \in Nat \ {0} /\ m \in Nat \ {0} BY <1>5, StreamNat
    <3>2. Share(i)' = n * m BY <1>3, <2>1 DEF Share
    <3> HIDE DEF n, m
    <3>3. n * m \in Nat \ {0} BY <3>1, TimesNat
    <3> QED BY <3>2, <3>3
  <2>2. CASE pc' = "all_bank"
    <3>1. semantic.kind \in PerBankKinds BY <1>1, <2>2, LoopKinds
    <3>2. Len(semantic.bank_sequence) \in Nat \ {0} BY <1>5, <3>1, PerBankLength
    <3>3. Share(i)' = Ceiling(Total(semantic), Len(semantic.bank_sequence))
      BY <1>3, <2>2 DEF Share, AllBankShare
    <3> DEFINE a == Total(semantic)
               b == Len(semantic.bank_sequence)
    <3>4. a \in Nat \ {0} /\ b \in Nat \ {0} BY <1>5, <3>2
    <3> HIDE DEF a, b
    <3>5. Ceiling(a, b) \in Nat \ {0} BY <3>4, CeilingBounds
    <3> QED BY <3>3, <3>5 DEF a, b
  <2>3. CASE pc' \notin {"host", "all_bank"}
    <3>1. pc' # "serial" BY <1>1, <1>2 DEF RankLoops
    <3>2. Share(i)' = Total(semantic) BY <1>3, <2>3, <3>1 DEF Share
    <3> QED BY <1>5, <3>2
  <2> QED BY <2>1, <2>2, <2>3
<1>7. pc' \in RankLoops => left' \subseteq Ranks
  <2>1. CASE Loop(semantic) \in {"all_bank", "single"}
    <3>1. left' = AllBankTargetRanks(semantic) BY <1>1, <2>1
    <3>2. \A i \in DOMAIN semantic.bank_sequence : semantic.bank_sequence[i] \in Int
      <4> TAKE i \in DOMAIN semantic.bank_sequence
      <4>1. semantic.bank_sequence \in Seq(Banks) BY <1>5, RecordFields
      <4>2. semantic.bank_sequence[i] \in Banks BY <4>1
      <4> QED BY <4>2, BanksInt
    <3>3. \A i \in DOMAIN semantic.bank_sequence : RankForFlatBank(semantic.bank_sequence[i]) \in Ranks
      BY <3>2, RankOfFlatBank
    <3> QED BY <3>1, <3>3 DEF AllBankTargetRanks
  <2>2. CASE Loop(semantic) \in RankLoops \ {"all_bank", "single"} BY <1>1, <2>2 DEF RankLoops
  <2>3. CASE Loop(semantic) = "host" BY <1>1, <2>3 DEF RankLoops
  <2> QED BY <1>2, <2>1, <2>2, <2>3
<1>8. pc' \in {"host", "compact"} => left' = {0} BY <1>1, <1>2 DEF RankLoops
<1>9. pc' # "serial" /\ done' = 0 BY <1>1, <1>2 DEF RankLoops
<1>10. ASSUME pc' \in Loops, NEW i \in left' PROVE Share(i)' \in Nat \ {0} /\ done' < Share(i)'
  <2>1. pc' = "single" => Share(i)' \in Nat \ {0} BY <1>3, <1>5 DEF Share
  <2> QED BY <1>6, <1>9, <2>1
<1>11. ProgressInv' BY <1>7, <1>8, <1>9, <1>10 DEF ProgressInv
<1> QED BY <1>4, <1>11

LEMMA BankShareNat ==
  ASSUME NEW s \in Record0, s.kind \in PerBankKinds, Total(s) \in Nat \ {0}, NEW i \in Int
  PROVE  BankShare(s, i) \in Nat
<1> DEFINE a == Total(s)
           b == Len(s.bank_sequence)
<1>1. a \in Nat /\ b \in Nat \ {0} BY PerBankLength
<1>2. BankShare(s, i) = a \div b + (IF i < a % b THEN 1 ELSE 0) BY DEF BankShare
<1> HIDE DEF a, b
<1>3. a \div b \in Nat
  <2>1. a \in Int BY <1>1
  <2> QED BY <1>1, <2>1, DivMod
<1> QED BY <1>2, <1>3

LEMMA PerBankProgress ==
  ASSUME WorkInv, ProgressInv, LowerPerBank(semantic) PROVE WorkInv' /\ ProgressInv'
<1> DEFINE compact == options.interleave_banks /\ Len(semantic.bank_sequence) > 1
           n == Len(semantic.bank_sequence)
<1>1. pc = "single" /\ UNCHANGED <<options, todo, done>> BY DEF LowerPerBank
<1>2. PICK r \in Ranks :
        /\ pc'   = CASE ~(left = {r}) -> pc [] left = {r} /\ compact -> "compact" [] left = {r} /\ ~compact -> "serial"
        /\ left' = CASE ~(left = {r}) -> left \ {r}
                     [] left = {r} /\ compact -> {0}
                     [] left = {r} /\ ~compact -> {i \in 0 .. n - 1 : BankShare(semantic, i) > 0}
  BY DEF LowerPerBank
<1>3. \/ pc' = "single" /\ left' = left \ {r}
      \/ pc' = "compact" /\ left' = {0} /\ compact
      \/ pc' = "serial" /\ left' = {i \in 0 .. n - 1 : BankShare(semantic, i) > 0} /\ ~compact
  <2>1. CASE left # {r} BY <1>1, <1>2, <2>1
  <2>2. CASE left = {r} /\ compact BY <1>2, <2>2
  <2>3. CASE left = {r} /\ ~compact BY <1>2, <2>3
  <2> QED BY <2>1, <2>2, <2>3
<1>4. WorkInv' BY <1>1, <1>3, WorkKept
<1>5. /\ semantic \in Record0 /\ Total(semantic) \in Nat \ {0} /\ semantic' = semantic
      /\ semantic.kind \in PerBankKinds
  BY <1>1, InWork, LoopKinds, SameRecord DEF WorkInv, RankLoops
<1>6. done = 0 /\ done' = 0 /\ left \subseteq Ranks BY <1>1 DEF ProgressInv, RankLoops
<1>7. CASE pc' = "single" /\ left' = left \ {r}
  <2>1. \A i : Share(i)' = Total(semantic) BY <1>5, <1>7 DEF Share
  <2> QED BY <1>4, <1>5, <1>6, <1>7, <2>1 DEF ProgressInv
<1>8. CASE pc' = "compact" /\ left' = {0} /\ compact
  <2>1. \A i : Share(i)' = Total(semantic) BY <1>5, <1>8 DEF Share
  <2> QED BY <1>4, <1>5, <1>6, <1>8, <2>1 DEF ProgressInv, RankLoops
<1>9. CASE pc' = "serial" /\ left' = {i \in 0 .. n - 1 : BankShare(semantic, i) > 0}
  <2>1. \A i \in left' : Share(i)' \in Nat \ {0}
    <3> TAKE i \in left'
    <3>1. i \in Int /\ BankShare(semantic, i) > 0 BY <1>9
    <3>2. BankShare(semantic, i) \in Nat BY <1>5, <3>1, BankShareNat
    <3>3. Share(i)' = BankShare(semantic, i) BY <1>5, <1>9 DEF Share
    <3> QED BY <3>1, <3>2, <3>3
  <2>2. left' \subseteq 0 .. Len(semantic'.bank_sequence) - 1 BY <1>5, <1>9
  <2> QED BY <1>4, <1>6, <1>9, <2>1, <2>2 DEF ProgressInv, RankLoops
<1> QED BY <1>3, <1>7, <1>8, <1>9

LEMMA ComputeAllProgress ==
  ASSUME WorkInv, ProgressInv, LowerComputeAll(semantic) PROVE WorkInv' /\ ProgressInv'
<1>1. pc = "compute_all" /\ UNCHANGED <<options, todo>> BY DEF LowerComputeAll
<1>2. PICK r \in Ranks :
        /\ Visited(r)
        /\ done' = IF left = {r} THEN done + 1 ELSE done
        /\ left' = IF ~(left = {r}) THEN left \ {r} ELSE IF done + 1 = Total(semantic) THEN {} ELSE Ranks
        /\ pc'   = IF left' = {} THEN "end" ELSE pc
  BY DEF LowerComputeAll
<1>3. WorkInv' BY <1>1, <1>2, WorkKept
<1>4. Total(semantic) \in Nat \ {0} /\ semantic' = semantic
  BY <1>1, InWork, SameRecord
<1>5. Share(r) = Total(semantic) BY <1>1 DEF Share
<1>6. done \in Nat /\ done < Total(semantic) /\ left \subseteq Ranks
  BY <1>1, <1>2, <1>5 DEF ProgressInv, RankLoops, Loops, Visited
<1>7. left' \subseteq Ranks /\ done' \in Nat BY <1>2, <1>6
<1>8. pc' = "compute_all" => done' < Total(semantic)
  <2> SUFFICES ASSUME pc' = "compute_all" PROVE done' < Total(semantic) OBVIOUS
  <2>1. left' # {} BY <1>2
  <2> QED BY <1>2, <1>4, <1>6, <2>1
<1>9. pc' = "compute_all" => \A i : Share(i)' = Total(semantic) BY <1>4 DEF Share
<1>10. ProgressInv'
  <2>1. pc' \in {"compute_all", "end"} BY <1>1, <1>2
  <2> QED BY <1>4, <1>7, <1>8, <1>9, <2>1 DEF ProgressInv, Loops, RankLoops
<1> QED BY <1>3, <1>10

LEMMA NextRecordProgress ==
  ASSUME WorkInv, ProgressInv, NextRecord(semantic) PROVE WorkInv' /\ ProgressInv'
<1>1. /\ todo # <<>> /\ todo' = Tail(todo) /\ pc' = "begin" /\ done' = 0 /\ options' = options
  BY DEF NextRecord
<1>2. todo \in Seq(Record0) BY DEF WorkInv, Record0
<1>3. /\ todo' \in Seq(Record0) /\ Len(todo') = Len(todo) - 1 /\ Len(todo) \in Nat
      /\ \A i \in 1 .. Len(todo) - 1 : todo'[i] = todo[i + 1]
  BY <1>1, <1>2, HeadTailProperties, LenProperties
<1>4. DOMAIN todo' = 1 .. Len(todo) - 1 /\ DOMAIN todo = 1 .. Len(todo) BY <1>2, <1>3
<1>5. (\A i \in DOMAIN todo : Skipped(todo[i]) \/ Lowerable(todo[i]))'
  <2> SUFFICES ASSUME NEW i \in DOMAIN todo' PROVE (Skipped(todo[i]) \/ Lowerable(todo[i]))' OBVIOUS
  <2>1. i + 1 \in DOMAIN todo /\ todo'[i] = todo[i + 1] BY <1>3, <1>4
  <2>2. Skipped(todo[i + 1]) \/ Lowerable(todo[i + 1]) BY <2>1 DEF WorkInv
  <2> QED BY <1>1, <2>1, <2>2 DEF Skipped, Lowerable, IsWeight, StreamCount, StreamStride
<1>6. WorkInv'
  <2>1. options' \in Options BY <1>1 DEF WorkInv
  <2> QED BY <1>1, <1>3, <1>5, <2>1 DEF WorkInv, RankLoops, Record0
<1>7. ProgressInv' BY <1>1 DEF ProgressInv, RankLoops, Loops
<1> QED BY <1>6, <1>7
(***************************************************************************)
(* Host streams. A chunk ends where the stream, its repeat or the channel  *)
(* ends, and its requests are the stream's.                                *)
(***************************************************************************)
LEMMA DivExact ==
  ASSUME NEW a \in Int, NEW n \in Nat \ {0}
  PROVE  (n * a) \div n = a
<1>1. 0 \in 0 .. n - 1 /\ n * a + 0 = n * a OBVIOUS
<1>2. (n * a + 0) \div n = a BY <1>1, DivModUnique
<1> QED BY <1>1, <1>2

LEMMA Multiple ==
  ASSUME NEW a \in Int, NEW n \in Nat \ {0}, a % n = 0
  PROVE  a \div n \in Int /\ a = n * (a \div n)
<1>1. a \div n \in Int /\ a = n * (a \div n) + (a % n) BY DivMod
<1> DEFINE q == a \div n
<1>2. q \in Int /\ a = n * q + 0 BY <1>1
<1> HIDE DEF q
<1>3. a = n * q BY <1>2
<1> QED BY <1>2, <1>3 DEF q

LEMMA Rearrange ==
  ASSUME NEW a \in Int, NEW b \in Int, NEW c \in Int
  PROVE  a * (b * c) = b * (a * c) /\ a * (b + c) = a * b + a * c /\ (b + c) * a = b * a + c * a
OBVIOUS

(* A remainder advances with its steps as long as it does not wrap.        *)
LEMMA StepsOfRemainder ==
  ASSUME NEW n \in Nat \ {0}, NEW x \in Int, NEW v \in Int, NEW k \in Nat,
         (x % n) + k * (v % n) <= n - 1
  PROVE  (x + k * v) % n = (x % n) + k * (v % n)
<1> DEFINE q == x \div n
           p == v \div n
           start == x % n
           step == v % n
<1>1. q \in Int /\ p \in Int /\ start \in 0 .. n - 1 /\ step \in 0 .. n - 1
      /\ x = n * q + start /\ v = n * p + step
  BY DivMod
<1>2. start + k * step <= n - 1 OBVIOUS
<1> HIDE DEF q, p, start, step
<1> DEFINE y == k * step
           z == k * p
<1>3. y \in Nat /\ z \in Int BY <1>1
<1>4. k * v = n * z + y
  <2>1. k * (n * p + step) = k * (n * p) + k * step
    <3> DEFINE m == n * p
    <3>1. m \in Int BY <1>1
    <3> HIDE DEF m
    <3>2. k * (m + step) = k * m + k * step BY <1>1, <3>1, Rearrange
    <3> QED BY <3>2 DEF m
  <2>2. k * (n * p) = n * (k * p) BY <1>1, Rearrange
  <2> QED BY <1>1, <2>1, <2>2
<1>5. start + y \in 0 .. n - 1 BY <1>1, <1>2, <1>3
<1> HIDE DEF y, z
<1>6. x + k * v = n * (q + z) + (start + y)
  <2>1. n * (q + z) = n * q + n * z BY <1>1, <1>3, Rearrange
  <2> DEFINE kv == k * v
             nq == n * q
             nz == n * z
  <2>2. nq \in Int /\ nz \in Int BY <1>1, <1>3
  <2>3. kv = nz + y /\ x = nq + start /\ n * (q + z) = nq + nz BY <1>1, <1>4, <2>1
  <2> HIDE DEF kv, nq, nz
  <2>4. x + kv = (nq + nz) + (start + y) BY <1>1, <1>3, <2>2, <2>3
  <2> QED BY <2>3, <2>4 DEF kv
<1> DEFINE c == q + z
           r == start + y
<1>7. c \in Int /\ r \in 0 .. n - 1 BY <1>1, <1>3, <1>5
<1>8. x + k * v = n * c + r BY <1>6
<1> HIDE DEF c, r
<1>9. (n * c + r) % n = r BY <1>7, DivModUnique
<1> QED BY <1>8, <1>9 DEF r, y, start, step

(* The transactions of a bounded stream.                                   *)
LEMMA StreamTransaction ==
  ASSUME NEW s \in Record0, Lowerable(s), s.kind \in HostKinds \/ IsWeight(s), NEW i \in Nat,
         options.synthetic_address_policy = "bounded_surrogate_v1"
  PROVE  /\ s.base_byte \div Prefetch \in Int /\ StreamStride(s) \div Prefetch \in Int
         /\ (s.base_byte + i * StreamStride(s)) \div Prefetch
              = (s.base_byte \div Prefetch) + i * (StreamStride(s) \div Prefetch)
<1> DEFINE a == s.base_byte
           u == StreamStride(s)
           b == a \div Prefetch
           v == u \div Prefetch
<1>1. a \in Int /\ u \in Int /\ a % Prefetch = 0 /\ u % Prefetch = 0 /\ Prefetch \in Nat \ {0}
  BY RecordFields, StreamNat, LayoutAssumption DEF Lowerable
<1> HIDE DEF a, u
<1>2. b \in Int /\ a = Prefetch * b /\ v \in Int /\ u = Prefetch * v BY <1>1, Multiple
<1> HIDE DEF b, v
<1> DEFINE w == i * v
<1>3. w \in Int BY <1>2
<1>4. i * (Prefetch * v) = Prefetch * w BY <1>1, <1>2, Rearrange
<1> HIDE DEF w
<1>5. Prefetch * (b + w) = Prefetch * b + Prefetch * w BY <1>1, <1>2, <1>3, Rearrange
<1>6. a + i * u = Prefetch * (b + w) BY <1>2, <1>4, <1>5
<1> DEFINE c == b + w
<1>7. c \in Int BY <1>2, <1>3
<1> HIDE DEF c
<1>8. (Prefetch * c) \div Prefetch = c BY <1>1, <1>7, DivExact
<1>9. (a + i * u) \div Prefetch = b + w BY <1>6, <1>8 DEF c
<1> QED BY <1>2, <1>9 DEF a, u, b, v, w
LEMMA StreamByteInCapacity ==
  ASSUME NEW s \in Record0, Lowerable(s), s.kind \in HostKinds \/ IsWeight(s), options \in Options,
         NEW i \in Nat, i < StreamCount(s) * s.repeat
  PROVE  StreamByte(s, i) \in Int /\ InCapacity(StreamByte(s, i))
<1> DEFINE n == StreamCount(s) * s.repeat
           u == StreamStride(s)
           a == s.base_byte
           logical == a + i * u
<1>1. a \in Nat /\ u \in Nat \ {0} BY RecordFields, StreamNat DEF Lowerable
<1>2. n \in Nat \ {0}
  <2> DEFINE c == StreamCount(s)
             m == s.repeat
  <2>1. c \in Nat \ {0} /\ m \in Nat \ {0} BY RecordFields, StreamNat DEF Lowerable
  <2> HIDE DEF c, m
  <2>2. c * m \in Nat \ {0} BY <2>1, TimesNat
  <2> QED BY <2>2 DEF c, m
<1>3. i <= n - 1 BY <1>2
<1>4. CASE options.synthetic_address_policy = "strict_bytes"
  <2>1. StreamByte(s, i) = logical BY <1>4 DEF StreamByte
  <2>2. InCapacity(a + (n - 1) * u) BY <1>4 DEF Lowerable
  <2> HIDE DEF a, u, n
  <2>3. i * u <= (n - 1) * u /\ i * u \in Nat BY <1>1, <1>2, <1>3, TimesMonotone
  <2> DEFINE x == i * u
             y == (n - 1) * u
  <2>4. y \in Int BY <1>1, <1>2
  <2> HIDE DEF x, y
  <2>5. x <= y /\ x \in Nat BY <2>3 DEF x, y
  <2>6. a + y < CapacityBytes /\ CapacityBytes \in Nat BY <2>2, AddressLevels DEF InCapacity, y
  <2>7. a + x >= 0 /\ a + x < CapacityBytes BY <1>1, <2>4, <2>5, <2>6
  <2> QED BY <1>1, <2>1, <2>5, <2>7 DEF InCapacity, x
<1>5. CASE options.synthetic_address_policy # "strict_bytes"
  <2> DEFINE x == logical \div Prefetch
             t == x % Transactions
  <2>1. StreamByte(s, i) = t * TxBytes BY <1>5 DEF StreamByte
  <2>2. Prefetch \in Nat \ {0} /\ TxBytes \in Nat \ {0} /\ Transactions \in Nat \ {0}
    BY LayoutAssumption, AddressLevels
  <2>3. logical \in Int
    <3> HIDE DEF a, u
    <3> QED BY <1>1
  <2> HIDE DEF logical
  <2>4. x \in Int BY <2>2, <2>3, DivMod
  <2> HIDE DEF x
  <2>5. t \in 0 .. Transactions - 1 BY <2>2, <2>4, DivMod
  <2> HIDE DEF t
  <2>6. t * TxBytes \in Nat /\ t * TxBytes <= (Transactions - 1) * TxBytes BY <2>2, <2>5, TimesMonotone
  <2>7. (Transactions - 1) * TxBytes = TxBytes * Transactions - TxBytes BY <2>2
  <2>8. CapacityBytes = TxBytes * Transactions BY DEF CapacityBytes
  <2>9. CapacityBytes \in Nat BY AddressLevels
  <2>10. t * TxBytes < CapacityBytes
    <3> DEFINE y == t * TxBytes
               z == (Transactions - 1) * TxBytes
    <3>1. y \in Nat /\ y <= z /\ z = CapacityBytes - TxBytes BY <2>6, <2>7, <2>8
    <3> HIDE DEF y, z
    <3> QED BY <2>2, <2>9, <3>1 DEF y
  <2> QED BY <2>1, <2>6, <2>10 DEF InCapacity
<1> QED BY <1>4, <1>5

(* Where the chunk ends: with the stream's repeat, before the channel's    *)
(* end.                                                                    *)
LEMMA RestOfRepeat ==
  ASSUME NEW n \in Nat \ {0}, NEW m \in Nat \ {0}, NEW d \in Nat, d < n * m
  PROVE  n - (d % n) \in 1 .. n /\ d + (n - (d % n)) <= n * m
<1> DEFINE q == d \div n
           r == d % n
<1>1. q \in Nat /\ r \in 0 .. n - 1 /\ d = n * q + r
  <2>1. d \in Int OBVIOUS
  <2> QED BY <2>1, DivMod
<1> HIDE DEF q, r
<1>2. q < m
  <2> SUFFICES ASSUME q >= m PROVE FALSE BY <1>1
  <2>1. n * m <= n * q BY <1>1, TimesMonotone
  <2> DEFINE x == n * m
             y == n * q
  <2>2. x \in Int /\ y \in Int /\ x <= y /\ d < x /\ d = y + r BY <1>1, <2>1
  <2> HIDE DEF x, y
  <2> QED BY <1>1, <2>2
<1>3. n * (q + 1) <= n * m BY <1>1, <1>2, TimesMonotone
<1>4. n * (q + 1) = n * q + n BY <1>1
<1> DEFINE x == n * m
           y == n * q
<1>5. x \in Int /\ y \in Int /\ y + n <= x /\ d = y + r BY <1>1, <1>3, <1>4
<1> HIDE DEF x, y
<1>6. n - r \in 1 .. n /\ d + (n - r) <= x BY <1>1, <1>5
<1> QED BY <1>6 DEF x, r

LEMMA HostChunkExact ==
  ASSUME NEW s \in Record0, Lowerable(s), s.kind \in HostKinds \/ IsWeight(s), options \in Options,
         NEW d \in Nat, d < StreamCount(s) * s.repeat,
         NEW chunk, chunk = HostChunk(s, d)
  PROVE  /\ chunk.repeat \in 1 .. MAX_REPEAT /\ d + chunk.repeat <= StreamCount(s) * s.repeat
         /\ chunk.base \in Int
         /\ \A k \in 0 .. chunk.repeat - 1 : chunk.base + k * chunk.stride = StreamByte(s, d + k)
<1> DEFINE n == StreamCount(s)
           u == StreamStride(s)
           a == s.base_byte
           most == Smaller(MAX_REPEAT, n - (d % n))
           logical == a + d * u
           step == (u \div Prefetch) % Transactions
           start == (logical \div Prefetch) % Transactions
           wrap == (Transactions - 1 - start) \div step + 1
           rep == IF step = 0 THEN most ELSE Smaller(most, wrap)
           strict == options.synthetic_address_policy = "strict_bytes"
<1>1. /\ chunk.repeat = IF strict THEN most ELSE rep
      /\ chunk.base = IF strict THEN logical ELSE start * TxBytes
      /\ chunk.stride = IF chunk.repeat > 1 THEN (IF strict THEN u ELSE step * TxBytes) ELSE 0
  BY DEF HostChunk
<1>2. /\ n \in Nat \ {0} /\ s.repeat \in Nat \ {0} /\ u \in Nat \ {0} /\ a \in Nat
      /\ Prefetch \in Nat \ {0} /\ Transactions \in Nat \ {0} /\ TxBytes \in Nat \ {0}
      /\ n = StreamCount(s)
  <2>1. n \in Nat \ {0} /\ u \in Int BY StreamNat
  <2>2. s.repeat \in Nat \ {0} /\ u > 0 /\ a \in Nat BY RecordFields DEF Lowerable
  <2> QED BY <2>1, <2>2, LayoutAssumption, AddressLevels
<1>3. most \in 1 .. MAX_REPEAT /\ d + most <= n * s.repeat
  <2> DEFINE m == s.repeat
             rest == n - (d % n)
  <2>1. m \in Nat \ {0} /\ d < n * m BY <1>2
  <2> HIDE DEF n, m
  <2>2. rest \in 1 .. n /\ d + rest <= n * m BY <1>2, <2>1, RestOfRepeat DEF n
  <2> HIDE DEF rest
  <2> DEFINE x == n * m
  <2>3. x \in Int BY <1>2, <2>1, TimesNat DEF n
  <2> HIDE DEF x
  <2>4. Smaller(MAX_REPEAT, rest) \in 1 .. MAX_REPEAT /\ d + Smaller(MAX_REPEAT, rest) <= x
    BY <1>2, <2>2, <2>3, RepeatAssumption DEF Smaller, n, x
  <2> QED BY <2>4 DEF n, m, rest, x
<1> HIDE DEF most
<1>4. CASE strict
  <2>1. chunk.repeat = most /\ chunk.base = logical BY <1>1, <1>4
  <2>2. ASSUME NEW k \in 0 .. chunk.repeat - 1
        PROVE  chunk.base + k * chunk.stride = StreamByte(s, d + k)
    <3>1. StreamByte(s, d + k) = a + (d + k) * u BY <1>4 DEF StreamByte
    <3>2. k * chunk.stride = k * u
      <4>1. CASE chunk.repeat > 1 BY <1>1, <1>4, <4>1
      <4>2. CASE ~(chunk.repeat > 1)
        <5>1. k = 0 /\ chunk.stride = 0 BY <1>1, <1>3, <2>1, <4>2, RepeatAssumption
        <5> QED BY <1>2, <5>1
      <4> QED BY <4>1, <4>2
    <3> HIDE DEF a, u
    <3>3. (d + k) * u = d * u + k * u BY <1>2, Rearrange
    <3> DEFINE x == d * u
               y == k * u
    <3>4. x \in Int /\ y \in Int BY <1>2
    <3> HIDE DEF x, y
    <3>5. a + (x + y) = (a + x) + y BY <1>2, <3>4
    <3> QED BY <2>1, <3>1, <3>2, <3>3, <3>5 DEF x, y
  <2>3. logical \in Int BY <1>2
  <2> QED BY <1>2, <1>3, <2>1, <2>2, <2>3
<1>5. CASE ~strict
  <2>0. options.synthetic_address_policy = "bounded_surrogate_v1" BY <1>5, OptionsAssumption
  <2> DEFINE b == a \div Prefetch
             v == u \div Prefetch
             x == b + d * v
  <2>1. b \in Int /\ v \in Int /\ x \in Int
    <3>1. b \in Int /\ v \in Int BY <2>0, StreamTransaction
    <3> HIDE DEF b, v
    <3> QED BY <3>1
  <2>2. \A i \in Nat : (a + i * u) \div Prefetch = b + i * v BY <2>0, StreamTransaction
  <2>3. step = v % Transactions /\ start = x % Transactions BY <2>2
  <2>4. \A i \in Nat : StreamByte(s, i) = ((b + i * v) % Transactions) * TxBytes
    BY <1>5, <2>2 DEF StreamByte
  <2>5. chunk.repeat = rep /\ chunk.base = start * TxBytes
        /\ chunk.stride = IF chunk.repeat > 1 THEN step * TxBytes ELSE 0
    BY <1>1, <1>5
  <2> HIDE DEF step, start, b, v, x, logical, a, u, n
  <2>6. step \in 0 .. Transactions - 1 /\ start \in 0 .. Transactions - 1
    BY <1>2, <2>1, <2>3, DivMod
  <2>7. /\ rep \in 1 .. MAX_REPEAT /\ rep <= most
        /\ \A k \in 0 .. rep - 1 : start + k * step <= Transactions - 1
    <3>1. CASE step = 0
      <4>1. \A k \in 0 .. rep - 1 : k * step = 0 BY <1>3, <3>1, RepeatAssumption
      <4> QED BY <1>2, <1>3, <2>6, <3>1, <4>1
    <3>2. CASE step # 0
      <4> DEFINE room == Transactions - 1 - start
                 q == room \div step
      <4>1. room \in Nat /\ step \in Nat \ {0} BY <1>2, <2>6, <3>2
      <4>2. room = Transactions - 1 - start OBVIOUS
      <4> HIDE DEF room
      <4>3. q \in Nat /\ room % step \in 0 .. step - 1 /\ room = step * q + (room % step)
        <5>1. room \in Int BY <4>1
        <5> QED BY <4>1, <5>1, DivMod
      <4>4. wrap = q + 1 BY DEF room
      <4> HIDE DEF q, wrap
      <4>5. rep = Smaller(most, q + 1) BY <3>2, <4>4
      <4>6. rep \in 1 .. MAX_REPEAT /\ rep <= most /\ rep <= q + 1
        <5> HIDE DEF rep
        <5> QED BY <1>3, <4>3, <4>5, RepeatAssumption DEF Smaller
      <4> HIDE DEF rep
      <4>7. ASSUME NEW k \in 0 .. rep - 1 PROVE start + k * step <= Transactions - 1
        <5>1. k \in Int /\ k <= q BY <4>3, <4>6, RepeatAssumption
        <5>2. k * step <= q * step BY <4>1, <4>3, <5>1, TimesMonotone
        <5> DEFINE y == k * step
                   z == step * q
                   m == room % step
        <5>3. y \in Int /\ z \in Int /\ y <= z BY <4>1, <4>3, <5>1, <5>2
        <5>4. m \in Nat /\ room = z + m BY <4>1, <4>3
        <5> HIDE DEF y, z, m
        <5>5. start + y <= Transactions - 1 BY <1>2, <2>6, <4>1, <4>2, <5>3, <5>4
        <5> QED BY <5>5 DEF y
      <4> QED BY <4>6, <4>7
    <3> QED BY <3>1, <3>2
  <2> HIDE DEF rep
  <2>8. ASSUME NEW k \in 0 .. chunk.repeat - 1
        PROVE  chunk.base + k * chunk.stride = StreamByte(s, d + k)
    <3>0. k \in Nat /\ d + k \in Nat /\ rep \in Nat /\ k \in 0 .. rep - 1 BY <2>5, <2>7, RepeatAssumption
    <3>1. StreamByte(s, d + k) = ((b + (d + k) * v) % Transactions) * TxBytes BY <2>4, <3>0
    <3>2. b + (d + k) * v = x + k * v
      <4>1. (d + k) * v = d * v + k * v BY <2>1, <3>0, Rearrange
      <4> DEFINE y == d * v
                 z == k * v
      <4>2. y \in Int /\ z \in Int BY <2>1, <3>0
      <4> HIDE DEF y, z
      <4>3. x = b + y BY DEF x, y
      <4>4. b + (y + z) = x + z BY <2>1, <4>2, <4>3
      <4> QED BY <4>1, <4>4 DEF y, z
    <3>3. (x + k * v) % Transactions = start + k * step
      <4>1. (x % Transactions) + k * (v % Transactions) <= Transactions - 1 BY <2>3, <2>7, <3>0
      <4>2. Transactions \in Nat \ {0} /\ x \in Int /\ v \in Int /\ k \in Nat BY <1>2, <2>1, <3>0
      <4>3. (x + k * v) % Transactions = (x % Transactions) + k * (v % Transactions)
        BY ONLY <4>1, <4>2, StepsOfRemainder
      <4> QED BY <2>3, <4>3
    <3>4. (start + k * step) * TxBytes = start * TxBytes + k * (step * TxBytes)
      <4> DEFINE y == k * step
      <4>1. y \in Int /\ start \in Int /\ TxBytes \in Int /\ step \in Int BY <1>2, <2>6, <3>0
      <4>2. y * TxBytes = k * (step * TxBytes) BY <3>0, <4>1
      <4> HIDE DEF y
      <4>3. (start + y) * TxBytes = start * TxBytes + y * TxBytes BY <4>1, Rearrange
      <4> QED BY <4>2, <4>3 DEF y
    <3>5. k * chunk.stride = k * (step * TxBytes)
      <4>1. CASE chunk.repeat > 1 BY <2>5, <4>1
      <4>2. CASE ~(chunk.repeat > 1)
        <5>1. k = 0 /\ chunk.stride = 0 BY <2>5, <3>0, <4>2
        <5> DEFINE z == step * TxBytes
        <5>2. z \in Int BY <1>2, <2>6
        <5> HIDE DEF z
        <5>3. k * z = 0 BY <5>1, <5>2
        <5> QED BY <5>1, <5>3 DEF z
      <4> QED BY <4>1, <4>2
    <3> QED BY <2>5, <3>1, <3>2, <3>3, <3>4, <3>5
  <2>9. d + rep <= n * s.repeat
    <3> DEFINE y == n * s.repeat
    <3>1. y \in Int /\ d + most <= y
      <4>1. y \in Int BY <1>2
      <4> QED BY <1>3, <4>1
    <3> HIDE DEF y
    <3>2. d + rep <= y BY <1>3, <2>7, <3>1
    <3> QED BY <3>2 DEF y
  <2>10. start * TxBytes \in Int BY <1>2, <2>6
  <2> QED BY <2>5, <2>7, <2>8, <2>9, <2>10 DEF n
<1> QED BY <1>4, <1>5
(***************************************************************************)
(* Compact records expand to the requests of the semantic record.          *)
(***************************************************************************)
LEMMA SemanticAddress ==
  ASSUME NEW s, s.kind \in PerBankKinds, NEW i, NEW burst
  PROVE  LET phase == i \div burst
             span  == Len(s.bank_sequence)
             where == SemanticPlace(s, phase \div span)
             av    == AddrVecFromSemantic(s, i, burst)
             bank  == s.bank_sequence[(phase % span) + 1]
         IN  /\ DOMAIN av = DOMAIN LevelSize
             /\ av = [l \in DOMAIN LevelSize |->
                        IF l \in BankLevels THEN Digits(bank, BankCounts)[Index(l)]
                        ELSE CASE l = "Row" -> where.row [] l = "Column" -> where.column [] OTHER -> 0]
<1> DEFINE phase == i \div burst
           span  == Len(s.bank_sequence)
           where == SemanticPlace(s, phase \div span)
           av    == AddrVecFromSemantic(s, i, burst)
           bank  == s.bank_sequence[(phase % span) + 1]
           place == [l \in DOMAIN LevelSize |->
                       CASE l = "Row" -> where.row [] l = "Column" -> where.column [] OTHER -> 0]
<1>1. av = DecomposeFlatBank(bank, place) BY DEF AddrVecFromSemantic
<1>2. DecomposeFlatBank(bank, place) =
        [l \in DOMAIN place |-> IF l \in BankLevels THEN Digits(bank, BankCounts)[Index(l)] ELSE place[l]]
  BY DEF DecomposeFlatBank, Index
<1>3. DOMAIN place = DOMAIN LevelSize
      /\ \A l \in DOMAIN LevelSize :
           place[l] = CASE l = "Row" -> where.row [] l = "Column" -> where.column [] OTHER -> 0
  OBVIOUS
<1> HIDE DEF place, where, bank, av
<1>4. /\ DOMAIN av = DOMAIN LevelSize
      /\ av = [l \in DOMAIN LevelSize |->
                 IF l \in BankLevels THEN Digits(bank, BankCounts)[Index(l)]
                 ELSE CASE l = "Row" -> where.row [] l = "Column" -> where.column [] OTHER -> 0]
  BY <1>1, <1>2, <1>3
<1> QED BY <1>4 DEF where, bank, av

PlaceOf(s) ==
  [row_start |-> s.row_start, row_count |-> s.row_count,
   row_offset |-> (s.resolved_row - s.row_start) % s.row_count,
   column_start |-> s.column_start, dependency_count |-> s.dependency_count,
   column_offset |-> (s.resolved_column - s.column_start) % s.dependency_count]

CompactReplays(s, d, depth) ==
  \A n : \A k \in Nat : Expand(CompactRecord(BaseAddrVec(s), n, s.bank_sequence, d, depth, PlaceOf(s)), k)
                         = AddrVecFromSemantic(s, d + k, depth)

LEMMA CompactExact ==
  ASSUME NEW s \in Record0, s.kind \in PerBankKinds, NEW d \in Nat, NEW depth \in Nat \ {0}
  PROVE  CompactReplays(s, d, depth)
<1> SUFFICES ASSUME NEW n, NEW k \in Nat
             PROVE  Expand(CompactRecord(BaseAddrVec(s), n, s.bank_sequence, d, depth, PlaceOf(s)), k)
                      = AddrVecFromSemantic(s, d + k, depth)
  BY DEF CompactReplays
<1> DEFINE place == PlaceOf(s)
           rec == CompactRecord(BaseAddrVec(s), n, s.bank_sequence, d, depth, place)
           group == (d + k) \div depth
           span == Len(s.bank_sequence)
           cycle == group \div span
           where == SemanticPlace(s, cycle)
           row == place.row_start + ((place.row_offset + cycle \div place.dependency_count) % place.row_count)
           col == place.column_start + ((place.column_offset + cycle) % place.dependency_count)
           bank == s.bank_sequence[(group % span) + 1]
           base == BaseAddrVec(s)
           there == [base EXCEPT !["Row"] = row, !["Column"] = col]
           av == AddrVecFromSemantic(s, d + k, depth)
<1>1. /\ rec.opcode \notin HostOpcodes /\ rec.bank_sequence = s.bank_sequence /\ rec.bank_sequence # <<>>
      /\ rec.interleave_start_idx = d /\ rec.interleave_depth = depth /\ rec.place = place
      /\ rec.addr_vec = base
  BY RecordFields DEF CompactRecord, HostOpcodes
<1>2. Expand(rec, k) = DecomposeFlatBank(bank, there)
  <2> HIDE DEF rec
  <2> QED BY <1>1 DEF Expand
<1> HIDE DEF rec
<1>3. row = where.row /\ col = where.column
  <2> DEFINE a == s.resolved_row - s.row_start
             b == s.resolved_column - s.column_start
             rc == s.row_count
             dc == s.dependency_count
             c == cycle \div dc
  <2>1. a \in Int /\ b \in Int /\ rc \in Nat \ {0} /\ dc \in Nat \ {0} BY RecordFields
  <2>2. cycle \in Int
    <3>1. span \in Nat \ {0} BY PerBankLength
    <3> HIDE DEF span
    <3> DEFINE x == d + k
    <3>2. x \in Int OBVIOUS
    <3> HIDE DEF x
    <3>3. x \div depth \in Int BY <3>2, DivMod
    <3> HIDE DEF group
    <3>4. group \in Int BY <3>3 DEF group, x
    <3> QED BY <3>1, <3>4, DivMod
  <2>3. where.row = s.row_start + ((a + c) % rc) /\ where.column = s.column_start + ((b + cycle) % dc)
    BY DEF SemanticPlace
  <2>4. row = s.row_start + (((a % rc) + c) % rc) /\ col = s.column_start + (((b % dc) + cycle) % dc)
    BY DEF PlaceOf
  <2> HIDE DEF a, b, rc, dc, cycle
  <2>5. c \in Int BY <2>1, <2>2, DivMod
  <2> HIDE DEF c
  <2>6. ((a % rc) + c) % rc = (a + c) % rc BY <2>1, <2>5, ModOfMod
  <2>7. ((b % dc) + cycle) % dc = (b + cycle) % dc BY <2>1, <2>2, ModOfMod
  <2> HIDE DEF where, row, col
  <2> QED BY <2>3, <2>4, <2>6, <2>7
<1>4. av = [l \in DOMAIN LevelSize |->
              IF l \in BankLevels THEN Digits(bank, BankCounts)[Index(l)]
              ELSE CASE l = "Row" -> where.row [] l = "Column" -> where.column [] OTHER -> 0]
  BY SemanticAddress
<1> HIDE DEF where, bank, av, row, col
<1>5. DOMAIN base = DOMAIN LevelSize /\ \A l \in DOMAIN LevelSize \ (BankLevels \cup {"Row", "Column"}) : base[l] = 0
  <2> DEFINE where0 == SemanticPlace(s, (0 \div s.burst_length) \div span)
             bank0 == s.bank_sequence[((0 \div s.burst_length) % span) + 1]
  <2>1. base = [l \in DOMAIN LevelSize |->
                  IF l \in BankLevels THEN Digits(bank0, BankCounts)[Index(l)]
                  ELSE CASE l = "Row" -> where0.row [] l = "Column" -> where0.column [] OTHER -> 0]
    BY SemanticAddress DEF BaseAddrVec
  <2> HIDE DEF base, where0, bank0
  <2> QED BY <2>1
<1> HIDE DEF base
<1>6. /\ DOMAIN there = DOMAIN LevelSize /\ there["Row"] = row /\ there["Column"] = col
      /\ \A l \in DOMAIN LevelSize \ {"Row", "Column"} : there[l] = base[l]
  BY <1>5, LevelsOfAddress
<1>7. DecomposeFlatBank(bank, there) =
        [l \in DOMAIN there |-> IF l \in BankLevels THEN Digits(bank, BankCounts)[Index(l)] ELSE there[l]]
  BY DEF DecomposeFlatBank, Index
<1> HIDE DEF there
<1>8. DecomposeFlatBank(bank, there) = av
  <2>1. \A l \in DOMAIN LevelSize \ BankLevels :
          there[l] = CASE l = "Row" -> where.row [] l = "Column" -> where.column [] OTHER -> 0
    BY <1>3, <1>5, <1>6
  <2> QED BY <1>4, <1>6, <1>7, <2>1
<1> QED BY <1>2, <1>8 DEF av, rec

(***************************************************************************)
(* Every step appends valid records, and what it has appended replays      *)
(* exactly.                                                                *)
(***************************************************************************)
RecordInv == WorkInv /\ ProgressInv /\ Sound(out)

LEMMA NothingToReplay ==
  ASSUME \/ pc' \notin {"end", "host", "compact"}
         \/ pc' # "end" /\ done' = 0
         \/ Loop(semantic)' # "host" /\ pc' \notin {"host", "compact"} /\ out'.last.opcode # "PIM_MAC"
         \/ Loop(semantic)' # "host" /\ pc' \notin {"host", "compact"} /\ out'.last.bank_sequence = <<>>
  PROVE  ReplayExact'
<1>1. ~(JustLowered("host")' /\ Loop(semantic)' = "host")
  BY DEF JustLowered
<1>2. ~(JustLowered("compact")' /\ out'.last.opcode = "PIM_MAC" /\ out'.last.bank_sequence # <<>>)
  BY DEF JustLowered
<1> QED BY <1>1, <1>2 DEF ReplayExact

LEMMA HostStepRecords ==
  ASSUME RecordInv, LowerHost(semantic) PROVE RecordInv' /\ ReplayExact'
<1> DEFINE s == semantic
           chunk == HostChunk(s, done)
           av == AddrVecFromByteAddress(chunk.base)
           single == ToSingleBank(out, av)
           share == StreamCount(s) * s.repeat
<1>1. PICK opcode \in HostOpcodes :
         out' = Append1(single, HostRecord(opcode, av, chunk.repeat, chunk.base, chunk.stride))
  BY DEF LowerHost, HostOpcodes
<1>2. InCapacity(chunk.base) /\ Visit(0, chunk.repeat, share) /\ pc = "host"
  BY DEF LowerHost
<1>3. /\ s \in Record0 /\ Lowerable(s) /\ options \in Options
      /\ s.kind \in HostKinds \/ IsWeight(s)
  <2>1. s \in Record0 /\ Lowerable(s) BY <1>2, InWork DEF RecordInv
  <2>2. options \in Options /\ Loop(s) = "host" BY <1>2 DEF RecordInv, WorkInv
  <2> QED BY <2>1, <2>2, LoopKinds
<1>4. left = {0} /\ Visited(0) /\ share = Share(0) /\ done \in Nat /\ done < share /\ share \in Nat
  <2>1. left = {0} /\ done \in Nat BY <1>2 DEF RecordInv, ProgressInv
  <2>2. Visited(0) BY <2>1 DEF Visited
  <2>3. Share(0) = share BY <1>2 DEF Share
  <2>4. Share(0) \in Nat /\ done < Share(0) BY <1>2, <2>1, <2>2 DEF RecordInv, ProgressInv, Loops
  <2> QED BY <2>1, <2>2, <2>3, <2>4
<1> DEFINE rep == chunk.repeat
<1>5. /\ rep \in 1 .. MAX_REPEAT /\ done + rep <= share /\ chunk.base \in Int
      /\ \A k \in 0 .. rep - 1 : chunk.base + k * chunk.stride = StreamByte(s, done + k)
  BY <1>3, <1>4, HostChunkExact
<1> HIDE DEF chunk
<1>6. WorkInv' /\ ProgressInv'
  <2>1. rep \in Nat \ {0} /\ pc \in Loops \ {"single", "compute_all"} /\ 0 \in left
    BY <1>2, <1>4, <1>5, RepeatAssumption DEF Loops
  <2> HIDE DEF share, rep
  <2>2. Visit(0, rep, share) BY <1>2 DEF rep
  <2>3. WorkInv /\ ProgressInv BY DEF RecordInv
  <2> QED BY <1>4, <1>5, <2>1, <2>2, <2>3, VisitProgress
<1>7. InLayout(av) BY <1>5, ByteAddressInLayout
<1> DEFINE rec == HostRecord(opcode, av, rep, chunk.base, chunk.stride)
<1>8. /\ rec.opcode = opcode /\ rec.addr_vec = av /\ rec.repeat = rep /\ rec.bank_sequence = <<>>
      /\ rec.addr_byte = chunk.base /\ rec.addr_byte_stride = chunk.stride
  BY DEF HostRecord
<1> HIDE DEF rec
<1>9. InCapacity(chunk.base + (rep - 1) * chunk.stride)
  <2> DEFINE k == rep - 1
  <2>1. k \in 0 .. rep - 1 /\ done + k \in Nat /\ done + k < share BY <1>4, <1>5, RepeatAssumption
  <2> HIDE DEF k
  <2>2. chunk.base + k * chunk.stride = StreamByte(s, done + k) BY <1>5, <2>1
  <2>3. InCapacity(StreamByte(s, done + k))
    <3> DEFINE i == done + k
    <3>1. i \in Nat /\ i < StreamCount(s) * s.repeat BY <2>1
    <3> HIDE DEF i, s
    <3>2. InCapacity(StreamByte(s, i)) BY <1>3, <3>1, StreamByteInCapacity
    <3> QED BY <3>2 DEF i
  <2> QED BY <2>2, <2>3 DEF k
<1>10. ValidateRecord(rec)
  <2>1. opcode \in Opcodes BY DEF Opcodes
  <2> QED BY <1>2, <1>5, <1>7, <1>8, <1>9, <2>1 DEF ValidateRecord
<1>11. Sound(out') /\ out'.last = rec
  <2>1. Sound(single) BY <1>7, SingleBankSound DEF RecordInv
  <2>2. out' = Append1(single, rec) BY <1>1 DEF rec
  <2> HIDE DEF single
  <2> QED BY <1>10, <2>1, <2>2, AppendSound
<1>12. ReplayExact'
  <2>1. semantic' = s /\ options' = options BY <1>2, SameRecord DEF Visit
  <2>2. \A i : StreamByte(s, i)' = StreamByte(s, i) BY <2>1 DEF StreamByte
  <2>3. FirstOf(share)' = done
    <3>1. done' = IF done + rep = share THEN 0 ELSE done + rep BY <1>2 DEF Visit
    <3>2. share' = share BY <2>1
    <3> HIDE DEF share, rep
    <3>3. out'.last.repeat = rep BY <1>8, <1>11
    <3>4. FirstOf(share)' = (IF done' = 0 THEN share ELSE done') - rep BY <3>2, <3>3 DEF FirstOf
    <3>5. rep \in Nat \ {0} BY <1>5, RepeatAssumption
    <3> QED BY <1>4, <1>5, <3>1, <3>4, <3>5
  <2>4. \A k \in 0 .. rep - 1 : HostByte(out'.last, k) = StreamByte(s, done + k)
    BY <1>5, <1>8, <1>11 DEF HostByte
  <2>5. out'.last.opcode # "PIM_MAC" BY <1>8, <1>11 DEF HostOpcodes
  <2> QED BY <1>8, <1>11, <2>1, <2>2, <2>3, <2>4, <2>5 DEF ReplayExact, StreamByte
<1> QED BY <1>6, <1>11, <1>12 DEF RecordInv
LEMMA CompactStepRecords ==
  ASSUME RecordInv, LowerCompact(semantic) PROVE RecordInv' /\ ReplayExact'
<1> DEFINE s == semantic
           chunk == Smaller(MAX_REPEAT, Total(s) - done)
           place == PlaceOf(s)
           depth == options.interleave_depth
           rec == CompactRecord(BaseAddrVec(s), chunk, s.bank_sequence, done, depth, place)
           share == Total(s)
<1>1. out' = Append1(out, rec) /\ Visit(0, chunk, share) /\ pc = "compact"
  BY DEF LowerCompact, PlaceOf
<1>2. /\ s \in Record0 /\ s.kind \in PerBankKinds /\ share \in Nat \ {0} /\ depth \in Nat \ {0}
      /\ Loop(s) = "single"
  <2>1. s \in Record0 /\ share \in Nat \ {0} BY <1>1, InWork DEF RecordInv
  <2>2. options \in Options /\ Loop(s) = "single" BY <1>1 DEF RecordInv, WorkInv
  <2> QED BY <2>1, <2>2, LoopKinds, OptionsAssumption
<1>3. left = {0} /\ Visited(0) /\ share = Share(0) /\ done \in Nat /\ done < share
  <2>1. left = {0} /\ done \in Nat BY <1>1 DEF RecordInv, ProgressInv
  <2>2. Visited(0) BY <2>1 DEF Visited
  <2>3. Share(0) = share BY <1>1 DEF Share
  <2>4. done < Share(0) BY <1>1, <2>1, <2>2 DEF RecordInv, ProgressInv, Loops
  <2> QED BY <2>1, <2>2, <2>3, <2>4
<1>4. chunk \in 1 .. MAX_REPEAT /\ done + chunk <= share BY <1>2, <1>3, ChunkBounds
<1>5. WorkInv' /\ ProgressInv'
  <2>1. chunk \in Nat \ {0} /\ pc \in Loops \ {"single", "compute_all"} /\ 0 \in left
    BY <1>1, <1>3, <1>4, RepeatAssumption DEF Loops
  <2> HIDE DEF share, chunk
  <2>2. Visit(0, chunk, share) /\ WorkInv /\ ProgressInv BY <1>1 DEF RecordInv, share, chunk
  <2> QED BY <1>3, <1>4, <2>1, <2>2, VisitProgress
<1>6. InLayout(BaseAddrVec(s))
  <2>1. s.burst_length \in Nat \ {0} BY <1>2, RecordFields
  <2> QED BY <1>2, <2>1, AddressInLayout DEF BaseAddrVec
<1>7. /\ s.bank_sequence \in Seq(Banks) /\ s.bank_sequence # <<>>
      /\ FitsLayout(place)
  <2>1. FitsLayout(s) BY <1>2 DEF Record0, Placed
  <2> QED BY <1>2, <2>1, RecordFields DEF FitsLayout, PlaceOf
<1>7a. \A k \in Nat : Expand(rec, k) = AddrVecFromSemantic(s, done + k, depth)
  <2>1. CompactReplays(s, done, depth)
    <3>1. s \in Record0 /\ s.kind \in PerBankKinds /\ done \in Nat /\ depth \in Nat \ {0} BY <1>2, <1>3
    <3> HIDE DEF depth, s
    <3> QED BY <3>1, CompactExact
  <2> HIDE DEF chunk, depth, s
  <2> QED BY <2>1 DEF CompactReplays
<1>8. /\ rec.opcode = "PIM_MAC" /\ rec.addr_vec = BaseAddrVec(s) /\ rec.repeat = chunk
      /\ rec.bank_sequence = s.bank_sequence /\ rec.place = place
      /\ rec.interleave_start_idx = done /\ rec.interleave_depth = depth
  BY DEF CompactRecord
<1> HIDE DEF rec
<1>9. ValidateRecord(rec)
  <2> HIDE DEF place, chunk, depth
  <2>1. rec.opcode \in Opcodes /\ rec.opcode \notin HostOpcodes BY <1>8 DEF Opcodes, HostOpcodes
  <2>2. \A i \in DOMAIN s.bank_sequence : s.bank_sequence[i] \in Banks BY <1>7
  <2> QED BY <1>2, <1>3, <1>4, <1>6, <1>7, <1>8, <2>1, <2>2 DEF ValidateRecord
<1>10. Sound(out') /\ out'.last = rec BY <1>1, <1>9, AppendSound DEF RecordInv
<1>11. ReplayExact'
  <2>1. semantic' = s /\ options' = options /\ Loop(semantic)' = Loop(semantic)
    BY <1>1, SameRecord DEF Visit
  <2>2. Loop(semantic)' # "host" BY <1>2, <2>1
  <2>3. FirstOf(share)' = done
    <3>1. done' = IF done + chunk = share THEN 0 ELSE done + chunk BY <1>1 DEF Visit
    <3>2. share' = share BY <2>1
    <3>3. chunk \in Nat \ {0} BY <1>4, RepeatAssumption
    <3> HIDE DEF share, chunk
    <3>4. out'.last.repeat = chunk BY <1>8, <1>10
    <3>5. FirstOf(share)' = (IF done' = 0 THEN share ELSE done') - chunk BY <3>2, <3>4 DEF FirstOf
    <3> QED BY <1>2, <1>3, <1>4, <3>1, <3>3, <3>5
  <2>4. \A k \in 0 .. chunk - 1 : Expand(out'.last, k) = AddrVecFromSemantic(s, done + k, depth)
    BY <1>7a, <1>10
  <2>5. out'.last.repeat = chunk BY <1>8, <1>10
  <2>6. (\A k \in 0 .. out.last.repeat - 1 :
           Expand(out.last, k) = AddrVecFromSemantic(semantic, FirstOf(Total(semantic)) + k, options.interleave_depth))'
    <3> SUFFICES ASSUME NEW k \in 0 .. out'.last.repeat - 1
                 PROVE  Expand(out'.last, k)
                          = AddrVecFromSemantic(semantic', FirstOf(Total(semantic))' + k, options'.interleave_depth)
      OBVIOUS
    <3> QED BY <2>1, <2>3, <2>4, <2>5
  <2> QED BY <2>2, <2>6 DEF ReplayExact
<1> QED BY <1>5, <1>10, <1>11 DEF RecordInv

(* Commands of the loops over the ranks, and of the serial loop.           *)
LEMMA MacSound ==
  ASSUME NEW o, Sound(o), NEW opcode \in {"PIM_MAC", "PIM_MAC_AB"}, NEW av, InLayout(av), NEW n \in 1 .. MAX_REPEAT
  PROVE  /\ Sound(Append1(o, Record(opcode, av, n)))
         /\ Append1(o, Record(opcode, av, n)).last.opcode = opcode
         /\ Append1(o, Record(opcode, av, n)).last.bank_sequence = <<>>
<1> DEFINE rec == Record(opcode, av, n)
<1>1. ValidateRecord(rec) BY RecordValid DEF Opcodes, HostOpcodes
<1>2. rec.opcode = opcode /\ rec.bank_sequence = <<>> BY DEF Record
<1> HIDE DEF rec
<1>3. Sound(Append1(o, rec)) /\ Append1(o, rec).last = rec BY <1>1, AppendSound
<1> QED BY <1>2, <1>3 DEF rec

LEMMA RankLoopAddress ==
  ASSUME NEW s \in Record0, NEW r \in Ranks
  PROVE  InLayout(BaseAddrVec(s)) /\ InLayout(RankAddrVec(BaseAddrVec(s), r))
<1>1. s.burst_length \in Nat \ {0} BY RecordFields
<1>2. InLayout(BaseAddrVec(s)) BY <1>1, AddressInLayout DEF BaseAddrVec
<1> QED BY <1>2, RankAddressInLayout

LEMMA AllBankStepRecords ==
  ASSUME RecordInv, LowerAllBank(semantic) PROVE RecordInv' /\ ReplayExact'
<1> DEFINE s == semantic
           share == AllBankShare(s)
           chunk == Smaller(MAX_REPEAT, share - done)
<1>1. pc = "all_bank" /\ WorkInv /\ ProgressInv /\ Sound(out) BY DEF LowerAllBank, RecordInv
<1>2. PICK r \in Ranks :
        LET av     == RankAddrVec(BaseAddrVec(s), r)
            loaded == IF done = 0 THEN EnsureAllBankLoad(out, av) ELSE out
            issued == Append1(ToPIMAllBank(loaded, av), Record("PIM_MAC_AB", av, chunk))
        IN  /\ Visited(r) /\ Visit(r, chunk, share)
            /\ out' = IF done + chunk = share THEN LeaveAllBank(issued, av) ELSE issued
  BY DEF LowerAllBank
<1> DEFINE av     == RankAddrVec(BaseAddrVec(s), r)
           loaded == IF done = 0 THEN EnsureAllBankLoad(out, av) ELSE out
           ready  == ToPIMAllBank(loaded, av)
           issued == Append1(ready, Record("PIM_MAC_AB", av, chunk))
<1>3. /\ Visited(r) /\ Visit(r, chunk, share)
      /\ out' = IF done + chunk = share THEN LeaveAllBank(issued, av) ELSE issued
  BY <1>2
<1>4. s \in Record0 /\ Loop(s) = "all_bank" /\ r \in left
  BY <1>1, <1>3, InWork DEF WorkInv, RankLoops, Visited
<1>5. share = Share(r) /\ share \in Nat \ {0} /\ done \in Nat /\ done < share
  <2>1. share = Share(r) BY <1>1 DEF Share
  <2>2. Share(r) \in Nat \ {0} /\ done < Share(r) /\ done \in Nat
    BY <1>1, <1>3, <1>4 DEF ProgressInv, Loops, RankLoops
  <2> QED BY <2>1, <2>2
<1> HIDE DEF share
<1>6. chunk \in 1 .. MAX_REPEAT /\ done + chunk <= share BY <1>5, ChunkBounds
<1> HIDE DEF chunk
<1>7. WorkInv' /\ ProgressInv'
  <2>1. chunk \in Nat \ {0} /\ pc \in Loops \ {"single", "compute_all"}
    BY <1>1, <1>6, RepeatAssumption DEF Loops, RankLoops
  <2> QED BY <1>1, <1>3, <1>4, <1>5, <1>6, <2>1, VisitProgress
<1>8. InLayout(av) BY <1>4, RankLoopAddress
<1> HIDE DEF av
<1>9. Sound(loaded) BY <1>1, <1>8, EnsureLoadSound
<1> HIDE DEF loaded
<1>10. Sound(ready) BY <1>8, <1>9, PIMAllBankSound
<1> HIDE DEF ready
<1>11. Sound(issued) /\ issued.last.opcode = "PIM_MAC_AB" BY <1>6, <1>8, <1>10, MacSound
<1> HIDE DEF issued
<1>12. Sound(out') /\ out'.last.opcode \in {"SB", "PIM_MAC_AB"} BY <1>3, <1>8, <1>11, LeaveAllBankSound
<1>13. ReplayExact'
  <2>1. Loop(semantic)' # "host" BY <1>3, <1>4, SameRecord DEF Visit
  <2>2. pc' \notin {"host", "compact"} BY <1>1, <1>3 DEF Visit
  <2> QED BY <1>12, <2>1, <2>2, NothingToReplay
<1> QED BY <1>7, <1>12, <1>13 DEF RecordInv

LEMMA PerBankStepRecords ==
  ASSUME RecordInv, LowerPerBank(semantic) PROVE RecordInv' /\ ReplayExact'
<1> DEFINE s == semantic
<1>1. pc = "single" /\ WorkInv /\ ProgressInv /\ Sound(out) BY DEF LowerPerBank, RecordInv
<1>2. PICK r \in Ranks :
        LET single == ToSingleBank(out, RankAddrVec(BaseAddrVec(s), r))
        IN  out' = IF left = {r} /\ single.last = NoRecord
                   THEN Append1(single, Record("SB", BaseAddrVec(s), 1)) ELSE single
  BY DEF LowerPerBank
<1> DEFINE av == RankAddrVec(BaseAddrVec(s), r)
           single == ToSingleBank(out, av)
<1>3. WorkInv' /\ ProgressInv' BY <1>1, PerBankProgress
<1>4. s \in Record0 BY <1>1, InWork
<1>5. InLayout(BaseAddrVec(s)) /\ InLayout(av) BY <1>4, RankLoopAddress
<1>6. out' \in {single, Append1(single, Record("SB", BaseAddrVec(s), 1))} BY <1>2
<1> HIDE DEF av
<1>7. Sound(single) BY <1>1, <1>5, SingleBankSound
<1> HIDE DEF single
<1>8. Sound(out')
  <2>1. "SB" \in Idle /\ 1 \in 1 .. MAX_REPEAT BY RepeatAssumption DEF Idle, Opcodes, ModeOpcodes, HostOpcodes
  <2> QED BY <1>5, <1>6, <1>7, <2>1, AppendIdle
<1>9. ReplayExact'
  <2>1. pc' # "end" /\ done' = 0
    <3>1. done = 0 BY <1>1 DEF ProgressInv
    <3>2. UNCHANGED done /\ pc' \in {pc, "compact", "serial"} BY DEF LowerPerBank
    <3> QED BY <1>1, <3>1, <3>2
  <2> QED BY <2>1, NothingToReplay
<1> QED BY <1>3, <1>8, <1>9 DEF RecordInv

LEMMA SerialStepRecords ==
  ASSUME RecordInv, LowerSerial(semantic) PROVE RecordInv' /\ ReplayExact'
<1> DEFINE s == semantic
<1>1. pc = "serial" /\ WorkInv /\ ProgressInv /\ Sound(out) BY DEF LowerSerial, RecordInv
<1>2. PICK i \in left :
        LET av    == AddrVecFromSemantic(s, i, s.burst_length)
            chunk == Smaller(MAX_REPEAT, BankShare(s, i) - done)
        IN  /\ Visited(i) /\ Visit(i, chunk, BankShare(s, i))
            /\ out' = Append1(ToSingleBank(out, av), Record("PIM_MAC", av, chunk))
  BY DEF LowerSerial
<1> DEFINE av     == AddrVecFromSemantic(s, i, s.burst_length)
           share  == BankShare(s, i)
           chunk  == Smaller(MAX_REPEAT, share - done)
           single == ToSingleBank(out, av)
<1>3. /\ Visited(i) /\ Visit(i, chunk, share)
      /\ out' = Append1(single, Record("PIM_MAC", av, chunk))
  BY <1>2
<1>4. s \in Record0 /\ Loop(s) = "single" BY <1>1, InWork DEF WorkInv
<1>5. share = Share(i) /\ share \in Nat \ {0} /\ done \in Nat /\ done < share /\ i \in Nat
  <2>1. share = Share(i) BY <1>1 DEF Share
  <2>2. Share(i) \in Nat \ {0} /\ done < Share(i) /\ done \in Nat
    BY <1>1, <1>3 DEF ProgressInv, Loops, RankLoops
  <2>3. i \in Nat
    <3>1. Len(s.bank_sequence) \in Nat BY <1>4, RecordFields, LenProperties
    <3> QED BY <1>1, <3>1 DEF ProgressInv
  <2> QED BY <2>1, <2>2, <2>3
<1> HIDE DEF share
<1>6. chunk \in 1 .. MAX_REPEAT /\ done + chunk <= share BY <1>5, ChunkBounds
<1> HIDE DEF chunk
<1>7. WorkInv' /\ ProgressInv'
  <2>1. chunk \in Nat \ {0} /\ pc \in Loops \ {"single", "compute_all"}
    BY <1>1, <1>6, RepeatAssumption DEF Loops, RankLoops
  <2> QED BY <1>1, <1>3, <1>5, <1>6, <2>1, VisitProgress
<1>8. InLayout(av)
  <2>1. s.burst_length \in Nat \ {0} BY <1>4, RecordFields
  <2> QED BY <1>4, <1>5, <2>1, AddressInLayout
<1> HIDE DEF av
<1>9. Sound(single) BY <1>1, <1>8, SingleBankSound
<1> HIDE DEF single
<1>10. Sound(out') /\ out'.last.bank_sequence = <<>> BY <1>3, <1>6, <1>8, <1>9, MacSound
<1>11. ReplayExact'
  <2>1. Loop(semantic)' # "host" BY <1>3, <1>4, SameRecord DEF Visit
  <2>2. pc' \notin {"host", "compact"} BY <1>1, <1>3 DEF Visit
  <2> QED BY <1>10, <2>1, <2>2, NothingToReplay
<1> QED BY <1>7, <1>10, <1>11 DEF RecordInv

LEMMA LoadStepRecords ==
  ASSUME RecordInv, LowerLoad(semantic) PROVE RecordInv' /\ ReplayExact'
<1> DEFINE s == semantic
           share == Total(s)
           chunk == Smaller(MAX_REPEAT, share - done)
<1>1. pc = "load" /\ WorkInv /\ ProgressInv /\ Sound(out) BY DEF LowerLoad, RecordInv
<1>2. PICK r \in Ranks :
        LET av == RankAddrVec(BaseAddrVec(s), r)
        IN  Visited(r) /\ Visit(r, chunk, share) /\ out' = Load(ToHostAllBank(out, av), av, chunk)
  BY DEF LowerLoad
<1> DEFINE av  == RankAddrVec(BaseAddrVec(s), r)
           hab == ToHostAllBank(out, av)
<1>3. Visited(r) /\ Visit(r, chunk, share) /\ out' = Load(hab, av, chunk) BY <1>2
<1>4. s \in Record0 /\ Loop(s) = "load" /\ r \in left
  BY <1>1, <1>3, InWork DEF WorkInv, RankLoops, Visited
<1>5. share = Share(r) /\ share \in Nat \ {0} /\ done \in Nat /\ done < share
  <2>1. share = Share(r) BY <1>1 DEF Share
  <2>2. Share(r) \in Nat \ {0} /\ done < Share(r) /\ done \in Nat
    BY <1>1, <1>3, <1>4 DEF ProgressInv, Loops, RankLoops
  <2> QED BY <2>1, <2>2
<1> HIDE DEF share
<1>6. chunk \in 1 .. MAX_REPEAT /\ done + chunk <= share BY <1>5, ChunkBounds
<1> HIDE DEF chunk
<1>7. WorkInv' /\ ProgressInv'
  <2>1. chunk \in Nat \ {0} /\ pc \in Loops \ {"single", "compute_all"}
    BY <1>1, <1>6, RepeatAssumption DEF Loops, RankLoops
  <2> QED BY <1>1, <1>3, <1>4, <1>5, <1>6, <2>1, VisitProgress
<1>8. InLayout(av) BY <1>4, RankLoopAddress
<1> HIDE DEF av
<1>9. Sound(hab) BY <1>1, <1>8, HostAllBankSound
<1> HIDE DEF hab
<1>10. Sound(out') /\ out'.last.opcode = "PIM_BCAST" BY <1>3, <1>6, <1>8, <1>9, LoadSound
<1>11. ReplayExact'
  <2>1. Loop(semantic)' # "host" BY <1>3, <1>4, SameRecord DEF Visit
  <2>2. pc' \notin {"host", "compact"} BY <1>1, <1>3 DEF Visit
  <2> QED BY <1>10, <2>1, <2>2, NothingToReplay
<1> QED BY <1>7, <1>10, <1>11 DEF RecordInv

LEMMA ComputeAllStepRecords ==
  ASSUME RecordInv, LowerComputeAll(semantic) PROVE RecordInv' /\ ReplayExact'
<1> DEFINE s == semantic
<1>1. pc = "compute_all" /\ WorkInv /\ ProgressInv /\ Sound(out) BY DEF LowerComputeAll, RecordInv
<1>2. PICK r \in Ranks :
        LET av     == RankAddrVec(AddrVecFromSemantic(s, done % s.num_requests, s.burst_length), r)
            loaded == EnsureAllBankLoad(out, av)
        IN  out' = LeaveAllBank(Append1(ToPIMAllBank(loaded, av), Record("PIM_MAC_AB", av, 1)), av)
  BY DEF LowerComputeAll
<1> DEFINE i      == done % s.num_requests
           av     == RankAddrVec(AddrVecFromSemantic(s, i, s.burst_length), r)
           loaded == EnsureAllBankLoad(out, av)
           ready  == ToPIMAllBank(loaded, av)
           issued == Append1(ready, Record("PIM_MAC_AB", av, 1))
<1>3. out' = LeaveAllBank(issued, av) BY <1>2
<1>4. WorkInv' /\ ProgressInv' BY <1>1, ComputeAllProgress
<1>5. s \in Record0 /\ Loop(s) = "compute_all" BY <1>1, InWork DEF WorkInv, RankLoops
<1>6. i \in Nat
  <2>1. done \in Int /\ s.num_requests \in Nat \ {0} BY <1>1, InWork DEF ProgressInv
  <2> DEFINE n == s.num_requests
  <2> HIDE DEF n
  <2>2. done % n \in 0 .. n - 1 /\ n \in Nat BY <2>1, DivMod DEF n
  <2>3. done % n \in Nat BY <2>2
  <2> QED BY <2>3 DEF n
<1> HIDE DEF i
<1>7. InLayout(av)
  <2>1. s.burst_length \in Nat \ {0} BY <1>5, RecordFields
  <2>2. InLayout(AddrVecFromSemantic(s, i, s.burst_length)) BY <1>5, <1>6, <2>1, AddressInLayout
  <2> QED BY <2>2, RankAddressInLayout
<1> HIDE DEF av
<1>8. Sound(loaded) BY <1>1, <1>7, EnsureLoadSound
<1> HIDE DEF loaded
<1>9. Sound(ready) BY <1>7, <1>8, PIMAllBankSound
<1> HIDE DEF ready
<1>10. Sound(issued)
  <2>1. 1 \in 1 .. MAX_REPEAT BY RepeatAssumption
  <2> QED BY <1>7, <1>9, <2>1, MacSound
<1> HIDE DEF issued
<1>11. Sound(out') /\ out'.last.opcode = "SB" BY <1>3, <1>7, <1>10, LeaveAllBankSound
<1>12. ReplayExact'
  <2>1. UNCHANGED <<options, todo>> /\ pc' \in {pc, "end"} BY DEF LowerComputeAll
  <2>2. Loop(semantic)' # "host" BY <1>5, <2>1, SameRecord
  <2>3. pc' \notin {"host", "compact"} BY <1>1, <2>1
  <2> QED BY <1>11, <2>2, <2>3, NothingToReplay
<1> QED BY <1>4, <1>11, <1>12 DEF RecordInv

LEMMA BeginStepRecords ==
  ASSUME RecordInv, Begin(semantic) PROVE RecordInv' /\ ReplayExact'
<1>1. WorkInv /\ ProgressInv /\ Sound(out) BY DEF RecordInv
<1>2. WorkInv' /\ ProgressInv' BY <1>1, BeginProgress
<1>3. Sound(out')
  <2>1. out' = [out EXCEPT !.work = Empty.work] /\ Empty.work = [b \in Banks |-> 0] BY DEF Begin, Empty
  <2> DEFINE none == Empty.work
  <2>2. none \in [Banks -> Nat] BY <2>1
  <2> HIDE DEF none
  <2>3. out'.valid = out.valid /\ out'.work = none BY <2>1 DEF none, Begin
  <2> QED BY <1>1, <2>2, <2>3 DEF Sound
<1>4. pc' # "end" /\ done' = 0
  <2>1. pc' = Loop(semantic) /\ done' = 0 BY DEF Begin
  <2>2. Loop(semantic) \in RankLoops \cup {"host"} BY LoopKinds
  <2> QED BY <2>1, <2>2 DEF RankLoops
<1> QED BY <1>2, <1>3, <1>4, NothingToReplay DEF RecordInv

LEMMA NextRecordStepRecords ==
  ASSUME RecordInv, NextRecord(semantic) PROVE RecordInv' /\ ReplayExact'
<1>1. WorkInv /\ ProgressInv /\ Sound(out) BY DEF RecordInv
<1>2. WorkInv' /\ ProgressInv' BY <1>1, NextRecordProgress
<1>3. pc' = "begin" /\ done' = 0 /\ out' = out BY DEF NextRecord
<1>4. Sound(out') BY <1>1, <1>3
<1>5. ReplayExact' BY <1>3, NothingToReplay
<1> QED BY <1>2, <1>4, <1>5 DEF RecordInv

LEMMA InitRecords == Init => RecordInv /\ ReplayExact
<1> SUFFICES ASSUME Init PROVE RecordInv /\ ReplayExact OBVIOUS
<1>1. /\ options \in Options /\ todo \in Workloads /\ pc = "begin" /\ done = 0 /\ out = Empty
      /\ \A i \in DOMAIN todo : Skipped(todo[i]) \/ Lowerable(todo[i])
  BY DEF Init
<1>2. WorkInv
  <2>1. todo \in Seq({s \in Semantics : Placed(s)}) BY <1>1, WorkloadsAssumption
  <2> QED BY <1>1, <2>1 DEF WorkInv, RankLoops
<1>3. ProgressInv BY <1>1 DEF ProgressInv, Loops, RankLoops
<1>4. Sound(out)
  <2>1. Empty.valid = TRUE /\ Empty.work = [b \in Banks |-> 0] BY DEF Empty
  <2>2. [b \in Banks |-> 0] \in [Banks -> Nat] OBVIOUS
  <2> QED BY <1>1, <2>1, <2>2 DEF Sound
<1>5. ReplayExact BY <1>1 DEF ReplayExact, JustLowered
<1> QED BY <1>2, <1>3, <1>4, <1>5 DEF RecordInv

LEMMA StutterRecords ==
  ASSUME RecordInv, ReplayExact, UNCHANGED vars PROVE RecordInv' /\ ReplayExact'
<1>1. UNCHANGED <<options, todo, pc, left, done, out>> BY DEF vars
<1>2. WorkInv'
  BY <1>1 DEF RecordInv, WorkInv, semantic, Loop, MacMode, IsWeight, Skipped, Lowerable, StreamCount, StreamStride
<1>3. ProgressInv'
  BY <1>1 DEF RecordInv, ProgressInv, Share, Visited, semantic, AllBankShare, BankShare, StreamCount, IsWeight, Total
<1>4. Sound(out') BY <1>1 DEF RecordInv
<1>5. ReplayExact'
  BY <1>1 DEF ReplayExact, JustLowered, FirstOf, semantic, Loop, MacMode, IsWeight, StreamByte, StreamStride,
       StreamCount, Total
<1> QED BY <1>2, <1>3, <1>4, <1>5 DEF RecordInv

LEMMA StepRecords == RecordInv /\ ReplayExact /\ [Next]_vars => RecordInv' /\ ReplayExact'
<1> SUFFICES ASSUME RecordInv, ReplayExact, [Next]_vars PROVE RecordInv' /\ ReplayExact' OBVIOUS
<1>1. CASE Begin(semantic) BY <1>1, BeginStepRecords
<1>2. CASE LowerHost(semantic) BY <1>2, HostStepRecords
<1>3. CASE LowerAllBank(semantic) BY <1>3, AllBankStepRecords
<1>4. CASE LowerPerBank(semantic) BY <1>4, PerBankStepRecords
<1>5. CASE LowerCompact(semantic) BY <1>5, CompactStepRecords
<1>6. CASE LowerSerial(semantic) BY <1>6, SerialStepRecords
<1>7. CASE LowerLoad(semantic) BY <1>7, LoadStepRecords
<1>8. CASE LowerComputeAll(semantic) BY <1>8, ComputeAllStepRecords
<1>9. CASE NextRecord(semantic) BY <1>9, NextRecordStepRecords
<1>10. CASE (Lowered /\ UNCHANGED vars) \/ UNCHANGED vars BY <1>10, StutterRecords
<1> QED BY <1>1, <1>2, <1>3, <1>4, <1>5, <1>6, <1>7, <1>8, <1>9, <1>10 DEF Next

(***************************************************************************)
(* Every record of the trace is one validate_record accepts, however the   *)
(* device is laid out and whatever the workload: the lowering never        *)
(* computes an address, a stride, a rotation or a repeat outside of the    *)
(* format (lower_semantic_records_to_concrete).                            *)
(***************************************************************************)
THEOREM AlwaysRecordsAccepted == Spec => []RecordsAccepted
<1>1. RecordInv => RecordsAccepted BY DEF RecordInv, Sound, RecordsAccepted
<1> QED BY <1>1, InitRecords, StepRecords, PTL DEF Spec

(***************************************************************************)
(* What is cut into records replays to what the semantic record asks for:  *)
(* a host stream to its bytes, across its repeats and where it wraps, and  *)
(* compact work to the banks, rows and columns of its own rotation.        *)
(***************************************************************************)
THEOREM AlwaysReplaysExactly == Spec => []ReplayExact
<1> QED BY InitRecords, StepRecords, PTL DEF Spec

-----------------------------------------------------------------------------
(***************************************************************************)
(* The third invariant: what work the banks have got. Numbers of requests. *)
(***************************************************************************)
LEMMA CountOn ==
  ASSUME NEW T, NEW d \in Nat, NEW n \in Nat
  PROVE  Cardinality({i \in 0 .. d + n - 1 : i \in T}) =
           Cardinality({i \in 0 .. d - 1 : i \in T}) + Cardinality({k \in 1 .. n : d + k - 1 \in T})
<1> DEFINE A == {i \in 0 .. d - 1 : i \in T}
           B == {k \in 1 .. n : d + k - 1 \in T}
           C == {i \in d .. d + n - 1 : i \in T}
           f == [k \in B |-> d + k - 1]
<1>1. IsFiniteSet(0 .. d - 1) /\ IsFiniteSet(1 .. n) BY FS_Interval
<1>2. IsFiniteSet(A) /\ IsFiniteSet(B) BY <1>1, FS_Subset
<1>3. f \in Bijection(B, C)
  <2>1. f \in [B -> C] OBVIOUS
  <2>2. \A j, k \in B : f[j] = f[k] => j = k OBVIOUS
  <2>3. \A i \in C : \E k \in B : f[k] = i
    <3> TAKE i \in C
    <3>1. (i - d) + 1 \in B /\ f[(i - d) + 1] = i OBVIOUS
    <3> QED BY <3>1
  <2> HIDE DEF f, B, C
  <2> QED BY <2>1, <2>2, <2>3 DEF Bijection, Injection, Surjection, IsInjective
<1>4. IsFiniteSet(C) /\ Cardinality(C) = Cardinality(B)
  <2> HIDE DEF f, B, C
  <2> QED BY <1>2, <1>3, FS_Bijection DEF ExistsBijection
<1>5. {i \in 0 .. d + n - 1 : i \in T} = A \cup C /\ A \cap C = {} OBVIOUS
<1> HIDE DEF A, B, C, f
<1>6. Cardinality(A) \in Nat /\ Cardinality(C) \in Nat BY <1>2, <1>4, FS_CardinalityType
<1>7. Cardinality(A \cup C) = Cardinality(A) + Cardinality(C) - Cardinality(A \cap C) BY <1>2, <1>4, FS_Union
<1>8. Cardinality(A \cap C) = 0 BY <1>5, FS_EmptySet
<1> QED BY <1>4, <1>5, <1>6, <1>7, <1>8 DEF A, B

LEMMA CountAllOrNone ==
  ASSUME NEW n \in Nat, NEW P \in BOOLEAN
  PROVE  Cardinality({k \in 1 .. n : P}) = IF P THEN n ELSE 0
<1>1. CASE P
  <2>1. {k \in 1 .. n : P} = 1 .. n BY <1>1
  <2>2. Cardinality(1 .. n) = n BY FS_Interval
  <2> QED BY <1>1, <2>1, <2>2
<1>2. CASE ~P
  <2>1. {k \in 1 .. n : P} = {} BY <1>2
  <2> QED BY <1>2, <2>1, FS_EmptySet
<1> QED BY <1>1, <1>2

LEMMA BankNumbers ==
  Cardinality(Banks) \in Nat /\ Banks = 0 .. Cardinality(Banks) - 1
<1> DEFINE n == BankCounts[1] * Weight(BankCounts)[1]
<1>1. n \in Nat
  <2>1. BankCounts[1] \in Nat \ {0} /\ Weight(BankCounts)[1] \in Nat \ {0}
    BY BankRadices, Weights DEF Radices
  <2> QED BY <2>1, TimesNat
<1>2. Banks = 0 .. n - 1 BY DEF Banks
<1> HIDE DEF n
<1>3. Cardinality(0 .. n - 1) = n BY <1>1, FS_Interval
<1> QED BY <1>1, <1>2, <1>3

(* The sum over the banks, bank by bank.                                   *)
Sums(f, g, n) == g \in [0 .. n -> Nat] /\ g[0] = 0 /\ \A k \in 1 .. n : g[k] = g[k - 1] + f[k - 1]

LEMMA SumUnfolds ==
  ASSUME NEW f \in [Banks -> Nat]
  PROVE  \E g : Sums(f, g, Cardinality(Banks)) /\ SumOver(f, Banks) = g[Cardinality(Banks)]
<1> DEFINE n == Cardinality(Banks)
           Body(h) == [k \in 0 .. n |-> IF k = 0 THEN 0 ELSE h[k - 1] + (IF k - 1 \in Banks THEN f[k - 1] ELSE 0)]
           found == CHOOSE h : h = Body(h)
           step == [p \in (1 .. n) \X Nat |-> p[2] + f[p[1] - 1]]
<1>1. n \in Nat /\ \A k \in 1 .. n : k - 1 \in Banks /\ f[k - 1] \in Nat
  <2>1. n \in Nat /\ Banks = 0 .. n - 1 BY BankNumbers
  <2> HIDE DEF n
  <2> QED BY <2>1
<1>2. SumOver(f, Banks) = found[n] BY DEF SumOver
<1>3. StepFunction(step, n, Nat)
  <2>1. ASSUME NEW p \in (1 .. n) \X Nat PROVE p[2] + f[p[1] - 1] \in Nat
    <3> HIDE DEF n
    <3>1. p[2] \in Nat /\ f[p[1] - 1] \in Nat BY <1>1
    <3> QED BY <3>1
  <2>2. step \in [(1 .. n) \X Nat -> Nat] BY <2>1
  <2> QED BY <2>2 DEF StepFunction
<1>4. \A k \in 1 .. n, m \in Nat : step[<<k, m>>] = m + f[k - 1] OBVIOUS
<1>5. PICK g : Recursive(g, Nat, 0, n, step)
  <2> DEFINE zero == 0
  <2>1. zero \in Nat OBVIOUS
  <2> HIDE DEF zero, n, step
  <2>2. \E g : Recursive(g, Nat, zero, n, step) BY <1>1, <1>3, <2>1, RecursionExists
  <2> QED BY <2>2 DEF zero
<1> HIDE DEF step, n
<1>6. Sums(f, g, n)
  <2>1. g \in [0 .. n -> Nat] /\ g[0] = 0 /\ \A k \in 1 .. n : g[k] = step[<<k, g[k - 1]>>]
    BY <1>5 DEF Recursive
  <2>2. \A k \in 1 .. n : g[k] = g[k - 1] + f[k - 1]
    <3> TAKE k \in 1 .. n
    <3>1. k - 1 \in 0 .. n BY <1>1
    <3>2. g[k - 1] \in Nat BY <2>1, <3>1
    <3> QED BY <1>4, <2>1, <3>2
  <2> QED BY <2>1, <2>2 DEF Sums
<1>7. g = Body(g)
  <2>1. \A k \in 0 .. n : g[k] = IF k = 0 THEN 0 ELSE g[k - 1] + (IF k - 1 \in Banks THEN f[k - 1] ELSE 0)
    <3> TAKE k \in 0 .. n
    <3>1. k = 0 \/ k \in 1 .. n BY <1>1
    <3> QED BY <1>1, <1>6, <3>1 DEF Sums
  <2>2. g = [k \in 0 .. n |-> g[k]] BY <1>6 DEF Sums
  <2> QED BY <2>1, <2>2
<1>8. found = Body(found) BY <1>7
<1> HIDE DEF found
<1>9. \A k \in 0 .. n : found[k] = IF k = 0 THEN 0 ELSE found[k - 1] + (IF k - 1 \in Banks THEN f[k - 1] ELSE 0)
  BY <1>8
<1>10. \A k \in Nat : k <= n => found[k] = g[k]
  <2> DEFINE T == {k \in Nat : k <= n => found[k] = g[k]}
  <2>1. 0 \in T BY <1>1, <1>6, <1>9 DEF Sums
  <2>2. ASSUME NEW k \in Nat, k \in T PROVE k + 1 \in T
    <3> SUFFICES ASSUME k + 1 <= n PROVE found[k + 1] = g[k + 1] OBVIOUS
    <3>1. k + 1 \in 1 .. n /\ k + 1 \in 0 .. n /\ (k + 1) - 1 = k BY <1>1
    <3>2. found[k] = g[k] BY <1>1, <2>2
    <3>3. k \in Banks BY <1>1, <3>1
    <3>4. found[k + 1] = found[k] + f[k] BY <1>9, <3>1, <3>3
    <3>5. g[k + 1] = g[k] + f[k] BY <1>6, <3>1 DEF Sums
    <3> QED BY <3>2, <3>4, <3>5
  <2> HIDE DEF T
  <2>3. \A k \in Nat : k \in T BY <2>1, <2>2, InductionSet
  <2> QED BY <2>3 DEF T
<1>11. found[n] = g[n] BY <1>1, <1>10
<1> QED BY <1>2, <1>6, <1>11 DEF n

Gains(f, h, c, m) == \A b \in Banks : h[b] = f[b] + (IF b = c THEN m ELSE 0)

LEMMA SumAdds ==
  ASSUME NEW f \in [Banks -> Nat], NEW h \in [Banks -> Nat], NEW c \in Banks, NEW m \in Nat, Gains(f, h, c, m)
  PROVE  SumOver(f, Banks) \in Nat /\ SumOver(h, Banks) = SumOver(f, Banks) + m
<1> DEFINE n == Cardinality(Banks)
<1>1. n \in Nat /\ Banks = 0 .. n - 1 BY BankNumbers
<1>2. PICK p : Sums(f, p, n) /\ SumOver(f, Banks) = p[n] BY SumUnfolds
<1>3. PICK q : Sums(h, q, n) /\ SumOver(h, Banks) = q[n] BY SumUnfolds
<1> HIDE DEF n
<1> DEFINE T == {k \in Nat : k <= n => q[k] = p[k] + (IF c < k THEN m ELSE 0)}
<1>4. 0 \in T BY <1>1, <1>2, <1>3 DEF Sums
<1>5. ASSUME NEW k \in Nat, k \in T PROVE k + 1 \in T
  <2> SUFFICES ASSUME k + 1 <= n PROVE q[k + 1] = p[k + 1] + (IF c < k + 1 THEN m ELSE 0) OBVIOUS
  <2>1. k + 1 \in 1 .. n /\ (k + 1) - 1 = k /\ k \in Banks /\ k \in 0 .. n BY <1>1
  <2>2. q[k] = p[k] + (IF c < k THEN m ELSE 0) BY <1>1, <1>5
  <2>3. q[k + 1] = q[k] + h[k] /\ p[k + 1] = p[k] + f[k] BY <1>2, <1>3, <2>1 DEF Sums
  <2>4. h[k] = f[k] + (IF k = c THEN m ELSE 0) /\ f[k] \in Nat /\ p[k] \in Nat BY <1>2, <2>1 DEF Sums, Gains
  <2>5. c \in Int BY <1>1
  <2> QED BY <2>2, <2>3, <2>4, <2>5
<1> HIDE DEF T
<1>6. \A k \in Nat : k \in T BY <1>4, <1>5, InductionSet
<1>7. q[n] = p[n] + (IF c < n THEN m ELSE 0) BY <1>1, <1>6 DEF T
<1>8. c < n /\ p[n] \in Nat BY <1>1, <1>2 DEF Sums
<1> QED BY <1>2, <1>3, <1>7, <1>8

LEMMA SumOfNothing ==
  ASSUME NEW f \in [Banks -> Nat], \A b \in Banks : f[b] = 0
  PROVE  SumOver(f, Banks) = 0
<1> DEFINE n == Cardinality(Banks)
<1>1. n \in Nat /\ Banks = 0 .. n - 1 BY BankNumbers
<1>2. PICK p : Sums(f, p, n) /\ SumOver(f, Banks) = p[n] BY SumUnfolds
<1> HIDE DEF n
<1> DEFINE T == {k \in Nat : k <= n => p[k] = 0}
<1>3. 0 \in T BY <1>2 DEF Sums
<1>4. ASSUME NEW k \in Nat, k \in T PROVE k + 1 \in T
  <2> SUFFICES ASSUME k + 1 <= n PROVE p[k + 1] = 0 OBVIOUS
  <2>1. k + 1 \in 1 .. n /\ (k + 1) - 1 = k /\ k \in Banks BY <1>1
  <2>2. p[k + 1] = p[k] + f[k] BY <1>2, <2>1 DEF Sums
  <2> QED BY <1>1, <1>4, <2>1, <2>2
<1> HIDE DEF T
<1>5. \A k \in Nat : k \in T BY <1>3, <1>4, InductionSet
<1> QED BY <1>1, <1>2, <1>5 DEF T

(***************************************************************************)
(* Work, as the records give it.                                           *)
(***************************************************************************)
AskedOf(seq, depth, b, n) == Cardinality({i \in 0 .. n - 1 : seq[((i \div depth) % Len(seq)) + 1] = b})

(* Where the requests of a per-bank record go.                             *)
LEMMA BankOfRequest ==
  ASSUME NEW s \in Record0, s.kind \in PerBankKinds, NEW i \in Nat, NEW burst \in Nat \ {0}
  PROVE  /\ ((i \div burst) % Len(s.bank_sequence)) + 1 \in 1 .. Len(s.bank_sequence)
         /\ s.bank_sequence[((i \div burst) % Len(s.bank_sequence)) + 1] \in Banks
         /\ BankOf(AddrVecFromSemantic(s, i, burst)) = s.bank_sequence[((i \div burst) % Len(s.bank_sequence)) + 1]
<1> DEFINE phase == i \div burst
           span  == Len(s.bank_sequence)
           where == SemanticPlace(s, phase \div span)
           x     == AddrVecFromSemantic(s, i, burst)
           bank  == s.bank_sequence[(phase % span) + 1]
           place == [l \in DOMAIN LevelSize |->
                       CASE l = "Row" -> where.row [] l = "Column" -> where.column [] OTHER -> 0]
<1>1. x = DecomposeFlatBank(bank, place) BY DEF AddrVecFromSemantic
<1>2. DOMAIN place = DOMAIN LevelSize OBVIOUS
<1> HIDE DEF place, x
<1>3. (phase % span) + 1 \in 1 .. span
  <2>1. phase \in Int
    <3>1. i \in Int OBVIOUS
    <3> QED BY <3>1, DivMod
  <2>2. span \in Nat \ {0} BY PerBankLength
  <2> HIDE DEF phase, span
  <2>3. phase % span \in 0 .. span - 1 BY <2>1, <2>2, DivMod
  <2> QED BY <2>2, <2>3
<1>4. bank \in Banks
  <2>1. s.bank_sequence \in Seq(Banks) BY RecordFields
  <2> HIDE DEF phase
  <2> QED BY <1>3, <2>1
<1> HIDE DEF bank
<1>5. bank \in Int BY <1>4, BanksInt
<1>6. DOMAIN x = DOMAIN LevelSize /\ \A l \in BankLevels : x[l] = DecomposeFlatBank(bank, place)[l]
  BY <1>1, <1>2, <1>5, FlatBank
<1>7. BankOf(x) = bank BY <1>2, <1>4, <1>6, BankFromCoordinates
<1> QED BY <1>3, <1>4, <1>7 DEF x, bank

(* A record whose requests are the next ones of a rotation goes on with    *)
(* the count of each bank.                                                 *)
LEMMA RotationGoesOn ==
  ASSUME NEW seq, NEW depth, NEW d \in Nat, NEW record, record.repeat \in Nat, record.opcode = "PIM_MAC",
         \A k \in 1 .. record.repeat :
           BankOf(Expand(record, k - 1)) = seq[(((d + k - 1) \div depth) % Len(seq)) + 1],
         NEW b
  PROVE  AskedOf(seq, depth, b, d + record.repeat) = AskedOf(seq, depth, b, d) + WorkFor(record, b)
<1> DEFINE T == {i \in Nat : seq[((i \div depth) % Len(seq)) + 1] = b}
           n == record.repeat
<1>1. \A m \in Nat : AskedOf(seq, depth, b, m) = Cardinality({i \in 0 .. m - 1 : i \in T})
  <2> TAKE m \in Nat
  <2>1. {i \in 0 .. m - 1 : seq[((i \div depth) % Len(seq)) + 1] = b} = {i \in 0 .. m - 1 : i \in T}
    OBVIOUS
  <2> HIDE DEF T
  <2> QED BY <2>1 DEF AskedOf
<1>2. WorkFor(record, b) = Cardinality({k \in 1 .. n : d + k - 1 \in T})
  <2>1. WorkFor(record, b) = Cardinality({k \in 1 .. n : BankOf(Expand(record, k - 1)) = b}) BY DEF WorkFor
  <2>2. \A k \in 1 .. n : d + k - 1 \in T <=> BankOf(Expand(record, k - 1)) = b
    <3> TAKE k \in 1 .. n
    <3>1. d + k - 1 \in Nat OBVIOUS
    <3> QED BY <3>1
  <2> HIDE DEF T
  <2>3. {k \in 1 .. n : BankOf(Expand(record, k - 1)) = b} = {k \in 1 .. n : d + k - 1 \in T} BY <2>2
  <2> QED BY <2>1, <2>3
<1> HIDE DEF T, n
<1>3. n \in Nat BY DEF n
<1>4. Cardinality({i \in 0 .. d + n - 1 : i \in T}) =
        Cardinality({i \in 0 .. d - 1 : i \in T}) + Cardinality({k \in 1 .. n : d + k - 1 \in T})
  BY <1>3, CountOn
<1>5. d + n \in Nat BY <1>3
<1> QED BY <1>1, <1>2, <1>4, <1>5 DEF n

LEMMA NothingAsked ==
  ASSUME NEW seq, NEW depth, NEW b PROVE AskedOf(seq, depth, b, 0) = 0
<1>1. {i \in 0 .. 0 - 1 : seq[((i \div depth) % Len(seq)) + 1] = b} = {} OBVIOUS
<1> QED BY <1>1, FS_EmptySet DEF AskedOf

(* A record for one address gives its work to one bank.                    *)
LEMMA WorkOfOneBank ==
  ASSUME NEW av, NEW n \in Nat, NEW b
  PROVE  WorkFor(Record("PIM_MAC", av, n), b) = IF BankOf(av) = b THEN n ELSE 0
<1> DEFINE rec == Record("PIM_MAC", av, n)
           here == BankOf(av) = b
<1>1. rec.opcode = "PIM_MAC" /\ rec.addr_vec = av /\ rec.repeat = n /\ rec.bank_sequence = <<>> BY DEF Record
<1> HIDE DEF rec
<1>2. \A k : Expand(rec, k) = av BY <1>1 DEF Expand, HostOpcodes
<1>3. WorkFor(rec, b) = Cardinality({k \in 1 .. n : BankOf(Expand(rec, k - 1)) = b}) BY <1>1 DEF WorkFor
<1>4. {k \in 1 .. n : BankOf(Expand(rec, k - 1)) = b} = {k \in 1 .. n : here} BY <1>2
<1>5. here \in BOOLEAN OBVIOUS
<1> HIDE DEF here
<1>6. Cardinality({k \in 1 .. n : here}) = IF here THEN n ELSE 0 BY <1>5, CountAllOrNone
<1> QED BY <1>3, <1>4, <1>6 DEF rec, here

(* One for all banks gives it to those of its rank.                        *)
LEMMA WorkOfRank ==
  ASSUME NEW av, NEW n, NEW b
  PROVE  WorkFor(Record("PIM_MAC_AB", av, n), b) = IF RankForFlatBank(b) = av["Rank"] THEN n ELSE 0
BY DEF Record, WorkFor

(* The shares of the serial loop make up the whole.                        *)
Before(s, i) ==
  i * (Total(s) \div Len(s.bank_sequence)) + Smaller(i, Total(s) % Len(s.bank_sequence))

LEMMA SharesAddUp ==
  ASSUME NEW s \in Record0, s.kind \in PerBankKinds, Total(s) \in Nat \ {0}
  PROVE  /\ Before(s, 0) = 0
         /\ \A i \in Nat : Before(s, i) \in Nat /\ Before(s, i + 1) = Before(s, i) + BankShare(s, i)
         /\ \A i, j \in Nat : i < j => BankShare(s, j) <= BankShare(s, i)
         /\ \A i \in 0 .. Len(s.bank_sequence) - 1 :
              i + 1 = Len(s.bank_sequence) \/ BankShare(s, i + 1) = 0 => Before(s, i + 1) = Total(s)
<1> DEFINE t == Total(s)
           n == Len(s.bank_sequence)
           q == t \div n
           m == t % n
<1>1. t \in Nat \ {0} /\ n \in Nat \ {0} BY PerBankLength
<1>2. /\ \A i : Before(s, i) = i * q + Smaller(i, m)
      /\ \A i : BankShare(s, i) = q + (IF i < m THEN 1 ELSE 0)
  BY DEF Before, BankShare
<1> HIDE DEF t, n
<1>3. q \in Nat /\ m \in 0 .. n - 1 /\ t = n * q + m
  <2>1. t \in Int BY <1>1
  <2> QED BY <1>1, <2>1, DivMod
<1> HIDE DEF q, m
<1>4. Before(s, 0) = 0
  <2>1. 0 * q = 0 BY <1>3
  <2> QED BY <1>2, <1>3, <2>1 DEF Smaller
<1>5. ASSUME NEW i \in Nat PROVE Before(s, i) \in Nat /\ Before(s, i + 1) = Before(s, i) + BankShare(s, i)
  <2> DEFINE p == i * q
  <2>1. p \in Nat BY <1>3, TimesNat
  <2>2. (i + 1) * q = p + q BY <1>3
  <2> HIDE DEF p
  <2>3. Before(s, i) = p + Smaller(i, m) /\ Before(s, i + 1) = (p + q) + Smaller(i + 1, m) BY <1>2, <2>2 DEF p
  <2>4. m \in Nat BY <1>1, <1>3
  <2>5. Smaller(i, m) \in Nat /\ Smaller(i + 1, m) = Smaller(i, m) + (IF i < m THEN 1 ELSE 0)
    BY <2>4 DEF Smaller
  <2> QED BY <1>2, <1>3, <2>1, <2>3, <2>5
<1>6. \A i, j \in Nat : i < j => BankShare(s, j) <= BankShare(s, i) BY <1>1, <1>2, <1>3
<1>7. ASSUME NEW i \in 0 .. n - 1, i + 1 = n \/ BankShare(s, i + 1) = 0 PROVE Before(s, i + 1) = t
  <2>1. CASE i + 1 = n BY <1>1, <1>2, <1>3, <2>1 DEF Smaller
  <2>2. CASE BankShare(s, i + 1) = 0
    <3>1. q = 0 /\ ~(i + 1 < m)
      <4>1. q + (IF i + 1 < m THEN 1 ELSE 0) = 0 BY <1>2, <2>2
      <4> QED BY <1>3, <4>1
    <3>2. Smaller(i + 1, m) = m BY <1>1, <1>3, <3>1 DEF Smaller
    <3>3. (i + 1) * q = 0 /\ n * q = 0 BY <1>1, <3>1
    <3> QED BY <1>1, <1>2, <1>3, <3>2, <3>3
  <2> QED BY <1>7, <2>1, <2>2
<1> QED BY <1>4, <1>5, <1>6, <1>7 DEF t, n

(***************************************************************************)
(* Work done, as far as the loops are. Per-bank loops that interleave have *)
(* given the first requests of the rotation; the serial loop the shares of *)
(* the banks before the one it visits; all-bank loops the work of the      *)
(* ranks they have visited.                                                *)
(***************************************************************************)
PerBankWork(seq, depth, work, n) == \A b \in Banks : work[b] = AskedOf(seq, depth, b, n)
SharesLeft(s, i) == {j \in i .. Len(s.bank_sequence) - 1 : BankShare(s, j) > 0}
SharesWork(s, work, unvisited, n) ==
  \E i \in Nat : unvisited = SharesLeft(s, i) /\ SumOver(work, Banks) = Before(s, i) + n
RankWork(work, of, unvisited, n, share) ==
  \A b \in Banks : RankForFlatBank(b) \in of =>
    work[b] = IF RankForFlatBank(b) \notin unvisited THEN share
              ELSE IF \A j \in unvisited : RankForFlatBank(b) <= j THEN n ELSE 0
RoundWork(work, unvisited, n) ==
  \A b \in Banks : work[b] = IF RankForFlatBank(b) \in unvisited THEN n ELSE n + 1

WorkDone ==
  /\ pc = "single" => \A b \in Banks : out.work[b] = 0
  /\ pc \in {"compact", "serial"} /\ options.interleave_banks =>
       PerBankWork(semantic.bank_sequence, options.interleave_depth, out.work, done)
  /\ pc = "serial" /\ ~options.interleave_banks => SharesWork(semantic, out.work, left, done)
  /\ pc = "all_bank" =>
       RankWork(out.work, AllBankTargetRanks(semantic), left, done, AllBankShare(semantic))
  /\ pc = "compute_all" => RoundWork(out.work, left, done)

WorkBalance == WorkDone /\ WorkConserved

(* What is to be shown of a record that is lowered.                        *)
AllGiven(s, work) ==
  CASE Loop(s) = "single" ->
         IF options.interleave_banks THEN PerBankWork(s.bank_sequence, options.interleave_depth, work, Total(s))
         ELSE SumOver(work, Banks) = Total(s)
    [] Loop(s) = "all_bank" ->
         \A i \in DOMAIN s.bank_sequence :
           LET got == work[s.bank_sequence[i]]
           IN  got * Len(s.bank_sequence) >= Total(s) /\ (got - 1) * Len(s.bank_sequence) < Total(s)
    [] Loop(s) = "compute_all" -> \A b \in Banks : work[b] = Total(s)
    [] OTHER -> TRUE

LEMMA ConservedWhenGiven == (pc = "end" => AllGiven(semantic, out.work)) => WorkConserved
<1> SUFFICES ASSUME pc = "end", AllGiven(semantic, out.work) PROVE WorkConserved
  BY DEF WorkConserved
<1>1. \A b \in Banks :
        AskedOf(semantic.bank_sequence, options.interleave_depth, b, Total(semantic)) =
        Cardinality({i \in 0 .. Total(semantic) - 1 :
          semantic.bank_sequence[((i \div options.interleave_depth) % Len(semantic.bank_sequence)) + 1] = b})
  BY DEF AskedOf
<1>2. CASE Loop(semantic) = "single" BY <1>1, <1>2 DEF AllGiven, WorkConserved, PerBankWork
<1>3. CASE Loop(semantic) = "all_bank" BY <1>3 DEF AllGiven, WorkConserved
<1>4. CASE Loop(semantic) = "compute_all" BY <1>4 DEF AllGiven, WorkConserved
<1>5. CASE Loop(semantic) \notin {"single", "all_bank", "compute_all"} BY <1>5 DEF WorkConserved
<1> QED BY <1>2, <1>3, <1>4, <1>5

LEMMA SameAllGiven ==
  ASSUME UNCHANGED <<options, todo>>, AllGiven(semantic, out'.work) PROVE WorkConserved'
<1>1. semantic' = semantic /\ options' = options /\ Loop(semantic)' = Loop(semantic) BY SameRecord
<1>2. AllGiven(semantic, out.work)'
  BY <1>1 DEF AllGiven, Total
<1>3. (pc = "end" => AllGiven(semantic, out.work))' BY <1>2
<1> QED BY <1>3, ConservedWhenGiven, PTL

(* A step to another loop has nothing to give.                             *)
LEMMA BalanceElsewhere ==
  ASSUME pc' \in {"begin", "host", "load"} PROVE WorkBalance'
BY DEF WorkBalance, WorkDone, WorkConserved

LEMMA MacWork ==
  ASSUME NEW o, Sound(o), NEW opcode \in {"PIM_MAC", "PIM_MAC_AB"}, NEW av, InLayout(av), NEW n \in 1 .. MAX_REPEAT
  PROVE  \A b \in Banks : /\ o.work[b] \in Nat
                          /\ Append1(o, Record(opcode, av, n)).work[b] = o.work[b] + WorkFor(Record(opcode, av, n), b)
<1> DEFINE rec == Record(opcode, av, n)
<1>1. ValidateRecord(rec) BY RecordValid DEF Opcodes, HostOpcodes
<1> HIDE DEF rec
<1>2. Append1(o, rec).work = [b \in Banks |-> o.work[b] + WorkFor(rec, b)] BY <1>1, AppendSound
<1>3. \A b \in Banks : o.work[b] \in Nat BY DEF Sound
<1> QED BY <1>2, <1>3 DEF rec

LEMMA RanksOfBanks == (\A r \in Ranks : r \in Int) /\ \A b \in Banks : RankForFlatBank(b) \in Ranks
<1>1. \A r \in Ranks : r \in Int BY LevelsOfAddress DEF Ranks
<1>2. \A b \in Banks : RankForFlatBank(b) \in Ranks BY BanksInt, RankOfFlatBank
<1> QED BY <1>1, <1>2

LEMMA RankWorkGoesOn ==
  ASSUME NEW work, NEW new, NEW of, NEW unvisited \in SUBSET Ranks, NEW r \in unvisited,
         \A j \in unvisited : r <= j, NEW n \in Nat, NEW chunk \in Nat \ {0}, NEW share \in Nat, n + chunk <= share,
         RankWork(work, of, unvisited, n, share),
         \A b \in Banks : new[b] = work[b] + (IF RankForFlatBank(b) = r THEN chunk ELSE 0)
  PROVE  RankWork(new, of, IF n + chunk = share THEN unvisited \ {r} ELSE unvisited,
                  IF n + chunk = share THEN 0 ELSE n + chunk, share)
<1>1. \A b \in Banks : RankForFlatBank(b) \in of =>
        /\ work[b] = (IF RankForFlatBank(b) \notin unvisited THEN share
                      ELSE IF \A j \in unvisited : RankForFlatBank(b) <= j THEN n ELSE 0)
        /\ new[b] = work[b] + (IF RankForFlatBank(b) = r THEN chunk ELSE 0)
        /\ RankForFlatBank(b) \in Int
  BY RanksOfBanks DEF RankWork
<1>2. r \in Int /\ \A j \in unvisited : j \in Int BY RanksOfBanks
<1>3. \A b \in Banks : RankForFlatBank(b) \in of =>
        new[b] = IF RankForFlatBank(b) = r THEN n + chunk ELSE IF RankForFlatBank(b) \in unvisited THEN 0 ELSE share
  <2> SUFFICES ASSUME NEW b \in Banks, RankForFlatBank(b) \in of
               PROVE  new[b] = IF RankForFlatBank(b) = r THEN n + chunk
                               ELSE IF RankForFlatBank(b) \in unvisited THEN 0 ELSE share
    OBVIOUS
  <2>1. CASE RankForFlatBank(b) = r
    <3>1. work[b] = n BY <1>1, <2>1
    <3> QED BY <1>1, <2>1, <3>1
  <2>2. CASE RankForFlatBank(b) # r /\ RankForFlatBank(b) \in unvisited
    <3>1. ~(RankForFlatBank(b) <= r) BY <1>1, <1>2, <2>2
    <3>2. work[b] = 0 BY <1>1, <2>2, <3>1
    <3> QED BY <1>1, <2>2, <3>2
  <2>3. CASE RankForFlatBank(b) \notin unvisited
    <3>1. work[b] = share BY <1>1, <2>3
    <3> QED BY <1>1, <2>3, <3>1
  <2> QED BY <2>1, <2>2, <2>3
<1>4. CASE n + chunk = share
  <2>1. RankWork(new, of, unvisited \ {r}, 0, share) BY <1>3, <1>4 DEF RankWork
  <2> QED BY <1>4, <2>1
<1>5. CASE n + chunk # share
  <2>1. \A b \in Banks : RankForFlatBank(b) \in of /\ RankForFlatBank(b) \in unvisited =>
          ((\A j \in unvisited : RankForFlatBank(b) <= j) <=> RankForFlatBank(b) = r)
    BY <1>1, <1>2
  <2>2. RankWork(new, of, unvisited, n + chunk, share) BY <1>3, <2>1 DEF RankWork
  <2> QED BY <1>5, <2>2
<1> QED BY <1>4, <1>5

LEMMA AllBankBalance ==
  ASSUME RecordInv, WorkBalance, LowerAllBank(semantic) PROVE WorkBalance'
<1> DEFINE s == semantic
           share == AllBankShare(s)
           chunk == Smaller(MAX_REPEAT, share - done)
           of == AllBankTargetRanks(s)
<1>1. pc = "all_bank" /\ WorkInv /\ ProgressInv /\ Sound(out) BY DEF LowerAllBank, RecordInv
<1>2. PICK r \in Ranks :
        LET av     == RankAddrVec(BaseAddrVec(s), r)
            loaded == IF done = 0 THEN EnsureAllBankLoad(out, av) ELSE out
            issued == Append1(ToPIMAllBank(loaded, av), Record("PIM_MAC_AB", av, chunk))
        IN  /\ Visited(r) /\ Visit(r, chunk, share)
            /\ out' = IF done + chunk = share THEN LeaveAllBank(issued, av) ELSE issued
  BY DEF LowerAllBank
<1> DEFINE av     == RankAddrVec(BaseAddrVec(s), r)
           loaded == IF done = 0 THEN EnsureAllBankLoad(out, av) ELSE out
           ready  == ToPIMAllBank(loaded, av)
           rec    == Record("PIM_MAC_AB", av, chunk)
           issued == Append1(ready, rec)
<1>3. /\ Visited(r) /\ Visit(r, chunk, share)
      /\ out' = IF done + chunk = share THEN LeaveAllBank(issued, av) ELSE issued
  BY <1>2
<1>4. s \in Record0 /\ Loop(s) = "all_bank" /\ r \in left /\ Total(s) \in Nat \ {0}
  BY <1>1, <1>3, InWork DEF WorkInv, RankLoops, Visited
<1>5. share \in Nat \ {0} /\ done \in Nat /\ done < share /\ left \in SUBSET Ranks
  <2>1. share = Share(r) BY <1>1 DEF Share
  <2>2. Share(r) \in Nat \ {0} /\ done < Share(r) /\ done \in Nat /\ left \in SUBSET Ranks
    BY <1>1, <1>3, <1>4 DEF ProgressInv, Loops, RankLoops
  <2> QED BY <2>1, <2>2
<1> HIDE DEF share
<1>6. chunk \in 1 .. MAX_REPEAT /\ done + chunk <= share /\ chunk \in Nat \ {0}
  <2>1. chunk \in 1 .. MAX_REPEAT /\ done + chunk <= share BY <1>5, ChunkBounds
  <2> QED BY <2>1, RepeatAssumption
<1> HIDE DEF chunk
<1>7. InLayout(av) /\ av["Rank"] = r
  <2>1. InLayout(av) BY <1>4, RankLoopAddress
  <2>2. "Rank" \in DOMAIN BaseAddrVec(s)
    <3>1. InLayout(BaseAddrVec(s)) BY <1>4, RankLoopAddress
    <3> QED BY <3>1, LevelsOfAddress DEF InLayout
  <2>3. av["Rank"] = r BY <2>2 DEF RankAddrVec
  <2> QED BY <2>1, <2>3
<1>8. rec = Record("PIM_MAC_AB", av, chunk) OBVIOUS
<1> HIDE DEF av, rec
<1>9. Sound(loaded) /\ loaded.work = out.work BY <1>1, <1>7, EnsureLoadSound
<1> HIDE DEF loaded
<1>10. Sound(ready) /\ ready.work = out.work BY <1>7, <1>9, PIMAllBankSound
<1> HIDE DEF ready
<1>11. Sound(issued) BY <1>6, <1>7, <1>8, <1>10, MacSound
<1>12. \A b \in Banks : issued.work[b] = out.work[b] + (IF RankForFlatBank(b) = r THEN chunk ELSE 0)
  <2> TAKE b \in Banks
  <2>1. issued.work[b] = ready.work[b] + WorkFor(rec, b) BY <1>6, <1>7, <1>8, <1>10, MacWork
  <2>2. WorkFor(rec, b) = IF RankForFlatBank(b) = r THEN chunk ELSE 0 BY <1>7, <1>8, WorkOfRank
  <2> QED BY <1>10, <2>1, <2>2
<1> HIDE DEF issued
<1>13. out'.work = issued.work BY <1>3, <1>7, <1>11, LeaveAllBankSound
<1>14. RankWork(out.work, of, left, done, share) BY <1>1 DEF WorkBalance, WorkDone, share
<1>15. /\ left' = IF done + chunk = share THEN left \ {r} ELSE left
       /\ done' = IF done + chunk = share THEN 0 ELSE done + chunk
       /\ pc' = (IF left' = {} THEN "end" ELSE "all_bank") /\ UNCHANGED <<options, todo>>
  BY <1>1, <1>3 DEF Visit
<1>16. RankWork(out'.work, of, left', done', share)
  <2>1. \A j \in left : r <= j BY <1>3 DEF Visited
  <2>2. \A b \in Banks : out'.work[b] = out.work[b] + (IF RankForFlatBank(b) = r THEN chunk ELSE 0) BY <1>12, <1>13
  <2> DEFINE old == out.work
             new == out'.work
             n == done
             unvisited == left
  <2>3. RankWork(new, of, IF n + chunk = share THEN unvisited \ {r} ELSE unvisited,
                 IF n + chunk = share THEN 0 ELSE n + chunk, share)
    <3>1. /\ n \in Nat /\ unvisited \in SUBSET Ranks /\ r \in unvisited /\ n + chunk <= share
          /\ share \in Nat /\ \A j \in unvisited : r <= j
          /\ RankWork(old, of, unvisited, n, share)
          /\ \A b \in Banks : new[b] = old[b] + (IF RankForFlatBank(b) = r THEN chunk ELSE 0)
      BY <1>4, <1>5, <1>6, <1>14, <2>1, <2>2
    <3> HIDE DEF old, new, n, unvisited, of
    <3> QED BY <1>6, <3>1, RankWorkGoesOn
  <2> QED BY <1>15, <2>3
<1>17. semantic' = s /\ Loop(semantic)' = Loop(s) BY <1>15, SameRecord
<1>18. WorkConserved'
  <2>1. CASE pc' = "end"
    <3>1. left' = {} BY <1>15, <2>1
    <3>2. \A i \in DOMAIN s.bank_sequence : s.bank_sequence[i] \in Banks /\ RankForFlatBank(s.bank_sequence[i]) \in of
      BY <1>4, RecordFields DEF AllBankTargetRanks
    <3>3. \A i \in DOMAIN s.bank_sequence : out'.work[s.bank_sequence[i]] = share BY <1>16, <3>1, <3>2 DEF RankWork
    <3>4. share * Len(s.bank_sequence) >= Total(s) /\ (share - 1) * Len(s.bank_sequence) < Total(s)
      <4> DEFINE t == Total(s)
                 m == Len(s.bank_sequence)
      <4>1. t \in Nat \ {0} /\ m \in Nat \ {0} BY <1>4, LoopKinds, PerBankLength
      <4>2. share = Ceiling(t, m) BY DEF share, AllBankShare
      <4> HIDE DEF t, m
      <4>3. m * share >= t /\ m * (share - 1) < t BY <4>1, <4>2, CeilingBounds
      <4>4. m * share = share * m /\ m * (share - 1) = (share - 1) * m BY <1>5, <4>1
      <4> QED BY <4>3, <4>4 DEF t, m
    <3>5. AllGiven(s, out'.work) BY <1>4, <3>3, <3>4 DEF AllGiven
    <3> QED BY <1>15, <3>5, SameAllGiven
  <2>2. CASE pc' # "end" BY <2>2 DEF WorkConserved
  <2> QED BY <2>1, <2>2
<1>19. WorkDone'
  <2>1. pc' \in {"all_bank", "end"} BY <1>15
  <2>2. RankWork(out'.work, AllBankTargetRanks(semantic)', left', done', AllBankShare(semantic)')
    <3>1. AllBankTargetRanks(semantic)' = of /\ AllBankShare(semantic)' = share
      BY <1>17 DEF AllBankTargetRanks, AllBankShare, Total, share
    <3> QED BY <1>16, <3>1
  <2> QED BY <2>1, <2>2 DEF WorkDone
<1> QED BY <1>18, <1>19 DEF WorkBalance

LEMMA RoundGoesOn ==
  ASSUME NEW work, NEW new, NEW unvisited \in SUBSET Ranks, NEW r \in unvisited, NEW n \in Nat,
         RoundWork(work, unvisited, n),
         \A b \in Banks : new[b] = work[b] + (IF RankForFlatBank(b) = r THEN 1 ELSE 0)
  PROVE  RoundWork(new, unvisited \ {r}, n)
<1>1. \A b \in Banks : /\ work[b] = (IF RankForFlatBank(b) \in unvisited THEN n ELSE n + 1)
                       /\ RankForFlatBank(b) \in Ranks
  BY RanksOfBanks DEF RoundWork
<1>2. \A b \in Banks : new[b] = IF RankForFlatBank(b) \in unvisited \ {r} THEN n ELSE n + 1
  <2> TAKE b \in Banks
  <2>1. CASE RankForFlatBank(b) = r BY <1>1, <2>1
  <2>2. CASE RankForFlatBank(b) # r BY <1>1, <2>2
  <2> QED BY <2>1, <2>2
<1> QED BY <1>2 DEF RoundWork

LEMMA ComputeAllBalance ==
  ASSUME RecordInv, WorkBalance, LowerComputeAll(semantic) PROVE WorkBalance'
<1> DEFINE s == semantic
           total == Total(s)
<1>1. pc = "compute_all" /\ WorkInv /\ ProgressInv /\ Sound(out) BY DEF LowerComputeAll, RecordInv
<1>2. PICK r \in Ranks :
        LET av     == RankAddrVec(AddrVecFromSemantic(s, done % s.num_requests, s.burst_length), r)
            loaded == EnsureAllBankLoad(out, av)
        IN  /\ Visited(r)
            /\ out' = LeaveAllBank(Append1(ToPIMAllBank(loaded, av), Record("PIM_MAC_AB", av, 1)), av)
            /\ done' = IF left = {r} THEN done + 1 ELSE done
            /\ left' = IF ~(left = {r}) THEN left \ {r} ELSE IF done + 1 = total THEN {} ELSE Ranks
            /\ pc'   = IF left' = {} THEN "end" ELSE pc
  BY DEF LowerComputeAll
<1> DEFINE i      == done % s.num_requests
           av     == RankAddrVec(AddrVecFromSemantic(s, i, s.burst_length), r)
           loaded == EnsureAllBankLoad(out, av)
           ready  == ToPIMAllBank(loaded, av)
           rec    == Record("PIM_MAC_AB", av, 1)
           issued == Append1(ready, rec)
<1>3. /\ out' = LeaveAllBank(issued, av) /\ r \in left
      /\ done' = IF left = {r} THEN done + 1 ELSE done
      /\ left' = IF ~(left = {r}) THEN left \ {r} ELSE IF done + 1 = total THEN {} ELSE Ranks
      /\ pc'   = (IF left' = {} THEN "end" ELSE "compute_all")
  BY <1>1, <1>2 DEF Visited
<1>4. UNCHANGED <<options, todo>> BY DEF LowerComputeAll
<1>5. s \in Record0 /\ Loop(s) = "compute_all" BY <1>1, InWork DEF WorkInv, RankLoops
<1>6. i \in Nat
  <2>1. done \in Int /\ s.num_requests \in Nat \ {0} BY <1>1, InWork DEF ProgressInv
  <2> DEFINE n == s.num_requests
  <2> HIDE DEF n
  <2>2. done % n \in 0 .. n - 1 /\ n \in Nat BY <2>1, DivMod DEF n
  <2>3. done % n \in Nat BY <2>2
  <2> QED BY <2>3 DEF n
<1> HIDE DEF i
<1>7. InLayout(av) /\ av["Rank"] = r
  <2> DEFINE here == AddrVecFromSemantic(s, i, s.burst_length)
  <2>1. s.burst_length \in Nat \ {0} BY <1>5, RecordFields
  <2>2. InLayout(here) BY <1>5, <1>6, <2>1, AddressInLayout
  <2> HIDE DEF here
  <2>3. InLayout(RankAddrVec(here, r)) BY <2>2, RankAddressInLayout
  <2>4. RankAddrVec(here, r)["Rank"] = r BY <2>2, LevelsOfAddress DEF RankAddrVec, InLayout
  <2> QED BY <2>3, <2>4 DEF here
<1>8. rec = Record("PIM_MAC_AB", av, 1) OBVIOUS
<1> HIDE DEF av, rec
<1>9. Sound(loaded) /\ loaded.work = out.work BY <1>1, <1>7, EnsureLoadSound
<1> HIDE DEF loaded
<1>10. Sound(ready) /\ ready.work = out.work BY <1>7, <1>9, PIMAllBankSound
<1> HIDE DEF ready
<1>11. 1 \in 1 .. MAX_REPEAT BY RepeatAssumption
<1>12. Sound(issued) BY <1>7, <1>8, <1>10, <1>11, MacSound
<1>13. \A b \in Banks : issued.work[b] = out.work[b] + (IF RankForFlatBank(b) = r THEN 1 ELSE 0)
  <2> TAKE b \in Banks
  <2>1. issued.work[b] = ready.work[b] + WorkFor(rec, b) BY <1>7, <1>8, <1>10, <1>11, MacWork
  <2>2. WorkFor(rec, b) = IF RankForFlatBank(b) = r THEN 1 ELSE 0 BY <1>7, <1>8, WorkOfRank
  <2> QED BY <1>10, <2>1, <2>2
<1> HIDE DEF issued
<1>14. out'.work = issued.work BY <1>3, <1>7, <1>12, LeaveAllBankSound
<1>15. done \in Nat /\ left \in SUBSET Ranks /\ RoundWork(out.work, left, done)
  BY <1>1 DEF ProgressInv, RankLoops, WorkBalance, WorkDone
<1>16. /\ left # {r} => RoundWork(out'.work, left \ {r}, done)
       /\ left = {r} => RoundWork(out'.work, Ranks, done + 1) /\ \A b \in Banks : out'.work[b] = done + 1
  <2> DEFINE old == out.work
             new == out'.work
             n == done
             unvisited == left
  <2>1. /\ n \in Nat /\ unvisited \in SUBSET Ranks /\ r \in unvisited /\ RoundWork(old, unvisited, n)
        /\ \A b \in Banks : new[b] = old[b] + (IF RankForFlatBank(b) = r THEN 1 ELSE 0)
    BY <1>3, <1>13, <1>14, <1>15
  <2> HIDE DEF old, new, n, unvisited
  <2>2. RoundWork(new, unvisited \ {r}, n) BY <2>1, RoundGoesOn
  <2>3. RoundWork(out'.work, left \ {r}, done) BY <2>2 DEF new, n, unvisited
  <2>4. left = {r} => \A b \in Banks : out'.work[b] = done + 1 BY <2>3 DEF RoundWork
  <2>5. left = {r} => RoundWork(out'.work, Ranks, done + 1) BY <2>4, RanksOfBanks DEF RoundWork
  <2> QED BY <2>3, <2>4, <2>5
<1>17. CASE pc' = "end"
  <2>1. left = {r} /\ done + 1 = total
    <3>1. left' = {} BY <1>3, <1>17
    <3> QED BY <1>2, <1>3, <3>1
  <2>2. AllGiven(s, out'.work) BY <1>5, <1>16, <2>1 DEF AllGiven
  <2>3. WorkConserved' BY <1>4, <2>2, SameAllGiven
  <2> QED BY <1>17, <2>3 DEF WorkBalance, WorkDone
<1>18. CASE pc' = "compute_all"
  <2>1. RoundWork(out'.work, left', done')
    <3>1. CASE left # {r} BY <1>3, <1>16, <3>1
    <3>2. CASE left = {r}
      <4>1. left' = Ranks /\ done' = done + 1 BY <1>3, <1>18, <3>2
      <4> QED BY <1>16, <3>2, <4>1
    <3> QED BY <3>1, <3>2
  <2> QED BY <1>18, <2>1 DEF WorkBalance, WorkDone, WorkConserved
<1> QED BY <1>3, <1>17, <1>18

LEMMA PerBankBalance ==
  ASSUME RecordInv, WorkBalance, LowerPerBank(semantic) PROVE WorkBalance'
<1> DEFINE s == semantic
           compact == options.interleave_banks /\ Len(s.bank_sequence) > 1
<1>1. /\ pc = "single" /\ WorkInv /\ ProgressInv /\ Sound(out) /\ UNCHANGED <<options, todo, done>>
  BY DEF LowerPerBank, RecordInv
<1>2. PICK r \in Ranks :
        LET single == ToSingleBank(out, RankAddrVec(BaseAddrVec(s), r))
        IN  /\ out' = IF left = {r} /\ single.last = NoRecord
                      THEN Append1(single, Record("SB", BaseAddrVec(s), 1)) ELSE single
            /\ pc'   = CASE ~(left = {r}) -> pc [] left = {r} /\ compact -> "compact" [] left = {r} /\ ~compact -> "serial"
            /\ left' = CASE ~(left = {r}) -> left \ {r}
                         [] left = {r} /\ compact -> {0}
                         [] left = {r} /\ ~compact -> {j \in 0 .. Len(s.bank_sequence) - 1 : BankShare(s, j) > 0}
  BY DEF LowerPerBank
<1> DEFINE av == RankAddrVec(BaseAddrVec(s), r)
           single == ToSingleBank(out, av)
<1>3. s \in Record0 /\ Loop(s) = "single" /\ Total(s) \in Nat \ {0} BY <1>1, InWork DEF WorkInv, RankLoops
<1>4. InLayout(BaseAddrVec(s)) /\ InLayout(av) BY <1>3, RankLoopAddress
<1>5. out' \in {single, Append1(single, Record("SB", BaseAddrVec(s), 1))} BY <1>2
<1> HIDE DEF av
<1>6. Sound(single) /\ single.work = out.work BY <1>1, <1>4, SingleBankSound
<1> HIDE DEF single
<1>7. out'.work = out.work
  <2>1. "SB" \in Idle /\ 1 \in 1 .. MAX_REPEAT BY RepeatAssumption DEF Idle, Opcodes, ModeOpcodes, HostOpcodes
  <2> QED BY <1>4, <1>5, <1>6, <2>1, AppendIdle
<1>8. (\A b \in Banks : out'.work[b] = 0) /\ out'.work \in [Banks -> Nat]
  BY <1>1, <1>7 DEF WorkBalance, WorkDone, Sound
<1>9. done' = 0 /\ semantic' = s /\ options' = options
  BY <1>1, SameRecord DEF ProgressInv
<1>10. CASE left # {r}
  <2>1. pc' = "single" BY <1>1, <1>2, <1>10
  <2> QED BY <1>8, <2>1 DEF WorkBalance, WorkDone, WorkConserved
<1>11. CASE left = {r}
  <2>1. pc' \in {"compact", "serial"} BY <1>2, <1>11
  <2>2. PerBankWork(s.bank_sequence, options.interleave_depth, out'.work, 0)
    BY <1>8, NothingAsked DEF PerBankWork
  <2>3. pc' = "serial" => SharesWork(s, out'.work, left', 0)
    <3> SUFFICES ASSUME pc' = "serial" PROVE SharesWork(s, out'.work, left', 0) OBVIOUS
    <3>1. left' = SharesLeft(s, 0)
      <4>1. ~compact BY <1>2, <1>11
      <4> QED BY <1>2, <1>11, <4>1 DEF SharesLeft
    <3>2. SumOver(out'.work, Banks) = 0
      <4> DEFINE f == out'.work
      <4>1. f \in [Banks -> Nat] /\ \A b \in Banks : f[b] = 0 BY <1>8
      <4> HIDE DEF f
      <4>2. SumOver(f, Banks) = 0 BY <4>1, SumOfNothing
      <4> QED BY <4>2 DEF f
    <3>3. Before(s, 0) = 0 BY <1>3, LoopKinds, SharesAddUp
    <3> QED BY <3>1, <3>2, <3>3 DEF SharesWork
  <2> QED BY <1>9, <2>1, <2>2, <2>3 DEF WorkBalance, WorkDone, WorkConserved
<1> QED BY <1>10, <1>11

IsLeast(k, S) == \A j \in S : k <= j

LEMMA SharesGoOn ==
  ASSUME NEW s \in Record0, s.kind \in PerBankKinds, Total(s) \in Nat \ {0},
         NEW work \in [Banks -> Nat], NEW new \in [Banks -> Nat], NEW unvisited, NEW k \in unvisited,
         IsLeast(k, unvisited), NEW n \in Nat, NEW chunk \in Nat \ {0}, n + chunk <= BankShare(s, k),
         SharesWork(s, work, unvisited, n), NEW c \in Banks, Gains(work, new, c, chunk)
  PROVE  /\ n + chunk # BankShare(s, k) => SharesWork(s, new, unvisited, n + chunk)
         /\ n + chunk = BankShare(s, k) => SharesWork(s, new, unvisited \ {k}, 0)
         /\ n + chunk = BankShare(s, k) /\ unvisited \ {k} = {} => SumOver(new, Banks) = Total(s)
<1>1. PICK i \in Nat : unvisited = SharesLeft(s, i) /\ SumOver(work, Banks) = Before(s, i) + n
  BY DEF SharesWork
<1> DEFINE m == Len(s.bank_sequence)
<1>2. m \in Nat \ {0} BY PerBankLength
<1>3. \A j \in Nat : BankShare(s, j) \in Nat BY BankShareNat
<1>4. /\ \A j \in Nat : Before(s, j) \in Nat /\ Before(s, j + 1) = Before(s, j) + BankShare(s, j)
      /\ \A j, l \in Nat : j < l => BankShare(s, l) <= BankShare(s, j)
      /\ \A j \in 0 .. m - 1 : j + 1 = m \/ BankShare(s, j + 1) = 0 => Before(s, j + 1) = Total(s)
  BY SharesAddUp
<1>5. \A j : SharesLeft(s, j) = {l \in j .. m - 1 : BankShare(s, l) > 0} BY DEF SharesLeft
<1> HIDE DEF m
<1>6. k = i /\ k \in Nat /\ k \in i .. m - 1 /\ BankShare(s, k) > 0
  <2>1. k \in i .. m - 1 /\ BankShare(s, k) > 0 /\ k \in Nat BY <1>1, <1>5, <1>2
  <2>2. i < k => i \in i .. m - 1 /\ BankShare(s, i) > 0
    <3> SUFFICES ASSUME i < k PROVE i \in i .. m - 1 /\ BankShare(s, i) > 0 OBVIOUS
    <3>1. BankShare(s, k) <= BankShare(s, i) BY <1>4, <2>1
    <3>2. BankShare(s, k) \in Nat /\ BankShare(s, i) \in Nat BY <1>3, <2>1
    <3> QED BY <1>2, <2>1, <3>1, <3>2
  <2>3. i < k => i \in unvisited BY <1>1, <1>5, <2>2
  <2> QED BY <1>1, <2>1, <2>3 DEF IsLeast
<1>7. SumOver(new, Banks) = (Before(s, i) + n) + chunk
  <2>1. chunk \in Nat OBVIOUS
  <2>2. SumOver(new, Banks) = SumOver(work, Banks) + chunk BY <2>1, SumAdds
  <2> QED BY <1>1, <2>2
<1>8. Before(s, i) \in Nat /\ BankShare(s, i) \in Nat BY <1>3, <1>4
<1>9. ASSUME n + chunk # BankShare(s, k) PROVE SharesWork(s, new, unvisited, n + chunk)
  <2>1. SumOver(new, Banks) = Before(s, i) + (n + chunk) BY <1>7, <1>8
  <2> QED BY <1>1, <2>1 DEF SharesWork
<1>10. ASSUME n + chunk = BankShare(s, k)
       PROVE  /\ SharesWork(s, new, unvisited \ {k}, 0)
              /\ unvisited \ {k} = {} => SumOver(new, Banks) = Total(s)
  <2>1. SumOver(new, Banks) = Before(s, i + 1)
    <3>1. Before(s, i + 1) = Before(s, i) + BankShare(s, i) BY <1>4
    <3> QED BY <1>6, <1>7, <1>8, <1>10, <3>1
  <2>2. unvisited \ {k} = SharesLeft(s, i + 1)
    <3>1. unvisited = {l \in i .. m - 1 : BankShare(s, l) > 0} BY <1>1, <1>5
    <3>2. SharesLeft(s, i + 1) = {l \in i + 1 .. m - 1 : BankShare(s, l) > 0} BY <1>5
    <3> QED BY <1>2, <1>6, <3>1, <3>2
  <2>3. i + 1 \in Nat /\ Before(s, i + 1) \in Nat
    <3>1. i + 1 \in Nat OBVIOUS
    <3>2. \A j \in Nat : Before(s, j) \in Nat BY <1>4
    <3> QED BY <3>1, <3>2
  <2>4. SharesWork(s, new, unvisited \ {k}, 0) BY <2>1, <2>2, <2>3 DEF SharesWork
  <2>5. ASSUME unvisited \ {k} = {} PROVE SumOver(new, Banks) = Total(s)
    <3>1. i \in 0 .. m - 1 BY <1>2, <1>6
    <3>2. i + 1 = m \/ i + 1 \in i + 1 .. m - 1 BY <1>2, <3>1
    <3>3. i + 1 = m \/ ~(BankShare(s, i + 1) > 0) BY <1>5, <2>2, <2>5, <3>2
    <3>4. i + 1 = m \/ BankShare(s, i + 1) = 0 BY <1>3, <2>3, <3>3
    <3> QED BY <1>4, <2>1, <3>1, <3>4
  <2> QED BY <2>4, <2>5
<1> QED BY <1>9, <1>10

(* With one bank the serial loop and the rotation are the same.            *)
LEMMA OneBankShare ==
  ASSUME NEW s \in Record0, s.kind \in PerBankKinds, Total(s) \in Nat \ {0}, Len(s.bank_sequence) = 1
  PROVE  BankShare(s, 0) = Total(s)
<1>1. /\ Before(s, 0) = 0 /\ \A i \in Nat : Before(s, i + 1) = Before(s, i) + BankShare(s, i)
      /\ \A i \in 0 .. Len(s.bank_sequence) - 1 : i + 1 = Len(s.bank_sequence) => Before(s, i + 1) = Total(s)
  BY SharesAddUp
<1>2. BankShare(s, 0) \in Nat BY BankShareNat
<1>3. 0 \in 0 .. Len(s.bank_sequence) - 1 /\ 0 + 1 = Len(s.bank_sequence) OBVIOUS
<1>4. Before(s, 0 + 1) = Before(s, 0) + BankShare(s, 0) /\ Before(s, 0 + 1) = Total(s) BY <1>1, <1>3
<1> QED BY <1>1, <1>2, <1>4

LEMMA SerialBalance ==
  ASSUME RecordInv, WorkBalance, LowerSerial(semantic) PROVE WorkBalance'
<1> DEFINE s == semantic
           depth == options.interleave_depth
<1>1. pc = "serial" /\ WorkInv /\ ProgressInv /\ Sound(out) BY DEF LowerSerial, RecordInv
<1>2. PICK i \in left :
        LET av    == AddrVecFromSemantic(s, i, s.burst_length)
            chunk == Smaller(MAX_REPEAT, BankShare(s, i) - done)
        IN  /\ Visited(i) /\ Visit(i, chunk, BankShare(s, i))
            /\ out' = Append1(ToSingleBank(out, av), Record("PIM_MAC", av, chunk))
  BY DEF LowerSerial
<1> DEFINE av     == AddrVecFromSemantic(s, i, s.burst_length)
           share  == BankShare(s, i)
           chunk  == Smaller(MAX_REPEAT, share - done)
           single == ToSingleBank(out, av)
           rec    == Record("PIM_MAC", av, chunk)
           bank   == BankOf(av)
<1>3. /\ \A j \in left : i <= j
      /\ left' = IF done + chunk = share THEN left \ {i} ELSE left
      /\ done' = IF done + chunk = share THEN 0 ELSE done + chunk
      /\ pc' = (IF left' = {} THEN "end" ELSE "serial") /\ UNCHANGED <<options, todo>>
      /\ out' = Append1(single, rec)
  BY <1>1, <1>2 DEF Visit, Visited
<1>4. /\ s \in Record0 /\ Loop(s) = "single" /\ s.kind \in PerBankKinds /\ Total(s) \in Nat \ {0}
      /\ depth \in Nat \ {0} /\ semantic' = s /\ options' = options
  <2>1. s \in Record0 /\ Loop(s) = "single" /\ Total(s) \in Nat \ {0} /\ options \in Options
    BY <1>1, InWork DEF WorkInv
  <2> QED BY <1>3, <2>1, LoopKinds, OptionsAssumption, SameRecord
<1>5. share \in Nat \ {0} /\ done \in Nat /\ done < share /\ i \in 0 .. Len(s.bank_sequence) - 1 /\ i \in Nat
  <2>1. share = Share(i) BY <1>1 DEF Share
  <2>2. Share(i) \in Nat \ {0} /\ done < Share(i) /\ done \in Nat
    BY <1>1, <1>2 DEF ProgressInv, Loops, RankLoops
  <2>3. i \in 0 .. Len(s.bank_sequence) - 1 BY <1>1, <1>2 DEF ProgressInv
  <2>4. Len(s.bank_sequence) \in Nat \ {0} BY <1>4, PerBankLength
  <2> QED BY <2>1, <2>2, <2>3, <2>4
<1>6. chunk \in 1 .. MAX_REPEAT /\ done + chunk <= share /\ chunk \in Nat \ {0}
  <2> HIDE DEF share
  <2>1. chunk \in 1 .. MAX_REPEAT /\ done + chunk <= share BY <1>5, ChunkBounds
  <2> QED BY <2>1, RepeatAssumption
<1> HIDE DEF chunk
<1>7. s.burst_length \in Nat \ {0} BY <1>4, RecordFields
<1>8. /\ InLayout(av) /\ bank \in Banks
      /\ bank = s.bank_sequence[((i \div s.burst_length) % Len(s.bank_sequence)) + 1]
      /\ ((i \div s.burst_length) % Len(s.bank_sequence)) + 1 \in 1 .. Len(s.bank_sequence)
  BY <1>4, <1>5, <1>7, AddressInLayout, BankOfRequest
<1>9. rec = Record("PIM_MAC", av, chunk) /\ bank = BankOf(av) OBVIOUS
<1> HIDE DEF av, bank, rec
<1>10. Sound(single) /\ single.work = out.work BY <1>1, <1>8, SingleBankSound
<1> HIDE DEF single
<1>11. out'.work \in [Banks -> Nat] /\ out.work \in [Banks -> Nat]
  <2>1. Sound(out') BY <1>3, <1>6, <1>8, <1>9, <1>10, MacSound
  <2> QED BY <1>1, <2>1 DEF Sound
<1>12. \A b \in Banks : out'.work[b] = out.work[b] + WorkFor(rec, b)
                        /\ WorkFor(rec, b) = IF b = bank THEN chunk ELSE 0
  <2> TAKE b \in Banks
  <2>1. out'.work[b] = single.work[b] + WorkFor(rec, b) BY <1>3, <1>6, <1>8, <1>9, <1>10, MacWork
  <2>2. WorkFor(rec, b) = IF bank = b THEN chunk ELSE 0 BY <1>6, <1>9, WorkOfOneBank
  <2> QED BY <1>10, <2>1, <2>2
<1>13. CASE options.interleave_banks
  <2> DEFINE seq == s.bank_sequence
             d == done
  <2>1. Len(seq) = 1
    <3>1. Len(seq) \in Nat \ {0} /\ ~(Len(seq) > 1) BY <1>1, <1>4, <1>13, PerBankLength DEF WorkInv
    <3> HIDE DEF seq
    <3> QED BY <3>1
  <2>2. i = 0 /\ share = Total(s) BY <1>4, <1>5, <2>1, OneBankShare
  <2>3. bank = seq[1] BY <1>8, <2>1
  <2>4. \A k \in Nat : seq[((k \div depth) % Len(seq)) + 1] = seq[1]
    <3> TAKE k \in Nat
    <3>1. ((k \div depth) % Len(seq)) + 1 \in 1 .. Len(seq) BY <1>4, BankOfRequest
    <3>2. ((k \div depth) % Len(seq)) + 1 = 1 BY <2>1, <3>1
    <3> QED BY <3>2
  <2>5. rec.repeat = chunk /\ rec.opcode = "PIM_MAC" /\ \A k : BankOf(Expand(rec, k)) = bank
    <3>1. rec.repeat = chunk /\ rec.opcode = "PIM_MAC" /\ rec.bank_sequence = <<>> /\ rec.addr_vec = av
      BY <1>9 DEF Record
    <3> QED BY <1>9, <3>1 DEF Expand, HostOpcodes
  <2>6. \A b : AskedOf(seq, depth, b, done + chunk) = AskedOf(seq, depth, b, done) + WorkFor(rec, b)
    <3> TAKE b
    <3>1. \A k \in 1 .. rec.repeat : BankOf(Expand(rec, k - 1)) = seq[(((d + k - 1) \div depth) % Len(seq)) + 1]
      <4> TAKE k \in 1 .. rec.repeat
      <4>1. d + k - 1 \in Nat BY <1>5, <1>6, <2>5
      <4> QED BY <2>3, <2>4, <2>5, <4>1
    <3>2. d \in Nat /\ rec.repeat \in Nat BY <1>5, <1>6, <2>5
    <3> HIDE DEF d, seq, depth
    <3>3. AskedOf(seq, depth, b, d + rec.repeat) = AskedOf(seq, depth, b, d) + WorkFor(rec, b)
      BY <2>5, <3>1, <3>2, RotationGoesOn
    <3> QED BY <2>5, <3>3 DEF d
  <2>7. PerBankWork(seq, depth, out'.work, done + chunk)
    <3>1. PerBankWork(seq, depth, out.work, done) BY <1>1, <1>13 DEF WorkBalance, WorkDone
    <3> HIDE DEF seq, depth
    <3> QED BY <1>12, <2>6, <3>1 DEF PerBankWork
  <2>8. CASE done + chunk = share
    <3>1. left' = {}
      <4>1. left \subseteq {0} BY <1>1, <2>1 DEF ProgressInv
      <4> QED BY <1>3, <2>2, <2>8, <4>1
    <3>2. AllGiven(s, out'.work) BY <1>4, <1>13, <2>2, <2>7, <2>8 DEF AllGiven
    <3>3. WorkConserved' BY <1>3, <3>2, SameAllGiven
    <3>4. pc' = "end" BY <1>3, <3>1
    <3> QED BY <3>3, <3>4 DEF WorkBalance, WorkDone
  <2>9. CASE done + chunk # share
    <3>1. left' = left /\ done' = done + chunk /\ pc' = "serial" BY <1>2, <1>3, <2>9
    <3> QED BY <1>4, <1>13, <2>7, <3>1 DEF WorkBalance, WorkDone, WorkConserved
  <2> QED BY <2>8, <2>9
<1>14. CASE ~options.interleave_banks
  <2> DEFINE old == out.work
             new == out'.work
             n == done
             unvisited == left
  <2>1. SharesWork(s, old, unvisited, n) BY <1>1, <1>14 DEF WorkBalance, WorkDone
  <2>2. /\ n + chunk # share => SharesWork(s, new, unvisited, n + chunk)
        /\ n + chunk = share => SharesWork(s, new, unvisited \ {i}, 0)
        /\ n + chunk = share /\ unvisited \ {i} = {} => SumOver(new, Banks) = Total(s)
    <3>1. /\ old \in [Banks -> Nat] /\ new \in [Banks -> Nat] /\ i \in unvisited
          /\ n \in Nat /\ chunk \in Nat \ {0} /\ n + chunk <= BankShare(s, i) /\ bank \in Banks
      BY <1>2, <1>5, <1>6, <1>8, <1>11
    <3>4. IsLeast(i, unvisited) /\ Gains(old, new, bank, chunk)
      BY <1>3, <1>12 DEF IsLeast, Gains
    <3>2. s \in Record0 /\ s.kind \in PerBankKinds /\ Total(s) \in Nat \ {0} BY <1>4
    <3> HIDE DEF old, new, n, unvisited, s
    <3> QED BY <2>1, <3>1, <3>2, <3>4, SharesGoOn
  <2>3. CASE pc' = "end"
    <3>1. done + chunk = share /\ left \ {i} = {} BY <1>2, <1>3, <2>3
    <3>2. AllGiven(s, out'.work) BY <1>4, <1>14, <2>2, <3>1 DEF AllGiven
    <3>3. WorkConserved' BY <1>3, <3>2, SameAllGiven
    <3> QED BY <2>3, <3>3 DEF WorkBalance, WorkDone
  <2>4. CASE pc' = "serial"
    <3>1. SharesWork(s, out'.work, left', done') BY <1>3, <2>2
    <3> QED BY <1>4, <1>14, <2>4, <3>1 DEF WorkBalance, WorkDone, WorkConserved
  <2> QED BY <1>3, <2>3, <2>4
<1> QED BY <1>13, <1>14

LEMMA CompactBalance ==
  ASSUME RecordInv, WorkBalance, LowerCompact(semantic) PROVE WorkBalance'
<1> DEFINE s == semantic
           seq == s.bank_sequence
           share == Total(s)
           chunk == Smaller(MAX_REPEAT, share - done)
           depth == options.interleave_depth
           d == done
           rec == CompactRecord(BaseAddrVec(s), chunk, s.bank_sequence, done, depth, PlaceOf(s))
<1>1. /\ pc = "compact" /\ WorkInv /\ ProgressInv /\ Sound(out)
      /\ out' = Append1(out, rec) /\ Visit(0, chunk, share)
  BY DEF LowerCompact, PlaceOf, RecordInv
<1>2. /\ s \in Record0 /\ s.kind \in PerBankKinds /\ share \in Nat \ {0} /\ depth \in Nat \ {0}
      /\ Loop(s) = "single" /\ options.interleave_banks
  <2>1. s \in Record0 /\ share \in Nat \ {0} BY <1>1, InWork
  <2>2. options \in Options /\ Loop(s) = "single" /\ options.interleave_banks BY <1>1 DEF WorkInv
  <2> QED BY <2>1, <2>2, LoopKinds, OptionsAssumption
<1>3. left = {0} /\ done \in Nat /\ done < share
  <2>1. left = {0} /\ done \in Nat BY <1>1 DEF ProgressInv
  <2>2. Visited(0) BY <2>1 DEF Visited
  <2>3. Share(0) = share BY <1>1 DEF Share
  <2>4. done < Share(0) BY <1>1, <2>1, <2>2 DEF ProgressInv, Loops
  <2> QED BY <2>1, <2>3, <2>4
<1>4. chunk \in Nat /\ chunk # 0
  <2> HIDE DEF share
  <2>1. chunk \in 1 .. MAX_REPEAT BY <1>2, <1>3, ChunkBounds
  <2> HIDE DEF chunk
  <2> QED BY <2>1, RepeatAssumption
<1>5. /\ left' = IF done + chunk = share THEN {} ELSE {0}
      /\ done' = IF done + chunk = share THEN 0 ELSE done + chunk
      /\ pc' = (IF left' = {} THEN "end" ELSE "compact") /\ UNCHANGED <<options, todo>>
  BY <1>1, <1>3 DEF Visit
<1>6. \A k \in Nat : BankOf(Expand(rec, k)) = seq[(((d + k) \div depth) % Len(seq)) + 1]
  <2>1. CompactReplays(s, d, depth)
    <3>1. s \in Record0 /\ s.kind \in PerBankKinds /\ d \in Nat /\ depth \in Nat \ {0} BY <1>2, <1>3
    <3> HIDE DEF depth, s, d
    <3> QED BY <3>1, CompactExact
  <2> TAKE k \in Nat
  <2>2. Expand(rec, k) = AddrVecFromSemantic(s, d + k, depth)
    <3> HIDE DEF chunk, depth, s
    <3> QED BY <2>1 DEF CompactReplays
  <2>3. d + k \in Nat BY <1>3
  <2> QED BY <1>2, <2>2, <2>3, BankOfRequest
<1>7. rec.opcode = "PIM_MAC" /\ rec.repeat = chunk BY DEF CompactRecord
<1> HIDE DEF rec, chunk
<1>8. \A b : AskedOf(seq, depth, b, done + chunk) = AskedOf(seq, depth, b, done) + WorkFor(rec, b)
  <2> TAKE b
  <2>1. \A k \in 1 .. rec.repeat : BankOf(Expand(rec, k - 1)) = seq[(((d + k - 1) \div depth) % Len(seq)) + 1]
    <3> TAKE k \in 1 .. rec.repeat
    <3>1. k - 1 \in Nat /\ d + (k - 1) = d + k - 1 BY <1>3, <1>4, <1>7
    <3>2. BankOf(Expand(rec, k - 1)) = seq[(((d + (k - 1)) \div depth) % Len(seq)) + 1] BY <1>6, <3>1
    <3> QED BY <3>1, <3>2
  <2>2. d \in Nat /\ rec.repeat \in Nat BY <1>3, <1>4, <1>7
  <2> HIDE DEF d, seq, depth
  <2>3. AskedOf(seq, depth, b, d + rec.repeat) = AskedOf(seq, depth, b, d) + WorkFor(rec, b)
    BY <1>7, <2>1, <2>2, RotationGoesOn
  <2> QED BY <1>7, <2>3 DEF d
<1>9. PerBankWork(seq, depth, out'.work, done + chunk)
  <2>1. PerBankWork(seq, depth, out.work, done) BY <1>1, <1>2 DEF WorkBalance, WorkDone
  <2>2. out'.work = [b \in Banks |-> out.work[b] + WorkFor(rec, b)] BY <1>1 DEF Append1
  <2> HIDE DEF seq, depth
  <2> QED BY <1>8, <2>1, <2>2 DEF PerBankWork
<1>10. semantic' = s /\ options' = options BY <1>5, SameRecord
<1>11. CASE done + chunk = share
  <2>1. AllGiven(s, out'.work) BY <1>2, <1>9, <1>11 DEF AllGiven
  <2>2. WorkConserved' BY <1>5, <2>1, SameAllGiven
  <2>3. pc' = "end" BY <1>5, <1>11
  <2> QED BY <2>2, <2>3 DEF WorkBalance, WorkDone
<1>12. CASE done + chunk # share
  <2>1. pc' = "compact" /\ done' = done + chunk BY <1>5, <1>12
  <2> QED BY <1>9, <1>10, <2>1 DEF WorkBalance, WorkDone, WorkConserved
<1> QED BY <1>11, <1>12

LEMMA BeginBalance ==
  ASSUME RecordInv, Begin(semantic) PROVE WorkBalance'
<1> DEFINE s == semantic
<1>1. /\ pc' = Loop(s) /\ done' = 0 /\ UNCHANGED <<options, todo>> /\ out' = [out EXCEPT !.work = Empty.work]
      /\ left' = CASE Loop(s) = "host" -> {0}
                   [] Loop(s) \in {"all_bank", "single"} -> AllBankTargetRanks(s)
                   [] OTHER -> Ranks
  BY DEF Begin
<1>2. \A b \in Banks : out'.work[b] = 0
  <2>1. Empty.work = [b \in Banks |-> 0] BY DEF Empty
  <2> DEFINE none == Empty.work
  <2> HIDE DEF none
  <2>2. out'.work = none BY <1>1 DEF none, Begin
  <2> QED BY <2>1, <2>2 DEF none
<1>3. semantic' = s BY <1>1, SameRecord
<1>4. Loop(s) \in RankLoops \cup {"host"} BY LoopKinds
<1>5. CASE pc' \in {"host", "load"} BY <1>5, BalanceElsewhere
<1>6. CASE pc' = "single" BY <1>2, <1>6 DEF WorkBalance, WorkDone, WorkConserved
<1>7. CASE pc' = "all_bank"
  <2>1. left' = AllBankTargetRanks(s) BY <1>1, <1>7
  <2>2. AllBankTargetRanks(semantic)' = AllBankTargetRanks(s) BY <1>3 DEF AllBankTargetRanks
  <2>3. RankWork(out'.work, AllBankTargetRanks(s), left', 0, AllBankShare(semantic)')
    BY <1>2, <2>1 DEF RankWork
  <2> QED BY <1>1, <1>7, <2>2, <2>3 DEF WorkBalance, WorkDone, WorkConserved
<1>8. CASE pc' = "compute_all"
  <2>1. left' = Ranks BY <1>1, <1>8
  <2>2. RoundWork(out'.work, left', 0) BY <1>2, <2>1, RanksOfBanks DEF RoundWork
  <2> QED BY <1>1, <1>8, <2>2 DEF WorkBalance, WorkDone, WorkConserved
<1> QED BY <1>1, <1>4, <1>5, <1>6, <1>7, <1>8 DEF RankLoops

LEMMA OtherBalance ==
  ASSUME RecordInv, LowerHost(semantic) \/ LowerLoad(semantic) PROVE WorkBalance'
<1>1. pc \in {"host", "load"} /\ Loop(semantic) = pc /\ pc' \in {pc, "end"} /\ UNCHANGED <<options, todo>>
  BY DEF LowerHost, LowerLoad, Visit, RecordInv, WorkInv, RankLoops
<1>2. CASE pc' = pc BY <1>1, <1>2, BalanceElsewhere
<1>3. CASE pc' = "end"
  <2>1. AllGiven(semantic, out'.work) BY <1>1 DEF AllGiven
  <2>2. WorkConserved' BY <1>1, <2>1, SameAllGiven
  <2> QED BY <1>3, <2>2 DEF WorkBalance, WorkDone
<1> QED BY <1>1, <1>2, <1>3

LEMMA StutterBalance ==
  ASSUME WorkBalance, UNCHANGED vars PROVE WorkBalance'
<1>1. UNCHANGED <<options, todo, pc, left, done, out>> BY DEF vars
<1>2. WorkDone'
  BY <1>1 DEF WorkBalance, WorkDone, semantic, AllBankTargetRanks, AllBankShare, Total
<1>3. WorkConserved'
  BY <1>1 DEF WorkBalance, WorkConserved, semantic, Loop, MacMode, IsWeight, Total
<1> QED BY <1>2, <1>3 DEF WorkBalance

LEMMA StepBalance == RecordInv /\ WorkBalance /\ [Next]_vars => WorkBalance'
<1> SUFFICES ASSUME RecordInv, WorkBalance, [Next]_vars PROVE WorkBalance' OBVIOUS
<1>1. CASE Begin(semantic) BY <1>1, BeginBalance
<1>2. CASE LowerHost(semantic) \/ LowerLoad(semantic) BY <1>2, OtherBalance
<1>3. CASE LowerAllBank(semantic) BY <1>3, AllBankBalance
<1>4. CASE LowerPerBank(semantic) BY <1>4, PerBankBalance
<1>5. CASE LowerCompact(semantic) BY <1>5, CompactBalance
<1>6. CASE LowerSerial(semantic) BY <1>6, SerialBalance
<1>7. CASE LowerComputeAll(semantic) BY <1>7, ComputeAllBalance
<1>8. CASE NextRecord(semantic)
  <2>1. pc' = "begin" BY <1>8 DEF NextRecord
  <2> QED BY <2>1, BalanceElsewhere
<1>9. CASE (Lowered /\ UNCHANGED vars) \/ UNCHANGED vars BY <1>9, StutterBalance
<1> QED BY <1>1, <1>2, <1>3, <1>4, <1>5, <1>6, <1>7, <1>8, <1>9 DEF Next

(***************************************************************************)
(* When a semantic record is lowered its banks have got its work: none is  *)
(* lost or given twice where a share is cut into records, where the last   *)
(* round of a rotation is incomplete, or from rank to rank.                *)
(***************************************************************************)
THEOREM AlwaysConservesWork == Spec => []WorkConserved
<1>1. Init => WorkBalance BY DEF Init, WorkBalance, WorkDone, WorkConserved
<1>2. WorkBalance => WorkConserved BY DEF WorkBalance
<1> QED BY <1>1, <1>2, InitRecords, StepRecords, StepBalance, PTL DEF Spec
=============================================================================
