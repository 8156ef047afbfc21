------------------------ MODULE FieldElements_proofs ------------------------
(* Proofs about the generated field arithmetic, for every prime, every size  *)
(* of words and elements, and every range of small integers.                 *)
EXTENDS FieldElements, NaturalsInduction, WellFoundedInduction, TLAPS

-----------------------------------------------------------------------------
(* Loops that count up to n. *)
LEMMA Least ==
    ASSUME NEW T \in SUBSET Nat, T # {}
    PROVE  \E x \in T : \A y \in T : x <= y
<1>. DEFINE Less == {ss \in Nat \X Nat : ss[1] < ss[2]}
<1>1. Less = OpToRel(<, Nat)
  BY DEF OpToRel
<1>2. IsWellFoundedOn(Less, Nat)
  BY <1>1, NatLessThanWellFounded
<1>. HIDE DEF Less
<1>3. PICK x \in T : \A y \in T : ~(<<y, x>> \in Less)
  BY <1>2, WFMin
<1>4. ASSUME NEW y \in T PROVE x <= y
  <2>1. x \in Nat /\ y \in Nat /\ <<y, x>> \in Nat \X Nat /\ <<y, x>>[1] = y /\ <<y, x>>[2] = x
    OBVIOUS
  <2>2. ~(y < x)
    BY <1>3, <2>1 DEF Less
  <2>. QED
    BY <2>1, <2>2
<1>. QED
  BY <1>4

LEMMA CountUp ==
    ASSUME NEW n \in Nat, NEW T, 0 \in T, \A i \in 1 .. n : i - 1 \in T => i \in T
    PROVE  \A i \in 0 .. n : i \in T
<1>. DEFINE rest == {i \in 0 .. n : i \notin T}
<1>1. SUFFICES ASSUME rest # {} PROVE FALSE
  OBVIOUS
<1>2. rest \in SUBSET Nat
  OBVIOUS
<1>3. PICK i \in rest : \A j \in rest : i <= j
  BY <1>1, <1>2, Least
<1>4. i \in 1 .. n /\ i \notin T
  <2>1. i # 0
    BY DEF rest
  <2>. QED
    BY <2>1
<1>5. i - 1 \in 0 .. n /\ ~(i <= i - 1)
  BY <1>4
<1>6. i - 1 \in T
  BY <1>3, <1>5
<1>. QED
  BY <1>4, <1>6

(* A loop has a state before each of its rounds. *)
IsLoop(f, n, base, step) == f[0] = base /\ \A i \in 1 .. n : f[i] = step[i][f[i - 1]]

LEMMA LoopExists ==
    ASSUME NEW n \in Nat, NEW S, NEW base \in S, NEW step \in [1 .. n -> [S -> S]]
    PROVE  \E f \in [0 .. n -> S] : IsLoop(f, n, base, step)
<1>. DEFINE Runs(k, f) == f[0] = base /\ \A i \in 1 .. k : f[i] = step[i][f[i - 1]]
            T == {k \in 0 .. n : \E f \in [0 .. k -> S] : Runs(k, f)}
<1>1. 0 \in T
  <2>. DEFINE f == [i \in 0 .. 0 |-> base]
  <2>1. f \in [0 .. 0 -> S] /\ f[0] = base /\ 1 .. 0 = {}
    OBVIOUS
  <2>. HIDE DEF f
  <2>. QED
    BY <2>1
<1>2. ASSUME NEW k \in 1 .. n, k - 1 \in T PROVE k \in T
  <2>1. PICK f \in [0 .. k - 1 -> S] : Runs(k - 1, f)
    BY <1>2
  <2>. DEFINE g == [i \in 0 .. k |-> IF i = k THEN step[k][f[k - 1]] ELSE f[i]]
  <2>2. f[k - 1] \in S /\ step[k] \in [S -> S]
    OBVIOUS
  <2>3. \A i \in 0 .. k : i # k => i \in 0 .. k - 1
    OBVIOUS
  <2>4. g \in [0 .. k -> S]
    BY <2>2, <2>3
  <2>5. g[0] = base
    BY <2>1
  <2>6. ASSUME NEW i \in 1 .. k PROVE g[i] = step[i][g[i - 1]]
    <3>1. i - 1 \in 0 .. k /\ i - 1 # k /\ g[i - 1] = f[i - 1]
      OBVIOUS
    <3>2. CASE i = k
      BY <3>1, <3>2
    <3>3. CASE i # k
      <4>1. i \in 1 .. k - 1 /\ g[i] = f[i]
        BY <3>3
      <4>. QED
        BY <2>1, <3>1, <4>1
    <3>. QED
      BY <3>2, <3>3
  <2>. HIDE DEF g
  <2>. QED
    BY <2>4, <2>5, <2>6
<1>3. n \in T
  <2>. HIDE DEF T
  <2>1. \A i \in 1 .. n : i - 1 \in T => i \in T
    BY <1>2
  <2>2. \A i \in 0 .. n : i \in T
    BY <1>1, <2>1, CountUp
  <2>. QED
    BY <2>2
<1>. QED
  BY <1>3 DEF IsLoop

-----------------------------------------------------------------------------
(* Numbers modulo the prime. *)
Equivalent(x, y) == \E q \in Int : x = y + q * Mod

LEMMA Prime == Mod \in Nat /\ Mod > 2 /\ Field = 0 .. Mod - 1 /\ {0, 1} \subseteq Field
BY FieldAssumption DEF Field

LEMMA Itself == ASSUME NEW x \in Int PROVE Equivalent(x, x)
<1>1. 0 \in Int /\ x = x + 0 * Mod
  BY Prime
<1>. QED
  BY <1>1 DEF Equivalent

LEMMA Turned == ASSUME NEW x \in Int, NEW y \in Int, Equivalent(x, y) PROVE Equivalent(y, x)
<1>1. PICK q \in Int : x = y + q * Mod
  BY DEF Equivalent
<1>2. -q \in Int /\ (-q) * Mod = -(q * Mod) /\ q * Mod \in Int
  BY Prime
<1>3. y = x + (-q) * Mod
  BY <1>1, <1>2
<1>. QED
  BY <1>2, <1>3 DEF Equivalent

LEMMA Chained ==
    ASSUME NEW x \in Int, NEW y \in Int, NEW z \in Int, Equivalent(x, y), Equivalent(y, z)
    PROVE  Equivalent(x, z)
<1>1. PICK p \in Int : x = y + p * Mod
  BY DEF Equivalent
<1>2. PICK q \in Int : y = z + q * Mod
  BY DEF Equivalent
<1>3. p + q \in Int /\ (p + q) * Mod = p * Mod + q * Mod /\ p * Mod \in Int /\ q * Mod \in Int
  BY Prime
<1>4. x = z + (p + q) * Mod
  BY <1>1, <1>2, <1>3
<1>. QED
  BY <1>3, <1>4 DEF Equivalent

LEMMA EquivalentResults ==
    ASSUME NEW x \in Int, NEW y \in Int, NEW u \in Int, NEW v \in Int,
           Equivalent(x, u), Equivalent(y, v)
    PROVE  Equivalent(x + y, u + v) /\ Equivalent(x - y, u - v) /\ Equivalent(x * y, u * v)
<1>1. PICK p \in Int : x = u + p * Mod
  BY DEF Equivalent
<1>2. PICK q \in Int : y = v + q * Mod
  BY DEF Equivalent
<1>3. Mod \in Int /\ p * Mod \in Int /\ q * Mod \in Int
  BY Prime
<1>4. Equivalent(x + y, u + v)
  <2>1. p + q \in Int /\ (p + q) * Mod = p * Mod + q * Mod
    BY <1>3
  <2>2. x + y = (u + v) + (p + q) * Mod
    BY <1>1, <1>2, <1>3, <2>1
  <2>. QED
    BY <2>1, <2>2 DEF Equivalent
<1>5. Equivalent(x - y, u - v)
  <2>1. p - q \in Int /\ (p - q) * Mod = p * Mod - q * Mod
    BY <1>3
  <2>2. x - y = (u - v) + (p - q) * Mod
    BY <1>1, <1>2, <1>3, <2>1
  <2>. QED
    BY <2>1, <2>2 DEF Equivalent
<1>6. Equivalent(x * y, u * v)
  <2>. DEFINE r == u * q + p * v + p * q * Mod
  <2>1. r \in Int
    BY <1>3
  <2>2. (u + p * Mod) * (v + q * Mod) = u * v + r * Mod
    BY <1>3
  <2>. HIDE DEF r
  <2>3. x * y = u * v + r * Mod
    BY <1>1, <1>2, <2>2
  <2>. QED
    BY <2>1, <2>3 DEF Equivalent
<1>. QED
  BY <1>4, <1>5, <1>6

LEMMA Residue ==
    ASSUME NEW x \in Int
    PROVE  x % Mod \in Field /\ Equivalent(x % Mod, x)
<1>. DEFINE q == x \div Mod
<1>1. Mod \in Nat \ {0} /\ q \in Int /\ x % Mod \in 0 .. Mod - 1 /\ x % Mod = x - Mod * q
  BY Prime
<1>. HIDE DEF q
<1>2. -q \in Int /\ (-q) * Mod = -(Mod * q) /\ Mod * q \in Int
  BY <1>1
<1>3. x % Mod = x + (-q) * Mod
  BY <1>1, <1>2
<1>. QED
  BY <1>1, <1>2, <1>3, Prime DEF Equivalent

(* Of equivalent numbers, one is an element. *)
LEMMA OneElement ==
    ASSUME NEW x \in Field, NEW y \in Field, Equivalent(x, y)
    PROVE  x = y
<1>1. x \in 0 .. Mod - 1 /\ y \in 0 .. Mod - 1 /\ Mod \in Nat
  BY Prime
<1>2. PICK d \in Int : x = y + d * Mod
  BY DEF Equivalent
<1>3. d * Mod \in Int /\ d * Mod < Mod /\ d * Mod > -Mod
  BY <1>1, <1>2
<1>4. CASE d >= 1
  <2>1. d * Mod >= Mod
    BY <1>1, <1>4
  <2>. QED
    BY <1>1, <1>3, <2>1
<1>5. CASE d <= -1
  <2>1. d * Mod <= -Mod
    BY <1>1, <1>5
  <2>. QED
    BY <1>1, <1>3, <2>1
<1>6. CASE d = 0
  BY <1>1, <1>2, <1>6
<1>. QED
  BY <1>4, <1>5, <1>6

LEMMA EqualResidues ==
    ASSUME NEW x \in Int, NEW y \in Int, Equivalent(x, y)
    PROVE  x % Mod = y % Mod
<1>1. /\ x % Mod \in Field /\ Equivalent(x % Mod, x)
      /\ y % Mod \in Field /\ Equivalent(y % Mod, y)
  BY Residue
<1>2. x % Mod \in Int /\ y % Mod \in Int
  BY <1>1, Prime
<1>3. Equivalent(x % Mod, y % Mod)
  <2>1. Equivalent(x % Mod, y)
    BY <1>1, <1>2, Chained
  <2>2. Equivalent(y, y % Mod)
    BY <1>1, <1>2, Turned
  <2>. QED
    BY <1>2, <2>1, <2>2, Chained
<1>. QED
  BY <1>1, <1>3, OneElement

LEMMA ElementIsResidue == ASSUME NEW x \in Field PROVE x \in Int /\ x % Mod = x
BY Prime

-----------------------------------------------------------------------------
(* Montgomery form. *)
LEMMA Radix == R \in Nat \ {0} /\ RInverse \in Field /\ Equivalent(R * RInverse, 1)
<1>1. R \in Nat \ {0}
  BY WordAssumption DEF R
<1>2. RInverse \in Field /\ (R * RInverse) % Mod = 1
  <2>1. \E y \in Field : (R * y) % Mod = 1
    BY FieldAssumption
  <2>. QED
    BY <2>1 DEF RInverse
<1>3. R * RInverse \in Int
  BY <1>1, <1>2, Prime
<1>4. Equivalent(1, R * RInverse)
  BY <1>2, <1>3, Residue
<1>. QED
  BY <1>1, <1>2, <1>3, <1>4, Turned

LEMMA Cancelled ==
    ASSUME NEW x \in Int, NEW y \in Int, Equivalent(x * R, y * R)
    PROVE  Equivalent(x, y)
<1>. DEFINE one == R * RInverse
<1>1. R \in Int /\ RInverse \in Int /\ one \in Int /\ Equivalent(one, 1)
  BY Radix, Prime
<1>2. (x * R) * RInverse = x * one /\ (y * R) * RInverse = y * one
  BY <1>1
<1>. HIDE DEF one
<1>3. Equivalent(x * one, y * one)
  <2>1. x * R \in Int /\ y * R \in Int
    BY <1>1
  <2>2. Equivalent(RInverse, RInverse)
    BY <1>1, Itself
  <2>3. Equivalent((x * R) * RInverse, (y * R) * RInverse)
    BY <1>1, <2>1, <2>2, EquivalentResults
  <2>. QED
    BY <1>2, <2>3
<1>4. ASSUME NEW z \in Int PROVE z * one \in Int /\ Equivalent(z * one, z)
  <2>1. Equivalent(z, z)
    BY Itself
  <2>2. Equivalent(z * one, z * 1)
    BY <1>1, <2>1, EquivalentResults
  <2>. QED
    BY <1>1, <2>2
<1>5. Equivalent(x, x * one) /\ Equivalent(y * one, y)
  BY <1>4, Turned
<1>6. Equivalent(x, y * one)
  BY <1>3, <1>4, <1>5, Chained
<1>. QED
  BY <1>4, <1>5, <1>6, Chained

(* w is the Montgomery form of a number equivalent to u. *)
Means(w, u) == w \in Int /\ u \in Int /\ Equivalent(w, u * R)

(* One Montgomery multiplication divides by R. *)
LEMMA Reduction ==
    ASSUME NEW a \in Int, NEW b \in Int
    PROVE  Fr_rawMMul(a, b) \in Field /\ Fr_rawMMul(a, b) \in Int /\ Equivalent(Fr_rawMMul(a, b) * R, a * b)
<1>. DEFINE one == R * RInverse
            x == a % Mod
            y == b % Mod
            p == (x * y) % Mod
            m == (p * RInverse) % Mod
<1>1. R \in Int /\ RInverse \in Int /\ one \in Int /\ Equivalent(one, 1)
  BY Radix, Prime
<1>2. x \in Int /\ Equivalent(x, a) /\ y \in Int /\ Equivalent(y, b)
  BY Residue, ElementIsResidue
<1>. HIDE DEF x, y
<1>3. a * b \in Int /\ x * y \in Int /\ Equivalent(x * y, a * b)
  BY <1>2, EquivalentResults
<1>4. p \in Int /\ Equivalent(p, x * y)
  BY <1>3, Residue, ElementIsResidue
<1>5. Equivalent(p, a * b)
  BY <1>3, <1>4, Chained
<1>. HIDE DEF p
<1>6. p * RInverse \in Int
  BY <1>1, <1>4
<1>7. m \in Field /\ m \in Int /\ Equivalent(m, p * RInverse)
  BY <1>6, Residue, ElementIsResidue
<1>8. m = Fr_rawMMul(a, b)
  BY DEF Fr_rawMMul, m, p, x, y
<1>. HIDE DEF m
<1>9. Equivalent(m * R, p * one)
  <2>1. Equivalent(R, R)
    BY <1>1, Itself
  <2>2. Equivalent(m * R, (p * RInverse) * R)
    BY <1>1, <1>6, <1>7, <2>1, EquivalentResults
  <2>3. (p * RInverse) * R = p * one
    BY <1>1, <1>4
  <2>. QED
    BY <2>2, <2>3
<1>. HIDE DEF one
<1>10. Equivalent(p * one, (a * b) * 1)
  BY <1>1, <1>3, <1>4, <1>5, EquivalentResults
<1>11. m * R \in Int /\ p * one \in Int /\ (a * b) * 1 = a * b
  BY <1>1, <1>3, <1>4, <1>7
<1>12. Equivalent(m * R, a * b)
  BY <1>3, <1>9, <1>10, <1>11, Chained
<1>. QED
  BY <1>7, <1>8, <1>12

(* Products of numbers in Montgomery form, of one that is and one that is    *)
(* not, and of two that are not.                                             *)
LEMMA ProductMeans ==
    ASSUME NEW a, NEW b, NEW u, NEW v, Means(a, u), Means(b, v)
    PROVE  Means(Fr_rawMMul(a, b), u * v)
<1>. DEFINE m == Fr_rawMMul(a, b)
<1>1. a \in Int /\ b \in Int /\ u \in Int /\ v \in Int /\ R \in Int /\ u * R \in Int /\ v * R \in Int
      /\ u * v \in Int /\ (u * v) * R \in Int
  BY Radix DEF Means
<1>2. m \in Int /\ Equivalent(m * R, a * b)
  BY <1>1, Reduction
<1>. HIDE DEF m
<1>3. Equivalent(a * b, (u * R) * (v * R))
  BY <1>1, EquivalentResults DEF Means
<1>4. (u * R) * (v * R) = ((u * v) * R) * R
  BY <1>1
<1>5. m * R \in Int /\ a * b \in Int /\ ((u * v) * R) * R \in Int
  BY <1>1, <1>2
<1>6. Equivalent(m * R, ((u * v) * R) * R)
  BY <1>2, <1>3, <1>4, <1>5, Chained
<1>7. Equivalent(m, (u * v) * R)
  BY <1>1, <1>2, <1>6, Cancelled
<1>. QED
  BY <1>1, <1>2, <1>7 DEF Means, m

LEMMA MixedProduct ==
    ASSUME NEW a, NEW b \in Int, NEW u, Means(a, u)
    PROVE  /\ Equivalent(Fr_rawMMul(a, b), u * b)
           /\ Equivalent(Fr_rawMMul(b, a), u * b)
<1>1. a \in Int /\ u \in Int /\ R \in Int /\ u * R \in Int /\ u * b \in Int /\ a * b \in Int
  BY Radix DEF Means
<1>2. Equivalent(b, b)
  BY Itself
<1>3. Equivalent(a * b, (u * R) * b)
  BY <1>1, <1>2, EquivalentResults DEF Means
<1>4. (u * R) * b = (u * b) * R /\ b * a = a * b /\ (u * b) * R \in Int
  BY <1>1
<1>5. ASSUME NEW m \in Int, Equivalent(m * R, a * b)
      PROVE  Equivalent(m, u * b)
  <2>1. m * R \in Int
    BY <1>1
  <2>2. Equivalent(m * R, (u * b) * R)
    BY <1>1, <1>3, <1>4, <1>5, <2>1, Chained
  <2>. QED
    BY <1>1, <2>2, Cancelled
<1>6. /\ Fr_rawMMul(a, b) \in Int /\ Equivalent(Fr_rawMMul(a, b) * R, a * b)
      /\ Fr_rawMMul(b, a) \in Int /\ Equivalent(Fr_rawMMul(b, a) * R, a * b)
  <2>1. Fr_rawMMul(b, a) \in Int /\ Equivalent(Fr_rawMMul(b, a) * R, b * a)
    BY <1>1, Reduction
  <2>2. Fr_rawMMul(a, b) \in Int /\ Equivalent(Fr_rawMMul(a, b) * R, a * b)
    BY <1>1, Reduction
  <2>. QED
    BY <1>4, <2>1, <2>2
<1>. QED
  BY <1>5, <1>6

LEMMA Corrections == R2 \in Int /\ Equivalent(R2, R * R) /\ R3 \in Int /\ Equivalent(R3, (R * R) * R)
<1>1. R \in Int /\ R * R \in Int /\ R * R * R \in Int /\ R * R * R = (R * R) * R
  BY Radix
<1>. QED
  BY <1>1, Residue, ElementIsResidue DEF R2, R3

(* A number that is multiplied by R twice and divided once is in Montgomery  *)
(* form.                                                                     *)
LEMMA ToMontgomeryMeans ==
    ASSUME NEW n \in Int
    PROVE  Fr_rawToMontgomery(n) \in Field /\ Means(Fr_rawToMontgomery(n), n)
<1>. DEFINE m == Fr_rawMMul(n, R2)
<1>1. R \in Int /\ n * R \in Int /\ R2 \in Int /\ R * R \in Int
  BY Radix, Corrections
<1>2. m \in Field /\ m \in Int /\ Equivalent(m * R, n * R2)
  BY <1>1, Reduction
<1>3. m = Fr_rawToMontgomery(n)
  BY DEF Fr_rawToMontgomery
<1>. HIDE DEF m
<1>4. Equivalent(n * R2, n * (R * R))
  <2>1. Equivalent(n, n)
    BY Itself
  <2>. QED
    BY <1>1, <2>1, Corrections, EquivalentResults
<1>5. n * (R * R) = (n * R) * R /\ n * R2 \in Int /\ m * R \in Int /\ (n * R) * R \in Int
  BY <1>1, <1>2
<1>6. Equivalent(m * R, (n * R) * R)
  BY <1>2, <1>4, <1>5, Chained
<1>. QED
  BY <1>1, <1>2, <1>3, <1>6, Cancelled DEF Means

LEMMA CorrectedProduct ==
    ASSUME NEW a \in Int, NEW b \in Int
    PROVE  Means(Fr_rawMMul(Fr_rawMMul(a, b), R3), a * b)
<1>. DEFINE p == Fr_rawMMul(a, b)
            m == Fr_rawMMul(p, R3)
            cube == (R * R) * R
<1>1. R \in Int /\ a * b \in Int /\ R3 \in Int /\ cube \in Int /\ Equivalent(R3, cube)
  BY Radix, Corrections
<1>2. p \in Int /\ Equivalent(p * R, a * b)
  BY Reduction
<1>. HIDE DEF p
<1>3. m \in Int /\ Equivalent(m * R, p * R3)
  BY <1>1, <1>2, Reduction
<1>4. Equivalent(p * R3, p * cube)
  <2>1. Equivalent(p, p)
    BY <1>2, Itself
  <2>. QED
    BY <1>1, <1>2, <2>1, EquivalentResults
<1>5. p * cube = (p * R) * (R * R) /\ (a * b) * (R * R) = ((a * b) * R) * R
  BY <1>1, <1>2
<1>6. Equivalent((p * R) * (R * R), (a * b) * (R * R))
  <2>1. R * R \in Int /\ p * R \in Int
    BY <1>1, <1>2
  <2>2. Equivalent(R * R, R * R)
    BY <2>1, Itself
  <2>. QED
    BY <1>1, <1>2, <2>1, <2>2, EquivalentResults
<1>7. m * R \in Int /\ p * R3 \in Int /\ p * cube \in Int /\ ((a * b) * R) * R \in Int /\ (a * b) * R \in Int
  BY <1>1, <1>2, <1>3
<1>. HIDE DEF m, cube
<1>8. Equivalent(p * R3, ((a * b) * R) * R)
  BY <1>4, <1>5, <1>6, <1>7, Chained
<1>9. Equivalent(m * R, ((a * b) * R) * R)
  BY <1>3, <1>7, <1>8, Chained
<1>10. Equivalent(m, (a * b) * R)
  BY <1>3, <1>7, <1>9, Cancelled
<1>. QED
  BY <1>1, <1>3, <1>10 DEF Means, m, p

(* The number that words in Montgomery form stand for. *)
FromWords(w) == (w * RInverse) % Mod

LEMMA FromWordsMeans ==
    ASSUME NEW w \in Int
    PROVE  FromWords(w) \in Field /\ Means(w, FromWords(w))
<1>. DEFINE one == R * RInverse  q == w * RInverse  u == q % Mod
<1>1. R \in Int /\ RInverse \in Int /\ one \in Int /\ Equivalent(one, 1) /\ q \in Int
  BY Radix, Prime
<1>2. u \in Field /\ u \in Int /\ Equivalent(u, q)
  BY <1>1, Residue, ElementIsResidue
<1>3. u = FromWords(w)
  BY DEF FromWords
<1>4. q * R = w * one
  BY <1>1
<1>. HIDE DEF one, u, q
<1>5. Equivalent(u * R, q * R)
  <2>1. Equivalent(R, R)
    BY <1>1, Itself
  <2>. QED
    BY <1>1, <1>2, <2>1, EquivalentResults
<1>6. Equivalent(w * one, w * 1)
  <2>1. Equivalent(w, w)
    BY Itself
  <2>. QED
    BY <1>1, <2>1, EquivalentResults
<1>7. u * R \in Int /\ w * one \in Int /\ w * 1 = w
  BY <1>1, <1>2
<1>8. Equivalent(u * R, w)
  BY <1>4, <1>5, <1>6, <1>7, Chained
<1>9. Equivalent(w, u * R)
  BY <1>7, <1>8, Turned
<1>. QED
  BY <1>2, <1>3, <1>9 DEF Means

LEMMA MeaningIsUnique ==
    ASSUME NEW w, NEW u, NEW v, Means(w, u), Means(w, v)
    PROVE  Equivalent(u, v)
<1>1. w \in Int /\ u \in Int /\ v \in Int /\ R \in Int /\ u * R \in Int /\ v * R \in Int
  BY Radix DEF Means
<1>2. Equivalent(u * R, w)
  BY <1>1, Turned DEF Means
<1>3. Equivalent(u * R, v * R)
  BY <1>1, <1>2, Chained DEF Means
<1>. QED
  BY <1>1, <1>3, Cancelled

LEMMA FromWordsIs ==
    ASSUME NEW w, NEW u, Means(w, u)
    PROVE  FromWords(w) = u % Mod
<1>1. w \in Int /\ u \in Int
  BY DEF Means
<1>2. FromWords(w) \in Field /\ Means(w, FromWords(w))
  BY <1>1, FromWordsMeans
<1>3. FromWords(w) \in Int /\ FromWords(w) % Mod = FromWords(w)
  BY <1>2, ElementIsResidue
<1>4. Equivalent(FromWords(w), u)
  BY <1>2, MeaningIsUnique
<1>5. FromWords(w) % Mod = u % Mod
  BY <1>1, <1>3, <1>4, EqualResidues
<1>. QED
  BY <1>3, <1>5

LEMMA FromMontgomeryIs ==
    ASSUME NEW w \in Int
    PROVE  Fr_rawFromMontgomery(w) = FromWords(w)
<1>. DEFINE m == Fr_rawMMul(w, 1)  u == FromWords(w)
<1>1. m = Fr_rawFromMontgomery(w)
  BY DEF Fr_rawFromMontgomery
<1>2. m \in Field /\ u \in Field /\ u \in Int /\ Means(w, u)
  BY Reduction, FromWordsMeans, ElementIsResidue
<1>. HIDE DEF m, u
<1>3. Equivalent(m, u * 1)
  <2>1. 1 \in Int
    OBVIOUS
  <2>2. Equivalent(Fr_rawMMul(w, 1), u * 1)
    BY <1>2, <2>1, MixedProduct, Zenon
  <2>. QED
    BY <2>2 DEF m
<1>4. u * 1 = u
  BY <1>2
<1>. QED
  BY <1>1, <1>2, <1>3, <1>4, OneElement DEF u

LEMMA ToMontgomeryIs ==
    ASSUME NEW n \in Int
    PROVE  Fr_rawToMontgomery(n) = (n * R) % Mod
<1>. DEFINE m == Fr_rawToMontgomery(n)
<1>1. m \in Field /\ m \in Int /\ m % Mod = m /\ Means(m, n)
  BY ToMontgomeryMeans, ElementIsResidue
<1>2. n * R \in Int
  BY Radix
<1>. HIDE DEF m
<1>3. m % Mod = (n * R) % Mod
  BY <1>1, <1>2, EqualResidues DEF Means
<1>. QED
  BY <1>1, <1>3 DEF m

-----------------------------------------------------------------------------
(* Sums, and what small integers are lifted to. *)
LEMMA ResidueIs ==
    ASSUME NEW x \in Field, NEW y \in Int, Equivalent(x, y)
    PROVE  x = y % Mod
<1>1. x \in Int /\ x % Mod = x
  BY ElementIsResidue
<1>2. x % Mod = y % Mod
  BY <1>1, EqualResidues
<1>. QED
  BY <1>1, <1>2

LEMMA SumsAreElements ==
    ASSUME NEW a \in Field, NEW b \in Field
    PROVE  /\ Fr_rawAdd(a, b) \in Field /\ Equivalent(Fr_rawAdd(a, b), a + b)
           /\ Fr_rawSub(a, b) \in Field /\ Equivalent(Fr_rawSub(a, b), a - b)
           /\ Fr_rawNeg(a) \in Field /\ Equivalent(Fr_rawNeg(a), -a)
<1>1. Mod \in Nat /\ Mod > 2 /\ a \in 0 .. Mod - 1 /\ b \in 0 .. Mod - 1 /\ Field = 0 .. Mod - 1
  BY Prime
<1>2. /\ Fr_rawAdd(a, b) \in Field /\ Fr_rawSub(a, b) \in Field /\ Fr_rawNeg(a) \in Field
  BY <1>1 DEF Fr_rawAdd, Fr_rawSub, Fr_rawNeg
<1>3. \A z \in Int : z = z + 0 * Mod /\ z + Mod = z + 1 * Mod /\ z - Mod = z + (-1) * Mod
  BY <1>1
<1>4. ASSUME NEW z \in Int
      PROVE  Equivalent(z, z) /\ Equivalent(z + Mod, z) /\ Equivalent(z - Mod, z)
  <2>1. 0 \in Int /\ 1 \in Int /\ -1 \in Int
    OBVIOUS
  <2>. QED
    BY <1>3, <2>1 DEF Equivalent
<1>5. Equivalent(Fr_rawAdd(a, b), a + b)
  <2>1. a + b \in Int
    BY <1>1
  <2>2. Fr_rawAdd(a, b) \in {a + b, (a + b) - Mod}
    BY <1>1 DEF Fr_rawAdd
  <2>. QED
    BY <1>4, <2>1, <2>2
<1>6. Equivalent(Fr_rawSub(a, b), a - b)
  <2>1. a - b \in Int
    BY <1>1
  <2>2. Fr_rawSub(a, b) \in {a - b, (a - b) + Mod}
    BY <1>1 DEF Fr_rawSub
  <2>. QED
    BY <1>4, <2>1, <2>2
<1>7. Equivalent(Fr_rawNeg(a), -a)
  <2>1. -a \in Int
    BY <1>1
  <2>2. Fr_rawNeg(a) \in {-a, (-a) + Mod}
    BY <1>1 DEF Fr_rawNeg
  <2>. QED
    BY <1>4, <2>1, <2>2
<1>. QED
  BY <1>2, <1>5, <1>6, <1>7

LEMMA SumsMean ==
    ASSUME NEW a \in Field, NEW b \in Field, NEW u, NEW v, Means(a, u), Means(b, v)
    PROVE  /\ Means(Fr_rawAdd(a, b), u + v) /\ Means(Fr_rawSub(a, b), u - v)
           /\ Means(Fr_rawNeg(a), -u)
<1>1. /\ a \in Int /\ b \in Int /\ u \in Int /\ v \in Int /\ R \in Int
      /\ u * R \in Int /\ v * R \in Int
      /\ Equivalent(a, u * R) /\ Equivalent(b, v * R)
  BY Radix DEF Means
<1>2. /\ Equivalent(a + b, u * R + v * R) /\ Equivalent(a - b, u * R - v * R)
  BY <1>1, EquivalentResults
<1>3. Equivalent(0 - a, 0 - u * R)
  <2>1. Equivalent(0, 0)
    BY Itself
  <2>2. 0 \in Int
    OBVIOUS
  <2>. QED
    BY <1>1, <2>1, <2>2, EquivalentResults
<1>4. /\ u * R + v * R = (u + v) * R /\ u * R - v * R = (u - v) * R
      /\ 0 - a = -a /\ 0 - u * R = (-u) * R
  BY <1>1
<1>5. /\ a + b \in Int /\ a - b \in Int /\ -a \in Int
      /\ u + v \in Int /\ u - v \in Int /\ -u \in Int
      /\ (u + v) * R \in Int /\ (u - v) * R \in Int /\ (-u) * R \in Int
  BY <1>1
<1>6. /\ Fr_rawAdd(a, b) \in Int /\ Fr_rawSub(a, b) \in Int /\ Fr_rawNeg(a) \in Int
      /\ Equivalent(Fr_rawAdd(a, b), a + b) /\ Equivalent(Fr_rawSub(a, b), a - b)
      /\ Equivalent(Fr_rawNeg(a), -a)
  BY SumsAreElements, ElementIsResidue
<1>7. Means(Fr_rawAdd(a, b), u + v)
  <2>1. Equivalent(a + b, (u + v) * R)
    BY <1>2, <1>4
  <2>. QED
    BY <1>5, <1>6, <2>1, Chained DEF Means
<1>8. Means(Fr_rawSub(a, b), u - v)
  <2>1. Equivalent(a - b, (u - v) * R)
    BY <1>2, <1>4
  <2>. QED
    BY <1>5, <1>6, <2>1, Chained DEF Means
<1>9. Means(Fr_rawNeg(a), -u)
  <2>1. Equivalent(-a, (-u) * R)
    BY <1>3, <1>4
  <2>. QED
    BY <1>5, <1>6, <2>1, Chained DEF Means
<1>. QED
  BY <1>7, <1>8, <1>9

LEMMA LiftedIs ==
    ASSUME NEW n \in -Mod + 1 .. Mod - 1
    PROVE  Lifted(n) = n % Mod /\ Lifted(n) \in Field
<1>1. Mod \in Nat /\ n \in Int /\ Lifted(n) \in Field
  BY Prime DEF Lifted
<1>2. Equivalent(Lifted(n), n)
  <2>1. n = n + 0 * Mod /\ n + Mod = n + 1 * Mod /\ 0 \in Int /\ 1 \in Int
    BY <1>1
  <2>. QED
    BY <2>1 DEF Equivalent, Lifted
<1>. QED
  BY <1>1, <1>2, ResidueIs

LEMMA SmallRange ==
    ASSUME NEW m \in Small, NEW n \in Small
    PROVE  /\ m \in Int /\ n \in Int /\ n \in -Mod + 1 .. Mod - 1
           /\ m + n \in -Mod + 1 .. Mod - 1 /\ m - n \in -Mod + 1 .. Mod - 1
           /\ m * n \in -Mod + 1 .. Mod - 1 /\ -n \in -Mod + 1 .. Mod - 1
<1>1. m \in Int /\ n \in Int /\ 0 \in Small
  BY FieldAssumption
<1>2. /\ {m * n, m + n, m - n, -n} \subseteq -Mod + 1 .. Mod - 1
      /\ n - 0 \in -Mod + 1 .. Mod - 1
  BY <1>1, FieldAssumption
<1>. QED
  BY <1>1, <1>2

-----------------------------------------------------------------------------
(* Inverses. *)
LEMMA InverseIs ==
    ASSUME NEW x \in Field, NEW left \in Field
    PROVE  A!Inverse(x, left) \in Field /\ (x # 0 => Equivalent(x * A!Inverse(x, left), 1))
<1>1. CASE x = 0
  BY <1>1, Prime DEF A!Inverse
<1>2. CASE x # 0
  <2>1. x \in 1 .. Mod - 1 /\ A!Field = Field
    BY <1>2, Prime DEF A!Field
  <2>2. \E y \in Field : (x * y) % Mod = 1
    BY <2>1, FieldAssumption
  <2>. DEFINE y == CHOOSE y \in Field : (x * y) % Mod = 1
  <2>3. y \in Field /\ (x * y) % Mod = 1
    BY <2>2
  <2>4. A!Inverse(x, left) = y
    BY <1>2, <2>1 DEF A!Inverse
  <2>. HIDE DEF y
  <2>5. x * y \in Int
    BY <2>1, <2>3, Prime
  <2>6. Equivalent(1, x * y)
    BY <2>3, <2>5, Residue
  <2>7. Equivalent(x * y, 1)
    BY <2>5, <2>6, Turned
  <2>. QED
    BY <2>3, <2>4, <2>7
<1>. QED
  BY <1>1, <1>2

LEMMA OneInverse ==
    ASSUME NEW x \in Field, NEW left \in Field, NEW y \in Int, Equivalent(x * y, 1)
    PROVE  A!Inverse(x, left) = y % Mod
<1>. DEFINE z == A!Inverse(x, left)
<1>1. x \in Int /\ x * y \in Int
  BY Prime
<1>2. x # 0
  <2>1. ASSUME x = 0 PROVE FALSE
    <3>1. x * y = 0
      BY <2>1
    <3>2. Equivalent(0, 1)
      BY <3>1
    <3>. QED
      BY <3>2, OneElement, Prime
  <2>. QED
    BY <2>1
<1>3. z \in Field /\ z \in Int /\ Equivalent(x * z, 1)
  BY <1>2, InverseIs, ElementIsResidue
<1>4. x * z \in Int /\ (x * y) * z = (x * z) * y /\ 1 * z = z /\ 1 * y = y
  BY <1>1, <1>3
<1>. HIDE DEF z
<1>5. Equivalent((x * y) * z, 1 * z)
  <2>1. Equivalent(z, z)
    BY <1>3, Itself
  <2>. QED
    BY <1>1, <1>3, <2>1, EquivalentResults
<1>6. Equivalent((x * z) * y, 1 * y)
  <2>1. Equivalent(y, y)
    BY Itself
  <2>. QED
    BY <1>3, <1>4, <2>1, EquivalentResults
<1>7. (x * y) * z \in Int
  BY <1>1, <1>3
<1>8. Equivalent(z, (x * y) * z) /\ Equivalent((x * y) * z, y)
  BY <1>3, <1>4, <1>5, <1>6, <1>7, Turned
<1>9. Equivalent(z, y)
  BY <1>3, <1>7, <1>8, Chained
<1>. QED
  BY <1>3, <1>9, ResidueIs DEF z

LEMMA InverseMeans ==
    ASSUME NEW a \in Field, NEW left \in Field
    PROVE  /\ inv(a, left) \in Field
           /\ \E other \in Field : FromWords(inv(a, left)) = A!Inverse(FromWords(a), other)
<1>. DEFINE w == inv(a, left)  u == FromWords(a)
<1>1. /\ a \in Int /\ R \in Int /\ R3 \in Int /\ Equivalent(R3, (R * R) * R)
      /\ u \in Field /\ u \in Int /\ Means(a, u)
  BY Radix, Corrections, FromWordsMeans, ElementIsResidue
<1>2. CASE a = 0
  <2>1. mpz_invert(a, left) = left /\ left \in Int
    BY <1>2, Prime DEF mpz_invert, A!Inverse
  <2>2. w = Fr_rawMMul(left, R3)
    BY <2>1 DEF inv
  <2>3. w \in Field /\ w \in Int
    BY <1>1, <2>1, <2>2, Reduction
  <2>4. 0 * RInverse = 0 /\ 0 % Mod = 0
    BY Radix, Prime
  <2>5. u = 0
    BY <1>2, <2>4 DEF FromWords
  <2>6. FromWords(w) \in Field
    BY <2>3, FromWordsMeans
  <2>7. A!Inverse(0, FromWords(w)) = FromWords(w)
    BY DEF A!Inverse
  <2>. HIDE DEF u, w
  <2>. QED
    BY <2>3, <2>5, <2>6, <2>7, Zenon DEF u, w
<1>3. CASE a # 0
  <2>. DEFINE y == A!Inverse(a, left)
  <2>1. y \in Field /\ y \in Int /\ Equivalent(a * y, 1)
    BY <1>3, InverseIs, ElementIsResidue
  <2>2. w = Fr_rawMMul(y, R3)
    BY <1>3 DEF inv, mpz_invert
  <2>. HIDE DEF y, u, w
  <2>3. w \in Field /\ w \in Int /\ Equivalent(w * R, y * R3)
    BY <1>1, <2>1, <2>2, Reduction
  <2>4. Means(w, y * R)
    <3>1. R * R \in Int /\ (R * R) * R \in Int /\ y * R3 \in Int /\ w * R \in Int
          /\ y * R \in Int /\ (y * R) * R \in Int /\ ((y * R) * R) * R \in Int
          /\ y * ((R * R) * R) = ((y * R) * R) * R
      BY <1>1, <2>1, <2>3
    <3>2. Equivalent(y * R3, y * ((R * R) * R))
      <4>1. Equivalent(y, y)
        BY <2>1, Itself
      <4>. QED
        BY <1>1, <2>1, <3>1, <4>1, EquivalentResults
    <3>3. Equivalent(w * R, ((y * R) * R) * R)
      BY <2>3, <3>1, <3>2, Chained
    <3>. QED
      BY <2>3, <3>1, <3>3, Cancelled DEF Means
  <2>5. Equivalent(u * (y * R), 1)
    <3>1. u * R \in Int /\ a * y \in Int /\ y * R \in Int /\ u * (y * R) \in Int /\ (u * R) * y = u * (y * R)
      BY <1>1, <2>1
    <3>2. Equivalent(u * R, a)
      BY <1>1, <3>1, Turned DEF Means
    <3>3. Equivalent((u * R) * y, a * y)
      <4>1. Equivalent(y, y)
        BY <2>1, Itself
      <4>. QED
        BY <1>1, <2>1, <3>1, <3>2, <4>1, EquivalentResults
    <3>. QED
      BY <2>1, <3>1, <3>3, Chained
  <2>6. y * R \in Int
    BY <1>1, <2>1
  <2>7. A!Inverse(u, left) = (y * R) % Mod
    BY <1>1, <2>5, <2>6, OneInverse
  <2>8. FromWords(w) = (y * R) % Mod
    BY <2>4, FromWordsIs
  <2>. QED
    BY <2>3, <2>7, <2>8, Zenon DEF u, w
<1>. QED
  BY <1>2, <1>3

-----------------------------------------------------------------------------
(* Powers. *)
LEMMA SameAlgebra ==
    /\ A!Field = Field /\ Promise!Field = Field
    /\ \A x, left : Promise!Inverse(x, left) = A!Inverse(x, left)
    /\ \A x, n : Promise!Power(x, n) = A!Power(x, n)
<1>1. A!Field = Field /\ Promise!Field = Field
  BY DEF Field, A!Field, Promise!Field
<1>2. \A x, left : Promise!Inverse(x, left) = A!Inverse(x, left)
  BY DEF Promise!Inverse, A!Inverse, Promise!Field, A!Field
<1>3. \A x, n : Promise!Power(x, n) = A!Power(x, n)
  BY DEF A!Power, Promise!Power
<1>. QED
  BY <1>1, <1>2, <1>3

(* The powers up to the n-th. *)
Powers(x, n) == CHOOSE p : p = [m \in 0 .. n |-> IF m = 0 THEN 1 ELSE (x * p[m - 1]) % Mod]

LEMMA PowerIsLast == ASSUME NEW x, NEW n PROVE A!Power(x, n) = Powers(x, n)[n]
BY DEF A!Power, Powers

LEMMA PowersAre ==
    ASSUME NEW x \in Field, NEW n \in Nat
    PROVE  /\ Powers(x, n)[0] = 1
           /\ \A m \in 1 .. n : Powers(x, n)[m] = (x * Powers(x, n)[m - 1]) % Mod
           /\ \A m \in 0 .. n : Powers(x, n)[m] \in Field
<1>. DEFINE Body(p) == [m \in 0 .. n |-> IF m = 0 THEN 1 ELSE (x * p[m - 1]) % Mod]
            step == [m \in 1 .. n |-> [v \in Field |-> (x * v) % Mod]]
<1>1. ASSUME NEW v \in Field PROVE (x * v) % Mod \in Field
  <2>1. x * v \in Int
    BY Prime
  <2>. QED
    BY <2>1, Residue
<1>2. step \in [1 .. n -> [Field -> Field]] /\ 1 \in Field
  BY <1>1, Prime
<1>. HIDE DEF step
<1>3. PICK p \in [0 .. n -> Field] : IsLoop(p, n, 1, step)
  BY <1>2, LoopExists
<1>4. ASSUME NEW m \in 1 .. n PROVE p[m] = (x * p[m - 1]) % Mod
  <2>1. m - 1 \in 0 .. n
    OBVIOUS
  <2>2. p[m - 1] \in Field
    BY <2>1
  <2>. QED
    BY <1>3, <2>2 DEF step, IsLoop
<1>5. p = Body(p)
  <2>1. \A m \in 0 .. n : p[m] = Body(p)[m]
    <3>1. ASSUME NEW m \in 0 .. n PROVE p[m] = Body(p)[m]
      <4>1. CASE m = 0
        BY <1>3, <4>1 DEF IsLoop
      <4>2. CASE m # 0
        BY <1>4, <4>2
      <4>. QED
        BY <4>1, <4>2
    <3>. QED
      BY <3>1
  <2>. QED
    BY <2>1
<1>6. Powers(x, n) = Body(Powers(x, n))
  BY <1>5 DEF Powers
<1>. DEFINE q == Powers(x, n)
<1>. HIDE DEF q
<1>7. q[0] = 1 /\ \A m \in 1 .. n : q[m] = (x * q[m - 1]) % Mod
  <2>1. q = Body(q)
    BY <1>6 DEF q
  <2>2. Body(q)[0] = 1
    OBVIOUS
  <2>3. \A m \in 1 .. n : Body(q)[m] = (x * q[m - 1]) % Mod
    OBVIOUS
  <2>. HIDE DEF Body
  <2>. QED
    BY <2>1, <2>2, <2>3, Zenon
<1>8. \A m \in 0 .. n : q[m] \in Field
  <2>. DEFINE T == {m \in 0 .. n : q[m] \in Field}
  <2>1. 0 \in T
    BY <1>2, <1>7
  <2>2. ASSUME NEW m \in 1 .. n, m - 1 \in T PROVE m \in T
    <3>1. q[m] = (x * q[m - 1]) % Mod
      BY <1>7
    <3>. QED
      BY <1>1, <2>2, <3>1
  <2>. HIDE DEF T
  <2>3. \A m \in 0 .. n : m \in T
    BY <2>1, <2>2, CountUp
  <2>. QED
    BY <2>3 DEF T
<1>. QED
  BY <1>7, <1>8 DEF q

LEMMA PowerIs ==
    ASSUME NEW x \in Field, NEW n \in Nat
    PROVE  /\ A!Power(x, n) \in Field
           /\ A!Power(x, 0) = 1
           /\ n # 0 => A!Power(x, n) = (x * A!Power(x, n - 1)) % Mod
<1>1. A!Power(x, n) \in Field
  BY PowersAre, PowerIsLast
<1>2. A!Power(x, 0) = 1
  <2>1. 0 \in Nat
    OBVIOUS
  <2>. QED
    BY <2>1, PowersAre, PowerIsLast
<1>3. ASSUME n # 0 PROVE A!Power(x, n) = (x * A!Power(x, n - 1)) % Mod
  <2>. DEFINE p == Powers(x, n)  q == Powers(x, n - 1)
              T == {m \in 0 .. n - 1 : p[m] = q[m]}
  <2>1. n - 1 \in Nat
    BY <1>3
  <2>2. p[0] = 1 /\ \A m \in 1 .. n : p[m] = (x * p[m - 1]) % Mod
    BY PowersAre
  <2>3. q[0] = 1 /\ \A m \in 1 .. n - 1 : q[m] = (x * q[m - 1]) % Mod
    BY <2>1, PowersAre
  <2>. HIDE DEF p, q
  <2>4. 0 \in T
    BY <2>1, <2>2, <2>3
  <2>5. ASSUME NEW m \in 1 .. n - 1, m - 1 \in T PROVE m \in T
    <3>1. m \in 1 .. n /\ m \in 0 .. n - 1
      OBVIOUS
    <3>2. p[m] = (x * p[m - 1]) % Mod /\ q[m] = (x * q[m - 1]) % Mod
      BY <2>2, <2>3, <3>1
    <3>3. p[m - 1] = q[m - 1]
      BY <2>5
    <3>4. p[m] = q[m]
      BY <3>2, <3>3, Zenon
    <3>. QED
      BY <3>1, <3>4
  <2>. HIDE DEF T
  <2>6. \A m \in 0 .. n - 1 : m \in T
    BY <2>1, <2>4, <2>5, CountUp
  <2>7. p[n - 1] = q[n - 1]
    BY <2>1, <2>6 DEF T
  <2>8. p[n] = (x * p[n - 1]) % Mod
    BY <1>3, <2>2
  <2>9. p[n] = (x * q[n - 1]) % Mod
    BY <2>7, <2>8, Zenon
  <2>. QED
    BY <2>9, PowerIsLast, Zenon DEF p, q
<1>. QED
  BY <1>1, <1>2, <1>3

(* The product of two powers. *)
LEMMA PowersMultiply ==
    ASSUME NEW x \in Field, NEW m \in Nat, NEW n \in Nat
    PROVE  Equivalent(A!Power(x, m + n), A!Power(x, m) * A!Power(x, n))
<1>. DEFINE y == A!Power(x, m)
            T == {i \in 0 .. n : Equivalent(A!Power(x, m + i), y * A!Power(x, i))}
<1>1. y \in Field /\ y \in Int /\ x \in Int
  BY PowerIs, ElementIsResidue
<1>. HIDE DEF y
<1>2. 0 \in T
  <2>1. m + 0 = m /\ y * 1 = y /\ A!Power(x, 0) = 1 /\ Equivalent(y, y)
    BY <1>1, PowerIs, Itself
  <2>2. Equivalent(A!Power(x, m + 0), y * A!Power(x, 0))
    BY <2>1, Zenon DEF y
  <2>. QED
    BY <2>2
<1>3. ASSUME NEW i \in 1 .. n, i - 1 \in T PROVE i \in T
  <2>. DEFINE big == A!Power(x, m + (i - 1))  part == A!Power(x, i - 1)
  <2>1. i \in Nat /\ i - 1 \in Nat /\ i # 0 /\ m + (i - 1) \in Nat /\ m + i \in Nat /\ m + i # 0
        /\ (m + i) - 1 = m + (i - 1)
    OBVIOUS
  <2>2. big \in Int /\ part \in Int
    BY <2>1, PowerIs, ElementIsResidue
  <2>3. A!Power(x, m + i) = (x * big) % Mod
    BY <2>1, PowerIs, Zenon
  <2>4. A!Power(x, i) = (x * part) % Mod
    BY <2>1, PowerIs, Zenon
  <2>5. Equivalent(big, y * part)
    BY <1>3
  <2>. HIDE DEF big, part
  <2>6. x * big \in Int /\ x * part \in Int /\ y * part \in Int /\ x * (y * part) \in Int
        /\ y * (x * part) \in Int /\ x * (y * part) = y * (x * part)
    BY <1>1, <2>2
  <2>7. Equivalent(x * big, x * (y * part))
    <3>1. Equivalent(x, x)
      BY <1>1, Itself
    <3>. QED
      BY <1>1, <2>2, <2>5, <2>6, <3>1, EquivalentResults
  <2>8. (x * big) % Mod \in Int /\ Equivalent((x * big) % Mod, x * big)
    BY <2>6, Residue, ElementIsResidue
  <2>9. (x * part) % Mod \in Int /\ Equivalent((x * part) % Mod, x * part)
    BY <2>6, Residue, ElementIsResidue
  <2>10. Equivalent((x * big) % Mod, y * (x * part))
    BY <2>6, <2>7, <2>8, Chained
  <2>11. y * ((x * part) % Mod) \in Int /\ Equivalent(y * (x * part), y * ((x * part) % Mod))
    <3>1. Equivalent(y, y) /\ Equivalent(x * part, (x * part) % Mod)
      BY <1>1, <2>6, <2>9, Itself, Turned
    <3>2. y * ((x * part) % Mod) \in Int
      <4>. DEFINE r == (x * part) % Mod
      <4>1. r \in Int
        BY <2>9
      <4>. HIDE DEF r
      <4>2. y * r \in Int
        BY <1>1, <4>1
      <4>. QED
        BY <4>2 DEF r
    <3>. QED
      BY <1>1, <2>6, <2>9, <3>1, <3>2, EquivalentResults
  <2>12. Equivalent((x * big) % Mod, y * ((x * part) % Mod))
    BY <2>6, <2>8, <2>10, <2>11, Chained
  <2>13. Equivalent(A!Power(x, m + i), y * A!Power(x, i))
    BY <2>3, <2>4, <2>12, Zenon
  <2>. QED
    BY <2>13
<1>4. n \in T
  <2>. HIDE DEF T
  <2>1. \A i \in 0 .. n : i \in T
    BY <1>2, <1>3, CountUp
  <2>. QED
    BY <2>1
<1>. QED
  BY <1>4 DEF y

-----------------------------------------------------------------------------
(* Digits. *)
LEMMA DigitsAreASequence ==
    ASSUME NEW n \in Nat, NEW S, NEW digits \in [1 .. n -> S]
    PROVE  Len(digits) = n /\ \A i \in 1 .. n : digits[i] \in S
<1>1. digits \in Seq(S)
  OBVIOUS
<1>. QED
  BY <1>1

(* The numbers that the first digits denote. *)
Prefixes(digits, base, n) ==
    CHOOSE f : f = [i \in 0 .. n |-> IF i = 0 THEN 0 ELSE base * f[i - 1] + digits[i]]

LEMMA NumeralIsLast ==
    ASSUME NEW n \in Nat, NEW S, NEW digits \in [1 .. n -> S], NEW base
    PROVE  Numeral(digits, base) = Prefixes(digits, base, n)[n]
<1>1. Len(digits) = n
  BY DigitsAreASequence
<1>2. Numeral(digits, base) = Prefixes(digits, base, Len(digits))[Len(digits)]
  BY DEF Numeral, Prefixes
<1>. QED
  BY <1>1, <1>2, Zenon

LEMMA PrefixesAre ==
    ASSUME NEW n \in Nat, NEW digits \in [1 .. n -> Nat], NEW base \in Nat
    PROVE  /\ Prefixes(digits, base, n)[0] = 0
           /\ \A i \in 1 .. n : Prefixes(digits, base, n)[i] = base * Prefixes(digits, base, n)[i - 1] + digits[i]
           /\ \A i \in 0 .. n : Prefixes(digits, base, n)[i] \in Nat
<1>. DEFINE Body(f) == [i \in 0 .. n |-> IF i = 0 THEN 0 ELSE base * f[i - 1] + digits[i]]
            step == [i \in 1 .. n |-> [v \in Nat |-> base * v + digits[i]]]
<1>1. ASSUME NEW v \in Nat, NEW i \in 1 .. n PROVE base * v + digits[i] \in Nat
  <2>1. digits[i] \in Nat /\ base * v \in Nat
    OBVIOUS
  <2>. QED
    BY <2>1
<1>2. step \in [1 .. n -> [Nat -> Nat]] /\ 0 \in Nat
  BY <1>1
<1>. HIDE DEF step
<1>3. PICK f \in [0 .. n -> Nat] : IsLoop(f, n, 0, step)
  BY <1>2, LoopExists
<1>4. ASSUME NEW i \in 1 .. n PROVE f[i] = base * f[i - 1] + digits[i]
  <2>1. i - 1 \in 0 .. n
    OBVIOUS
  <2>2. f[i - 1] \in Nat
    BY <2>1
  <2>3. step[i][f[i - 1]] = base * f[i - 1] + digits[i]
    BY <2>2 DEF step
  <2>. QED
    BY <1>3, <2>3 DEF IsLoop
<1>5. f = Body(f)
  <2>1. ASSUME NEW i \in 0 .. n PROVE f[i] = Body(f)[i]
    <3>1. CASE i = 0
      BY <1>3, <3>1 DEF IsLoop
    <3>2. CASE i # 0
      BY <1>4, <3>2
    <3>. QED
      BY <3>1, <3>2
  <2>2. \A i \in 0 .. n : f[i] = Body(f)[i]
    BY <2>1
  <2>. QED
    BY <2>2
<1>6. Prefixes(digits, base, n) = Body(Prefixes(digits, base, n))
  BY <1>5 DEF Prefixes
<1>. DEFINE q == Prefixes(digits, base, n)
<1>. HIDE DEF q
<1>7. q[0] = 0 /\ \A i \in 1 .. n : q[i] = base * q[i - 1] + digits[i]
  <2>1. q = Body(q)
    BY <1>6 DEF q
  <2>2. Body(q)[0] = 0
    OBVIOUS
  <2>3. \A i \in 1 .. n : Body(q)[i] = base * q[i - 1] + digits[i]
    OBVIOUS
  <2>. HIDE DEF Body
  <2>. QED
    BY <2>1, <2>2, <2>3, Zenon
<1>8. \A i \in 0 .. n : q[i] \in Nat
  <2>. DEFINE T == {i \in 0 .. n : q[i] \in Nat}
  <2>1. 0 \in T
    BY <1>7
  <2>2. ASSUME NEW i \in 1 .. n, i - 1 \in T PROVE i \in T
    <3>1. q[i] = base * q[i - 1] + digits[i]
      BY <1>7
    <3>2. q[i] \in Nat
      BY <1>1, <2>2, <3>1
    <3>. QED
      BY <3>2
  <2>. HIDE DEF T
  <2>3. \A i \in 0 .. n : i \in T
    BY <2>1, <2>2, CountUp
  <2>. QED
    BY <2>3 DEF T
<1>. QED
  BY <1>7, <1>8 DEF q

-----------------------------------------------------------------------------
(* Square and multiply. *)
Accumulator(base, acc, b) ==
    IF ~acc.oneFound THEN IF b = 1 THEN [oneFound |-> TRUE, r |-> base] ELSE acc
    ELSE [acc EXCEPT !.r = IF b = 1 THEN Fr_rawMMul(Fr_rawMMul(@, @), base) ELSE Fr_rawMMul(@, @)]
Rounds(base, bits, n) ==
    CHOOSE f : f = [i \in 0 .. n |->
        IF i = 0 THEN [oneFound |-> FALSE, r |-> base] ELSE Accumulator(base, f[i - 1], bits[i])]
Accumulators == [oneFound : BOOLEAN, r : Field]

LEMMA ExpIsLast ==
    ASSUME NEW n \in Nat, NEW S, NEW bits \in [1 .. n -> S], NEW base
    PROVE  LET end == Rounds(base, bits, n)[n]
           IN exp(base, bits) = IF end.oneFound THEN end.r ELSE Fr_rawToMontgomery(1)
<1>1. Len(bits) = n
  BY DigitsAreASequence
<1>2. LET end == Rounds(base, bits, Len(bits))[Len(bits)]
      IN exp(base, bits) = IF end.oneFound THEN end.r ELSE Fr_rawToMontgomery(1)
  BY DEF exp, Rounds, Accumulator
<1>. QED
  BY <1>1, <1>2, Zenon

LEMMA AccumulatorTyped ==
    ASSUME NEW base \in Field, NEW acc \in Accumulators, NEW b
    PROVE  Accumulator(base, acc, b) \in Accumulators
<1>1. acc.r \in Int /\ base \in Int
  BY ElementIsResidue DEF Accumulators
<1>2. Fr_rawMMul(acc.r, acc.r) \in Field
  BY <1>1, Reduction
<1>3. Fr_rawMMul(acc.r, acc.r) \in Int
  BY <1>2, ElementIsResidue
<1>4. Fr_rawMMul(Fr_rawMMul(acc.r, acc.r), base) \in Field
  BY <1>1, <1>3, Reduction
<1>. QED
  BY <1>2, <1>4 DEF Accumulator, Accumulators

LEMMA RoundsAre ==
    ASSUME NEW n \in Nat, NEW base \in Field, NEW bits
    PROVE  /\ Rounds(base, bits, n)[0] = [oneFound |-> FALSE, r |-> base]
           /\ \A i \in 1 .. n :
                  Rounds(base, bits, n)[i] = Accumulator(base, Rounds(base, bits, n)[i - 1], bits[i])
           /\ \A i \in 0 .. n : Rounds(base, bits, n)[i] \in Accumulators
<1>. DEFINE first == [oneFound |-> FALSE, r |-> base]
            Body(f) == [i \in 0 .. n |-> IF i = 0 THEN first ELSE Accumulator(base, f[i - 1], bits[i])]
            step == [i \in 1 .. n |-> [v \in Accumulators |-> Accumulator(base, v, bits[i])]]
<1>1. first \in Accumulators
  BY DEF Accumulators
<1>2. step \in [1 .. n -> [Accumulators -> Accumulators]]
  BY AccumulatorTyped
<1>. HIDE DEF step, first
<1>3. PICK f \in [0 .. n -> Accumulators] : IsLoop(f, n, first, step)
  BY <1>1, <1>2, LoopExists
<1>4. ASSUME NEW i \in 1 .. n PROVE f[i] = Accumulator(base, f[i - 1], bits[i])
  <2>1. i - 1 \in 0 .. n
    OBVIOUS
  <2>2. f[i - 1] \in Accumulators
    BY <2>1
  <2>3. step[i][f[i - 1]] = Accumulator(base, f[i - 1], bits[i])
    BY <2>2 DEF step
  <2>. QED
    BY <1>3, <2>3 DEF IsLoop
<1>5. f = Body(f)
  <2>1. ASSUME NEW i \in 0 .. n PROVE f[i] = Body(f)[i]
    <3>1. CASE i = 0
      BY <1>3, <3>1 DEF IsLoop
    <3>2. CASE i # 0
      BY <1>4, <3>2
    <3>. QED
      BY <3>1, <3>2
  <2>2. \A i \in 0 .. n : f[i] = Body(f)[i]
    BY <2>1
  <2>. QED
    BY <2>2
<1>6. Rounds(base, bits, n) = Body(Rounds(base, bits, n))
  BY <1>5 DEF Rounds, first
<1>. DEFINE q == Rounds(base, bits, n)
<1>. HIDE DEF q
<1>7. q[0] = first /\ \A i \in 1 .. n : q[i] = Accumulator(base, q[i - 1], bits[i])
  <2>1. q = Body(q)
    BY <1>6 DEF q
  <2>2. Body(q)[0] = first
    OBVIOUS
  <2>3. \A i \in 1 .. n : Body(q)[i] = Accumulator(base, q[i - 1], bits[i])
    OBVIOUS
  <2>. HIDE DEF Body
  <2>. QED
    BY <2>1, <2>2, <2>3, Zenon
<1>8. \A i \in 0 .. n : q[i] \in Accumulators
  <2>. DEFINE T == {i \in 0 .. n : q[i] \in Accumulators}
  <2>1. 0 \in T
    BY <1>1, <1>7
  <2>2. ASSUME NEW i \in 1 .. n, i - 1 \in T PROVE i \in T
    BY <1>7, <2>2, AccumulatorTyped
  <2>. HIDE DEF T
  <2>3. \A i \in 0 .. n : i \in T
    BY <2>1, <2>2, CountUp
  <2>. QED
    BY <2>3 DEF T
<1>. QED
  BY <1>7, <1>8 DEF q, first

LEMMA PowerOfOne == ASSUME NEW x \in Field PROVE A!Power(x, 1) = x
<1>1. 1 \in Nat /\ 1 # 0 /\ 1 - 1 = 0 /\ x * 1 = x /\ x % Mod = x
  BY Prime
<1>2. A!Power(x, 1) = (x * A!Power(x, 1 - 1)) % Mod /\ A!Power(x, 0) = 1
  BY <1>1, PowerIs
<1>. QED
  BY <1>1, <1>2, Zenon

(* After the bits so far the accumulator is the power by the number they     *)
(* denote, unless that is 0.                                                 *)
LEMMA RoundPower ==
    ASSUME NEW base \in Field, NEW acc \in Accumulators, NEW n \in Nat, NEW b \in {0, 1},
           NEW x \in Field, x = FromWords(base),
           acc.oneFound <=> n # 0, acc.oneFound => Means(acc.r, A!Power(x, n))
    PROVE  LET next == Accumulator(base, acc, b)
           IN /\ next.oneFound <=> 2 * n + b # 0
              /\ next.oneFound => Means(next.r, A!Power(x, 2 * n + b))
<1>. DEFINE next == Accumulator(base, acc, b)
<1>1. Means(base, x) /\ base \in Int /\ x \in Int
  BY FromWordsMeans, ElementIsResidue
<1>2. CASE ~acc.oneFound
  <2>1. n = 0
    BY <1>2
  <2>2. CASE b = 1
    <3>1. next = [oneFound |-> TRUE, r |-> base] /\ 2 * n + b = 1
      BY <1>2, <2>1, <2>2 DEF Accumulator
    <3>2. A!Power(x, 1) = x
      BY PowerOfOne
    <3>. QED
      BY <1>1, <3>1, <3>2
  <2>3. CASE b = 0
    <3>1. next = acc /\ 2 * n + b = 0
      BY <1>2, <2>1, <2>3 DEF Accumulator
    <3>. QED
      BY <1>2, <3>1
  <2>. QED
    BY <2>2, <2>3
<1>3. CASE acc.oneFound
  <2>. DEFINE p == A!Power(x, n)  square == Fr_rawMMul(acc.r, acc.r)  twice == A!Power(x, n + n)
  <2>1. p \in Field /\ p \in Int /\ Means(acc.r, p) /\ n + n \in Nat /\ n # 0 /\ 2 * n + 0 = n + n
        /\ 2 * n + 1 \in Nat /\ 2 * n + 1 # 0 /\ (2 * n + 1) - 1 = n + n /\ n + n # 0
    BY <1>3, PowerIs, ElementIsResidue
  <2>2. twice \in Field /\ twice \in Int
    BY <2>1, PowerIs, ElementIsResidue
  <2>3. Equivalent(twice, p * p)
    BY PowersMultiply
  <2>4. next.oneFound
    BY <1>3 DEF Accumulator, Accumulators
  <2>. HIDE DEF p, square, twice
  <2>5. Means(square, p * p)
    BY <2>1, ProductMeans DEF square
  <2>6. Means(square, twice)
    <3>1. p * p \in Int /\ R \in Int /\ square \in Int
      BY <2>1, <2>5, Radix DEF Means
    <3>2. (p * p) * R \in Int /\ twice * R \in Int
      BY <2>2, <3>1
    <3>3. Equivalent(p * p, twice) /\ Equivalent(R, R)
      BY <2>2, <2>3, <3>1, Turned, Itself
    <3>4. Equivalent((p * p) * R, twice * R)
      BY <2>2, <3>1, <3>3, EquivalentResults
    <3>5. Equivalent(square, twice * R)
      BY <2>5, <3>1, <3>2, <3>4, Chained DEF Means
    <3>. QED
      BY <2>2, <3>1, <3>5 DEF Means
  <2>7. CASE b = 0
    <3>1. next.r = square
      BY <1>3, <2>7 DEF Accumulator, Accumulators, square
    <3>2. A!Power(x, 2 * n + b) = twice
      BY <2>1, <2>7, Zenon DEF twice
    <3>. QED
      BY <2>1, <2>4, <2>6, <2>7, <3>1, <3>2
  <2>8. CASE b = 1
    <3>1. next.r = Fr_rawMMul(square, base)
      BY <1>3, <2>8 DEF Accumulator, Accumulators, square
    <3>2. Means(next.r, twice * x)
      BY <1>1, <2>6, <3>1, ProductMeans
    <3>3. A!Power(x, 2 * n + b) = (x * twice) % Mod
      <4>1. A!Power(x, 2 * n + 1) = (x * A!Power(x, (2 * n + 1) - 1)) % Mod
        BY <2>1, PowerIs
      <4>. QED
        BY <2>1, <2>8, <4>1, Zenon DEF twice
    <3>4. x * twice = twice * x /\ twice * x \in Int
      BY <1>1, <2>2
    <3>5. Means(next.r, (twice * x) % Mod)
      <4>1. FromWords(next.r) = (twice * x) % Mod /\ next.r \in Int
        BY <3>2, FromWordsIs DEF Means
      <4>2. Means(next.r, FromWords(next.r))
        BY <4>1, FromWordsMeans
      <4>. QED
        BY <4>1, <4>2
    <3>. QED
      BY <2>1, <2>4, <2>8, <3>3, <3>4, <3>5
  <2>. QED
    BY <2>7, <2>8
<1>. QED
  BY <1>2, <1>3

LEMMA ExpMeans ==
    ASSUME NEW base \in Field, NEW bits \in [1 .. ScalarBits -> {0, 1}]
    PROVE  exp(base, bits) \in Field /\ FromWords(exp(base, bits)) = A!Power(FromWords(base), Binary(bits))
<1>. DEFINE n == ScalarBits  x == FromWords(base)
            e == Prefixes(bits, 2, n)  acc == Rounds(base, bits, n)
            Holds(i) == /\ acc[i].oneFound <=> e[i] # 0
                        /\ acc[i].oneFound => Means(acc[i].r, A!Power(x, e[i]))
            T == {i \in 0 .. n : Holds(i)}
<1>1. n \in Nat /\ bits \in [1 .. n -> Nat] /\ 2 \in Nat
  BY WordAssumption
<1>2. x \in Field /\ x \in Int /\ Means(base, x)
  BY FromWordsMeans, ElementIsResidue
<1>3. /\ e[0] = 0 /\ \A i \in 1 .. n : e[i] = 2 * e[i - 1] + bits[i]
      /\ \A i \in 0 .. n : e[i] \in Nat
  BY <1>1, PrefixesAre
<1>4. /\ acc[0] = [oneFound |-> FALSE, r |-> base]
      /\ \A i \in 1 .. n : acc[i] = Accumulator(base, acc[i - 1], bits[i])
      /\ \A i \in 0 .. n : acc[i] \in Accumulators
  BY <1>1, RoundsAre
<1>5. Binary(bits) = e[n]
  BY <1>1, NumeralIsLast DEF Binary
<1>6. exp(base, bits) = IF acc[n].oneFound THEN acc[n].r ELSE Fr_rawToMontgomery(1)
  BY <1>1, ExpIsLast
<1>. HIDE DEF n, e, acc
<1>7. Holds(0)
  BY <1>3, <1>4
<1>8. ASSUME NEW i \in 1 .. n, Holds(i - 1) PROVE Holds(i)
  <2>1. i - 1 \in 0 .. n
    BY <1>1
  <2>2. e[i - 1] \in Nat /\ acc[i - 1] \in Accumulators /\ bits[i] \in {0, 1}
    BY <1>3, <1>4, <2>1 DEF n
  <2>3. LET next == Accumulator(base, acc[i - 1], bits[i])
        IN /\ next.oneFound <=> 2 * e[i - 1] + bits[i] # 0
           /\ next.oneFound => Means(next.r, A!Power(x, 2 * e[i - 1] + bits[i]))
    <3>. DEFINE before == acc[i - 1]  number == e[i - 1]  b == bits[i]
    <3>1. before \in Accumulators /\ number \in Nat /\ b \in {0, 1} /\ x \in Field /\ x = FromWords(base)
      BY <1>2, <2>2
    <3>2. (before.oneFound <=> number # 0) /\ (before.oneFound => Means(before.r, A!Power(x, number)))
      BY <1>8
    <3>. HIDE DEF before, number, b, x
    <3>3. LET next == Accumulator(base, before, b)
          IN /\ next.oneFound <=> 2 * number + b # 0
             /\ next.oneFound => Means(next.r, A!Power(x, 2 * number + b))
      BY <3>1, <3>2, RoundPower, Zenon
    <3>. QED
      BY <3>3 DEF before, number, b
  <2>4. acc[i] = Accumulator(base, acc[i - 1], bits[i]) /\ e[i] = 2 * e[i - 1] + bits[i]
    BY <1>3, <1>4
  <2>. QED
    BY <2>3, <2>4, Zenon
<1>9. Holds(n)
  <2>. HIDE DEF Holds
  <2>1. 0 \in 0 .. n
    BY <1>1
  <2>2. 0 \in T
    BY <1>7, <2>1
  <2>3. ASSUME NEW i \in 1 .. n, i - 1 \in T PROVE i \in T
    BY <1>1, <1>8, <2>3
  <2>. HIDE DEF T
  <2>4. \A i \in 0 .. n : i \in T
    BY <1>1, <2>2, <2>3, CountUp
  <2>5. n \in T
    BY <1>1, <2>4
  <2>. QED
    BY <2>5 DEF T
<1>10. n \in 0 .. n
  BY <1>1
<1>11. acc[n] \in Accumulators /\ e[n] \in Nat
  BY <1>3, <1>4, <1>10
<1>12. CASE acc[n].oneFound
  <2>1. Means(acc[n].r, A!Power(x, e[n])) /\ exp(base, bits) = acc[n].r
    BY <1>6, <1>9, <1>12
  <2>2. acc[n].r \in Field /\ A!Power(x, e[n]) \in Field
    BY <1>2, <1>11, PowerIs DEF Accumulators
  <2>3. FromWords(acc[n].r) = A!Power(x, e[n]) % Mod
    BY <2>1, FromWordsIs
  <2>4. A!Power(x, e[n]) % Mod = A!Power(x, e[n])
    BY <2>2, ElementIsResidue
  <2>. QED
    BY <1>5, <2>1, <2>2, <2>3, <2>4, Zenon
<1>13. CASE ~acc[n].oneFound
  <2>1. e[n] = 0 /\ exp(base, bits) = Fr_rawToMontgomery(1)
    BY <1>6, <1>9, <1>13
  <2>2. Fr_rawToMontgomery(1) \in Field /\ Means(Fr_rawToMontgomery(1), 1)
    BY ToMontgomeryMeans
  <2>3. FromWords(Fr_rawToMontgomery(1)) = 1 % Mod
    BY <2>2, FromWordsIs
  <2>4. 1 % Mod = 1
    BY Prime, ElementIsResidue
  <2>5. A!Power(x, 0) = 1
    BY <1>2, PowerIs
  <2>. QED
    BY <1>5, <2>1, <2>2, <2>3, <2>4, <2>5, Zenon
<1>. QED
  BY <1>12, <1>13

-----------------------------------------------------------------------------
(* Elements in their four formats. *)
Num(e) ==
    CASE e.type \in {"SHORT", "SHORTMONTGOMERY"} -> e.shortVal % Mod
      [] e.type = "LONG" -> e.longVal
      [] e.type = "LONGMONTGOMERY" -> FromWords(e.longVal)
Proper(e) ==
    /\ e \in [type : Type, shortVal : Small, longVal : Field]
    /\ e.type = "SHORTMONTGOMERY" => e.longVal = (e.shortVal * R) % Mod

LEMMA NumCases ==
    ASSUME NEW e, Proper(e)
    PROVE  /\ e.type \in {"SHORT", "SHORTMONTGOMERY", "LONG", "LONGMONTGOMERY"}
           /\ e.type = "SHORT" => Num(e) = e.shortVal % Mod
           /\ e.type = "SHORTMONTGOMERY" => Num(e) = e.shortVal % Mod
           /\ e.type = "LONG" => Num(e) = e.longVal
           /\ e.type = "LONGMONTGOMERY" => Num(e) = FromWords(e.longVal)
BY DEF Proper, Num, Type

LEMMA NumIs ==
    ASSUME NEW e, Proper(e)
    PROVE  /\ Num(e) \in Field /\ Num(e) \in Int
           /\ e.shortVal \in Small /\ e.shortVal \in Int /\ e.longVal \in Field /\ e.longVal \in Int
<1>1. e.shortVal \in Small /\ e.shortVal \in Int /\ e.longVal \in Field /\ e.longVal \in Int
  BY SmallRange, ElementIsResidue DEF Proper
<1>2. e.shortVal % Mod \in Field /\ FromWords(e.longVal) \in Field
  BY <1>1, Residue, FromWordsMeans
<1>3. Num(e) \in Field
  BY <1>1, <1>2, NumCases
<1>. QED
  BY <1>1, <1>3, ElementIsResidue

(* Elements that the functions make. *)
LEMMA NewElements ==
    ASSUME NEW n \in Field
    PROVE  /\ Proper(Long(n)) /\ Num(Long(n)) = n
           /\ Proper(LongMontgomery(n)) /\ Num(LongMontgomery(n)) = FromWords(n)
<1>1. 0 \in Small
  BY FieldAssumption
<1>. QED
  BY <1>1 DEF Proper, Long, LongMontgomery, Num, Type

LEMMA FittedIs ==
    ASSUME NEW n \in -Mod + 1 .. Mod - 1
    PROVE  Proper(Fitted(n)) /\ Num(Fitted(n)) = n % Mod
<1>1. CASE n \in Small
  BY <1>1, Prime DEF Fitted, Proper, Num, Type
<1>2. CASE n \notin Small
  <2>1. Fitted(n) = Long(Lifted(n))
    BY <1>2 DEF Fitted
  <2>. QED
    BY <2>1, LiftedIs, NewElements
<1>. QED
  BY <1>1, <1>2

LEMMA FromMpzIs ==
    ASSUME NEW e, Proper(e), NEW v \in Field
    PROVE  Proper(Fr_fromMpz(e, v)) /\ Num(Fr_fromMpz(e, v)) = v
<1>1. v % Mod = v
  BY ElementIsResidue
<1>2. CASE v \in Small
  BY <1>1, <1>2 DEF Fr_fromMpz, Proper, Num, Type
<1>3. CASE v \notin Small
  BY <1>3 DEF Fr_fromMpz, Proper, Num, Type
<1>. QED
  BY <1>2, <1>3

LEMMA ToNormalIs ==
    ASSUME NEW e, Proper(e)
    PROVE  /\ Proper(Fr_toNormal(e)) /\ Num(Fr_toNormal(e)) = Num(e)
           /\ Fr_toNormal(e).type # "LONGMONTGOMERY"
           /\ IsLong(Fr_toNormal(e)) <=> IsLong(e)
<1>1. CASE e.type = "LONGMONTGOMERY"
  <2>. DEFINE n == FromWords(e.longVal)  f == [e EXCEPT !.type = "LONG", !.longVal = n]
  <2>1. n \in Field /\ n = Num(e) /\ Fr_rawFromMontgomery(e.longVal) = n
    BY <1>1, NumIs, NumCases, FromWordsMeans, FromMontgomeryIs
  <2>2. Fr_toNormal(e) = f
    BY <1>1, <2>1 DEF Fr_toNormal
  <2>. HIDE DEF n
  <2>3. Proper(f) /\ f.type = "LONG" /\ f.longVal = n
    BY <2>1 DEF Proper, Type
  <2>4. Num(f) = n
    BY <2>3, NumCases
  <2>. QED
    BY <1>1, <2>1, <2>2, <2>3, <2>4 DEF IsLong
<1>2. CASE e.type # "LONGMONTGOMERY"
  BY <1>2 DEF Fr_toNormal
<1>. QED
  BY <1>1, <1>2

LEMMA ToMontgomeryElement ==
    ASSUME NEW e, Proper(e)
    PROVE  LET f == Fr_toMontgomery(e)
           IN /\ Proper(f) /\ Num(f) = Num(e) /\ Means(f.longVal, Num(e)) /\ f.longVal \in Field
<1>. DEFINE u == e.shortVal  w == e.longVal
<1>1. u \in Small /\ u \in Int /\ w \in Field /\ w \in Int /\ Num(e) \in Field /\ Num(e) \in Int
  BY NumIs
<1>2. ASSUME NEW m \in Field, Means(m, u) PROVE Means(m, u % Mod)
  <2>1. m \in Int /\ FromWords(m) = u % Mod
    BY <1>2, FromWordsIs, ElementIsResidue
  <2>2. Means(m, FromWords(m))
    BY <2>1, FromWordsMeans
  <2>. QED
    BY <2>1, <2>2, Zenon
<1>3. /\ Fr_rawToMontgomery(u) \in Field /\ Means(Fr_rawToMontgomery(u), u)
      /\ Fr_rawToMontgomery(u) = (u * R) % Mod
  BY <1>1, ToMontgomeryMeans, ToMontgomeryIs
<1>4. CASE e.type = "SHORTMONTGOMERY"
  <2>1. w = Fr_rawToMontgomery(u) /\ Num(e) = u % Mod
    BY <1>3, <1>4, NumCases DEF Proper
  <2>2. Means(w, u % Mod)
    BY <1>2, <1>3, <2>1
  <2>3. Fr_toMontgomery(e) = e
    BY <1>4 DEF Fr_toMontgomery, IsMontgomery
  <2>. QED
    BY <1>1, <2>1, <2>2, <2>3
<1>5. CASE e.type = "LONGMONTGOMERY"
  <2>1. Num(e) = FromWords(w) /\ Fr_toMontgomery(e) = e
    BY <1>5, NumCases DEF Fr_toMontgomery, IsMontgomery
  <2>2. Means(w, FromWords(w))
    BY <1>1, FromWordsMeans
  <2>. QED
    BY <1>1, <2>1, <2>2
<1>6. CASE e.type = "LONG"
  <2>. DEFINE m == Fr_rawToMontgomery(w)  f == [e EXCEPT !.type = "LONGMONTGOMERY", !.longVal = m]
  <2>1. Num(e) = w /\ Fr_toMontgomery(e) = f
    BY <1>6, NumCases DEF Fr_toMontgomery, IsMontgomery, IsLong
  <2>2. m \in Field /\ Means(m, w)
    BY <1>1, ToMontgomeryMeans
  <2>. HIDE DEF m
  <2>3. Proper(f) /\ f.type = "LONGMONTGOMERY" /\ f.longVal = m
    BY <2>2 DEF Proper, Type
  <2>4. Num(f) = FromWords(m)
    BY <2>3, NumCases
  <2>5. FromWords(m) = w % Mod /\ w % Mod = w
    BY <1>1, <2>2, FromWordsIs, ElementIsResidue
  <2>. QED
    BY <2>1, <2>2, <2>3, <2>4, <2>5
<1>7. CASE e.type = "SHORT"
  <2>. DEFINE m == Fr_rawToMontgomery(u)  f == [e EXCEPT !.type = "SHORTMONTGOMERY", !.longVal = m]
  <2>1. Num(e) = u % Mod /\ Fr_toMontgomery(e) = f
    BY <1>7, NumCases DEF Fr_toMontgomery, IsMontgomery, IsLong
  <2>2. m \in Field /\ Means(m, u % Mod) /\ m = (u * R) % Mod
    BY <1>2, <1>3
  <2>. HIDE DEF m
  <2>3. Proper(f) /\ f.type = "SHORTMONTGOMERY" /\ f.longVal = m /\ f.shortVal = u
    BY <2>2 DEF Proper, Type
  <2>4. Num(f) = u % Mod
    BY <2>3, NumCases
  <2>. QED
    BY <2>1, <2>2, <2>3, <2>4
<1>. QED
  BY <1>4, <1>5, <1>6, <1>7, NumCases

LEMMA ToMpzIs == ASSUME NEW e, Proper(e) PROVE Fr_toMpz(e) = Num(e)
<1>. DEFINE tmp == Fr_toNormal(e)
<1>1. Proper(tmp) /\ Num(tmp) = Num(e) /\ tmp.type # "LONGMONTGOMERY"
  BY ToNormalIs
<1>2. Fr_toMpz(e) = IF ~IsLong(tmp) THEN Lifted(tmp.shortVal) ELSE tmp.longVal
  BY DEF Fr_toMpz
<1>. HIDE DEF tmp
<1>3. Lifted(tmp.shortVal) = tmp.shortVal % Mod
  BY <1>1, NumIs, SmallRange, LiftedIs
<1>4. CASE IsLong(tmp)
  BY <1>1, <1>2, <1>4, NumCases DEF IsLong
<1>5. CASE ~IsLong(tmp)
  BY <1>1, <1>2, <1>3, <1>5, NumCases DEF IsLong
<1>. QED
  BY <1>4, <1>5

(* What is printed. *)
LEMMA TextIs == ASSUME NEW e, Proper(e) PROVE Text(e) = Num(e)
<1>. DEFINE tmp == Fr_toNormal(e)
<1>1. Proper(tmp) /\ Num(tmp) = Num(e) /\ tmp.type # "LONGMONTGOMERY" /\ (IsLong(tmp) <=> IsLong(e))
  BY ToNormalIs
<1>2. Text(e) = IF IsLong(e) THEN tmp.longVal ELSE Lifted(e.shortVal)
  BY DEF Text
<1>. HIDE DEF tmp
<1>3. Lifted(e.shortVal) = e.shortVal % Mod
  BY NumIs, SmallRange, LiftedIs
<1>4. CASE IsLong(e)
  <2>1. tmp.type = "LONG"
    BY <1>1, <1>4, NumCases DEF IsLong
  <2>. QED
    BY <1>1, <1>2, <1>4, <2>1, NumCases
<1>5. CASE ~IsLong(e)
  BY <1>2, <1>3, <1>5, NumCases DEF IsLong
<1>. QED
  BY <1>4, <1>5

LEMMA SumsOfResidues ==
    ASSUME NEW m \in Int, NEW n \in Int
    PROVE  /\ ((m % Mod) + (n % Mod)) % Mod = (m + n) % Mod
           /\ ((m % Mod) - (n % Mod)) % Mod = (m - n) % Mod
           /\ (-(m % Mod)) % Mod = (-m) % Mod
           /\ ((m % Mod) * (n % Mod)) % Mod = (m * n) % Mod
<1>. DEFINE x == m % Mod  y == n % Mod
<1>1. x \in Int /\ Equivalent(x, m) /\ y \in Int /\ Equivalent(y, n) /\ 0 \in Int /\ Equivalent(0, 0)
  BY Residue, ElementIsResidue, Itself
<1>. HIDE DEF x, y
<1>2. Equivalent(x + y, m + n) /\ Equivalent(x - y, m - n) /\ Equivalent(x * y, m * n)
  BY <1>1, EquivalentResults
<1>3. Equivalent(0 - x, 0 - m)
  BY <1>1, EquivalentResults
<1>4. 0 - x = -x /\ 0 - m = -m
  BY <1>1
<1>5. /\ x + y \in Int /\ x - y \in Int /\ x * y \in Int /\ -x \in Int
      /\ m + n \in Int /\ m - n \in Int /\ m * n \in Int /\ -m \in Int
  BY <1>1
<1>6. (x + y) % Mod = (m + n) % Mod
  BY <1>2, <1>5, EqualResidues
<1>7. (x - y) % Mod = (m - n) % Mod
  BY <1>2, <1>5, EqualResidues
<1>8. (x * y) % Mod = (m * n) % Mod
  BY <1>2, <1>5, EqualResidues
<1>9. (-x) % Mod = (-m) % Mod
  BY <1>3, <1>4, <1>5, EqualResidues
<1>10. ((m % Mod) + (n % Mod)) % Mod = (m + n) % Mod
  BY <1>6 DEF x, y
<1>11. ((m % Mod) - (n % Mod)) % Mod = (m - n) % Mod
  BY <1>7 DEF x, y
<1>12. ((m % Mod) * (n % Mod)) % Mod = (m * n) % Mod
  BY <1>8 DEF x, y
<1>13. (-(m % Mod)) % Mod = (-m) % Mod
  BY <1>9 DEF x, y
<1>. QED
  BY <1>10, <1>11, <1>12, <1>13

(* The operations on elements.  Whatever place the result is written to,      *)
(* it is an element; away from the operands, it is the right one.            *)
LEMMA MontgomeryWordsAre ==
    ASSUME NEW e, Proper(e), NEW isResult \in BOOLEAN
    PROVE  /\ MontgomeryWords(e, isResult) \in Field
           /\ ~isResult => Means(MontgomeryWords(e, isResult), Num(e))
<1>1. Fr_toMontgomery(e).longVal \in Field /\ Means(Fr_toMontgomery(e).longVal, Num(e)) /\ e.longVal \in Field
  BY ToMontgomeryElement, NumIs
<1>. QED
  BY <1>1 DEF MontgomeryWords

LEMMA NormalWordsAre ==
    ASSUME NEW e, Proper(e), e.type # "LONGMONTGOMERY"
    PROVE  NormalWords(e) = Num(e) /\ NormalWords(e) \in Field
<1>1. Lifted(e.shortVal) = e.shortVal % Mod
  BY NumIs, SmallRange, LiftedIs
<1>2. NormalWords(e) = Num(e)
  BY <1>1, NumCases DEF NormalWords, IsLong
<1>. QED
  BY <1>2, NumIs

LEMMA ShortIsSmall ==
    ASSUME NEW a, NEW b, Proper(a), Proper(b), ~IsLong(a), ~IsLong(b)
    PROVE  LET m == a.shortVal  n == b.shortVal
           IN /\ Num(a) = m % Mod /\ Num(b) = n % Mod /\ m \in Int /\ n \in Int
              /\ m + n \in -Mod + 1 .. Mod - 1 /\ m - n \in -Mod + 1 .. Mod - 1
              /\ m * n \in -Mod + 1 .. Mod - 1 /\ -m \in -Mod + 1 .. Mod - 1
<1>1. a.shortVal \in Small /\ b.shortVal \in Small
  BY NumIs
<1>2. Num(a) = a.shortVal % Mod /\ Num(b) = b.shortVal % Mod
  BY NumCases DEF IsLong
<1>. QED
  BY <1>1, <1>2, SmallRange

LEMMA AddIs ==
    ASSUME NEW a, NEW b, Proper(a), Proper(b), NEW r
    PROVE  /\ Proper(Fr_add(a, b, r))
           /\ r = "apart" => Num(Fr_add(a, b, r)) = (Num(a) + Num(b)) % Mod
<1>1. CASE ~IsLong(a) /\ ~IsLong(b)
  <2>. DEFINE m == a.shortVal  n == b.shortVal
  <2>1. Fr_add(a, b, r) = Fitted(m + n)
    BY <1>1 DEF Fr_add
  <2>2. /\ Num(a) = m % Mod /\ Num(b) = n % Mod /\ m \in Int /\ n \in Int
        /\ m + n \in -Mod + 1 .. Mod - 1
    BY <1>1, ShortIsSmall
  <2>. HIDE DEF m, n
  <2>3. ((m % Mod) + (n % Mod)) % Mod = (m + n) % Mod
    BY <2>2, SumsOfResidues
  <2>4. Proper(Fitted(m + n)) /\ Num(Fitted(m + n)) = (m + n) % Mod
    BY <2>2, FittedIs
  <2>. QED
    BY <2>1, <2>2, <2>3, <2>4, Zenon
<1>2. CASE (IsLong(a) \/ IsLong(b)) /\ "LONGMONTGOMERY" \in {a.type, b.type}
  <2>. DEFINE x == MontgomeryWords(a, r = "first")  y == MontgomeryWords(b, r = "second")
           z == Fr_rawAdd(x, y)
  <2>1. Fr_add(a, b, r) = LongMontgomery(z)
    BY <1>2 DEF Fr_add, Combined
  <2>2. x \in Field /\ y \in Field /\ (r = "apart" => Means(x, Num(a)) /\ Means(y, Num(b)))
    BY MontgomeryWordsAre
  <2>. HIDE DEF x, y
  <2>3. z \in Field /\ (r = "apart" => Means(z, Num(a) + Num(b)))
    BY <2>2, SumsAreElements, SumsMean
  <2>. QED
    BY <2>1, <2>3, FromWordsIs, NewElements
<1>3. CASE (IsLong(a) \/ IsLong(b)) /\ "LONGMONTGOMERY" \notin {a.type, b.type}
  <2>. DEFINE x == NormalWords(a)  y == NormalWords(b)  z == Fr_rawAdd(x, y)
  <2>1. Fr_add(a, b, r) = Long(z)
    BY <1>3 DEF Fr_add, Combined
  <2>2. x = Num(a) /\ y = Num(b) /\ x \in Field /\ y \in Field /\ x + y \in Int
    BY <1>3, NormalWordsAre, NumIs
  <2>. HIDE DEF x, y
  <2>3. z \in Field /\ Equivalent(z, x + y)
    BY <2>2, SumsAreElements
  <2>4. z = (x + y) % Mod
    BY <2>2, <2>3, ResidueIs
  <2>. QED
    BY <2>1, <2>2, <2>3, <2>4, NewElements
<1>. QED
  BY <1>1, <1>2, <1>3

LEMMA SubIs ==
    ASSUME NEW a, NEW b, Proper(a), Proper(b), NEW r
    PROVE  /\ Proper(Fr_sub(a, b, r))
           /\ r = "apart" => Num(Fr_sub(a, b, r)) = (Num(a) - Num(b)) % Mod
<1>1. CASE ~IsLong(a) /\ ~IsLong(b)
  <2>. DEFINE m == a.shortVal  n == b.shortVal
  <2>1. Fr_sub(a, b, r) = Fitted(m - n)
    BY <1>1 DEF Fr_sub
  <2>2. /\ Num(a) = m % Mod /\ Num(b) = n % Mod /\ m \in Int /\ n \in Int
        /\ m - n \in -Mod + 1 .. Mod - 1
    BY <1>1, ShortIsSmall
  <2>. HIDE DEF m, n
  <2>3. ((m % Mod) - (n % Mod)) % Mod = (m - n) % Mod
    BY <2>2, SumsOfResidues
  <2>4. Proper(Fitted(m - n)) /\ Num(Fitted(m - n)) = (m - n) % Mod
    BY <2>2, FittedIs
  <2>. QED
    BY <2>1, <2>2, <2>3, <2>4, Zenon
<1>2. CASE (IsLong(a) \/ IsLong(b)) /\ ~SubtractsItself(a, b, r) /\ "LONGMONTGOMERY" \in {a.type, b.type}
  <2>. DEFINE x == MontgomeryWords(a, r = "first")  y == MontgomeryWords(b, r = "second")
           z == Fr_rawSub(x, y)
  <2>1. Fr_sub(a, b, r) = LongMontgomery(z)
    BY <1>2 DEF Fr_sub, Combined
  <2>2. x \in Field /\ y \in Field /\ (r = "apart" => Means(x, Num(a)) /\ Means(y, Num(b)))
    BY MontgomeryWordsAre
  <2>. HIDE DEF x, y
  <2>3. z \in Field /\ (r = "apart" => Means(z, Num(a) - Num(b)))
    BY <2>2, SumsAreElements, SumsMean
  <2>. QED
    BY <2>1, <2>3, FromWordsIs, NewElements
<1>3. CASE (IsLong(a) \/ IsLong(b)) /\ ~SubtractsItself(a, b, r) /\ "LONGMONTGOMERY" \notin {a.type, b.type}
  <2>. DEFINE x == NormalWords(a)  y == NormalWords(b)  z == Fr_rawSub(x, y)
  <2>1. Fr_sub(a, b, r) = Long(z)
    BY <1>3 DEF Fr_sub, Combined
  <2>2. x = Num(a) /\ y = Num(b) /\ x \in Field /\ y \in Field /\ x - y \in Int
    BY <1>3, NormalWordsAre, NumIs
  <2>. HIDE DEF x, y
  <2>3. z \in Field /\ Equivalent(z, x - y)
    BY <2>2, SumsAreElements
  <2>4. z = (x - y) % Mod
    BY <2>2, <2>3, ResidueIs
  <2>. QED
    BY <2>1, <2>2, <2>3, <2>4, NewElements
<1>4. CASE SubtractsItself(a, b, r)
  <2>1. r # "apart" /\ Fr_sub(a, b, r) = Long(0)
    BY <1>4 DEF Fr_sub, SubtractsItself, IsLong
  <2>. QED
    BY <2>1, NewElements, Prime
<1>. QED
  BY <1>1, <1>2, <1>3, <1>4

LEMMA NegIs ==
    ASSUME NEW a, Proper(a)
    PROVE  Proper(Fr_neg(a)) /\ Num(Fr_neg(a)) = (-Num(a)) % Mod
<1>1. CASE ~IsLong(a)
  <2>. DEFINE m == a.shortVal
  <2>1. Fr_neg(a) = Fitted(-m)
    BY <1>1 DEF Fr_neg
  <2>2. Num(a) = m % Mod /\ m \in Int /\ -m \in -Mod + 1 .. Mod - 1
    BY <1>1, ShortIsSmall
  <2>. HIDE DEF m
  <2>3. (-(m % Mod)) % Mod = (-m) % Mod
    BY <2>2, SumsOfResidues
  <2>4. Proper(Fitted(-m)) /\ Num(Fitted(-m)) = (-m) % Mod
    BY <2>2, FittedIs
  <2>. QED
    BY <2>1, <2>2, <2>3, <2>4, Zenon
<1>2. CASE IsLong(a)
  <2>. DEFINE w == a.longVal  z == Fr_rawNeg(w)  f == [a EXCEPT !.longVal = z]
  <2>1. Fr_neg(a) = f
    BY <1>2 DEF Fr_neg
  <2>2. w \in Field /\ w \in Int /\ z \in Field /\ Equivalent(z, -w) /\ -w \in Int
    BY NumIs, SumsAreElements
  <2>. HIDE DEF z
  <2>3. Proper(f) /\ f.type = a.type /\ f.longVal = z
    BY <1>2, <2>2 DEF Proper, IsLong
  <2>4. CASE a.type = "LONG"
    <3>1. Num(f) = z /\ Num(a) = w
      BY <2>3, <2>4, NumCases
    <3>2. z = (-w) % Mod
      BY <2>2, ResidueIs
    <3>. QED
      BY <2>1, <2>3, <3>1, <3>2, Zenon
  <2>5. CASE a.type = "LONGMONTGOMERY"
    <3>1. Num(f) = FromWords(z) /\ Num(a) = FromWords(w)
      BY <2>3, <2>5, NumCases
    <3>2. Means(w, FromWords(w))
      BY <2>2, FromWordsMeans
    <3>3. Means(z, -FromWords(w))
      BY <2>2, <3>2, SumsMean DEF z
    <3>4. FromWords(z) = (-FromWords(w)) % Mod
      BY <3>3, FromWordsIs
    <3>. QED
      BY <2>1, <2>3, <3>1, <3>4, Zenon
  <2>. QED
    BY <1>2, <2>4, <2>5 DEF IsLong
<1>. QED
  BY <1>1, <1>2

(* What a multiplication reads of an operand. *)
LEMMA WordsAre ==
    ASSUME NEW e, Proper(e)
    PROVE  /\ Words(e) \in Int
           /\ IsMontgomery(e) => Means(Words(e), Num(e))
           /\ ~IsMontgomery(e) => Words(e) = Num(e)
<1>1. CASE IsMontgomery(e)
  <2>1. Fr_toMontgomery(e) = e /\ Words(e) = e.longVal
    BY <1>1 DEF Fr_toMontgomery, IsMontgomery, Words
  <2>2. Means(e.longVal, Num(e)) /\ e.longVal \in Int
    BY <2>1, ToMontgomeryElement, NumIs
  <2>. QED
    BY <1>1, <2>1, <2>2
<1>2. CASE ~IsMontgomery(e)
  <2>1. Lifted(e.shortVal) = e.shortVal % Mod
    BY NumIs, SmallRange, LiftedIs
  <2>2. Words(e) = Num(e)
    BY <1>2, <2>1, NumCases DEF IsMontgomery, Words
  <2>. QED
    BY <1>2, <2>2, NumIs
<1>. QED
  BY <1>1, <1>2

LEMMA MulIs ==
    ASSUME NEW a, NEW b, Proper(a), Proper(b)
    PROVE  Proper(Fr_mul(a, b)) /\ Num(Fr_mul(a, b)) = (Num(a) * Num(b)) % Mod
<1>. DEFINE x == Words(a)  y == Words(b)  u == Num(a)  v == Num(b)  product == Fr_rawMMul(x, y)
<1>1. /\ u \in Int /\ v \in Int /\ x \in Int /\ y \in Int
      /\ IsMontgomery(a) => Means(x, u)
      /\ ~IsMontgomery(a) => x = u
      /\ IsMontgomery(b) => Means(y, v)
      /\ ~IsMontgomery(b) => y = v
  BY WordsAre, NumIs
<1>2. u * v \in Int
  BY <1>1
<1>3. Fr_mul(a, b) =
        IF ~IsLong(a) /\ ~IsLong(b) THEN Long(Lifted(a.shortVal * b.shortVal))
        ELSE IF IsMontgomery(a) # IsMontgomery(b) THEN Long(product)
        ELSE LongMontgomery(IF IsMontgomery(a) THEN product ELSE Fr_rawMMul(product, R3))
  BY DEF Fr_mul
<1>4. IsMontgomery(a) \in BOOLEAN /\ IsMontgomery(b) \in BOOLEAN
  BY DEF IsMontgomery
<1>5. product \in Field /\ product \in Int
  BY <1>1, Reduction
<1>6. CASE ~IsLong(a) /\ ~IsLong(b)
  <2>. DEFINE m == a.shortVal  n == b.shortVal
  <2>1. /\ u = m % Mod /\ v = n % Mod /\ m \in Int /\ n \in Int
        /\ m * n \in -Mod + 1 .. Mod - 1
    BY <1>6, ShortIsSmall
  <2>2. Fr_mul(a, b) = Long(Lifted(m * n))
    BY <1>3, <1>6
  <2>. HIDE DEF m, n, u, v
  <2>3. Lifted(m * n) \in Field /\ Lifted(m * n) = (m * n) % Mod
    BY <2>1, LiftedIs
  <2>4. ((m % Mod) * (n % Mod)) % Mod = (m * n) % Mod
    BY <2>1, SumsOfResidues
  <2>5. Proper(Long(Lifted(m * n))) /\ Num(Long(Lifted(m * n))) = Lifted(m * n)
    BY <2>3, NewElements
  <2>. QED
    BY <2>1, <2>2, <2>3, <2>4, <2>5, Zenon DEF u, v
<1>7. CASE (IsLong(a) \/ IsLong(b)) /\ IsMontgomery(a) # IsMontgomery(b)
  <2>1. Fr_mul(a, b) = Long(product)
    BY <1>3, <1>7
  <2>2. Equivalent(product, u * v)
    <3>1. CASE IsMontgomery(a) /\ ~IsMontgomery(b)
      BY <1>1, <3>1, MixedProduct
    <3>2. CASE ~IsMontgomery(a) /\ IsMontgomery(b)
      <4>1. Equivalent(product, v * u)
        BY <1>1, <3>2, MixedProduct
      <4>2. v * u = u * v
        BY <1>1
      <4>. QED
        BY <4>1, <4>2
    <3>. QED
      BY <1>4, <1>7, <3>1, <3>2
  <2>. HIDE DEF product
  <2>3. product = (u * v) % Mod
    BY <1>2, <1>5, <2>2, ResidueIs
  <2>. QED
    BY <1>5, <2>1, <2>3, NewElements
<1>8. CASE (IsLong(a) \/ IsLong(b)) /\ IsMontgomery(a) /\ IsMontgomery(b)
  <2>1. Fr_mul(a, b) = LongMontgomery(product)
    BY <1>3, <1>4, <1>8
  <2>2. Means(product, u * v)
    BY <1>1, <1>8, ProductMeans
  <2>. HIDE DEF product
  <2>3. FromWords(product) = (u * v) % Mod
    BY <2>2, FromWordsIs
  <2>. QED
    BY <1>5, <2>1, <2>3, NewElements
<1>9. CASE (IsLong(a) \/ IsLong(b)) /\ ~IsMontgomery(a) /\ ~IsMontgomery(b)
  <2>. DEFINE corrected == Fr_rawMMul(product, R3)
  <2>1. Fr_mul(a, b) = LongMontgomery(corrected)
    BY <1>3, <1>4, <1>9
  <2>2. Means(corrected, u * v)
    BY <1>1, <1>9, CorrectedProduct
  <2>3. corrected \in Field
    BY <1>5, Corrections, Reduction
  <2>. HIDE DEF product, corrected
  <2>4. FromWords(corrected) = (u * v) % Mod
    BY <2>2, FromWordsIs
  <2>. QED
    BY <2>1, <2>3, <2>4, NewElements
<1>. QED
  BY <1>4, <1>6, <1>7, <1>8, <1>9

LEMMA InvIs ==
    ASSUME NEW e, NEW a, Proper(e), Proper(a), NEW left \in Field
    PROVE  Proper(Fr_inv(e, a, left)) /\ Num(Fr_inv(e, a, left)) = A!Inverse(Num(a), left)
<1>1. Fr_toMpz(a) = Num(a) /\ Num(a) \in Field
  BY ToMpzIs, NumIs
<1>2. mpz_invert(Num(a), left) = A!Inverse(Num(a), left) /\ A!Inverse(Num(a), left) \in Field
  BY <1>1, InverseIs DEF mpz_invert
<1>3. Fr_inv(e, a, left) = Fr_fromMpz(e, A!Inverse(Num(a), left))
  BY <1>1, <1>2 DEF Fr_inv
<1>. QED
  BY <1>2, <1>3, FromMpzIs

LEMMA DivIs ==
    ASSUME NEW a, NEW b, Proper(a), Proper(b), NEW left \in Field
    PROVE  /\ Proper(Fr_div(a, b, left))
           /\ Num(Fr_div(a, b, left)) = (Num(a) * A!Inverse(Num(b), left)) % Mod
<1>. DEFINE i == Fr_inv(Long(0), b, left)
<1>1. Proper(Long(0))
  BY NewElements, Prime
<1>2. Proper(i) /\ Num(i) = A!Inverse(Num(b), left)
  BY <1>1, InvIs
<1>3. Fr_div(a, b, left) = Fr_mul(a, i)
  BY DEF Fr_div
<1>. HIDE DEF i
<1>. QED
  BY <1>2, <1>3, MulIs

LEMMA OperandsAreProper == \A e \in Operand : Proper(e)
<1>1. ASSUME NEW n \in Small PROVE Proper([type |-> "SHORT", shortVal |-> n, longVal |-> 0])
  BY Prime DEF Proper, Type
<1>2. ASSUME NEW n \in Small
      PROVE  Proper([type |-> "SHORTMONTGOMERY", shortVal |-> n, longVal |-> Fr_rawToMontgomery(n)])
  <2>1. Fr_rawToMontgomery(n) \in Field /\ Fr_rawToMontgomery(n) = (n * R) % Mod
    BY SmallRange, ToMontgomeryMeans, ToMontgomeryIs
  <2>. QED
    BY <2>1 DEF Proper, Type
<1>3. ASSUME NEW e \in [type : {"LONG", "LONGMONTGOMERY"}, shortVal : {0}, longVal : Field]
      PROVE  Proper(e)
  <2>1. 0 \in Small
    BY FieldAssumption
  <2>. QED
    BY <2>1 DEF Proper, Type
<1>. QED
  BY <1>1, <1>2, <1>3 DEF Operand

-----------------------------------------------------------------------------
(* Words of a buffer. *)
Buffer == [1 .. Fr_N64 -> 0 .. Word - 1]

LEMMA ImportedIs ==
    ASSUME NEW buffer \in Buffer
    PROVE  /\ Imported(buffer) = Prefixes(buffer, Word, Fr_N64)[Fr_N64]
           /\ Prefixes(buffer, Word, Fr_N64)[0] = 0
           /\ \A i \in 1 .. Fr_N64 : Prefixes(buffer, Word, Fr_N64)[i] =
                  Word * Prefixes(buffer, Word, Fr_N64)[i - 1] + buffer[i]
           /\ \A i \in 0 .. Fr_N64 : Prefixes(buffer, Word, Fr_N64)[i] \in Nat
<1>1. Fr_N64 \in Nat /\ Word \in Nat
  BY WordAssumption
<1>2. buffer \in [1 .. Fr_N64 -> Nat]
  BY <1>1 DEF Buffer
<1>. QED
  BY <1>1, <1>2, PrefixesAre, NumeralIsLast DEF Imported

LEMMA ImportedFits ==
    ASSUME NEW buffer \in Buffer
    PROVE  Imported(buffer) \in 0 .. R - 1
<1>. DEFINE n == Fr_N64  f == Prefixes(buffer, Word, n)
            T == {i \in 0 .. n : f[i] < Word ^ i}
<1>1. n \in Nat /\ Word \in Nat /\ Word > 1 /\ (\A i \in 0 .. n : Word ^ i \in Nat \ {0}) /\ Word ^ 0 = 1
      /\ (\A i \in 1 .. n : Word ^ i = Word * Word ^ (i - 1)) /\ R = Word ^ n
  BY WordAssumption DEF R
<1>2. /\ Imported(buffer) = f[n] /\ f[0] = 0
      /\ \A i \in 1 .. n : f[i] = Word * f[i - 1] + buffer[i]
      /\ \A i \in 0 .. n : f[i] \in Nat
  BY ImportedIs
<1>3. \A i \in 1 .. n : buffer[i] \in 0 .. Word - 1
  BY DEF Buffer
<1>. HIDE DEF n, f
<1>4. 0 \in T
  BY <1>1, <1>2
<1>5. ASSUME NEW i \in 1 .. n, i - 1 \in T PROVE i \in T
  <2>. DEFINE low == f[i - 1]  power == Word ^ (i - 1)  d == buffer[i]
  <2>1. i - 1 \in 0 .. n /\ i \in 0 .. n
    BY <1>1
  <2>2. low \in Nat /\ power \in Nat /\ low < power /\ d \in 0 .. Word - 1
    BY <1>1, <1>2, <1>3, <1>5, <2>1
  <2>3. f[i] = Word * low + d /\ Word ^ i = Word * power
    BY <1>1, <1>2
  <2>. HIDE DEF low, power, d
  <2>4. Word * low + d < Word * power
    <3>1. Word * (low + 1) <= Word * power
      BY <1>1, <2>2
    <3>2. Word * (low + 1) = Word * low + Word
      BY <1>1, <2>2
    <3>3. Word * low \in Nat /\ Word * power \in Nat
      BY <1>1, <2>2
    <3>. QED
      BY <1>1, <2>2, <3>1, <3>2, <3>3
  <2>5. f[i] < Word ^ i
    BY <2>3, <2>4
  <2>. QED
    BY <2>1, <2>5
<1>6. f[n] < Word ^ n
  <2>. HIDE DEF T
  <2>1. \A i \in 0 .. n : i \in T
    BY <1>1, <1>4, <1>5, CountUp
  <2>2. n \in T
    BY <1>1, <2>1
  <2>. QED
    BY <2>2 DEF T
<1>7. f[n] \in Nat /\ R \in Nat
  BY <1>1, <1>2
<1>. QED
  BY <1>1, <1>2, <1>6, <1>7

(* The words a number has. *)
LEMMA DigitsAre ==
    ASSUME NEW n \in Nat, n < R
    PROVE  LET k == Digits(n)
           IN k \in 0 .. Fr_N64 /\ n < Word ^ k /\ (k = 0 \/ n >= Word ^ (k - 1))
<1>. DEFINE T == {k \in 0 .. Fr_N64 : n < Word ^ k}
<1>1. Fr_N64 \in Nat /\ \A k \in 0 .. Fr_N64 : Word ^ k \in Nat
  BY WordAssumption
<1>2. Fr_N64 \in T /\ T \in SUBSET Nat
  BY <1>1 DEF R
<1>. HIDE DEF T
<1>3. PICK k \in T : \A j \in T : k <= j
  BY <1>2, Least
<1>4. k \in 0 .. Fr_N64 /\ n < Word ^ k
  BY <1>3 DEF T
<1>5. ASSUME k # 0 PROVE n >= Word ^ (k - 1)
  <2>1. k - 1 \in 0 .. Fr_N64 /\ ~(k <= k - 1)
    BY <1>1, <1>4, <1>5
  <2>2. ~(n < Word ^ (k - 1))
    BY <1>3, <2>1 DEF T
  <2>3. Word ^ (k - 1) \in Nat
    BY <1>1, <2>1
  <2>. QED
    BY <2>2, <2>3
<1>6. \E j \in 0 .. Fr_N64 : n < Word ^ j /\ (j = 0 \/ n >= Word ^ (j - 1))
  BY <1>4, <1>5
<1>. QED
  BY <1>6 DEF Digits

LEMMA ExportedIsBuffer ==
    ASSUME NEW buffer \in Buffer, NEW n \in Nat, n < R
    PROVE  Exported(buffer, n) \in Buffer
<1>. DEFINE k == Digits(n)
<1>1. k \in 0 .. Fr_N64 /\ Fr_N64 \in Nat /\ Word \in Nat \ {0}
  BY DigitsAre, WordAssumption
<1>2. Exported(buffer, n) = [i \in 1 .. Fr_N64 |->
        IF i <= k THEN (n \div Word ^ (k - i)) % Word ELSE buffer[i]]
  BY DEF Exported
<1>. HIDE DEF k
<1>3. ASSUME NEW i \in 1 .. Fr_N64, i <= k PROVE (n \div Word ^ (k - i)) % Word \in 0 .. Word - 1
  <2>. DEFINE power == Word ^ (k - i)  q == n \div power
  <2>1. k - i \in 0 .. Fr_N64
    BY <1>1, <1>3
  <2>2. power \in Nat \ {0}
    BY <2>1, WordAssumption
  <2>. HIDE DEF power
  <2>3. q \in Int
    BY <2>2
  <2>. HIDE DEF q
  <2>4. q % Word \in 0 .. Word - 1
    BY <1>1, <2>3
  <2>. QED
    BY <2>4 DEF q, power
<1>4. ASSUME NEW i \in 1 .. Fr_N64 PROVE buffer[i] \in 0 .. Word - 1
  BY DEF Buffer
<1>. QED
  BY <1>2, <1>3, <1>4 DEF Buffer

-----------------------------------------------------------------------------
(* Steps. *)
LEMMA Applied ==
    ASSUME NEW x, NEW n, NEW left
    PROVE  /\ Promise!Apply("set", x, n, left) = n % Mod /\ Promise!Apply("keep", x, n, left) = x
           /\ Promise!Apply("add", x, n, left) = (x + n) % Mod /\ Promise!Apply("sub", x, n, left) = (x - n) % Mod
           /\ Promise!Apply("mul", x, n, left) = (x * n) % Mod /\ Promise!Apply("neg", x, n, left) = (-n) % Mod
           /\ Promise!Apply("div", x, n, left) = (x * A!Inverse(n, left)) % Mod
           /\ Promise!Apply("idiv", x, n, left) = x \div n /\ Promise!Apply("mod", x, n, left) = x % n
           /\ Promise!Apply("pow", x, n, left) = A!Power(x, n) /\ Promise!Apply("inv", x, n, left) = A!Inverse(n, left)
           /\ Promise!Apply("spoilt", x, n, left) = left
<1>1. /\ Promise!Apply("set", x, n, left) = n % Mod /\ Promise!Apply("keep", x, n, left) = x
      /\ Promise!Apply("add", x, n, left) = (x + n) % Mod /\ Promise!Apply("sub", x, n, left) = (x - n) % Mod
      /\ Promise!Apply("mul", x, n, left) = (x * n) % Mod /\ Promise!Apply("neg", x, n, left) = (-n) % Mod
      /\ Promise!Apply("spoilt", x, n, left) = left
  BY DEF Promise!Apply
<1>2. /\ Promise!Apply("div", x, n, left) = (x * Promise!Inverse(n, left)) % Mod
      /\ Promise!Apply("idiv", x, n, left) = x \div n /\ Promise!Apply("mod", x, n, left) = x % n
      /\ Promise!Apply("pow", x, n, left) = Promise!Power(x, n) /\ Promise!Apply("inv", x, n, left) = Promise!Inverse(n, left)
  BY DEF Promise!Apply
<1>3. Promise!Inverse(n, left) = A!Inverse(n, left) /\ Promise!Power(x, n) = A!Power(x, n)
  BY SameAlgebra
<1>. QED
  BY <1>1, <1>2, <1>3, Zenon

LEMMA ElementsAreNumbers ==
    /\ \A n \in Field : n \in Number
    /\ \A n \in Small : n \in Number
    /\ \A n \in 0 .. Word - 1 : n \in Number /\ n \in Int
    /\ \A n \in 0 .. R - 1 : n \in Number
    /\ \A n \in Number : n \in Int
BY FieldAssumption, Radix, Prime, WordAssumption

LEMMA TypeFacts == TypeOK => Proper(element) /\ raw \in Field /\ data \in Buffer
BY DEF TypeOK, Proper, Buffer

LEMMA ValueIs ==
    /\ api = "Fr" => Value = Num(element)
    /\ api = "RawFr" => Value = FromWords(raw)
BY DEF Value, Num, FromWords

LEMMA NextValueIs ==
    /\ api' = "Fr" => Value' = Num(element')
    /\ api' = "RawFr" => Value' = FromWords(raw')
BY DEF Value, Num, FromWords

(* A call of Fr that leaves a proper element with the promised number. *)
LEMMA FrStep ==
    ASSUME TypeOK, NEW op \in Promise!Op, NEW n \in Number, NEW e, Fr(op, n, e), Proper(e), NEW left \in Field,
           Num(e) = IF Promise!Fails(op, n) THEN Num(element) ELSE Promise!Apply(op, Num(element), n, left)
    PROVE  TypeOK' /\ Promise!Next
<1>1. api = "Fr" /\ api' = api /\ element' = e /\ call' = [op |-> op, arg |-> n] /\ raw' = raw /\ data' = data
  BY DEF Fr
<1>2. TypeOK'
  BY <1>1 DEF TypeOK, Proper
<1>3. Value = Num(element) /\ Value' = Num(e)
  BY <1>1, ValueIs, NextValueIs
<1>4. Promise!Compute(op, n)
  <2>1. CASE Promise!Fails(op, n)
    <3>1. Value' = Value
      BY <1>3, <2>1
    <3>. QED
      BY <1>1, <2>1, <3>1 DEF Promise!Compute
  <2>2. CASE ~Promise!Fails(op, n)
    <3>1. Value' = Promise!Apply(op, Value, n, left) /\ left \in Promise!Field
      BY <1>3, <2>2, SameAlgebra
    <3>. QED
      BY <1>1, <2>2, <3>1 DEF Promise!Compute
  <2>. QED
    BY <2>1, <2>2
<1>. QED
  BY <1>2, <1>4 DEF Promise!Next

(* A call of Fr that leaves a proper element. *)
LEMMA FrTyped ==
    ASSUME TypeOK, NEW op, NEW n, NEW e, Fr(op, n, e), Proper(e)
    PROVE  TypeOK'
BY DEF TypeOK, Proper, Fr

(* The same as FrStep for a call of RawFr. *)
LEMMA RawStep ==
    ASSUME TypeOK, NEW op \in Promise!Op, NEW n \in Number, NEW a \in Field, Raw(op, n, a), NEW left \in Field,
           op \notin {"idiv", "mod"}, FromWords(a) = Promise!Apply(op, FromWords(raw), n, left), data' \in Buffer
    PROVE  TypeOK' /\ Promise!Next
<1>1. api = "RawFr" /\ api' = api /\ element' = element /\ call' = [op |-> op, arg |-> n] /\ raw' = a
  BY DEF Raw
<1>2. TypeOK'
  BY <1>1 DEF TypeOK, Buffer
<1>3. Value = FromWords(raw) /\ Value' = FromWords(a)
  BY <1>1, ValueIs, NextValueIs
<1>4. Promise!Compute(op, n)
  <2>1. ~Promise!Fails(op, n)
    BY DEF Promise!Fails
  <2>2. Value' = Promise!Apply(op, Value, n, left) /\ left \in Promise!Field
    BY <1>3, SameAlgebra
  <2>. QED
    BY <1>1, <2>1, <2>2 DEF Promise!Compute
<1>. QED
  BY <1>2, <1>4 DEF Promise!Next

LEMMA Operations ==
  \A op \in {"set", "keep", "add", "sub", "mul", "neg", "div", "idiv", "mod", "pow", "inv", "spoilt"} :
    op \in Promise!Op /\ (op \notin {"idiv", "mod"} => \A n : ~Promise!Fails(op, n))
BY DEF Promise!Op, Promise!Fails

(* A result in the place of an operand that needs no conversion is the one    *)
(* that would have been computed apart.                                      *)
LEMMA UnspoiltAsApart ==
    ASSUME NEW a, NEW b, NEW r \in Place, ~Spoils(a, b, r)
    PROVE  /\ Fr_add(a, b, r) = Fr_add(a, b, "apart")
           /\ ~SubtractsItself(a, b, r) => Fr_sub(a, b, r) = Fr_sub(a, b, "apart")
<1>1. \A e : IsMontgomery(e) => Fr_toMontgomery(e) = e
  BY DEF Fr_toMontgomery
<1>2. CASE "LONGMONTGOMERY" \in {a.type, b.type}
  <2>1. MontgomeryWords(a, r = "first") = MontgomeryWords(a, FALSE)
    BY <1>1, <1>2 DEF MontgomeryWords, Spoils
  <2>2. MontgomeryWords(b, r = "second") = MontgomeryWords(b, FALSE)
    BY <1>1, <1>2 DEF MontgomeryWords, Spoils
  <2>3. ("apart" = "first") = FALSE /\ ("apart" = "second") = FALSE
    OBVIOUS
  <2>. QED
    BY <1>2, <2>1, <2>2, <2>3 DEF Fr_add, Fr_sub, Combined, SubtractsItself
<1>3. CASE "LONGMONTGOMERY" \notin {a.type, b.type}
  BY <1>3 DEF Fr_add, Fr_sub, Combined, SubtractsItself
<1>. QED
  BY <1>2, <1>3

LEMMA ArithmeticSteps ==
    ASSUME TypeOK,
           AddElement \/ SubtractElement \/ NegateElement \/ MultiplyElement \/ InvertElement \/ DivideElement
    PROVE  TypeOK' /\ Promise!Next
<1>1. Proper(element)
  BY TypeFacts
<1>2. ASSUME NEW b \in Operand PROVE Proper(b) /\ Fr_toMpz(b) = Num(b) /\ Num(b) \in Number
  BY OperandsAreProper, ToMpzIs, NumIs, ElementsAreNumbers
<1>0. 0 \in Field
  BY Prime
<1>3. CASE AddElement
  <2>1. PICK b \in Operand, r \in Place :
          Fr(IF Spoils(element, b, r) THEN "spoilt" ELSE "add",
             Fr_toMpz(b), Fr_add(element, b, r))
    BY <1>3 DEF AddElement
  <2>2. Proper(Fr_add(element, b, r))
    BY <1>1, <1>2, AddIs
  <2>3. CASE Spoils(element, b, r)
    <3>1. Fr("spoilt", Num(b), Fr_add(element, b, r))
      BY <1>2, <2>1, <2>3
    <3>2. Num(Fr_add(element, b, r)) \in Field
      BY <2>2, NumIs
    <3>. QED
      BY <1>2, <2>2, <3>1, <3>2, Applied, Operations, FrStep
  <2>4. CASE ~(Spoils(element, b, r))
    <3>1. Fr("add", Num(b), Fr_add(element, b, r))
      BY <1>2, <2>1, <2>4
    <3>2. Num(Fr_add(element, b, r)) = (Num(element) + Num(b)) % Mod
      BY <1>1, <1>2, <2>4, AddIs, UnspoiltAsApart
    <3>. QED
      BY <1>2, <1>0, <2>2, <3>1, <3>2, Applied, Operations, FrStep
  <2>. QED
    BY <2>3, <2>4
<1>4. CASE SubtractElement
  <2>1. PICK b \in Operand, r \in Place :
          Fr(IF Spoils(element, b, r) \/ SubtractsItself(element, b, r) THEN "spoilt" ELSE "sub",
             Fr_toMpz(b), Fr_sub(element, b, r))
    BY <1>4 DEF SubtractElement
  <2>2. Proper(Fr_sub(element, b, r))
    BY <1>1, <1>2, SubIs
  <2>3. CASE Spoils(element, b, r) \/ SubtractsItself(element, b, r)
    <3>1. Fr("spoilt", Num(b), Fr_sub(element, b, r))
      BY <1>2, <2>1, <2>3
    <3>2. Num(Fr_sub(element, b, r)) \in Field
      BY <2>2, NumIs
    <3>. QED
      BY <1>2, <2>2, <3>1, <3>2, Applied, Operations, FrStep
  <2>4. CASE ~(Spoils(element, b, r) \/ SubtractsItself(element, b, r))
    <3>1. Fr("sub", Num(b), Fr_sub(element, b, r))
      BY <1>2, <2>1, <2>4
    <3>2. Num(Fr_sub(element, b, r)) = (Num(element) - Num(b)) % Mod
      BY <1>1, <1>2, <2>4, SubIs, UnspoiltAsApart
    <3>. QED
      BY <1>2, <1>0, <2>2, <3>1, <3>2, Applied, Operations, FrStep
  <2>. QED
    BY <2>3, <2>4
<1>5. CASE NegateElement
  <2>1. PICK b \in Operand : Fr("neg", Fr_toMpz(b), Fr_neg(b))
    BY <1>5 DEF NegateElement
  <2>2. Proper(Fr_neg(b)) /\ Num(Fr_neg(b)) = (-Num(b)) % Mod
    BY <1>2, NegIs
  <2>. QED
    BY <1>2, <1>0, <2>1, <2>2, Applied, Operations, FrStep
<1>6. CASE MultiplyElement
  <2>1. PICK b \in Operand : Fr("mul", Fr_toMpz(b), Fr_mul(element, b))
    BY <1>6 DEF MultiplyElement
  <2>2. Proper(Fr_mul(element, b)) /\ Num(Fr_mul(element, b)) = (Num(element) * Num(b)) % Mod
    BY <1>1, <1>2, MulIs
  <2>. QED
    BY <1>2, <1>0, <2>1, <2>2, Applied, Operations, FrStep
<1>7. CASE InvertElement
  <2>1. PICK b \in Operand, left \in Field : Fr("inv", Fr_toMpz(b), Fr_inv(element, b, left))
    BY <1>7 DEF InvertElement
  <2>2. Proper(Fr_inv(element, b, left)) /\ Num(Fr_inv(element, b, left)) = A!Inverse(Num(b), left)
    BY <1>1, <1>2, InvIs
  <2>. QED
    BY <1>2, <1>0, <2>1, <2>2, Applied, Operations, FrStep
<1>8. CASE DivideElement
  <2>1. PICK b \in Operand, left \in Field : Fr("div", Fr_toMpz(b), Fr_div(element, b, left))
    BY <1>8 DEF DivideElement
  <2>2. /\ Proper(Fr_div(element, b, left))
        /\ Num(Fr_div(element, b, left)) = (Num(element) * A!Inverse(Num(b), left)) % Mod
    BY <1>1, <1>2, DivIs
  <2>. QED
    BY <1>2, <1>0, <2>1, <2>2, Applied, Operations, FrStep
<1>. QED
  BY <1>3, <1>4, <1>5, <1>6, <1>7, <1>8

LEMMA ConversionSteps ==
    ASSUME TypeOK, Fr_str2element \/ Fr_element2str \/ ConvertElement
    PROVE  TypeOK' /\ Promise!Next
<1>1. Proper(element) /\ 0 \in Number
  BY TypeFacts, ElementsAreNumbers, Prime
<1>2. CASE Fr_str2element
  <2>1. PICK n \in Number : Fr("set", n, Fr_fromMpz(element, n % Mod))
    BY <1>2 DEF Fr_str2element
  <2>2. n % Mod \in Field
    BY ElementsAreNumbers, Residue
  <2>3. Proper(Fr_fromMpz(element, n % Mod)) /\ Num(Fr_fromMpz(element, n % Mod)) = n % Mod
    BY <1>1, <2>2, FromMpzIs
  <2>. QED
    BY <2>1, <2>3, Applied, Operations, FrStep, Prime
<1>3. CASE Fr_element2str
  <2>1. Fr("keep", 0, element)
    BY <1>3 DEF Fr_element2str
  <2>. QED
    BY <1>1, <2>1, Applied, Operations, FrStep, Prime
<1>4. CASE ConvertElement
  <2>1. PICK e \in {Fr_toMontgomery(element), Fr_toNormal(element)} : Fr("keep", 0, e)
    BY <1>4 DEF ConvertElement
  <2>2. Proper(e) /\ Num(e) = Num(element)
    BY <1>1, <2>1, ToMontgomeryElement, ToNormalIs
  <2>. QED
    BY <1>1, <2>1, <2>2, Applied, Operations, FrStep, Prime
<1>. QED
  BY <1>2, <1>3, <1>4

(* Divisions of integers, and powers. *)
LEMMA IntegerSteps ==
    ASSUME TypeOK, Fr_idiv \/ Fr_mod \/ Fr_pow
    PROVE  TypeOK' /\ Promise!Next
<1>1. Proper(element) /\ Num(element) \in Field
  BY TypeFacts, NumIs
<1>2. ASSUME NEW b \in Operand
      PROVE  Proper(b) /\ Fr_toMpz(b) = Num(b) /\ Num(b) \in Number /\ Num(b) \in Field
  BY OperandsAreProper, ToMpzIs, NumIs, ElementsAreNumbers
<1>3. Fr_toMpz(element) = Num(element)
  BY <1>1, ToMpzIs
<1>4. ASSUME NEW x \in Field, NEW n \in Field, n # 0 PROVE x \div n \in Field /\ x % n \in Field
  <2>1. x \in 0 .. Mod - 1 /\ n \in 1 .. Mod - 1 /\ Mod \in Nat
    BY <1>4, Prime
  <2>2. x % n \in 0 .. n - 1
    BY <2>1
  <2>3. x \div n \in 0 .. x
    <3>. DEFINE q == x \div n  r == x % n
    <3>1. q \in Int /\ x = n * q + r /\ r \in 0 .. n - 1
      BY <2>1
    <3>. HIDE DEF q, r
    <3>2. q >= 0
      <4>1. ASSUME q <= -1 PROVE FALSE
        <5>1. n * q <= -n
          BY <2>1, <3>1, <4>1
        <5>2. n * q \in Int
          BY <2>1, <3>1
        <5>. QED
          BY <2>1, <3>1, <5>1, <5>2
      <4>. QED
        BY <3>1, <4>1
    <3>3. q <= x
      <4>1. n * q >= q
        BY <2>1, <3>1, <3>2
      <4>2. n * q \in Int
        BY <2>1, <3>1
      <4>. QED
        BY <2>1, <3>1, <4>1, <4>2
    <3>. QED
      BY <2>1, <3>1, <3>2, <3>3 DEF q
  <2>. QED
    BY <2>1, <2>2, <2>3, Prime
<1>5. CASE Fr_idiv
  <2>1. PICK b \in Operand : DivideIntegers("idiv", b, LAMBDA m, n : m \div n)
    BY <1>5 DEF Fr_idiv
  <2>. DEFINE n == Num(b)
  <2>2. n \in Field /\ n \in Number /\ Fr_toMpz(b) = n
    BY <1>2
  <2>3. CASE n = 0
    <3>1. Fr("idiv", n, element)
      BY <2>1, <2>2, <2>3 DEF DivideIntegers
    <3>2. Promise!Fails("idiv", n)
      BY <2>3 DEF Promise!Fails
    <3>. QED
      BY <1>1, <2>2, <3>1, <3>2, Operations, FrStep, Prime
  <2>4. CASE n # 0
    <3>. DEFINE v == Num(element) \div n
    <3>1. Fr("idiv", n, Fr_fromMpz(element, v))
      BY <1>3, <2>1, <2>2, <2>4 DEF DivideIntegers
    <3>2. ~Promise!Fails("idiv", n) /\ Promise!Apply("idiv", Num(element), n, 0) = v
      BY <2>4, Applied DEF Promise!Fails
    <3>3. v \in Field
      BY <1>1, <1>4, <2>2, <2>4
    <3>. HIDE DEF v
    <3>4. Proper(Fr_fromMpz(element, v)) /\ Num(Fr_fromMpz(element, v)) = v
      BY <1>1, <3>3, FromMpzIs
    <3>. QED
      BY <2>2, <3>1, <3>2, <3>4, Operations, FrStep, Prime
  <2>. QED
    BY <2>3, <2>4
<1>6. CASE Fr_mod
  <2>1. PICK b \in Operand : DivideIntegers("mod", b, LAMBDA m, n : m % n)
    BY <1>6 DEF Fr_mod
  <2>. DEFINE n == Num(b)
  <2>2. n \in Field /\ n \in Number /\ Fr_toMpz(b) = n
    BY <1>2
  <2>3. CASE n = 0
    <3>1. Fr("mod", n, element)
      BY <2>1, <2>2, <2>3 DEF DivideIntegers
    <3>2. Promise!Fails("mod", n)
      BY <2>3 DEF Promise!Fails
    <3>. QED
      BY <1>1, <2>2, <3>1, <3>2, Operations, FrStep, Prime
  <2>4. CASE n # 0
    <3>. DEFINE v == Num(element) % n
    <3>1. Fr("mod", n, Fr_fromMpz(element, v))
      BY <1>3, <2>1, <2>2, <2>4 DEF DivideIntegers
    <3>2. ~Promise!Fails("mod", n) /\ Promise!Apply("mod", Num(element), n, 0) = v
      BY <2>4, Applied DEF Promise!Fails
    <3>3. v \in Field
      BY <1>1, <1>4, <2>2, <2>4
    <3>. HIDE DEF v
    <3>4. Proper(Fr_fromMpz(element, v)) /\ Num(Fr_fromMpz(element, v)) = v
      BY <1>1, <3>3, FromMpzIs
    <3>. QED
      BY <2>2, <3>1, <3>2, <3>4, Operations, FrStep, Prime
  <2>. QED
    BY <2>3, <2>4
<1>7. CASE Fr_pow
  <2>. DEFINE x == Num(element)
  <2>1. PICK b \in Operand : Fr("pow", Fr_toMpz(b), Fr_fromMpz(element, mpz_powm(Fr_toMpz(element), Fr_toMpz(b))))
    BY <1>7 DEF Fr_pow
  <2>. DEFINE n == Num(b)  v == A!Power(x, n)
  <2>2. n \in Field /\ n \in Nat /\ n \in Number /\ Fr_toMpz(b) = n
    BY <1>2, Prime
  <2>3. Fr("pow", n, Fr_fromMpz(element, v))
    BY <1>3, <2>1, <2>2 DEF mpz_powm
  <2>4. v \in Field
    BY <1>1, <2>2, PowerIs
  <2>5. Promise!Apply("pow", x, n, 0) = v
    BY Applied
  <2>. HIDE DEF v, n
  <2>6. Proper(Fr_fromMpz(element, v)) /\ Num(Fr_fromMpz(element, v)) = v
    BY <1>1, <2>4, FromMpzIs
  <2>. QED
    BY <2>2, <2>3, <2>5, <2>6, Operations, FrStep, Prime
<1>. QED
  BY <1>5, <1>6, <1>7

LEMMA RawArithmeticSteps ==
    ASSUME TypeOK, rawAdd \/ rawSub \/ rawMul \/ rawNegate \/ rawInverse \/ rawDiv \/ rawExp
    PROVE  TypeOK' /\ Promise!Next
<1>. DEFINE x == FromWords(raw)
<1>1. raw \in Field /\ raw \in Int /\ x \in Field /\ x \in Int /\ Means(raw, x)
  BY TypeFacts, ElementIsResidue, FromWordsMeans
<1>2. ASSUME NEW a \in Field
      PROVE  LET u == FromWords(a)
             IN /\ a \in Int /\ Fr_rawFromMontgomery(a) = u /\ u \in Field /\ u \in Number /\ u \in Int /\ Means(a, u)
  BY ElementIsResidue, FromMontgomeryIs, FromWordsMeans, ElementsAreNumbers
<1>3. Plainly => data' \in Buffer
  BY TypeFacts DEF Plainly
<1>. HIDE DEF x
<1>4. CASE rawAdd
  <2>1. PICK a \in Field : Raw("add", Fr_rawFromMontgomery(a), Fr_rawAdd(raw, a)) /\ Plainly
    BY <1>4 DEF rawAdd
  <2>. DEFINE u == FromWords(a)  w == Fr_rawAdd(raw, a)
  <2>2. u \in Number /\ u \in Int /\ Means(a, u) /\ Fr_rawFromMontgomery(a) = u
    BY <1>2
  <2>3. w \in Field /\ Means(w, x + u)
    BY <1>1, <2>2, SumsAreElements, SumsMean
  <2>4. FromWords(w) = (x + u) % Mod
    BY <2>3, FromWordsIs
  <2>5. Raw("add", u, w) /\ data' \in Buffer
    BY <1>3, <2>1, <2>2
  <2>. HIDE DEF u, w
  <2>. QED
    BY <2>2, <2>3, <2>4, <2>5, Applied, Operations, RawStep, Prime DEF x
<1>5. CASE rawSub
  <2>1. PICK a \in Field : Raw("sub", Fr_rawFromMontgomery(a), Fr_rawSub(raw, a)) /\ Plainly
    BY <1>5 DEF rawSub
  <2>. DEFINE u == FromWords(a)  w == Fr_rawSub(raw, a)
  <2>2. u \in Number /\ u \in Int /\ Means(a, u) /\ Fr_rawFromMontgomery(a) = u
    BY <1>2
  <2>3. w \in Field /\ Means(w, x - u)
    BY <1>1, <2>2, SumsAreElements, SumsMean
  <2>4. FromWords(w) = (x - u) % Mod
    BY <2>3, FromWordsIs
  <2>5. Raw("sub", u, w) /\ data' \in Buffer
    BY <1>3, <2>1, <2>2
  <2>. HIDE DEF u, w
  <2>. QED
    BY <2>2, <2>3, <2>4, <2>5, Applied, Operations, RawStep, Prime DEF x
<1>6. CASE rawMul
  <2>1. PICK a \in Field : Raw("mul", Fr_rawFromMontgomery(a), Fr_rawMMul(raw, a)) /\ Plainly
    BY <1>6 DEF rawMul
  <2>. DEFINE u == FromWords(a)  w == Fr_rawMMul(raw, a)
  <2>2. u \in Number /\ u \in Int /\ a \in Int /\ Means(a, u) /\ Fr_rawFromMontgomery(a) = u
    BY <1>2
  <2>3. w \in Field /\ Means(w, x * u)
    BY <1>1, <2>2, Reduction, ProductMeans
  <2>4. FromWords(w) = (x * u) % Mod
    BY <2>3, FromWordsIs
  <2>5. Raw("mul", u, w) /\ data' \in Buffer
    BY <1>3, <2>1, <2>2
  <2>. HIDE DEF u, w
  <2>. QED
    BY <2>2, <2>3, <2>4, <2>5, Applied, Operations, RawStep, Prime DEF x
<1>7. CASE rawNegate
  <2>1. PICK a \in Field : Raw("neg", Fr_rawFromMontgomery(a), Fr_rawNeg(a)) /\ Plainly
    BY <1>7 DEF rawNegate
  <2>. DEFINE u == FromWords(a)  w == Fr_rawNeg(a)
  <2>2. u \in Number /\ u \in Int /\ Means(a, u) /\ Fr_rawFromMontgomery(a) = u
    BY <1>2
  <2>3. w \in Field /\ Means(w, -u)
    BY <2>2, SumsAreElements, SumsMean
  <2>4. FromWords(w) = (-u) % Mod
    BY <2>3, FromWordsIs
  <2>5. Raw("neg", u, w) /\ data' \in Buffer
    BY <1>3, <2>1, <2>2
  <2>. HIDE DEF u, w
  <2>. QED
    BY <2>2, <2>3, <2>4, <2>5, Applied, Operations, RawStep, Prime DEF x
<1>8. CASE rawInverse
  <2>1. PICK a \in Field, left \in Field : Raw("inv", Fr_rawFromMontgomery(a), inv(a, left)) /\ Plainly
    BY <1>8 DEF rawInverse
  <2>. DEFINE u == FromWords(a)  w == inv(a, left)
  <2>2. u \in Number /\ Fr_rawFromMontgomery(a) = u
    BY <1>2
  <2>3. PICK other \in Field : w \in Field /\ FromWords(w) = A!Inverse(u, other)
    BY InverseMeans
  <2>4. Raw("inv", u, w) /\ data' \in Buffer
    BY <1>3, <2>1, <2>2
  <2>. HIDE DEF u, w
  <2>. QED
    BY <2>2, <2>3, <2>4, Applied, Operations, RawStep, Prime
<1>9. CASE rawDiv
  <2>1. PICK a \in Field, left \in Field :
            Raw("div", Fr_rawFromMontgomery(a), Fr_rawMMul(raw, inv(a, left))) /\ Plainly
    BY <1>9 DEF rawDiv
  <2>. DEFINE u == FromWords(a)  i == inv(a, left)  v == FromWords(i)  w == Fr_rawMMul(raw, i)
  <2>2. u \in Number /\ Fr_rawFromMontgomery(a) = u
    BY <1>2
  <2>3. PICK other \in Field : i \in Field /\ v = A!Inverse(u, other)
    BY InverseMeans
  <2>4. i \in Int /\ Means(i, v)
    BY <1>2, <2>3
  <2>5. w \in Field /\ Means(w, x * v)
    BY <1>1, <2>4, Reduction, ProductMeans
  <2>6. FromWords(w) = (x * v) % Mod
    BY <2>5, FromWordsIs
  <2>7. Raw("div", u, w) /\ data' \in Buffer
    BY <1>3, <2>1, <2>2
  <2>. HIDE DEF u, v, w
  <2>8. FromWords(w) = Promise!Apply("div", x, u, other)
    <3>1. Promise!Apply("div", x, u, other) = (x * A!Inverse(u, other)) % Mod
      BY Applied
    <3>. QED
      BY <2>3, <2>6, <3>1, Zenon
  <2>. QED
    BY <2>2, <2>5, <2>7, <2>8, Operations, RawStep, Prime DEF x
<1>10. CASE rawExp
  <2>1. PICK bits \in [1 .. ScalarBits -> {0, 1}] :
            Binary(bits) \in Number /\ Raw("pow", Binary(bits), exp(raw, bits)) /\ Plainly
    BY <1>10 DEF rawExp
  <2>. DEFINE w == exp(raw, bits)
  <2>2. w \in Field /\ FromWords(w) = A!Power(x, Binary(bits))
    BY <1>1, ExpMeans DEF x
  <2>3. data' \in Buffer
    BY <1>3, <2>1
  <2>. HIDE DEF w
  <2>4. FromWords(w) = Promise!Apply("pow", x, Binary(bits), 0)
    <3>1. Promise!Apply("pow", x, Binary(bits), 0) = A!Power(x, Binary(bits))
      BY Applied
    <3>. QED
      BY <2>2, <3>1, Zenon
  <2>. QED
    BY <2>1, <2>2, <2>3, <2>4, Operations, RawStep, Prime DEF x, w
<1>. QED
  BY <1>4, <1>5, <1>6, <1>7, <1>8, <1>9, <1>10

LEMMA RawConversionSteps ==
    ASSUME TypeOK, rawFromString \/ rawFromUI \/ rawSet \/ rawToString \/ toRprBE \/ fromRprBE
    PROVE  TypeOK' /\ Promise!Next
<1>. DEFINE x == FromWords(raw)
<1>1. raw \in Field /\ raw \in Int /\ x \in Field /\ data \in Buffer /\ 0 \in Number
  BY TypeFacts, ElementIsResidue, FromWordsMeans, ElementsAreNumbers, Prime
<1>2. ASSUME NEW n \in Int
      PROVE  Fr_rawToMontgomery(n) \in Field /\ FromWords(Fr_rawToMontgomery(n)) = n % Mod
  BY ToMontgomeryMeans, FromWordsIs
<1>3. Plainly => data' \in Buffer
  BY <1>1 DEF Plainly
<1>4. CASE rawFromString
  <2>1. PICK n \in Number : Raw("set", n, Fr_rawToMontgomery(n % Mod)) /\ Plainly
    BY <1>4 DEF rawFromString
  <2>2. n % Mod \in Int /\ (n % Mod) % Mod = n % Mod
    BY ElementsAreNumbers, Residue, ElementIsResidue
  <2>3. Fr_rawToMontgomery(n % Mod) \in Field /\ FromWords(Fr_rawToMontgomery(n % Mod)) = n % Mod
    BY <1>2, <2>2
  <2>. QED
    BY <1>3, <2>1, <2>3, Applied, Operations, RawStep, Prime
<1>5. CASE rawFromUI
  <2>1. PICK n \in 0 .. Word - 1 : Raw("set", n, Fr_rawToMontgomery(n)) /\ Plainly
    BY <1>5 DEF rawFromUI
  <2>2. n \in Number /\ n \in Int
    BY ElementsAreNumbers
  <2>3. /\ Fr_rawToMontgomery(n) \in Field /\ 0 \in Field
        /\ FromWords(Fr_rawToMontgomery(n)) = Promise!Apply("set", x, n, 0)
    BY <1>2, <2>2, Applied, Prime
  <2>. QED
    BY <1>3, <2>1, <2>2, <2>3, Operations, RawStep
<1>6. CASE rawSet
  <2>1. PICK n \in Small : Raw("set", n, Fr_rawToMontgomery(Lifted(n))) /\ Plainly
    BY <1>6 DEF rawSet, Lifted
  <2>2. n \in Number /\ Lifted(n) \in Field /\ Lifted(n) = n % Mod
    BY ElementsAreNumbers, SmallRange, LiftedIs
  <2>3. Lifted(n) \in Int /\ Lifted(n) % Mod = Lifted(n)
    BY <2>2, ElementIsResidue
  <2>4. Fr_rawToMontgomery(Lifted(n)) \in Field /\ FromWords(Fr_rawToMontgomery(Lifted(n))) = n % Mod
    BY <1>2, <2>2, <2>3
  <2>. QED
    BY <1>3, <2>1, <2>2, <2>4, Applied, Operations, RawStep, Prime
<1>7. CASE rawToString
  <2>1. Raw("keep", 0, raw) /\ data' \in Buffer
    BY <1>1, <1>7 DEF rawToString
  <2>. QED
    BY <1>1, <2>1, Applied, Operations, RawStep, Prime
<1>8. CASE toRprBE
  <2>. DEFINE n == Fr_rawFromMontgomery(raw)
  <2>1. n \in Nat /\ n < R
    <3>1. n \in 0 .. Mod - 1 /\ Mod \in Nat /\ Mod < R /\ R \in Nat
      BY <1>1, FromMontgomeryIs, Prime, FieldAssumption, Radix
    <3>. QED
      BY <3>1
  <2>2. Raw("keep", 0, raw) /\ (data' = data \/ data' = Exported(data, n))
    BY <1>8 DEF toRprBE
  <2>. HIDE DEF n
  <2>3. data' \in Buffer
    BY <1>1, <2>1, <2>2, ExportedIsBuffer
  <2>. QED
    BY <1>1, <2>2, <2>3, Applied, Operations, RawStep, Prime
<1>9. CASE fromRprBE
  <2>1. data' \in Buffer
    BY <1>1, <1>9 DEF fromRprBE
  <2>2. CASE Raw("keep", 0, raw)
    BY <1>1, <2>1, <2>2, Applied, Operations, RawStep, Prime
  <2>3. CASE Raw("set", Imported(data), Fr_rawToMontgomery(Imported(data)))
    <3>1. Imported(data) \in Number /\ Imported(data) \in Int
      BY <1>1, ImportedFits, ElementsAreNumbers
    <3>. DEFINE n == Imported(data)
    <3>2. Fr_rawToMontgomery(n) \in Field /\ FromWords(Fr_rawToMontgomery(n)) = n % Mod
      BY <1>2, <3>1
    <3>. HIDE DEF n
    <3>3. Promise!Apply("set", x, n, 0) = n % Mod /\ 0 \in Field
      BY Applied, Prime
    <3>4. n \in Number /\ Raw("set", n, Fr_rawToMontgomery(n))
      BY <2>3, <3>1 DEF n
    <3>. QED
      BY <2>1, <3>2, <3>3, <3>4, Operations, RawStep
  <2>. QED
    BY <1>9, <2>2, <2>3 DEF fromRprBE
<1>. QED
  BY <1>4, <1>5, <1>6, <1>7, <1>8, <1>9

LEMMA EveryStep ==
    ASSUME TypeOK, Next
    PROVE  TypeOK' /\ Promise!Next
<1>1. \/ AddElement \/ SubtractElement \/ NegateElement \/ MultiplyElement \/ InvertElement \/ DivideElement
      \/ Fr_str2element \/ Fr_element2str \/ ConvertElement
      \/ Fr_idiv \/ Fr_mod \/ Fr_pow
      \/ rawAdd \/ rawSub \/ rawMul \/ rawNegate \/ rawInverse \/ rawDiv \/ rawExp
      \/ rawFromString \/ rawFromUI \/ rawSet \/ rawToString \/ toRprBE \/ fromRprBE
  BY DEF Next
<1>. QED
  BY <1>1, ArithmeticSteps, ConversionSteps, IntegerSteps, RawArithmeticSteps, RawConversionSteps

LEMMA FirstState == Init => TypeOK /\ Promise!Init
<1>. SUFFICES ASSUME Init PROVE TypeOK /\ Promise!Init
  OBVIOUS
<1>1. 0 \in Field /\ 0 \in Small /\ Word \in Nat /\ Word > 1 /\ Mod \in Nat /\ Mod > 2
  BY Prime, FieldAssumption, WordAssumption
<1>2. element = [type |-> "SHORT", shortVal |-> 0, longVal |-> 0] /\ raw = 0
  BY DEF Init
<1>3. TypeOK
  <2>1. data \in [1 .. Fr_N64 -> 0 .. Word - 1]
    BY <1>1 DEF Init
  <2>. QED
    BY <1>1, <1>2, <2>1 DEF TypeOK, Type
<1>4. Value = 0
  <2>1. CASE api = "Fr"
    <3>1. Value = Num(element) /\ Num(element) = 0 % Mod
      BY <1>2, <2>1, ValueIs DEF Num
    <3>. QED
      BY <1>1, <3>1
  <2>2. CASE api = "RawFr"
    <3>1. 0 * RInverse = 0 /\ 0 % Mod = 0
      BY <1>1, Radix, Prime
    <3>. QED
      BY <1>2, <2>2, <3>1, ValueIs DEF FromWords
  <2>. QED
    BY <2>1, <2>2 DEF Init
<1>. QED
  BY <1>3, <1>4 DEF Init, Promise!Init

-----------------------------------------------------------------------------
(* In every state the words of an element are a number below the prime, and  *)
(* the two halves of a short Montgomery element agree (fr.cpp:17-163).       *)
THEOREM TypeCorrect == Spec => []TypeOK
<1>1. TypeOK /\ UNCHANGED vars => TypeOK'
  BY DEF TypeOK, vars
<1>2. TypeOK /\ [Next]_vars => TypeOK'
  BY <1>1, EveryStep
<1>. QED
  BY <1>2, FirstState, PTL DEF Spec

(* Every call computes the function of the field on the numbers that the     *)
(* elements stand for, in all formats and through both interfaces, also      *)
(* where a sum or a difference takes the place of an operand, unless that    *)
(* has yet to be converted (fr.cpp:17-163, 180-275, fr.asm:1110, 1607, 2180, *)
(* 2379).                                                                    *)
THEOREM Computes == Spec => ComputesInTheField
<1>1. TypeOK /\ Next => Promise!Next
  BY EveryStep
<1>2. UNCHANGED vars => UNCHANGED <<Value, call>>
  BY DEF vars, Value
<1>3. TypeOK /\ [Next]_vars => [Promise!Next]_<<Value, call>>
  BY <1>1, <1>2
<1>. QED
  BY <1>3, FirstState, TypeCorrect, PTL DEF Spec, ComputesInTheField, Promise!Spec

(* What is printed of an element is the number it stands for                 *)
(* (fr.cpp:64, 222).                                                         *)
THEOREM Prints == Spec => []PrintsItsValue
<1>1. Init => PrintsItsValue
  BY DEF Init, PrintsItsValue, None, Outcome
<1>2. ASSUME TypeOK, Next PROVE PrintsItsValue'
  <2>1. CASE Fr_element2str
    <3>1. api' = "Fr" /\ element' = element /\ out' = Printed(Text(element))
      BY <2>1 DEF Fr_element2str, Fr
    <3>2. Value' = Num(element)
      BY <3>1, NextValueIs
    <3>3. out'.text = Text(element)
      BY <3>1 DEF Printed
    <3>. QED
      BY <1>2, <3>2, <3>3, TypeFacts, TextIs DEF PrintsItsValue
  <2>2. CASE rawToString
    <3>1. api' = "RawFr" /\ raw' = raw /\ out' = Printed(Fr_rawFromMontgomery(raw))
      BY <2>2 DEF rawToString, Raw
    <3>2. Value' = FromWords(raw)
      BY <3>1, NextValueIs
    <3>3. out'.text = FromWords(raw)
      BY <1>2, <3>1, TypeFacts, ElementIsResidue, FromMontgomeryIs DEF Printed
    <3>. QED
      BY <3>2, <3>3 DEF PrintsItsValue
  <2>3. CASE ~Fr_element2str /\ ~rawToString
    <3>1. out' \in {None, Outcome("SIGFPE"), Outcome("written"), Refused}
      BY <1>2, <2>3 DEF Next, Fr_str2element, Fr_idiv, Fr_mod, Fr_pow, AddElement, SubtractElement, NegateElement,
           InvertElement, DivideElement, MultiplyElement, ConvertElement, DivideIntegers,
           rawFromString, rawFromUI, rawSet, rawAdd, rawSub, rawMul, rawNegate,
           rawInverse, rawDiv, rawExp, toRprBE, fromRprBE, Plainly
    <3>2. out'.kind # "text"
      BY <3>1 DEF None, Outcome, Refused
    <3>. QED
      BY <3>2 DEF PrintsItsValue
  <2>. QED
    BY <2>1, <2>2, <2>3
<1>3. PrintsItsValue /\ UNCHANGED vars => PrintsItsValue'
  BY DEF PrintsItsValue, vars, Value
<1>. QED
  BY <1>1, <1>2, <1>3, TypeCorrect, PTL DEF Spec

-----------------------------------------------------------------------------
(* A buffer that is written and read back. *)
LEMMA QuotientIs ==
    ASSUME NEW n \in Int, NEW m \in Nat \ {0}, NEW q \in Int, NEW r \in 0 .. m - 1, n = m * q + r
    PROVE  n \div m = q
<1>. DEFINE p == n \div m  s == n % m
<1>1. p \in Int /\ s \in 0 .. m - 1 /\ n = m * p + s
  OBVIOUS
<1>. HIDE DEF p, s
<1>. DEFINE d == p - q
<1>2. d \in Int /\ m * d = m * p - m * q /\ m * p \in Int /\ m * q \in Int
  BY <1>1
<1>3. m * d \in Int /\ m * d < m /\ m * d > -m
  BY <1>1, <1>2
<1>. HIDE DEF d
<1>4. CASE d >= 1
  <2>1. m * d >= m
    BY <1>2, <1>4
  <2>. QED
    BY <1>3, <2>1
<1>5. CASE d <= -1
  <2>1. m * d <= -m
    BY <1>2, <1>5
  <2>. QED
    BY <1>3, <2>1
<1>6. CASE d = 0
  BY <1>1, <1>6 DEF d, p
<1>. QED
  BY <1>2, <1>4, <1>5, <1>6

LEMMA QuotientOfQuotient ==
    ASSUME NEW n \in Int, NEW m \in Nat \ {0}, NEW w \in Nat \ {0}
    PROVE  n \div m = w * (n \div (w * m)) + ((n \div m) % w)
<1>. DEFINE q == n \div m  r == n % m  s == q \div w  t == q % w
<1>1. q \in Int /\ r \in 0 .. m - 1 /\ n = m * q + r
  OBVIOUS
<1>2. s \in Int /\ t \in 0 .. w - 1 /\ q = w * s + t
  BY <1>1
<1>. HIDE DEF q, r, s, t
<1>3. w * m \in Nat \ {0}
  <2>1. w * m \in Nat /\ w * m >= m
    OBVIOUS
  <2>. QED
    BY <2>1
<1>4. n = (w * m) * s + (m * t + r)
  <2>1. m * (w * s + t) = (w * m) * s + m * t
    BY <1>1, <1>2
  <2>2. (w * m) * s \in Int /\ m * t \in Int
    BY <1>1, <1>2
  <2>. QED
    BY <1>1, <1>2, <2>1, <2>2
<1>5. m * t + r \in 0 .. (w * m) - 1
  <2>1. m * t >= 0 /\ m * t \in Int
    BY <1>2
  <2>2. m * (t + 1) <= m * w
    BY <1>2
  <2>3. m * (t + 1) = m * t + m /\ m * w = w * m /\ w * m \in Int
    BY <1>2
  <2>. QED
    BY <1>1, <1>2, <2>1, <2>2, <2>3
<1>6. n \div (w * m) = s
  BY <1>2, <1>3, <1>4, <1>5, QuotientIs
<1>7. q = w * (n \div (w * m)) + t
  BY <1>2, <1>6
<1>. QED
  BY <1>7, Zenon DEF q, t

LEMMA WordPowers ==
    /\ Fr_N64 \in Nat /\ Fr_N64 # 0 /\ Word \in Nat /\ Word > 1 /\ Word ^ 0 = 1 /\ R = Word ^ Fr_N64
    /\ \A i \in 0 .. Fr_N64 : Word ^ i \in Nat /\ Word ^ i # 0
    /\ \A i \in 1 .. Fr_N64 : Word ^ i = Word * Word ^ (i - 1)
BY WordAssumption DEF R

LEMMA PowersGrow ==
    ASSUME NEW i \in 0 .. Fr_N64, NEW j \in i .. Fr_N64
    PROVE  Word ^ i <= Word ^ j
<1>. DEFINE n == Fr_N64 - i  T == {d \in 0 .. n : Word ^ i <= Word ^ (i + d)}
<1>1. n \in Nat /\ i + 0 = i /\ Word ^ i \in Nat
  BY WordPowers
<1>2. 0 \in T
  <2>1. Word ^ i <= Word ^ (i + 0)
    BY <1>1
  <2>. QED
    BY <1>1, <2>1
<1>3. ASSUME NEW d \in 1 .. n, d - 1 \in T PROVE d \in T
  <2>. DEFINE low == Word ^ (i + (d - 1))
  <2>1. i + d \in 1 .. Fr_N64 /\ (i + d) - 1 = i + (d - 1) /\ i + (d - 1) \in 0 .. Fr_N64
    BY <1>1, WordPowers
  <2>2. Word ^ i <= low
    BY <1>3
  <2>3. Word ^ (i + d) = Word * low /\ low \in Nat
    <3>1. Word ^ (i + d) = Word * Word ^ ((i + d) - 1)
      BY <2>1, WordPowers
    <3>. QED
      BY <2>1, <3>1, WordPowers
  <2>. HIDE DEF low
  <2>4. low <= Word * low /\ Word * low \in Nat
    BY <2>3, WordPowers
  <2>5. Word ^ i <= Word ^ (i + d)
    BY <1>1, <2>2, <2>3, <2>4
  <2>. QED
    BY <1>1, <2>5
<1>4. j - i \in 0 .. n /\ i + (j - i) = j
  BY WordPowers
<1>. HIDE DEF n, T
<1>5. \A d \in 0 .. n : d \in T
  BY <1>1, <1>2, <1>3, CountUp
<1>6. j - i \in T
  BY <1>4, <1>5
<1>7. Word ^ i <= Word ^ (i + (j - i))
  BY <1>6 DEF T
<1>. QED
  BY <1>4, <1>7

(* The words that were exported denote the number, ...                       *)
LEMMA ExportedDenotes ==
    ASSUME NEW buffer \in Buffer, NEW v \in Nat, v < R
    PROVE  Prefixes(Exported(buffer, v), Word, Fr_N64)[Digits(v)] = v
<1>. DEFINE written == Exported(buffer, v)  n == Fr_N64  k == Digits(v)
            f == Prefixes(written, Word, n)
            T == {i \in 0 .. k : f[i] = v \div Word ^ (k - i)}
<1>1. k \in 0 .. n /\ v < Word ^ k
  BY DigitsAre
<1>2. written \in Buffer /\ \A i \in 1 .. n : i <= k => written[i] = (v \div Word ^ (k - i)) % Word
  BY ExportedIsBuffer DEF Exported
<1>3. /\ f[0] = 0 /\ \A i \in 1 .. n : f[i] = Word * f[i - 1] + written[i]
      /\ \A i \in 0 .. n : f[i] \in Nat
  BY <1>2, ImportedIs
<1>. HIDE DEF written, f, k
<1>4. 0 \in T
  <2>. DEFINE power == Word ^ k
  <2>1. power \in Nat \ {0} /\ v \in 0 .. power - 1 /\ k - 0 = k /\ k \in Nat
    BY <1>1, WordPowers
  <2>. HIDE DEF power
  <2>2. v = power * 0 + v
    BY <2>1
  <2>3. v \div power = 0
    BY <2>1, <2>2, QuotientIs
  <2>4. f[0] = v \div Word ^ (k - 0)
    BY <1>3, <2>1, <2>3 DEF power
  <2>. QED
    BY <2>1, <2>4
<1>5. ASSUME NEW i \in 1 .. k, i - 1 \in T PROVE i \in T
  <2>. DEFINE power == Word ^ (k - i)
  <2>1. i \in 1 .. n /\ i <= k /\ k - i \in 0 .. n /\ k - (i - 1) \in 1 .. n /\ (k - (i - 1)) - 1 = k - i
        /\ i \in 0 .. k
    BY <1>1, WordPowers
  <2>2. power \in Nat \ {0} /\ Word \in Nat \ {0}
    BY <2>1, WordPowers
  <2>3. Word ^ (k - (i - 1)) = Word * power
    <3>1. Word ^ (k - (i - 1)) = Word * Word ^ ((k - (i - 1)) - 1)
      BY <2>1, WordPowers
    <3>. QED
      BY <2>1, <3>1
  <2>4. f[i - 1] = v \div Word ^ (k - (i - 1))
    BY <1>5
  <2>5. f[i] = Word * f[i - 1] + written[i] /\ written[i] = (v \div power) % Word
    BY <1>2, <1>3, <2>1
  <2>6. v \div power = Word * (v \div (Word * power)) + ((v \div power) % Word)
    <3>. HIDE DEF power
    <3>1. v \in Int
      OBVIOUS
    <3>. QED
      BY <2>2, <3>1, QuotientOfQuotient, Zenon
  <2>7. f[i] = v \div power
    <3>1. f[i - 1] = v \div (Word * power)
      BY <2>3, <2>4, Zenon
    <3>2. f[i] = Word * (v \div (Word * power)) + ((v \div power) % Word)
      BY <2>5, <3>1, Zenon
    <3>. QED
      BY <2>6, <3>2, Zenon
  <2>. QED
    BY <2>1, <2>7
<1>6. f[k] = v
  <2>. HIDE DEF T
  <2>1. k \in Nat /\ k \in 0 .. k
    BY <1>1, WordPowers
  <2>2. \A i \in 0 .. k : i \in T
    BY <1>4, <1>5, <2>1, CountUp
  <2>3. f[k] = v \div Word ^ (k - k)
    BY <2>1, <2>2 DEF T
  <2>4. k - k = 0 /\ Word ^ 0 = 1 /\ v \div 1 = v
    BY <2>1, WordPowers
  <2>. QED
    BY <2>3, <2>4
<1>. QED
  BY <1>6 DEF f, k, written

(* ... and are all that is read of a number that has all its words.          *)
LEMMA ReadBack ==
    ASSUME NEW buffer \in Buffer, NEW v \in Nat, v < R, v >= Word ^ (Fr_N64 - 1)
    PROVE  Imported(Exported(buffer, v)) = v
<1>. DEFINE written == Exported(buffer, v)  n == Fr_N64  k == Digits(v)
            f == Prefixes(written, Word, n)
<1>1. k \in 0 .. n /\ v < Word ^ k
  BY DigitsAre
<1>2. written \in Buffer
  BY ExportedIsBuffer
<1>3. Imported(written) = f[n]
  BY <1>2, ImportedIs
<1>4. f[k] = v
  BY ExportedDenotes
<1>. HIDE DEF written, f, k
<1>5. n \in Nat /\ n # 0 /\ Word ^ (n - 1) \in Nat
  <2>1. n - 1 \in 0 .. n
    BY WordPowers
  <2>. QED
    BY <2>1, WordPowers
<1>6. k = n
  <2>1. ASSUME k # n PROVE FALSE
    <3>1. k \in 0 .. n /\ n - 1 \in k .. n
      BY <1>1, <1>5, <2>1
    <3>2. Word ^ k <= Word ^ (n - 1) /\ Word ^ k \in Nat
      BY <3>1, PowersGrow, WordPowers
    <3>. QED
      BY <1>1, <1>5, <3>2
  <2>. QED
    BY <2>1
<1>. QED
  BY <1>3, <1>4, <1>6 DEF written

(* A number with all its words that toRprBE writes, fromRprBE reads back as  *)
(* the same element (fr.cpp:289-316).                                        *)
THEOREM FullNumbersReturn == Spec => []FullNumbersReadBack
<1>1. Init => FullNumbersReadBack
  BY DEF Init, FullNumbersReadBack, None, Outcome
<1>2. ASSUME TypeOK, Next PROVE FullNumbersReadBack'
  <2>1. CASE toRprBE /\ out' = Outcome("written")
    <3>. DEFINE v == Fr_rawFromMontgomery(raw)
    <3>1. api' = "RawFr" /\ raw' = raw /\ data' = Exported(data, v)
      BY <2>1 DEF toRprBE, Raw, Refused, Outcome
    <3>2. /\ v = FromWords(raw) /\ v \in Field /\ v \in Int /\ Means(raw, v)
          /\ raw \in Field /\ raw \in Int /\ data \in Buffer
      BY <1>2, TypeFacts, ElementIsResidue, FromMontgomeryIs, FromWordsMeans
    <3>3. v \in Nat /\ v < R
      <4>1. v \in 0 .. Mod - 1 /\ Mod \in Nat /\ Mod < R /\ R \in Nat
        BY <3>2, Prime, FieldAssumption, Radix
      <4>. QED
        BY <4>1
    <3>4. Value' = v
      BY <3>1, <3>2, NextValueIs
    <3>. HIDE DEF v
    <3>5. Fr_rawToMontgomery(v) = raw
      <4>1. Fr_rawToMontgomery(v) = (v * R) % Mod /\ v * R \in Int
        BY <3>2, ToMontgomeryIs, Radix
      <4>2. raw % Mod = (v * R) % Mod
        BY <3>2, EqualResidues, Radix DEF Means
      <4>. QED
        BY <3>2, <4>1, <4>2, ElementIsResidue
    <3>6. v >= Word ^ (Fr_N64 - 1) => Imported(data') = v
      BY <3>1, <3>2, <3>3, ReadBack
    <3>. QED
      BY <3>1, <3>4, <3>5, <3>6 DEF FullNumbersReadBack
  <2>2. CASE ~(toRprBE /\ out' = Outcome("written"))
    <3>1. out' = None \/ out' = Outcome("SIGFPE") \/ out' = Refused \/ \E n : out' = Printed(n)
      BY <1>2, <2>2 DEF Next, Fr_str2element, Fr_element2str, Fr_idiv, Fr_mod, Fr_pow, AddElement,
         SubtractElement, NegateElement, InvertElement, DivideElement, MultiplyElement, ConvertElement,
         DivideIntegers, rawFromString, rawFromUI, rawSet, rawAdd, rawSub, rawMul, rawNegate,
         rawInverse, rawDiv, rawExp, rawToString, toRprBE, fromRprBE, Plainly
    <3>2. out'.kind # "written"
      BY <3>1 DEF None, Outcome, Refused, Printed
    <3>. QED
      BY <3>2 DEF FullNumbersReadBack
  <2>. QED
    BY <2>1, <2>2
<1>3. FullNumbersReadBack /\ UNCHANGED vars => FullNumbersReadBack'
  BY DEF FullNumbersReadBack, vars, Value
<1>. QED
  BY <1>1, <1>2, <1>3, TypeCorrect, PTL DEF Spec
=============================================================================
