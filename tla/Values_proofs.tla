---------------------------- MODULE Values_proofs ----------------------------
(* Proofs about the two small modules of smt/terms: Booleans a client combines *)
(* (Bools), for every set of valuations, and constants read from strings       *)
(* (Literals), for every modulus and width.                                    *)
EXTENDS Bools, Literals, SequenceTheorems, NaturalsInduction, WellFoundedInduction, TLAPS

-----------------------------------------------------------------------------
(* Bools, for every set of valuations and of initial formulas. *)

(* What a client that never narrows a Bool in place calls. *)
Widening == Calls \subseteq {"|", "&", "==", "!=", "!", "batch_or", "batch_and",
                             "|=", "assert_term", "copy"}

LEMMA CombinedIsFormula ==
    ASSUME NEW op \in {"|", "&", "==", "!=", "!", "batch_or", "batch_and", "|=", "&="},
           NEW s \in SUBSET Valuation, NEW t \in SUBSET Valuation
    PROVE  Combined(op, s, t) \in SUBSET Valuation
  BY DEF Combined

(* The formulas of a client are sets of valuations in every reachable state, *)
(* and a Bool only gets its flag by being asserted (bool.cpp, bool.hpp).     *)
THEOREM TypeCorrect == Spec => []TypeOK
<1>1. Init => TypeOK
  <2> SUFFICES ASSUME Init PROVE TypeOK
    OBVIOUS
  <2>1. \A t \in Atom : Bool(t) \in [term : SUBSET Valuation, asserted : BOOLEAN]
    BY AtomAssumption DEF Bool
  <2>. QED
    BY <2>1 DEF Init, TypeOK
<1>2. TypeOK /\ [Next]_vars => TypeOK'
  <2> SUFFICES ASSUME TypeOK, [Next]_vars PROVE TypeOK'
    OBVIOUS
  <2>1. CASE UNCHANGED vars
    BY <2>1 DEF TypeOK, vars
  <2>2. ASSUME NEW op \in Calls, call' = op, Operator(op) PROVE TypeOK'
    BY <2>2, CombinedIsFormula DEF TypeOK, Operator, Result, Bool
  <2>3. ASSUME NEW op \in Calls, call' = op, Assign(op) PROVE TypeOK'
    <3>1. Combined(op, f.term, g.term) \in SUBSET Valuation
      BY <2>3, CombinedIsFormula DEF TypeOK, Assign
    <3>2. f'.term = Combined(op, f.term, g.term) /\ f'.asserted = f.asserted
      BY <2>3 DEF TypeOK, Assign
    <3>. QED
      BY <2>3, <3>1, <3>2 DEF TypeOK, Assign
  <2>4. ASSUME NEW op \in Calls, call' = op, AssertTerm(op) PROVE TypeOK'
    BY <2>4 DEF TypeOK, AssertTerm
  <2>5. ASSUME NEW op \in Calls, call' = op, Copy(op) PROVE TypeOK'
    BY <2>5, AtomAssumption DEF TypeOK, Copy, Bool
  <2>. QED
    BY <2>1, <2>2, <2>3, <2>4, <2>5 DEF Next
<1>. QED
  BY <1>1, <1>2, PTL DEF Spec

(* A Bool that says it is asserted holds in every reachable state, as long   *)
(* as the client does not narrow one with &= (bool.hpp:39-45).               *)
THEOREM AssertedIsKnown == Widening => (Spec => []AssertedHolds)
<1> SUFFICES ASSUME Widening PROVE Spec => []AssertedHolds
  OBVIOUS
<1>1. Init => AssertedHolds
  BY DEF Init, AssertedHolds, Bool
<1>2. TypeOK /\ AssertedHolds /\ [Next]_vars => AssertedHolds'
  <2> SUFFICES ASSUME TypeOK, AssertedHolds, [Next]_vars PROVE AssertedHolds'
    OBVIOUS
  <2>1. CASE UNCHANGED vars
    BY <2>1 DEF AssertedHolds, vars
  <2>2. ASSUME NEW op \in Calls, Operator(op) PROVE AssertedHolds'
    BY <2>2 DEF AssertedHolds, Operator, Result, Bool
  <2>3. ASSUME NEW op \in Calls, Assign(op) PROVE AssertedHolds'
    <3>1. op = "|="
      BY <2>3 DEF Widening, Assign
    <3>2. f'.term = f.term \cup g.term /\ f'.asserted = f.asserted
      BY <2>3, <3>1 DEF TypeOK, Assign, Combined
    <3>. QED
      BY <2>3, <3>2 DEF AssertedHolds, Assign
  <2>4. ASSUME NEW op \in Calls, AssertTerm(op) PROVE AssertedHolds'
    <3>1. CASE f.asserted
      BY <2>4, <3>1 DEF AssertedHolds, AssertTerm
    <3>2. CASE ~f.asserted
      BY <2>4, <3>2 DEF AssertedHolds, AssertTerm, TypeOK
    <3>. QED
      BY <3>1, <3>2
  <2>5. ASSUME NEW op \in Calls, Copy(op) PROVE AssertedHolds'
    BY <2>5 DEF AssertedHolds, Copy, Bool
  <2>. QED
    BY <2>1, <2>2, <2>3, <2>4, <2>5 DEF Next
<1>. QED
  BY <1>1, <1>2, TypeCorrect, PTL DEF Spec

-----------------------------------------------------------------------------
(* Loops, digits and quotients. *)
LEMMA Least ==
    ASSUME NEW T \in SUBSET Nat, T # {}
    PROVE  \E x \in T : \A y \in T : x <= y
<1>. DEFINE Less == {ss \in Nat \X Nat : ss[1] < ss[2]}
<1>1. Less = OpToRel(<, Nat)
  BY DEF OpToRel
<1>2. IsWellFoundedOn(Less, Nat)
  BY <1>1, NatLessThanWellFounded
<1>. HIDE DEF Less
<1>3. PICK x \in T : \A y \in T : ~(<<y, x>> \in Less)
  BY <1>2, WFMin
<1>4. ASSUME NEW y \in T PROVE x <= y
  <2>1. x \in Nat /\ y \in Nat /\ <<y, x>> \in Nat \X Nat /\ <<y, x>>[1] = y /\ <<y, x>>[2] = x
    OBVIOUS
  <2>2. ~(y < x)
    BY <1>3, <2>1 DEF Less
  <2>. QED
    BY <2>1, <2>2
<1>. QED
  BY <1>4

LEMMA CountUp ==
    ASSUME NEW n \in Nat, NEW T, 0 \in T, \A i \in 1 .. n : i - 1 \in T => i \in T
    PROVE  \A i \in 0 .. n : i \in T
<1>. DEFINE rest == {i \in 0 .. n : i \notin T}
<1>1. SUFFICES ASSUME rest # {} PROVE FALSE
  OBVIOUS
<1>2. rest \in SUBSET Nat
  OBVIOUS
<1>3. PICK i \in rest : \A j \in rest : i <= j
  BY <1>1, <1>2, Least
<1>4. i \in 1 .. n /\ i \notin T
  <2>1. i # 0
    BY DEF rest
  <2>. QED
    BY <2>1
<1>5. i - 1 \in 0 .. n /\ ~(i <= i - 1)
  BY <1>4
<1>6. i - 1 \in T
  BY <1>3, <1>5
<1>. QED
  BY <1>4, <1>6

(* A loop has a state before each of its rounds. *)
IsLoop(h, n, base, step) == h[0] = base /\ \A i \in 1 .. n : h[i] = step[i][h[i - 1]]

LEMMA LoopExists ==
    ASSUME NEW n \in Nat, NEW S, NEW base \in S, NEW step \in [1 .. n -> [S -> S]]
    PROVE  \E h \in [0 .. n -> S] : IsLoop(h, n, base, step)
<1>. DEFINE Runs(k, h) == h[0] = base /\ \A i \in 1 .. k : h[i] = step[i][h[i - 1]]
            T == {k \in 0 .. n : \E h \in [0 .. k -> S] : Runs(k, h)}
<1>1. 0 \in T
  <2>. DEFINE h == [i \in 0 .. 0 |-> base]
  <2>1. h \in [0 .. 0 -> S] /\ h[0] = base /\ 1 .. 0 = {}
    OBVIOUS
  <2>. HIDE DEF h
  <2>. QED
    BY <2>1
<1>2. ASSUME NEW k \in 1 .. n, k - 1 \in T PROVE k \in T
  <2>1. PICK h \in [0 .. k - 1 -> S] : Runs(k - 1, h)
    BY <1>2
  <2>. DEFINE e == [i \in 0 .. k |-> IF i = k THEN step[k][h[k - 1]] ELSE h[i]]
  <2>2. h[k - 1] \in S /\ step[k] \in [S -> S]
    OBVIOUS
  <2>3. \A i \in 0 .. k : i # k => i \in 0 .. k - 1
    OBVIOUS
  <2>4. e \in [0 .. k -> S]
    BY <2>2, <2>3
  <2>5. e[0] = base
    BY <2>1
  <2>6. ASSUME NEW i \in 1 .. k PROVE e[i] = step[i][e[i - 1]]
    <3>1. i - 1 \in 0 .. k /\ i - 1 # k /\ e[i - 1] = h[i - 1]
      OBVIOUS
    <3>2. CASE i = k
      BY <3>1, <3>2
    <3>3. CASE i # k
      <4>1. i \in 1 .. k - 1 /\ e[i] = h[i]
        BY <3>3
      <4>. QED
        BY <2>1, <3>1, <4>1
    <3>. QED
      BY <3>2, <3>3
  <2>7. Runs(k, e)
    BY <2>5, <2>6, Zenon
  <2>. HIDE DEF e, Runs
  <2>. QED
    BY <2>4, <2>7
<1>3. n \in T
  <2>. HIDE DEF T
  <2>1. \A i \in 1 .. n : i - 1 \in T => i \in T
    BY <1>2
  <2>2. \A i \in 0 .. n : i \in T
    BY <1>1, <2>1, CountUp
  <2>. QED
    BY <2>2
<1>. QED
  BY <1>3 DEF IsLoop

LEMMA DigitsAreASequence ==
    ASSUME NEW n \in Nat, NEW S, NEW digits \in [1 .. n -> S]
    PROVE  Len(digits) = n /\ \A i \in 1 .. n : digits[i] \in S
<1>1. digits \in Seq(S)
  OBVIOUS
<1>. QED
  BY <1>1

(* The numbers that the first digits denote. *)
Prefixes(digits, base, n) ==
    CHOOSE h : h = [i \in 0 .. n |-> IF i = 0 THEN 0 ELSE base * h[i - 1] + digits[i]]

LEMMA NumberIsLast ==
    ASSUME NEW n \in Nat, NEW S, NEW digits \in [1 .. n -> S], NEW base
    PROVE  Number(digits, base) = Prefixes(digits, base, n)[n]
<1>1. Len(digits) = n
  BY DigitsAreASequence
<1>2. Number(digits, base) = Prefixes(digits, base, Len(digits))[Len(digits)]
  BY DEF Number, Prefixes
<1>. QED
  BY <1>1, <1>2, Zenon

LEMMA PrefixesAre ==
    ASSUME NEW n \in Nat, NEW digits \in [1 .. n -> Nat], NEW base \in Nat
    PROVE  /\ Prefixes(digits, base, n)[0] = 0
           /\ \A i \in 1 .. n : Prefixes(digits, base, n)[i] = base * Prefixes(digits, base, n)[i - 1] + digits[i]
           /\ \A i \in 0 .. n : Prefixes(digits, base, n)[i] \in Nat
<1>. DEFINE Body(h) == [i \in 0 .. n |-> IF i = 0 THEN 0 ELSE base * h[i - 1] + digits[i]]
            step == [i \in 1 .. n |-> [v \in Nat |-> base * v + digits[i]]]
<1>1. ASSUME NEW v \in Nat, NEW i \in 1 .. n PROVE base * v + digits[i] \in Nat
  <2>1. digits[i] \in Nat /\ base * v \in Nat
    OBVIOUS
  <2>. QED
    BY <2>1
<1>2. step \in [1 .. n -> [Nat -> Nat]] /\ 0 \in Nat
  BY <1>1
<1>. HIDE DEF step
<1>3. PICK h \in [0 .. n -> Nat] : IsLoop(h, n, 0, step)
  BY <1>2, LoopExists
<1>4. ASSUME NEW i \in 1 .. n PROVE h[i] = base * h[i - 1] + digits[i]
  <2>1. i - 1 \in 0 .. n
    OBVIOUS
  <2>2. h[i - 1] \in Nat
    BY <2>1
  <2>3. step[i][h[i - 1]] = base * h[i - 1] + digits[i]
    BY <2>2 DEF step
  <2>. QED
    BY <1>3, <2>3 DEF IsLoop
<1>5. h = Body(h)
  <2>1. ASSUME NEW i \in 0 .. n PROVE h[i] = Body(h)[i]
    <3>1. CASE i = 0
      BY <1>3, <3>1 DEF IsLoop
    <3>2. CASE i # 0
      BY <1>4, <3>2
    <3>. QED
      BY <3>1, <3>2
  <2>2. \A i \in 0 .. n : h[i] = Body(h)[i]
    BY <2>1
  <2>. QED
    BY <2>2
<1>6. Prefixes(digits, base, n) = Body(Prefixes(digits, base, n))
  BY <1>5 DEF Prefixes
<1>. DEFINE q == Prefixes(digits, base, n)
<1>. HIDE DEF q
<1>7. q[0] = 0 /\ \A i \in 1 .. n : q[i] = base * q[i - 1] + digits[i]
  <2>1. q = Body(q)
    BY <1>6 DEF q
  <2>2. Body(q)[0] = 0
    OBVIOUS
  <2>3. \A i \in 1 .. n : Body(q)[i] = base * q[i - 1] + digits[i]
    OBVIOUS
  <2>. HIDE DEF Body
  <2>. QED
    BY <2>1, <2>2, <2>3, Zenon
<1>8. \A i \in 0 .. n : q[i] \in Nat
  <2>. DEFINE T == {i \in 0 .. n : q[i] \in Nat}
  <2>1. 0 \in T
    BY <1>7
  <2>2. ASSUME NEW i \in 1 .. n, i - 1 \in T PROVE i \in T
    <3>1. q[i] = base * q[i - 1] + digits[i]
      BY <1>7
    <3>2. q[i] \in Nat
      BY <1>1, <2>2, <3>1
    <3>. QED
      BY <3>2
  <2>. HIDE DEF T
  <2>3. \A i \in 0 .. n : i \in T
    BY <2>1, <2>2, CountUp
  <2>. QED
    BY <2>3 DEF T
<1>. QED
  BY <1>7, <1>8 DEF q

LEMMA QuotientIs ==
    ASSUME NEW n \in Int, NEW m \in Nat \ {0}, NEW q \in Int, NEW r \in 0 .. m - 1, n = m * q + r
    PROVE  n \div m = q
<1>. DEFINE p == n \div m  s == n % m
<1>1. p \in Int /\ s \in 0 .. m - 1 /\ n = m * p + s
  OBVIOUS
<1>. HIDE DEF p, s
<1>. DEFINE d == p - q
<1>2. d \in Int /\ m * d = m * p - m * q /\ m * p \in Int /\ m * q \in Int
  BY <1>1
<1>3. m * d \in Int /\ m * d < m /\ m * d > -m
  BY <1>1, <1>2
<1>. HIDE DEF d
<1>4. CASE d >= 1
  <2>1. m * d >= m
    BY <1>2, <1>4
  <2>. QED
    BY <1>3, <2>1
<1>5. CASE d <= -1
  <2>1. m * d <= -m
    BY <1>2, <1>5
  <2>. QED
    BY <1>3, <2>1
<1>6. CASE d = 0
  BY <1>1, <1>6 DEF d, p
<1>. QED
  BY <1>2, <1>4, <1>5, <1>6

LEMMA QuotientOfQuotient ==
    ASSUME NEW n \in Int, NEW m \in Nat \ {0}, NEW w \in Nat \ {0}
    PROVE  n \div m = w * (n \div (w * m)) + ((n \div m) % w)
<1>. DEFINE q == n \div m  r == n % m  s == q \div w  t == q % w
<1>1. q \in Int /\ r \in 0 .. m - 1 /\ n = m * q + r
  OBVIOUS
<1>2. s \in Int /\ t \in 0 .. w - 1 /\ q = w * s + t
  BY <1>1
<1>. HIDE DEF q, r, s, t
<1>3. w * m \in Nat \ {0}
  <2>1. w * m \in Nat /\ w * m >= m
    OBVIOUS
  <2>. QED
    BY <2>1
<1>4. n = (w * m) * s + (m * t + r)
  <2>1. m * (w * s + t) = (w * m) * s + m * t
    BY <1>1, <1>2
  <2>2. (w * m) * s \in Int /\ m * t \in Int
    BY <1>1, <1>2
  <2>. QED
    BY <1>1, <1>2, <2>1, <2>2
<1>5. m * t + r \in 0 .. (w * m) - 1
  <2>1. m * t >= 0 /\ m * t \in Int
    BY <1>2
  <2>2. m * (t + 1) <= m * w
    BY <1>2
  <2>3. m * (t + 1) = m * t + m /\ m * w = w * m /\ w * m \in Int
    BY <1>2
  <2>. QED
    BY <1>1, <1>2, <2>1, <2>2, <2>3
<1>6. n \div (w * m) = s
  BY <1>2, <1>3, <1>4, <1>5, QuotientIs
<1>7. q = w * (n \div (w * m)) + t
  BY <1>2, <1>6
<1>. QED
  BY <1>7, Zenon DEF q, t

-----------------------------------------------------------------------------
(* Constants.  What the first i digits of a number denote. *)
Front(n, base, width, i) == n \div base ^ (width - i)

LEMMA Powers ==
    ASSUME NEW base \in {10, 16}, NEW k \in 0 .. 2 * Width
    PROVE  /\ base ^ k \in Nat \ {0} /\ base ^ 0 = 1
           /\ k # 0 => base ^ k = base * base ^ (k - 1)
           /\ k # 0 => base ^ k >= base
<1>1. 2 * Width \in Nat
  BY NumbersAssumption
<1>2. base ^ k \in Nat \ {0} /\ base ^ 0 = 1
  BY PowersAssumption, Zenon
<1>3. ASSUME k # 0 PROVE base ^ k = base * base ^ (k - 1) /\ base ^ k >= base
  <2>1. k \in 1 .. 2 * Width /\ k - 1 \in 0 .. 2 * Width
    BY <1>1, <1>3
  <2>2. base ^ k = base * base ^ (k - 1) /\ base ^ (k - 1) \in Nat \ {0}
    BY <2>1, PowersAssumption, Zenon
  <2>. DEFINE power == base ^ (k - 1)
  <2>. HIDE DEF power
  <2>3. power \in Nat \ {0} /\ base * power >= base
    <3>1. power \in Nat \ {0}
      BY <2>2 DEF power
    <3>. QED
      BY <3>1
  <2>. QED
    BY <2>2, <2>3 DEF power
<1>. QED
  BY <1>2, <1>3

(* The digits of a number are below the base, and follow from each other. *)
LEMMA Fronts ==
    ASSUME NEW n \in Nat, NEW base \in {10, 16}, NEW width \in 1 .. 2 * Width, n < base ^ width
    PROVE  /\ InBase(n, base, width) \in [1 .. width -> 0 .. base - 1]
           /\ Front(n, base, width, 0) = 0 /\ Front(n, base, width, width) = n
           /\ \A i \in 0 .. width : Front(n, base, width, i) \in Nat
           /\ \A i \in 1 .. width : Front(n, base, width, i) =
                  base * Front(n, base, width, i - 1) + InBase(n, base, width)[i]
<1>1. width \in Nat /\ width # 0 /\ \A i \in 0 .. width : width - i \in 0 .. 2 * Width
  BY NumbersAssumption
<1>2. \A i \in 0 .. width : base ^ (width - i) \in Nat \ {0}
  BY <1>1, Powers
<1>3. ASSUME NEW i \in 0 .. width PROVE Front(n, base, width, i) \in Nat
  <2>. DEFINE power == base ^ (width - i)
  <2>1. power \in Nat \ {0}
    BY <1>2
  <2>. HIDE DEF power
  <2>2. n \div power \in Nat
    BY <2>1
  <2>. QED
    BY <2>2 DEF power, Front
<1>4. ASSUME NEW i \in 1 .. width PROVE InBase(n, base, width)[i] = Front(n, base, width, i) % base
  BY DEF InBase, Front
<1>5. InBase(n, base, width) \in [1 .. width -> 0 .. base - 1]
  <2>1. ASSUME NEW i \in 1 .. width PROVE (n \div base ^ (width - i)) % base \in 0 .. base - 1
    <3>1. Front(n, base, width, i) \in Nat /\ base \in Nat \ {0}
      BY <1>3
    <3>2. Front(n, base, width, i) % base \in 0 .. base - 1
      BY <3>1
    <3>. QED
      BY <3>2 DEF Front
  <2>. QED
    BY <2>1 DEF InBase
<1>6. Front(n, base, width, 0) = 0
  <2>. DEFINE power == base ^ width
  <2>1. power \in Nat \ {0} /\ n < power /\ width - 0 = width
    BY <1>1, Powers
  <2>. HIDE DEF power
  <2>2. n \in 0 .. power - 1 /\ n = power * 0 + n /\ n \in Int
    BY <2>1
  <2>3. n \div power = 0
    BY <2>1, <2>2, QuotientIs
  <2>. QED
    BY <2>1, <2>3 DEF power, Front
<1>7. Front(n, base, width, width) = n
  <2>1. width - width = 0 /\ n \div 1 = n
    BY <1>1
  <2>2. base ^ 0 = 1
    BY PowersAssumption, Zenon
  <2>. QED
    BY <2>1, <2>2, Zenon DEF Front
<1>8. ASSUME NEW i \in 1 .. width
      PROVE  Front(n, base, width, i) = base * Front(n, base, width, i - 1) + InBase(n, base, width)[i]
  <2>. DEFINE power == base ^ (width - i)  d == InBase(n, base, width)[i]
  <2>1. power \in Nat \ {0} /\ base \in Nat \ {0} /\ n \in Int
    BY <1>2
  <2>2. base ^ (width - (i - 1)) = base * power
    <3>1. width - (i - 1) \in 0 .. 2 * Width /\ width - (i - 1) # 0 /\ (width - (i - 1)) - 1 = width - i
      BY <1>1
    <3>. QED
      BY <3>1, Powers
  <2>3. d = (n \div power) % base
    BY DEF InBase
  <2>. HIDE DEF power, d
  <2>4. n \div power = base * (n \div (base * power)) + ((n \div power) % base)
    BY <2>1, QuotientOfQuotient, Zenon
  <2>5. n \div power = base * (n \div (base * power)) + d
    BY <2>3, <2>4, Zenon
  <2>. QED
    BY <2>2, <2>5, Zenon DEF Front, d, power
<1>. QED
  BY <1>3, <1>5, <1>6, <1>7, <1>8

(* The number a string of digits denotes, digit by digit. *)
LEMMA NumberIs ==
    ASSUME NEW n \in Nat, NEW digits \in [1 .. n -> Nat], NEW base \in Nat
    PROVE  /\ Number(digits, base) = Prefixes(digits, base, n)[n]
           /\ Prefixes(digits, base, n)[0] = 0
           /\ \A i \in 1 .. n :
                 Prefixes(digits, base, n)[i] = base * Prefixes(digits, base, n)[i - 1] + digits[i]
           /\ \A i \in 0 .. n : Prefixes(digits, base, n)[i] \in Nat
  BY NumberIsLast, PrefixesAre

LEMMA InBaseDenotes ==
    ASSUME NEW n \in Nat, NEW base \in {10, 16}, NEW width \in 1 .. 2 * Width, n < base ^ width
    PROVE  Number(InBase(n, base, width), base) = n
<1>. DEFINE digits == InBase(n, base, width)  p == Prefixes(digits, base, width)
            T == {i \in 0 .. width : p[i] = Front(n, base, width, i)}
<1>1. width \in Nat /\ width \in 0 .. width /\ base \in Nat
  BY NumbersAssumption
<1>2. digits \in [1 .. width -> Nat]
  <2>1. digits \in [1 .. width -> 0 .. base - 1]
    BY Fronts, Zenon
  <2>. HIDE DEF digits
  <2>2. 0 .. base - 1 \subseteq Nat
    BY <1>1
  <2>. QED
    BY <2>1, <2>2
<1>3. /\ Number(digits, base) = p[width] /\ p[0] = 0
      /\ \A i \in 1 .. width : p[i] = base * p[i - 1] + digits[i]
  <2>. HIDE DEF digits
  <2>1. Number(digits, base) = p[width] /\ p[0] = 0
    BY <1>1, <1>2, NumberIs, Zenon
  <2>2. \A i \in 1 .. width : p[i] = base * p[i - 1] + digits[i]
    BY <1>1, <1>2, NumberIs, Zenon
  <2>. QED
    BY <2>1, <2>2, Zenon
<1>4. /\ Front(n, base, width, 0) = 0 /\ Front(n, base, width, width) = n
      /\ \A i \in 1 .. width : Front(n, base, width, i) = base * Front(n, base, width, i - 1) + digits[i]
  <2>1. Front(n, base, width, 0) = 0 /\ Front(n, base, width, width) = n
    <3>. HIDE DEF digits, p, T
    <3>. QED
      BY Fronts
  <2>2. \A i \in 1 .. width : Front(n, base, width, i) =
            base * Front(n, base, width, i - 1) + InBase(n, base, width)[i]
    <3>. HIDE DEF digits, p, T
    <3>. QED
      BY Fronts, Zenon
  <2>. QED
    BY <2>1, <2>2, Zenon
<1>. HIDE DEF digits, p
<1>5. 0 \in T
  BY <1>1, <1>3, <1>4
<1>6. ASSUME NEW i \in 1 .. width, i - 1 \in T PROVE i \in T
  <2>1. p[i - 1] = Front(n, base, width, i - 1) /\ i \in 0 .. width
    BY <1>1, <1>6
  <2>2. p[i] = Front(n, base, width, i)
    BY <1>3, <1>4, <2>1, Zenon
  <2>. QED
    BY <2>1, <2>2
<1>. HIDE DEF T
<1>7. width \in T
  BY <1>1, <1>5, <1>6, CountUp
<1>8. p[width] = n
  BY <1>4, <1>7 DEF T
<1>. QED
  BY <1>3, <1>8 DEF digits

LEMMA DecimalWidthIs ==
    ASSUME NEW n \in Numbers
    PROVE  LET w == DecimalWidth(n)
           IN w \in 1 .. 2 * Width /\ n < 10 ^ w /\ (w = 1 <=> n < 10)
<1>. DEFINE T == {w \in 1 .. 2 * Width : n < 10 ^ w}
            Fits(w) == n < 10 ^ w /\ (w = 1 \/ 10 ^ (w - 1) <= n)
<1>1. n \in Nat /\ 2 * Width \in 1 .. 2 * Width /\ n < 10 ^ (2 * Width)
  BY NumbersAssumption
<1>2. T # {} /\ T \in SUBSET Nat
  BY <1>1
<1>3. PICK w \in T : \A v \in T : w <= v
  BY <1>2, Least
<1>4. w \in 1 .. 2 * Width /\ Fits(w)
  <2>1. w \in 1 .. 2 * Width /\ n < 10 ^ w
    BY <1>3
  <2>2. ASSUME w # 1 PROVE 10 ^ (w - 1) <= n
    <3>1. w - 1 \in 1 .. 2 * Width /\ w - 1 \in 0 .. 2 * Width /\ ~(w <= w - 1)
      BY <1>1, <2>1, <2>2
    <3>2. ~(n < 10 ^ (w - 1))
      BY <1>3, <3>1
    <3>3. 10 ^ (w - 1) \in Nat \ {0}
      BY <3>1, Powers
    <3>. QED
      BY <1>1, <3>2, <3>3
  <2>. QED
    BY <2>1, <2>2
<1>. DEFINE v == DecimalWidth(n)
<1>5. v \in 1 .. 2 * Width /\ Fits(v)
  <2>1. v = CHOOSE u \in 1 .. 2 * Width : Fits(u)
    BY DEF DecimalWidth
  <2>. HIDE DEF v, Fits
  <2>. QED
    BY <1>4, <2>1, Zenon
<1>6. v \in 0 .. 2 * Width /\ v - 1 \in 0 .. 2 * Width
  BY <1>1, <1>5
<1>. HIDE DEF v
<1>7. v = 1 => n < 10
  <2>1. 1 \in 0 .. 2 * Width /\ 1 # 0 /\ 1 - 1 = 0 /\ 10 \in {10, 16}
    BY <1>1
  <2>2. 10 ^ 1 = 10 * 10 ^ (1 - 1) /\ 10 ^ 0 = 1
    BY <2>1, Powers, Zenon
  <2>3. 10 ^ 1 = 10
    BY <2>1, <2>2
  <2>. QED
    BY <1>5, <2>3
<1>8. v # 1 => n >= 10
  <2>1. ASSUME v # 1 PROVE n >= 10
    <3>1. v - 1 # 0 /\ 10 \in {10, 16}
      BY <1>6, <2>1
    <3>2. 10 ^ (v - 1) >= 10 /\ 10 ^ (v - 1) \in Nat \ {0}
      BY <1>6, <3>1, Powers
    <3>. QED
      BY <1>1, <1>5, <2>1, <3>2
  <2>. QED
    BY <2>1
<1>9. v = 1 <=> n < 10
  BY <1>1, <1>7, <1>8
<1>. QED
  BY <1>5, <1>9 DEF v

(* What is read of a string when one string results from the overwriting.    *)
LEMMA ReadOne ==
    ASSUME NEW n \in Nat, NEW t \in [1 .. n -> Nat], NEW string, Overwritten(string) = {t}
    PROVE  /\ (\A i \in 1 .. n : t[i] < 10) => Read(string) = {Number(t, 10) % Mod}
           /\ (\E i \in 1 .. n : ~(t[i] < 10)) => Read(string) = {}
<1>1. DOMAIN t = 1 .. n
  OBVIOUS
<1>. QED
  BY <1>1, Zenon DEF Read

LEMMA ReadsSmaller ==
    ASSUME NEW m \in Nat, NEW n \in Nat, m <= n, n < Mod
    PROVE  m % Mod = m
<1>1. Mod \in Nat \ {0} /\ m \in 0 .. Mod - 1
  BY NumbersAssumption
<1>. QED
  BY <1>1

(* One digit is read alone or with a 0 behind it, as the build has it.       *)
LEMMA DigitRead ==
    ASSUME NEW n \in Nat, n < 10, n < Mod, NEW t \in [1 .. 1 -> Nat], t[1] = n
    PROVE  Read(t) = {n} <=> ("extended" \in Build => (10 * n) % Mod = n)
<1>. DEFINE two == t \o <<0>>
<1>1. Len(t) = 1 /\ DOMAIN t = {1} /\ t \in Seq(Nat)
  <2>1. DOMAIN t = 1 .. 1 /\ 1 .. 1 = {1}
    OBVIOUS
  <2>3. ASSUME NEW k \in Nat, NEW q \in [1 .. k -> Nat] PROVE q \in Seq(Nat)
    OBVIOUS
  <2>4. t \in Seq(Nat)
    BY <2>3
  <2>2. Len(t) = 1
    BY DigitsAreASequence
  <2>. QED
    BY <2>1, <2>2, <2>4
<1>2. two \in [1 .. 2 -> Nat] /\ two[1] = n /\ two[2] = 0 /\ DOMAIN two = {1, 2}
  <2>. DEFINE c == <<0>>
  <2>1. c \in Seq(Nat) /\ Len(c) = 1 /\ c[1] = 0
    OBVIOUS
  <2>2. two = t \o c /\ t \in Seq(Nat)
    BY <1>1
  <2>. HIDE DEF c, two
  <2>3. /\ two \in Seq(Nat) /\ Len(two) = Len(t) + Len(c)
        /\ \A i \in 1 .. Len(t) + Len(c) : two[i] = IF i <= Len(t) THEN t[i] ELSE c[i - Len(t)]
    BY <2>1, <2>2, ConcatProperties
  <2>4. two \in Seq(Nat) /\ Len(two) = 2 /\ two[1] = n /\ two[2] = 0
    BY <1>1, <2>1, <2>3
  <2>5. two \in [1 .. Len(two) -> Nat] /\ DOMAIN two = 1 .. Len(two) /\ 1 .. 2 = {1, 2}
    BY <2>4
  <2>. QED
    BY <2>4, <2>5
<1>. HIDE DEF two
<1>3. Number(t, 10) = n
  <2>. DEFINE p == Prefixes(t, 10, 1)
  <2>1. Number(t, 10) = p[1] /\ p[0] = 0 /\ \A i \in 1 .. 1 : p[i] = 10 * p[i - 1] + t[i]
    <3>1. 1 \in Nat /\ 10 \in Nat
      OBVIOUS
    <3>. QED
      BY <3>1, NumberIs, Zenon
  <2>. HIDE DEF p
  <2>. QED
    BY <2>1
<1>4. Number(two, 10) = 10 * n
  <2>. DEFINE p == Prefixes(two, 10, 2)
  <2>1. Number(two, 10) = p[2] /\ p[0] = 0 /\ \A i \in 1 .. 2 : p[i] = 10 * p[i - 1] + two[i]
    <3>1. 2 \in Nat /\ 10 \in Nat
      OBVIOUS
    <3>. QED
      BY <1>2, <3>1, NumberIs, Zenon
  <2>. HIDE DEF p
  <2>2. p[1] = 10 * p[1 - 1] + n /\ p[2] = 10 * p[2 - 1] + 0
    BY <1>2, <2>1
  <2>. QED
    BY <2>1, <2>2
<1>5. Overwritten(t) = {IF b = "kept" THEN t ELSE two : b \in Build}
  <2>1. ~(Len(t) > 1)
    BY <1>1
  <2>. QED
    BY <2>1, Zenon DEF Overwritten, two
<1>6. ASSUME NEW u \in {t, two} PROVE \A i \in DOMAIN u : u[i] < 10
  BY <1>1, <1>2, <1>6
<1>7. Read(t) = {Number(u, 10) % Mod : u \in Overwritten(t)}
  <2>1. Overwritten(t) \subseteq {t, two}
    BY <1>5
  <2>2. {u \in Overwritten(t) : \A i \in DOMAIN u : u[i] < 10} = Overwritten(t)
    BY <1>6, <2>1, Zenon
  <2>. QED
    BY <2>2, Zenon DEF Read
<1>8. n % Mod = n
  BY ReadsSmaller
<1>9. \A b \in Build : b = "kept" \/ b = "extended"
  BY BuildAssumption
<1>10. CASE "extended" \in Build /\ "kept" \in Build
  <2>1. Overwritten(t) = {t, two}
    BY <1>5, <1>9, <1>10
  <2>2. Read(t) = {n, (10 * n) % Mod}
    <3>1. Read(t) = {Number(t, 10) % Mod, Number(two, 10) % Mod}
      BY <1>7, <2>1
    <3>. QED
      BY <1>3, <1>4, <1>8, <3>1, Zenon
  <2>. QED
    BY <1>10, <2>2
<1>11. CASE "kept" \notin Build
  <2>1. "extended" \in Build
    BY <1>9, <1>11, BuildAssumption
  <2>2. Overwritten(t) = {two}
    BY <1>5, <1>9, <1>11, <2>1
  <2>3. Read(t) = {Number(two, 10) % Mod}
    BY <1>7, <2>2
  <2>. QED
    BY <1>4, <2>1, <2>3
<1>12. CASE "extended" \notin Build
  <2>1. "kept" \in Build
    BY <1>9, <1>12, BuildAssumption
  <2>2. Overwritten(t) = {t}
    BY <1>5, <1>9, <1>12, <2>1
  <2>3. Read(t) = {Number(t, 10) % Mod}
    BY <1>7, <2>2
  <2>. QED
    BY <1>3, <1>8, <1>12, <2>3
<1>. QED
  BY <1>10, <1>11, <1>12

(* A decimal string of more digits is read as written when it has '0' in     *)
(* second place; of any other the number gets smaller.                       *)
LEMMA DecimalRead ==
    ASSUME NEW n \in Numbers, n < Mod
    PROVE  Read(Decimal(n)) = {n} <=>
              IF n < 10 THEN "extended" \in Build => (10 * n) % Mod = n
              ELSE Decimal(n)[2] = 0
<1>. DEFINE w == DecimalWidth(n)  t == Decimal(n)
<1>1. w \in 1 .. 2 * Width /\ n < 10 ^ w /\ (w = 1 <=> n < 10)
  BY DecimalWidthIs
<1>2. n \in Nat /\ w \in Nat /\ 10 \in {10, 16} /\ 10 \in Nat
  BY <1>1, NumbersAssumption
<1>3. /\ t = InBase(n, 10, w) /\ Number(t, 10) = n /\ t \in [1 .. w -> 0 .. 9]
      /\ Front(n, 10, w, 0) = 0 /\ Front(n, 10, w, w) = n
      /\ \A i \in 0 .. w : Front(n, 10, w, i) \in Nat
      /\ \A i \in 1 .. w : Front(n, 10, w, i) = 10 * Front(n, 10, w, i - 1) + t[i]
  <2>. HIDE DEF w
  <2>1. t = InBase(n, 10, w)
    BY DEF Decimal, w
  <2>. HIDE DEF t
  <2>2. Number(t, 10) = n
    BY <1>1, <1>2, <2>1, InBaseDenotes, Zenon
  <2>3. /\ t \in [1 .. w -> 0 .. 10 - 1]
        /\ Front(n, 10, w, 0) = 0 /\ Front(n, 10, w, w) = n
        /\ \A i \in 0 .. w : Front(n, 10, w, i) \in Nat
        /\ \A i \in 1 .. w : Front(n, 10, w, i) = 10 * Front(n, 10, w, i - 1) + t[i]
    <3>1. n \in Nat /\ 10 \in {10, 16} /\ w \in 1 .. 2 * Width /\ n < 10 ^ w
      BY <1>1, <1>2
    <3>. DEFINE s == InBase(n, 10, w)
    <3>2. s \in [1 .. w -> 0 .. 10 - 1] /\ Front(n, 10, w, 0) = 0 /\ Front(n, 10, w, w) = n
      BY <3>1, Fronts, Zenon
    <3>3. \A i \in 0 .. w : Front(n, 10, w, i) \in Nat
      BY <3>1, Fronts, Zenon
    <3>4. \A i \in 1 .. w : Front(n, 10, w, i) = 10 * Front(n, 10, w, i - 1) + s[i]
      BY <3>1, Fronts, Zenon
    <3>. QED
      BY <2>1, <3>2, <3>3, <3>4, Zenon
  <2>4. 10 - 1 = 9
    OBVIOUS
  <2>5. t \in [1 .. w -> 0 .. 9]
    BY <2>3, <2>4, Zenon
  <2>. QED
    BY <2>1, <2>2, <2>3, <2>5, Zenon
<1>. HIDE DEF w, t
<1>4. Len(t) = w /\ \A i \in 1 .. w : t[i] \in Nat /\ t[i] < 10
  <2>1. w \in Nat /\ t \in [1 .. w -> 0 .. 9]
    BY <1>2, <1>3
  <2>2. Len(t) = w /\ \A i \in 1 .. w : t[i] \in 0 .. 9
    BY <2>1, DigitsAreASequence
  <2>. QED
    BY <2>2
<1>5. t \in [1 .. w -> Nat]
  BY <1>3
<1>6. n % Mod = n
  BY <1>2, ReadsSmaller
<1>7. ASSUME Overwritten(t) = {t} PROVE Read(t) = {n}
  <2>1. Read(t) = {Number(t, 10) % Mod}
    BY <1>2, <1>4, <1>5, <1>7, ReadOne, Zenon
  <2>. QED
    BY <1>3, <1>6, <2>1
<1>8. CASE n < 10
  <2>1. w = 1
    BY <1>1, <1>8
  <2>2. t[1] = n
    <3>1. Front(n, 10, w, 1) = 10 * Front(n, 10, w, 1 - 1) + t[1]
      BY <1>3, <2>1
    <3>2. 10 * Front(n, 10, w, 1 - 1) + t[1] = t[1]
      BY <1>3, <1>4, <2>1
    <3>. QED
      BY <1>3, <2>1, <3>1, <3>2
  <2>3. Read(t) = {n} <=> ("extended" \in Build => (10 * n) % Mod = n)
    BY <1>2, <1>5, <1>8, <2>1, <2>2, DigitRead
  <2>. QED
    BY <1>8, <2>3, Zenon DEF t
<1>9. CASE ~(n < 10) /\ t[2] = 0
  <2>1. w > 1 /\ [t EXCEPT ![2] = 0] = t
    BY <1>1, <1>3, <1>9
  <2>2. Overwritten(t) = {t}
    BY <1>4, <2>1 DEF Overwritten
  <2>. QED
    BY <1>7, <1>9, <2>2 DEF t
<1>10. CASE ~(n < 10) /\ t[2] # 0
  <2>. DEFINE u == [t EXCEPT ![2] = 0]  p == Prefixes(u, 10, w)
              T == {i \in 0 .. w : p[i] <= Front(n, 10, w, i) /\ (i >= 2 => p[i] < Front(n, 10, w, i))}
  <2>1. w > 1 /\ w \in Nat
    BY <1>1, <1>2, <1>10
  <2>2. Overwritten(t) = {u}
    BY <1>4, <2>1 DEF Overwritten
  <2>3. /\ u \in [1 .. w -> Nat] /\ \A i \in 1 .. w : u[i] < 10 /\ u[i] <= t[i]
        /\ u[2] < t[2] /\ \A i \in 1 .. w : i # 2 => u[i] = t[i]
    BY <1>4, <1>5, <1>10, <2>1
  <2>. HIDE DEF u
  <2>4. /\ Number(u, 10) = p[w] /\ p[0] = 0 /\ \A i \in 0 .. w : p[i] \in Nat
        /\ \A i \in 1 .. w : p[i] = 10 * p[i - 1] + u[i]
    BY <1>2, <2>3, NumberIs
  <2>. HIDE DEF p
  <2>5. 0 \in T
    BY <1>3, <2>1, <2>4
  <2>6. ASSUME NEW i \in 1 .. w, i - 1 \in T PROVE i \in T
    <3>. DEFINE a == p[i - 1]  b == Front(n, 10, w, i - 1)
    <3>1. i \in 0 .. w /\ i - 1 \in 0 .. w
      BY <2>1
    <3>2. a \in Nat /\ b \in Nat /\ u[i] \in Nat /\ t[i] \in Nat /\ u[i] <= t[i]
      BY <1>3, <1>5, <2>3, <2>4, <3>1
    <3>3. p[i] = 10 * a + u[i] /\ Front(n, 10, w, i) = 10 * b + t[i]
      BY <1>3, <2>4
    <3>4. a <= b /\ (i - 1 >= 2 => a < b)
      BY <2>6
    <3>5. i = 2 => u[i] < t[i]
      BY <2>3
    <3>. HIDE DEF a, b
    <3>6. 10 * a + u[i] <= 10 * b + t[i] /\ (i >= 2 => 10 * a + u[i] < 10 * b + t[i])
      BY <3>1, <3>2, <3>4, <3>5
    <3>. QED
      BY <3>1, <3>3, <3>6
  <2>7. w \in T
    <3>. HIDE DEF T
    <3>1. \A i \in 0 .. w : i \in T
      BY <2>1, <2>5, <2>6, CountUp
    <3>. QED
      BY <2>1, <3>1
  <2>8. p[w] \in Nat /\ p[w] < n
    BY <1>3, <2>1, <2>4, <2>7
  <2>9. Read(t) = {p[w] % Mod}
    BY <1>2, <2>1, <2>2, <2>3, <2>4, ReadOne, Zenon
  <2>10. p[w] % Mod = p[w]
    BY <1>2, <2>8, ReadsSmaller
  <2>11. Read(t) # {n}
    BY <1>2, <2>8, <2>9, <2>10
  <2>. QED
    BY <1>10, <2>11 DEF t
<1>. QED
  BY <1>8, <1>9, <1>10 DEF t

(* A hexadecimal string of the exporter, and what the overwriting leaves. *)
LEMMA HexIs ==
    ASSUME NEW n \in Numbers
    PROVE  LET d == InBase(n, 16, Width)
           IN /\ Hex(n)[2] = X
              /\ \E u \in [1 .. Width + 2 -> Nat] :
                    /\ Overwritten(Hex(n)) = {u} /\ u[1] = 0 /\ u[2] = 0
                    /\ \A i \in 1 .. Width : u[i + 2] = d[i]
<1>. DEFINE d == InBase(n, 16, Width)  t == Hex(n)  u == [t EXCEPT ![2] = 0]
<1>1. Width \in Nat \ {0} /\ n \in Nat /\ n < 16 ^ Width /\ Width \in 1 .. 2 * Width /\ 16 \in {10, 16}
  BY NumbersAssumption
<1>2. d \in [1 .. Width -> Nat]
  <2>1. d \in [1 .. Width -> 0 .. 16 - 1] /\ 0 .. 16 - 1 \subseteq Nat
    BY <1>1, Fronts
  <2>. HIDE DEF d
  <2>. QED
    BY <2>1
<1>. HIDE DEF d
<1>3. t = <<0, 16>> \o d
  BY DEF Hex, X, d
<1>4. d \in Seq(Nat) /\ Len(d) = Width
  BY <1>1, <1>2, DigitsAreASequence
<1>5. /\ t \in Seq(Nat) /\ Len(t) = Width + 2 /\ t[1] = 0 /\ t[2] = 16
      /\ \A i \in 1 .. Width : t[i + 2] = d[i]
  <2>. DEFINE c == <<0, 16>>
  <2>1. c \in Seq(Nat) /\ Len(c) = 2 /\ c[1] = 0 /\ c[2] = 16
    OBVIOUS
  <2>2. t = c \o d
    BY <1>3
  <2>. HIDE DEF c, t
  <2>3. /\ t \in Seq(Nat) /\ Len(t) = Len(c) + Len(d)
        /\ \A i \in 1 .. Len(c) + Len(d) : t[i] = IF i <= Len(c) THEN c[i] ELSE d[i - Len(c)]
    BY <1>4, <2>1, <2>2, ConcatProperties, Zenon
  <2>4. t[1] = c[1] /\ t[2] = c[2] /\ Len(t) = Width + 2
    BY <1>1, <1>4, <2>1, <2>3
  <2>5. ASSUME NEW i \in 1 .. Width PROVE t[i + 2] = d[i]
    <3>1. i + 2 \in 1 .. Len(c) + Len(d) /\ ~(i + 2 <= Len(c)) /\ (i + 2) - Len(c) = i
      BY <1>1, <1>4, <2>1
    <3>. QED
      BY <2>3, <3>1
  <2>. QED
    BY <2>1, <2>3, <2>4, <2>5
<1>. HIDE DEF t
<1>6. u \in [1 .. Width + 2 -> Nat] /\ u[1] = 0 /\ u[2] = 0 /\ \A i \in 1 .. Width : u[i + 2] = d[i]
  <2>1. t \in [1 .. Len(t) -> Nat] /\ Len(t) = Width + 2
    BY <1>5
  <2>2. 2 \in 1 .. Width + 2 /\ 1 \in 1 .. Width + 2 /\ 0 \in Nat
    BY <1>1
  <2>3. u \in [1 .. Width + 2 -> Nat] /\ u[1] = 0 /\ u[2] = 0
    BY <1>5, <2>1, <2>2
  <2>4. ASSUME NEW i \in 1 .. Width PROVE u[i + 2] = d[i]
    <3>1. i + 2 \in 1 .. Width + 2 /\ i + 2 # 2
      BY <1>1
    <3>2. u[i + 2] = t[i + 2]
      BY <2>1, <3>1
    <3>. QED
      BY <1>5, <3>2
  <2>. QED
    BY <2>3, <2>4
<1>7. Overwritten(t) = {u}
  BY <1>1, <1>5 DEF Overwritten
<1>. HIDE DEF u
<1>8. t[2] = X
  BY <1>5 DEF X
<1>. QED
  BY <1>6, <1>7, <1>8, Zenon DEF t, d

(* A hexadecimal string is read as written when the number has one decimal   *)
(* digit; a larger one is rejected or gets smaller.                          *)
LEMMA HexRead ==
    ASSUME NEW n \in Numbers, n < Mod
    PROVE  Read(Hex(n)) = {n} <=> n < 10
<1>. DEFINE d == InBase(n, 16, Width)  v == [i \in 0 .. Width |-> Front(n, 16, Width, i)]
            last == v[Width - 1]
<1>1. Width \in Nat \ {0} /\ n \in Nat /\ n < 16 ^ Width /\ Width \in 1 .. 2 * Width /\ 16 \in {10, 16}
  BY NumbersAssumption
<1>2. /\ d \in [1 .. Width -> 0 .. 16 - 1] /\ v[0] = 0 /\ v[Width] = n
      /\ \A i \in 0 .. Width : v[i] \in Nat
      /\ \A i \in 1 .. Width : v[i] = 16 * v[i - 1] + d[i]
  <2>1. /\ d \in [1 .. Width -> 0 .. 16 - 1]
        /\ Front(n, 16, Width, 0) = 0 /\ Front(n, 16, Width, Width) = n
        /\ \A i \in 0 .. Width : Front(n, 16, Width, i) \in Nat
        /\ \A i \in 1 .. Width :
              Front(n, 16, Width, i) = 16 * Front(n, 16, Width, i - 1) + d[i]
    BY <1>1, Fronts, Zenon
  <2>. HIDE DEF d
  <2>2. 0 \in 0 .. Width /\ Width \in 0 .. Width
        /\ \A i \in 1 .. Width : i \in 0 .. Width /\ i - 1 \in 0 .. Width
    BY <1>1
  <2>. QED
    BY <2>1, <2>2
<1>3. PICK u \in [1 .. Width + 2 -> Nat] :
         /\ Overwritten(Hex(n)) = {u} /\ u[1] = 0 /\ u[2] = 0
         /\ \A i \in 1 .. Width : u[i + 2] = d[i]
  BY HexIs
<1>. DEFINE p == Prefixes(u, 10, Width + 2)
            T == {i \in 0 .. Width : p[i + 2] <= v[i]}
<1>4. /\ Number(u, 10) = p[Width + 2] /\ p[0] = 0 /\ \A i \in 0 .. Width + 2 : p[i] \in Nat
      /\ \A i \in 1 .. Width + 2 : p[i] = 10 * p[i - 1] + u[i]
  <2>1. Width + 2 \in Nat /\ 10 \in Nat
    BY <1>1
  <2>. QED
    BY <2>1, NumberIs, Zenon
<1>. HIDE DEF p, d, v
<1>5. \A i \in 1 .. Width : d[i] \in Nat /\ d[i] <= 15
  <2>1. \A i \in 1 .. Width : d[i] \in 0 .. 16 - 1
    BY <1>2
  <2>. QED
    BY <2>1
<1>6. \A i \in 1 .. Width : p[i + 2] = 10 * p[(i - 1) + 2] + d[i]
  <2>1. ASSUME NEW i \in 1 .. Width PROVE p[i + 2] = 10 * p[(i - 1) + 2] + d[i]
    <3>1. i + 2 \in 1 .. Width + 2 /\ (i + 2) - 1 = (i - 1) + 2
      BY <1>1
    <3>. QED
      BY <1>3, <1>4, <3>1
  <2>. QED
    BY <2>1
<1>7. 0 \in T
  <2>1. p[1] = 0
    BY <1>1, <1>3, <1>4
  <2>2. p[2] = 0
    BY <1>1, <1>3, <1>4, <2>1
  <2>. QED
    BY <1>1, <1>2, <2>2
<1>8. ASSUME NEW i \in 1 .. Width, i - 1 \in T PROVE i \in T
  <2>. DEFINE a == p[(i - 1) + 2]  b == v[i - 1]
  <2>1. i \in 0 .. Width /\ i - 1 \in 0 .. Width /\ (i - 1) + 2 \in 0 .. Width + 2
    BY <1>1
  <2>2. a \in Nat /\ b \in Nat /\ a <= b /\ d[i] \in Nat
    BY <1>2, <1>4, <1>5, <1>8, <2>1
  <2>3. p[i + 2] = 10 * a + d[i] /\ v[i] = 16 * b + d[i]
    BY <1>2, <1>6
  <2>. HIDE DEF a, b
  <2>4. 10 * a + d[i] <= 16 * b + d[i]
    BY <2>2
  <2>. QED
    BY <2>1, <2>3, <2>4
<1>9. \A i \in 0 .. Width : p[i + 2] <= v[i]
  <2>1. \A i \in 0 .. Width : i \in T
    <3>. HIDE DEF T
    <3>. QED
      BY <1>1, <1>7, <1>8, CountUp
  <2>. QED
    BY <2>1
<1>10. /\ n = 16 * last + d[Width] /\ last \in Nat /\ d[Width] \in Nat /\ d[Width] <= 15
       /\ p[Width + 2] = 10 * p[(Width - 1) + 2] + d[Width]
       /\ p[(Width - 1) + 2] \in Nat /\ p[(Width - 1) + 2] <= last
  <2>1. Width \in 1 .. Width /\ Width - 1 \in 0 .. Width /\ (Width - 1) + 2 \in 0 .. Width + 2
    BY <1>1
  <2>. QED
    BY <1>2, <1>4, <1>5, <1>6, <1>9, <2>1
<1>. DEFINE number == p[Width + 2]
<1>. HIDE DEF last
<1>11. number \in Nat /\ number <= n /\ (number = n <=> last = 0)
  BY <1>10
<1>12. number % Mod = number
  BY <1>1, <1>11, ReadsSmaller
<1>13. CASE \A i \in 1 .. Width : d[i] < 10
  <2>1. \A i \in 1 .. Width + 2 : u[i] < 10
    <3>1. ASSUME NEW i \in 1 .. Width + 2 PROVE u[i] < 10
      <4>1. CASE i \in {1, 2}
        BY <1>3, <4>1
      <4>2. CASE i \notin {1, 2}
        <5>1. i - 2 \in 1 .. Width /\ (i - 2) + 2 = i
          BY <1>1, <4>2
        <5>2. u[(i - 2) + 2] = d[i - 2]
          BY <1>3, <5>1
        <5>. QED
          BY <1>13, <5>1, <5>2
      <4>. QED
        BY <4>1, <4>2
    <3>. QED
      BY <3>1
  <2>2. Width + 2 \in Nat
    BY <1>1
  <2>3. Read(Hex(n)) = {number}
    <3>1. Read(Hex(n)) = {Number(u, 10) % Mod}
      BY <1>3, <2>1, <2>2, ReadOne, Zenon
    <3>. QED
      BY <1>4, <1>12, <3>1
  <2>4. Width \in 1 .. Width
    BY <1>1
  <2>5. last = 0 <=> n < 10
    BY <1>10, <1>13, <2>4
  <2>. QED
    BY <1>11, <2>3, <2>5
<1>14. CASE \E i \in 1 .. Width : ~(d[i] < 10)
  <2>1. PICK i \in 1 .. Width : ~(d[i] < 10)
    BY <1>14
  <2>2. i + 2 \in 1 .. Width + 2 /\ ~(u[i + 2] < 10) /\ Width + 2 \in Nat
    BY <1>1, <1>3, <2>1
  <2>3. Read(Hex(n)) = {}
    BY <1>3, <2>2, ReadOne, Zenon
  <2>4. ~(n < 10)
    <3>1. v[i] <= n
      <4>. DEFINE S == {j \in 0 .. Width - i : v[i] <= v[i + j]}
      <4>1. Width - i \in Nat /\ 0 \in S
        BY <1>1, <1>2
      <4>2. ASSUME NEW j \in 1 .. Width - i, j - 1 \in S PROVE j \in S
        <5>1. i + j \in 1 .. Width /\ (i + j) - 1 = i + (j - 1) /\ i + (j - 1) \in 0 .. Width
              /\ j \in 0 .. Width - i /\ i \in 0 .. Width
          BY <1>1
        <5>2. v[i] <= v[i + (j - 1)]
          BY <4>2
        <5>3. v[i + j] = 16 * v[(i + j) - 1] + d[i + j]
          BY <1>2, <5>1
        <5>4. v[i] \in Nat /\ v[i + (j - 1)] \in Nat /\ d[i + j] \in Nat
          BY <1>2, <1>5, <5>1
        <5>5. v[i + j] = 16 * v[i + (j - 1)] + d[i + j]
          BY <5>1, <5>3
        <5>6. v[i] <= v[i + j]
          BY <5>2, <5>4, <5>5
        <5>. QED
          BY <5>1, <5>6
      <4>3. Width - i \in S
        <5>. HIDE DEF S
        <5>1. \A j \in 0 .. Width - i : j \in S
          BY <4>1, <4>2, CountUp
        <5>. QED
          BY <4>1, <5>1
      <4>4. i + (Width - i) = Width
        BY <1>1
      <4>. QED
        BY <1>2, <4>3, <4>4
    <3>2. v[i] = 16 * v[i - 1] + d[i] /\ v[i - 1] \in Nat /\ d[i] \in Nat
      <4>1. i - 1 \in 0 .. Width
        BY <1>1
      <4>. QED
        BY <1>2, <1>5, <4>1
    <3>3. v[i] >= 10
      BY <2>1, <3>2
    <3>. QED
      BY <1>1, <3>1, <3>2, <3>3
  <2>5. Read(Hex(n)) # {n}
    BY <2>3
  <2>. QED
    BY <2>4, <2>5
<1>. QED
  BY <1>13, <1>14

(* Which strings reach the solver as the number they denote whatever the     *)
(* undefined write over the terminator does, and that no others do: for      *)
(* every modulus, width and set of outcomes (term.hpp:115-123).              *)
THEOREM Misread == SpecLiteral => []MisreadCharacterised
<1>. DEFINE Written == meant \in Numbers /\ text \in {<<>>, Decimal(meant), Hex(meant)}
<1>1. InitLiteral => Written
  BY DEF InitLiteral
<1>2. Written /\ [NextLiteral]_literal => Written'
  BY DEF NextLiteral, Write, Construct, literal
<1>3. Written => MisreadCharacterised
  <2>. SUFFICES ASSUME Written, text # <<>>, meant < Mod
                PROVE  Read(text) = {meant} <=> SafeToWrite(meant, text)
    BY DEF MisreadCharacterised
  <2>. DEFINE n == meant
  <2>1. n \in Numbers /\ n < Mod
    OBVIOUS
  <2>. HIDE DEF n
  <2>2. CASE text = Decimal(meant)
    <3>. DEFINE t == Decimal(n)
    <3>1. Read(t) = {n} <=> IF n < 10 THEN "extended" \in Build => (10 * n) % Mod = n
                            ELSE t[2] = 0
      BY <2>1, DecimalRead
    <3>2. n \in Nat /\ (n < 10 <=> ~(n >= 10))
      BY <2>1, NumbersAssumption
    <3>3. ASSUME t = Hex(n), n < 10 PROVE Read(t) = {n}
      BY <2>1, <3>3, HexRead
    <3>4. Read(t) = {n} <=> SafeToWrite(n, t)
      <4>1. SafeToWrite(n, t) <=> \/ n >= 10 /\ t[2] = 0
                                  \/ n < 10 /\ ("extended" \in Build => (10 * n) % Mod = n)
                                  \/ t = Hex(n) /\ n < 10
        BY Zenon DEF SafeToWrite
      <4>. HIDE DEF t
      <4>. QED
        BY <3>1, <3>2, <3>3, <4>1, Zenon
    <3>. QED
      BY <2>2, <3>4, Zenon DEF n
  <2>3. CASE text = Hex(meant)
    <3>1. Hex(n)[2] # 0
      <4>1. Hex(n)[2] = X
        BY <2>1, HexIs
      <4>. QED
        BY <4>1 DEF X
    <3>2. SafeToWrite(n, Hex(n)) <=> n < 10
      BY <3>1, Zenon DEF SafeToWrite
    <3>. QED
      BY <2>1, <2>3, <3>2, HexRead DEF n
  <2>. QED
    BY <2>2, <2>3
<1>. HIDE DEF Written
<1>. QED
  BY <1>1, <1>2, <1>3, PTL DEF SpecLiteral

==============================================================================
