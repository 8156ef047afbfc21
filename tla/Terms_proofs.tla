---------------------------- MODULE Terms_proofs -----------------------------
(***************************************************************************)
(* Proofs about Terms, for every modulus, width and client: the terms stay *)
(* terms of their type, the unknowns of a model are reduced, the operations*)
(* that can never be used are the ones listed, a careful client's terms    *)
(* compute in their ring, and its quotients are determined.                *)
(*                                                                         *)
(* Inv says of both terms that only their type may be off, never their     *)
(* sort: operator/ asserts the range of a quotient by the type of the      *)
(* dividend, and batch_add gives a sum of integers the type of field       *)
(* elements, but the sorts of cvc5 stop such a dividend before a quotient  *)
(* exists.  Values says what a value may be: an integer of any size in an  *)
(* FFI term, unless its root is a variable or a constant.  Unread says that*)
(* before the first division nothing depends on the unknown q.             *)
(***************************************************************************)
EXTENDS Terms, FiniteSetTheorems, WellFoundedInduction, TLAPS

(* A term of the client: its sort is right, its type may be the default one. *)
Sound(t) ==
    /\ t = [type |-> t.type, sort |-> type, root |-> t.root, val |-> t.val]
    /\ t.type \in {type, "FF"}

Ranged ==
    /\ type \in Types
    /\ holds \subseteq Valuation(type)
    /\ \A w \in holds :
          /\ InRange(type, w["x"])
          /\ InRange(type, w["y"])
          /\ quotients = 1 => InRange(type, w["q"])

Inv == Sound(a) /\ Sound(b) /\ Ranged

LEMMA VarSound == ASSUME NEW n PROVE Sound(Var(n))
  BY DEF Sound, Var

LEMMA InitInv == Init => Inv
<1> SUFFICES ASSUME Init PROVE Inv
  OBVIOUS
<1>1. Sound(a) /\ Sound(b)
  BY VarSound DEF Init
<1>2. Ranged
  BY DEF Init, Ranged
<1>. QED
  BY <1>1, <1>2 DEF Inv

(* What a range assertion is for: an unknown that satisfies it is one of the *)
(* numbers below the modulus.                                                *)
LEMMA InvReduced == Inv => ModelsAreReduced
<1> SUFFICES ASSUME Ranged, NEW w \in holds
             PROVE  /\ {w["x"], w["y"]} \subseteq 0 .. RingSize(type) - 1
                    /\ quotients = 1 => w["q"] \in 0 .. RingSize(type) - 1
  BY DEF ModelsAreReduced, Inv
<1>1. \A n \in {"x", "y", "q"} : w[n] \in Domain(type)
  BY DEF Ranged, Valuation
<1>2. \A n \in {"x", "y", "q"} :
         InRange(type, w[n]) => w[n] \in 0 .. RingSize(type) - 1
  <2>1. CASE type = "FFI"
    BY <1>1, <2>1, TermsAssumption DEF Domain, InRange, RingSize
  <2>2. CASE type # "FFI"
    BY <1>1, <2>2 DEF Domain
  <2>. QED
    BY <2>1, <2>2
<1>. QED
  BY <1>2 DEF Ranged

-----------------------------------------------------------------------------
LEMMA MadeSound ==
    ASSUME NEW s, Sound(s), NEW r, NEW v PROVE Sound(Made(s, r, v))
<1>1. s.sort = type
  BY DEF Sound
<1>. QED
  BY <1>1 DEF Sound, Made

(* The terms that operations return. *)
LEMMA ResultsSound ==
    ASSUME NEW s, Sound(s)
    PROVE  /\ Sound(Neg(s))
           /\ \A op, t : Sound(Nary(op, s, t)) /\ Sound(Batch(op, s, t))
           /\ \A n : Sound(Rotate(s, n))
<1>1. \A op, t : Sound(Nary(op, s, t))
  BY MadeSound DEF Nary
<1>2. \A op, t : Sound(Batch(op, s, t))
  BY <1>1 DEF Sound, Batch
<1>3. Sound(Neg(s))
  BY MadeSound DEF Neg
<1>4. \A n : Sound(Rotate(s, n))
  BY MadeSound DEF Rotate
<1>. QED
  BY <1>1, <1>2, <1>3, <1>4

(* How a step may end. *)
LEMMA NarrowingKeepsInv ==
    ASSUME Inv, Sound(a)', Sound(b)', UNCHANGED <<type, quotients>>, holds' \subseteq holds
    PROVE  Inv'
  BY DEF Inv, Ranged

LEMMA ThrowKeepsInv == ASSUME Inv, NEW op, NEW arg, Throw(op, arg) PROVE Inv'
  BY DEF Inv, Ranged, Sound, Throw, Called

LEMMA ResultKeepsInv ==
    ASSUME Inv, NEW op, NEW arg, NEW r, Sound(r),
           Ignore(op, arg, r) \/ Return(op, arg, r)
    PROVE  Inv'
<1>1. Sound(a)' /\ Sound(b)'
  BY DEF Inv, Sound, Ignore, Return, Called
<1>. QED
  BY <1>1, NarrowingKeepsInv DEF Ignore, Return, Called

LEMMA AssertKeepsInv ==
    ASSUME Inv, NEW op, NEW arg, NEW v, v \subseteq holds, AssertIf(op, arg, v)
    PROVE  Inv'
  BY DEF Inv, Ranged, Sound, AssertIf, Called

LEMMA HalfKeepsInv ==
    ASSUME Inv, NEW op, NEW arg, NEW d, ThrowAfterHalf(op, arg, d)
    PROVE  Inv'
  BY DEF Inv, Ranged, Sound, ThrowAfterHalf, Called

-----------------------------------------------------------------------------
(* A quotient only comes to be when the dividend has the type it should. *)
LEMMA DividendTyped ==
    ASSUME Inv, NEW arg, NEW op,
           LET num == IF op = "c/" THEN Term(arg) ELSE a
               den == IF op = "c/" THEN a ELSE Term(arg)
           IN Sorted(num.type, {num, den})
    PROVE  (IF op = "c/" THEN Term(arg) ELSE a).type = type
<1>1. a.sort = type
  BY DEF Inv, Sound
<1>. QED
  BY <1>1 DEF Sorted

LEMMA DivideKeepsInv ==
    ASSUME Inv, NEW arg, NEW op \in {"/", "c/"}, Divide(op, arg)
    PROVE  Inv'
<1> DEFINE num == IF op = "c/" THEN Term(arg) ELSE a
           den == IF op = "c/" THEN a ELSE Term(arg)
<1>1. CASE Throw(op, arg)
  BY <1>1, ThrowKeepsInv
<1>2. CASE "DIV" \notin Operations(num.type) /\ Ignore(op, arg, num)
  <2>1. Sound(num)
    <3>1. CASE op = "c/"
      <4>1. num.type # "FF"
        BY <1>2 DEF Operations
      <4>2. arg[1] = "const"
        BY <3>1 DEF Divide
      <4>3. num = Const(a.type, arg[2])
        BY <3>1, <4>2 DEF Term
      <4>. QED
        BY <4>1, <4>3 DEF Inv, Sound, Const
    <3>2. CASE op # "c/"
      BY <3>2 DEF Inv
    <3>. QED
      BY <3>1, <3>2
  <2>. QED
    BY <2>1, <1>2, ResultKeepsInv
<1>3. CASE ThrowAfterHalf(op, arg, den)
  BY <1>3, HalfKeepsInv
<1>4. CASE /\ Sorted(num.type, {num, den})
           /\ Called(op, arg, "done")
           /\ holds' = {w \in holds : Quotient(num, den, w)}
           /\ a' = Var("q")
           /\ quotients' = 1
           /\ UNCHANGED b
  <2>1. num.type = type
    BY <1>4, DividendTyped
  <2>2. type' = type
    BY <1>4 DEF Called
  <2>3. \A w \in holds' : InRange(type, w["q"])
    BY <1>4, <2>1 DEF Quotient
  <2>4. Ranged'
    BY <1>4, <2>2, <2>3 DEF Inv, Ranged
  <2>5. Sound(a)' /\ Sound(b)'
    BY <1>4, <2>2, VarSound DEF Inv, Sound
  <2>. QED
    BY <2>4, <2>5 DEF Inv
<1>. QED
  BY <1>1, <1>2, <1>3, <1>4 DEF Divide

LEMMA StepKeepsInv == Inv /\ [Next]_vars => Inv'
<1> SUFFICES ASSUME Inv, [Next]_vars PROVE Inv'
  OBVIOUS
<1>a. Sound(a) /\ Sound(b)
  BY DEF Inv
<1>1. CASE UNCHANGED vars
  BY <1>1 DEF Inv, Ranged, Sound, vars
<1>2. ASSUME NEW arg \in Arguments, NEW op \in {"+", "*", "^", "&", "|"}, Combine(op, arg) PROVE Inv'
  BY <1>2, <1>a, ResultsSound, ThrowKeepsInv, ResultKeepsInv DEF Combine
<1>3. ASSUME NEW arg \in Arguments, Subtract(arg) PROVE Inv'
  BY <1>3, <1>a, ResultsSound, ThrowKeepsInv, ResultKeepsInv DEF Subtract
<1>4. ASSUME NEW arg \in Arguments, SubtractFrom(arg) PROVE Inv'
  BY <1>4, <1>a, ResultsSound, ThrowKeepsInv, ResultKeepsInv DEF SubtractFrom
<1>5. ASSUME NEW arg \in Arguments, SubtractAssign(arg) PROVE Inv'
  BY <1>5, <1>a, ResultsSound, ThrowKeepsInv, ResultKeepsInv DEF SubtractAssign
<1>6. ASSUME NEW arg \in Arguments, DivideAssign(arg) PROVE Inv'
  BY <1>6, <1>a, ThrowKeepsInv, ResultKeepsInv DEF DivideAssign
<1>7. ASSUME NEW arg \in Arguments, NEW op \in {"==", "!="}, Compare(op, arg) PROVE Inv'
  BY <1>7, ThrowKeepsInv, AssertKeepsInv DEF Compare
<1>8. ASSUME NEW c \in Literal, NEW op \in {"<", "<=", ">", ">="}, Bound(op, <<"const", c>>) PROVE Inv'
  BY <1>8, <1>a, ThrowKeepsInv, ResultKeepsInv, AssertKeepsInv DEF Bound
<1>9. CASE Negate
  BY <1>9, <1>a, ResultsSound, ThrowKeepsInv, ResultKeepsInv DEF Negate
<1>10. ASSUME NEW op \in {"batch_add", "batch_mul"}, BatchCombine(op) PROVE Inv'
  BY <1>10, <1>a, ResultsSound, ThrowKeepsInv, ResultKeepsInv DEF BatchCombine
<1>11. ASSUME NEW n \in Distances, NEW op \in {"rotl", "rotr", "<<", ">>"}, Turn(op, n) PROVE Inv'
  <2>1. \/ Throw(op, <<"places", n>>)
        \/ Ignore(op, <<"places", n>>, a)
        \/ Return(op, <<"places", n>>, Rotate(a, n))
        \/ Return(op, <<"places", n>>, Rotate(a, -n))
    BY <1>11 DEF Turn
  <2>. QED
    BY <2>1, <1>a, ResultsSound, ThrowKeepsInv, ResultKeepsInv
<1>12. CASE CompareBool
  BY <1>12, ThrowKeepsInv, AssertKeepsInv DEF CompareBool
<1>13. CASE Copy
  BY <1>13 DEF Copy, Called, Inv, Ranged, Sound
<1>. QED
  BY <1>1, <1>2, <1>3, <1>4, <1>5, <1>6, <1>7, <1>8, <1>9, <1>10, <1>11, <1>12, <1>13,
     DivideKeepsInv DEF Next

(* In every reachable state the unknowns of all models are reduced, so that  *)
(* no two models stand for the same field elements (term.cpp:49-56).         *)
THEOREM ModelsReduced == Spec => []ModelsAreReduced
  BY InitInv, StepKeepsInv, InvReduced, PTL DEF Spec

-----------------------------------------------------------------------------
(* Arithmetic modulo m. *)
LEMMA Split ==
    ASSUME NEW m \in Nat \ {0}, NEW x \in Int
    PROVE  x % m \in 0 .. m - 1 /\ \E k \in Int : x = (x % m) + k * m
<1>1. m \in Nat \ {0}
  OBVIOUS
<1>2. x % m \in 0 .. m - 1 /\ x \div m \in Int
  BY <1>1
<1>3. x % m = x - m * (x \div m)
  BY <1>1
<1>. DEFINE k == x \div m  r == x % m
<1>4. k \in Int /\ r \in Int /\ r = x - m * k
  BY <1>2, <1>3
<1>. HIDE DEF k, r
<1>5. x = r + k * m
  <2>1. m * k = k * m /\ k * m \in Int
    BY <1>1, <1>4
  <2>. QED
    BY <1>4, <2>1
<1>6. \E kk \in Int : x = r + kk * m
  BY <1>4, <1>5
<1>. QED
  BY <1>2, <1>6 DEF r

(* Two remainders that differ by a multiple of m are equal. *)
LEMMA NoMultipleBetween ==
    ASSUME NEW m \in Nat \ {0}, NEW u \in 0 .. m - 1, NEW v \in 0 .. m - 1,
           NEW k \in Int, u - v = k * m
    PROVE  u = v
<1>1. m \in Nat /\ m >= 1 /\ u - v < m /\ u - v > -m
  OBVIOUS
<1>2. CASE k >= 1
  <2>1. k * m >= m
    BY <1>1, <1>2
  <2>. QED
    BY <1>1, <2>1
<1>3. CASE k <= -1
  <2>1. k * m <= -m
    BY <1>1, <1>3
  <2>. QED
    BY <1>1, <2>1
<1>4. CASE k = 0
  <2>1. u - v = 0
    BY <1>1, <1>4
  <2>. QED
    BY <2>1
<1>. QED
  BY <1>2, <1>3, <1>4

LEMMA Collect ==
    ASSUME NEW m \in Int, NEW x \in Int, NEW y \in Int, NEW u \in Int, NEW v \in Int,
           NEW i \in Int, NEW j \in Int, x = u + i * m, y = v + j * m
    PROVE  /\ x + y = (u + v) + (i + j) * m
           /\ x - y = (u - v) + (i - j) * m
           /\ -y = -v + (-j) * m
           /\ x * y = u * v + (u * j + i * v + i * j * m) * m
<1>1. (i + j) * m = i * m + j * m /\ (i - j) * m = i * m - j * m /\ (-j) * m = -(j * m)
  OBVIOUS
<1>2. i * m \in Int /\ j * m \in Int
  OBVIOUS
<1>3. x + y = (u + v) + (i + j) * m /\ x - y = (u - v) + (i - j) * m /\ -y = -v + (-j) * m
  BY <1>1, <1>2
<1>4. (u + i * m) * (v + j * m) = u * v + (u * j + i * v + i * j * m) * m
  OBVIOUS
<1>. QED
  BY <1>3, <1>4

LEMMA Small ==
    ASSUME NEW m \in Nat \ {0}, NEW x \in 0 .. m - 1
    PROVE  x % m = x
  OBVIOUS

LEMMA SameResidue ==
    ASSUME NEW m \in Nat \ {0}, NEW x \in Int, NEW y \in Int, NEW k \in Int, x = y + k * m
    PROVE  x % m = y % m
<1>. DEFINE u == x % m  v == y % m
<1>0. m \in Int /\ u \in 0 .. m - 1 /\ v \in 0 .. m - 1
  <2>1. x % m \in 0 .. m - 1
    BY Split
  <2>2. y % m \in 0 .. m - 1
    BY Split
  <2>. QED
    BY <2>1, <2>2
<1>1. PICK i \in Int : x = u + i * m
  BY Split
<1>2. PICK j \in Int : y = v + j * m
  BY Split
<1>. HIDE DEF u, v
<1>. u \in Int /\ v \in Int
  BY <1>0
<1>3. x - y = (u - v) + (i - j) * m
  BY <1>0, <1>1, <1>2, Collect
<1>4. x - y = k * m
  <2>1. k * m \in Int
    BY <1>0
  <2>. QED
    BY <2>1
<1>5. u - v = (k - (i - j)) * m
  <2>1. (k - (i - j)) * m = k * m - (i - j) * m /\ (i - j) * m \in Int /\ k * m \in Int
    BY <1>0
  <2>. QED
    BY <1>3, <1>4, <2>1
<1>6. u = v
  BY <1>0, <1>5, NoMultipleBetween
<1>. QED
  BY <1>6 DEF u, v

(* Residues may be taken before or after an operation. *)
LEMMA Congruent ==
    ASSUME NEW m \in Nat \ {0}, NEW x \in Int, NEW y \in Int
    PROVE  /\ (x + y) % m = ((x % m) + (y % m)) % m
           /\ (x - y) % m = ((x % m) - (y % m)) % m
           /\ (-y) % m = (-(y % m)) % m
           /\ (x * y) % m = ((x % m) * (y % m)) % m
           /\ (x % m) % m = x % m
<1>. DEFINE u == x % m  v == y % m
<1>0. m \in Int /\ u \in 0 .. m - 1 /\ v \in 0 .. m - 1
  <2>1. x % m \in 0 .. m - 1
    BY Split
  <2>2. y % m \in 0 .. m - 1
    BY Split
  <2>. QED
    BY <2>1, <2>2
<1>1. PICK i \in Int : x = u + i * m
  BY Split
<1>2. PICK j \in Int : y = v + j * m
  BY Split
<1>. HIDE DEF u, v
<1>. u \in Int /\ v \in Int
  BY <1>0
<1>3. /\ x + y = (u + v) + (i + j) * m
      /\ x - y = (u - v) + (i - j) * m
      /\ -y = -v + (-j) * m
      /\ x * y = u * v + (u * j + i * v + i * j * m) * m
  BY <1>0, <1>1, <1>2, Collect
<1>4. (x + y) % m = (u + v) % m
  <2>. DEFINE p == x + y  q == u + v  k == i + j
  <2>1. p \in Int /\ q \in Int /\ k \in Int /\ p = q + k * m
    BY <1>0, <1>3
  <2>. HIDE DEF p, q, k
  <2>2. p % m = q % m
    BY <2>1, SameResidue
  <2>. QED
    BY <2>2 DEF p, q
<1>5. (x - y) % m = (u - v) % m
  <2>. DEFINE p == x - y  q == u - v  k == i - j
  <2>1. p \in Int /\ q \in Int /\ k \in Int /\ p = q + k * m
    BY <1>0, <1>3
  <2>. HIDE DEF p, q, k
  <2>2. p % m = q % m
    BY <2>1, SameResidue
  <2>. QED
    BY <2>2 DEF p, q
<1>6. (-y) % m = (-v) % m
  <2>. DEFINE p == -y  q == -v  k == -j
  <2>1. p \in Int /\ q \in Int /\ k \in Int /\ p = q + k * m
    BY <1>0, <1>3
  <2>. HIDE DEF p, q, k
  <2>2. p % m = q % m
    BY <2>1, SameResidue
  <2>. QED
    BY <2>2 DEF p, q
<1>7. (x * y) % m = (u * v) % m
  <2>. DEFINE p == x * y  q == u * v  k == u * j + i * v + i * j * m
  <2>1. p \in Int /\ q \in Int /\ k \in Int /\ p = q + k * m
    BY <1>0, <1>3
  <2>. HIDE DEF p, q, k
  <2>2. p % m = q % m
    BY <2>1, SameResidue
  <2>. QED
    BY <2>2 DEF p, q
<1>8. u % m = u
  BY <1>0, Small
<1>. QED
  BY <1>4, <1>5, <1>6, <1>7, <1>8 DEF u, v

-----------------------------------------------------------------------------
(* The values of terms. *)
Size == RingSize(type)
Element(sort) == IF sort = "FFI" THEN Int ELSE 0 .. RingSize(sort) - 1

Valued(t) ==
    /\ t.val \in [Valuation(type) -> Element(type)]
    /\ t.root \in {"var", "const", "unary", "nary"}

(* Where the assertions hold, an unknown or a constant is an element of the  *)
(* ring, even if it is an integer to cvc5.                                   *)
Reduced(t) == t.root \in {"var", "const"} => \A w \in holds : t.val[w] \in 0 .. Size - 1

Values == Valued(a) /\ Valued(b) /\ Reduced(a) /\ Reduced(b) /\ quotients \in 0 .. 1

(* Words of bits. *)
LEMMA Least ==
    ASSUME NEW T \in SUBSET Nat, T # {}
    PROVE  \E x \in T : \A y \in T : x <= y
<1>. DEFINE R == {ss \in Nat \X Nat : ss[1] < ss[2]}
<1>1. R = OpToRel(<, Nat)
  BY DEF OpToRel
<1>2. IsWellFoundedOn(R, Nat)
  BY <1>1, NatLessThanWellFounded
<1>. HIDE DEF R
<1>3. PICK x \in T : \A y \in T : ~(<<y, x>> \in R)
  BY <1>2, WFMin
<1>4. ASSUME NEW y \in T PROVE x <= y
  <2>1. x \in Nat /\ y \in Nat /\ <<y, x>> \in Nat \X Nat /\ <<y, x>>[1] = y /\ <<y, x>>[2] = x
    OBVIOUS
  <2>2. ~(y < x)
    BY <1>3, <2>1 DEF R
  <2>. QED
    BY <2>1, <2>2
<1>. QED
  BY <1>4

LEMMA CountUp ==
    ASSUME NEW n \in Nat, NEW T, 0 \in T, \A i \in 1 .. n : i - 1 \in T => i \in T
    PROVE  \A i \in 0 .. n : i \in T
<1>. DEFINE rest == {i \in 0 .. n : i \notin T}
<1>1. SUFFICES ASSUME rest # {} PROVE FALSE
  OBVIOUS
<1>2. rest \in SUBSET Nat
  OBVIOUS
<1>3. PICK i \in rest : \A j \in rest : i <= j
  BY <1>1, <1>2, Least
<1>4. i \in 1 .. n /\ i \notin T
  <2>1. i # 0
    BY DEF rest
  <2>. QED
    BY <2>1
<1>5. i - 1 \in 0 .. n /\ ~(i <= i - 1)
  BY <1>4
<1>6. i - 1 \in T
  BY <1>3, <1>5
<1>. QED
  BY <1>4, <1>6

(* A loop has a state before each of its rounds. *)
IsLoop(h, n, base, round) == h[0] = base /\ \A i \in 1 .. n : h[i] = round[i][h[i - 1]]

LEMMA LoopExists ==
    ASSUME NEW n \in Nat, NEW D, NEW base \in D, NEW round \in [1 .. n -> [D -> D]]
    PROVE  \E h \in [0 .. n -> D] : IsLoop(h, n, base, round)
<1>. DEFINE Runs(c, h) == h[0] = base /\ \A i \in 1 .. c : h[i] = round[i][h[i - 1]]
            T == {c \in 0 .. n : \E h \in [0 .. c -> D] : Runs(c, h)}
<1>1. 0 \in T
  <2>. DEFINE h == [i \in 0 .. 0 |-> base]
  <2>1. h \in [0 .. 0 -> D] /\ h[0] = base /\ 1 .. 0 = {}
    OBVIOUS
  <2>. HIDE DEF h
  <2>. QED
    BY <2>1
<1>2. ASSUME NEW c \in 1 .. n, c - 1 \in T PROVE c \in T
  <2>1. PICK h \in [0 .. c - 1 -> D] : Runs(c - 1, h)
    BY <1>2
  <2>. DEFINE e == [i \in 0 .. c |-> IF i = c THEN round[c][h[c - 1]] ELSE h[i]]
  <2>2. h[c - 1] \in D /\ round[c] \in [D -> D]
    OBVIOUS
  <2>3. \A i \in 0 .. c : i # c => i \in 0 .. c - 1
    OBVIOUS
  <2>4. e \in [0 .. c -> D]
    BY <2>2, <2>3
  <2>5. e[0] = base
    BY <2>1
  <2>6. ASSUME NEW i \in 1 .. c PROVE e[i] = round[i][e[i - 1]]
    <3>1. i - 1 \in 0 .. c /\ i - 1 # c /\ e[i - 1] = h[i - 1]
      OBVIOUS
    <3>2. CASE i = c
      BY <3>1, <3>2
    <3>3. CASE i # c
      <4>1. i \in 1 .. c - 1 /\ e[i] = h[i]
        BY <3>3
      <4>. QED
        BY <2>1, <3>1, <4>1
    <3>. QED
      BY <3>2, <3>3
  <2>7. Runs(c, e)
    BY <2>5, <2>6, Zenon
  <2>. HIDE DEF e, Runs
  <2>. QED
    BY <2>4, <2>7
<1>3. n \in T
  <2>. HIDE DEF T
  <2>1. \A i \in 1 .. n : i - 1 \in T => i \in T
    BY <1>2
  <2>2. \A i \in 0 .. n : i \in T
    BY <1>1, <2>1, CountUp
  <2>. QED
    BY <2>2
<1>. QED
  BY <1>3 DEF IsLoop

(* Every set of positions stands for one of the 2 ^ Width words. *)
LEMMA WordFits ==
    /\ 2 ^ Width \in Nat \ {0}
    /\ \A bits \in SUBSET Positions : Word(bits) \in 0 .. 2 ^ Width - 1
<1>1. Width \in Nat /\ Width \in 0 .. Width
  BY WidthAssumption
<1>2. 2 ^ 0 = 1 /\ (\A i \in 0 .. Width : 2 ^ i \in Nat \ {0}) /\ \A i \in 1 .. Width : 2 ^ i = 2 * 2 ^ (i - 1)
  BY PowersAssumption, Zenon
<1>3. ASSUME NEW bits \in SUBSET Positions PROVE Word(bits) \in 0 .. 2 ^ Width - 1
  <2>. DEFINE Bit(i) == IF Width - i \in bits THEN 1 ELSE 0
              h == CHOOSE h : h = [i \in 0 .. Width |-> IF i = 0 THEN 0 ELSE 2 * h[i - 1] + Bit(i)]
              round == [i \in 1 .. Width |-> [x \in Nat |-> 2 * x + Bit(i)]]
              T == {i \in 0 .. Width : h[i] \in Nat /\ h[i] < 2 ^ i}
  <2>1. Word(bits) = h[Width]
    BY DEF Word
  <2>2. \A i \in 1 .. Width : Bit(i) \in {0, 1}
    OBVIOUS
  <2>. HIDE DEF Bit
  <2>3. round \in [1 .. Width -> [Nat -> Nat]] /\ 0 \in Nat
    BY <2>2
  <2>. HIDE DEF round
  <2>4. PICK e \in [0 .. Width -> Nat] : IsLoop(e, Width, 0, round)
    BY <1>1, <2>3, LoopExists
  <2>5. e[0] = 0 /\ \A i \in 1 .. Width : e[i] = 2 * e[i - 1] + Bit(i)
    <3>1. ASSUME NEW i \in 1 .. Width PROVE e[i] = 2 * e[i - 1] + Bit(i)
      <4>1. e[i - 1] \in Nat
        BY <1>1
      <4>2. round[i][e[i - 1]] = 2 * e[i - 1] + Bit(i)
        BY <4>1 DEF round
      <4>. QED
        BY <2>4, <4>2 DEF IsLoop
    <3>. QED
      BY <2>4, <3>1 DEF IsLoop
  <2>. DEFINE Body(y) == [i \in 0 .. Width |-> IF i = 0 THEN 0 ELSE 2 * y[i - 1] + Bit(i)]
  <2>6. e = Body(e)
    <3>1. \A i \in 0 .. Width : e[i] = Body(e)[i]
      BY <1>1, <2>5
    <3>. QED
      BY <3>1
  <2>7. h = Body(h)
    BY <2>6
  <2>. HIDE DEF h
  <2>8. h[0] = 0 /\ \A i \in 1 .. Width : h[i] = 2 * h[i - 1] + Bit(i)
    <3>1. Body(h)[0] = 0 /\ \A i \in 1 .. Width : Body(h)[i] = 2 * h[i - 1] + Bit(i)
      BY <1>1
    <3>. HIDE DEF Body
    <3>. QED
      BY <2>7, <3>1, Zenon
  <2>9. 0 \in T
    BY <1>1, <1>2, <2>8
  <2>10. ASSUME NEW i \in 1 .. Width, i - 1 \in T PROVE i \in T
    <3>. DEFINE low == h[i - 1]  power == 2 ^ (i - 1)
    <3>1. low \in Nat /\ low < power /\ power \in Nat /\ 2 ^ i = 2 * power /\ h[i] = 2 * low + Bit(i)
          /\ i \in 0 .. Width
      <4>1. i - 1 \in 0 .. Width /\ i \in 0 .. Width
        BY <1>1
      <4>. QED
        BY <1>2, <2>8, <2>10, <4>1
    <3>. HIDE DEF low, power
    <3>2. 2 * low + Bit(i) \in Nat /\ 2 * low + Bit(i) < 2 * power
      BY <2>2, <3>1
    <3>. QED
      BY <3>1, <3>2
  <2>11. Width \in T
    <3>. HIDE DEF T
    <3>1. \A i \in 0 .. Width : i \in T
      BY <1>1, <2>9, <2>10, CountUp
    <3>. QED
      BY <1>1, <3>1
  <2>12. h[Width] \in Nat /\ h[Width] < 2 ^ Width /\ 2 ^ Width \in Nat
    BY <1>1, <1>2, <2>11
  <2>. QED
    BY <2>1, <2>12
<1>. QED
  BY <1>1, <1>2, <1>3

LEMMA SizePositive == ASSUME Inv PROVE Size \in Nat \ {0} /\ (type # "BV" => Size = Mod)
  BY TermsAssumption, WordFits DEF Inv, Ranged, Size, RingSize

LEMMA ElementIsInteger ==
    ASSUME Inv
    PROVE  /\ Element(type) \subseteq Int
           /\ 0 .. Size - 1 \subseteq Element(type)
           /\ type # "FFI" => Element(type) = 0 .. Size - 1
  BY SizePositive DEF Element, Size

LEMMA WrappedElement ==
    ASSUME Inv, NEW x \in Int
    PROVE  /\ Wrapped(type, x) \in Element(type)
           /\ Wrapped(type, x) % Size = x % Size
<1>1. CASE type = "FFI"
  BY <1>1 DEF Wrapped, Element
<1>2. CASE type # "FFI"
  <2>1. Wrapped(type, x) = x % Size
    BY <1>2 DEF Wrapped, Size
  <2>2. x % Size \in 0 .. Size - 1
    BY SizePositive, Split
  <2>3. (x % Size) % Size = x % Size
    BY SizePositive, <2>2, Small
  <2>. QED
    BY <2>1, <2>2, <2>3, ElementIsInteger
<1>. QED
  BY <1>1, <1>2

LEMMA WordElement ==
    ASSUME Inv, type = "BV", NEW u, NEW v, NEW n \in Int
    PROVE  /\ \A op \in {"XOR", "AND", "OR"} : Bitwise(op, u, v) \in 0 .. Size - 1
           /\ Rotated(u, n) \in 0 .. Size - 1
<1>1. Size = 2 ^ Width
  BY DEF Size, RingSize
<1>2. /\ SymDiff(Bits(u), Bits(v)) \in SUBSET Positions
      /\ Bits(u) \cap Bits(v) \in SUBSET Positions
      /\ Bits(u) \cup Bits(v) \in SUBSET Positions
  BY DEF Bits, SymDiff
<1>3. \A i \in Positions : (i + n) % Width \in Positions
  BY WidthAssumption DEF Positions
<1>4. {(i + n) % Width : i \in Bits(u)} \in SUBSET Positions
  BY <1>3 DEF Bits
<1>. QED
  BY <1>1, <1>2, <1>4, WordFits DEF Bitwise, Rotated

(* What cvc5 computes, as an element of the ring. *)
LEMMA ValueElement ==
    ASSUME Inv, NEW u \in Element(type), NEW v \in Element(type)
    PROVE  /\ Value(type, "ADD", u, v) \in Element(type)
           /\ Value(type, "ADD", u, v) % Size = ((u % Size) + (v % Size)) % Size
           /\ Value(type, "MUL", u, v) \in Element(type)
           /\ Value(type, "MUL", u, v) % Size = ((u % Size) * (v % Size)) % Size
<1>. u \in Int /\ v \in Int /\ u + v \in Int /\ u * v \in Int
  BY ElementIsInteger
<1>1. Value(type, "ADD", u, v) = Wrapped(type, u + v)
  BY DEF Value
<1>2. Value(type, "MUL", u, v) = Wrapped(type, u * v)
  BY DEF Value
<1>3. (u + v) % Size = ((u % Size) + (v % Size)) % Size
  BY SizePositive, Congruent
<1>4. (u * v) % Size = ((u % Size) * (v % Size)) % Size
  BY SizePositive, Congruent
<1>. QED
  BY <1>1, <1>2, <1>3, <1>4, WrappedElement

LEMMA NegatedElement ==
    ASSUME Inv, NEW u \in Element(type)
    PROVE  /\ Wrapped(type, -u) \in Element(type)
           /\ Wrapped(type, -u) % Size = (-(u % Size)) % Size
<1>. u \in Int /\ -u \in Int
  BY ElementIsInteger
<1>1. (-u) % Size = (-(u % Size)) % Size
  BY SizePositive, Congruent
<1>. QED
  BY <1>1, WrappedElement

(* Adding a negated term subtracts it. *)
LEMMA DifferenceElement ==
    ASSUME Inv, NEW u \in Element(type), NEW v \in Element(type)
    PROVE  /\ Value(type, "ADD", u, Wrapped(type, -v)) % Size = ((u % Size) - (v % Size)) % Size
           /\ Value(type, "ADD", Wrapped(type, -v), u) % Size = ((u % Size) - (v % Size)) % Size
<1>. DEFINE n == Wrapped(type, -v)
<1>. u \in Int /\ v \in Int /\ -v \in Int /\ u - v \in Int
  BY ElementIsInteger
<1>1. n \in Element(type) /\ n \in Int /\ n % Size = (-v) % Size
  BY WrappedElement, ElementIsInteger
<1>2. (u + n) % Size = ((u % Size) + (n % Size)) % Size
  BY <1>1, SizePositive, Congruent
<1>3. (u + (-v)) % Size = ((u % Size) + ((-v) % Size)) % Size
  BY SizePositive, Congruent
<1>4. u + (-v) = u - v
  OBVIOUS
<1>5. (u - v) % Size = ((u % Size) - (v % Size)) % Size
  BY SizePositive, Congruent
<1>6. (u + n) % Size = ((u % Size) - (v % Size)) % Size
  BY <1>1, <1>2, <1>3, <1>4, <1>5
<1>7. Value(type, "ADD", u, n) = Wrapped(type, u + n) /\ Value(type, "ADD", n, u) = Wrapped(type, n + u)
  BY DEF Value
<1>8. u + n \in Int /\ n + u = u + n
  BY <1>1
<1>. QED
  BY <1>6, <1>7, <1>8, WrappedElement

(* The terms operations are made of and return. *)
LEMMA TermValued ==
    ASSUME Inv, Values, NEW arg \in Arguments, Built(arg), Term(arg).sort = type
    PROVE  /\ Valued(Term(arg)) /\ Reduced(Term(arg))
           /\ Ring!Argument(arg) = Residue(Term(arg))
<1>1. CASE arg = <<"b", 0>>
  <2>1. arg[1] = "b" /\ Term(arg) = b
    BY <1>1 DEF Term
  <2>. QED
    BY <2>1 DEF Values, Ring!Argument
<1>2. ASSUME NEW c \in Literal, arg = <<"const", c>>
      PROVE  /\ Valued(Term(arg)) /\ Reduced(Term(arg))
             /\ Ring!Argument(arg) = Residue(Term(arg))
  <2>1. arg[1] = "const" /\ arg[2] = c
    BY <1>2
  <2>2. Term(arg) = Const(a.type, c)
    BY <2>1 DEF Term
  <2>3. a.type = type
    BY <2>2 DEF Const
  <2>4. c \in 0 .. Mod - 1 /\ c % Mod = c
    BY TermsAssumption, Small
  <2>5. c \in 0 .. Size - 1
    <3>1. CASE type = "BV"
      BY <3>1, <2>1, <2>3, <2>4, SizePositive DEF Built, Fits, Size
    <3>. QED
      BY <3>1, <2>4, SizePositive
  <2>6. /\ Term(arg).val = [w \in Valuation(type) |-> c]
        /\ Term(arg).root = "const"
    BY <2>2, <2>4 DEF Const
  <2>7. Valued(Term(arg)) /\ Reduced(Term(arg))
    <3>1. holds \subseteq Valuation(type)
      BY DEF Inv, Ranged
    <3>. QED
      BY <2>5, <2>6, <3>1, ElementIsInteger DEF Valued, Reduced
  <2>8. Ring!Argument(arg) = [w \in Valuation(type) |-> c % Size]
    BY <2>1 DEF Ring!Argument, Ring!Valuation, Residue, Values, Valued, Size
  <2>9. Residue(Term(arg)) = [w \in Valuation(type) |-> c % Size]
    BY <2>6 DEF Residue, Size
  <2>. QED
    BY <2>7, <2>8, <2>9
<1>. QED
  BY <1>1, <1>2 DEF Arguments

LEMMA NaryValues ==
    ASSUME NEW s, NEW t, Sound(s), Valued(s), NEW op
    PROVE  /\ DOMAIN Nary(op, s, t).val = Valuation(type)
           /\ \A w \in Valuation(type) : Nary(op, s, t).val[w] = Value(type, op, s.val[w], t.val[w])
           /\ Nary(op, s, t).root = "nary"
           /\ Batch(op, s, t).val = Nary(op, s, t).val
           /\ Batch(op, s, t).root = "nary"
<1>1. s.sort = type
  BY DEF Sound
<1>. QED
  BY <1>1 DEF Nary, Batch, Made, Valued

LEMMA NaryValued ==
    ASSUME Inv, NEW s, NEW t, Sound(s), Valued(s), Valued(t),
           NEW op \in {"ADD", "MUL", "XOR", "AND", "OR"},
           op \in {"ADD", "MUL"} \/ type = "BV"
    PROVE  Valued(Nary(op, s, t)) /\ Valued(Batch(op, s, t))
<1>1. ASSUME NEW w \in Valuation(type)
      PROVE  Value(type, op, s.val[w], t.val[w]) \in Element(type)
  <2>1. s.val[w] \in Element(type) /\ t.val[w] \in Element(type)
    BY DEF Valued
  <2>2. CASE op \in {"ADD", "MUL"}
    BY <2>1, <2>2, ValueElement
  <2>3. CASE op \in {"XOR", "AND", "OR"}
    <3>1. Value(type, op, s.val[w], t.val[w]) = Bitwise(op, s.val[w], t.val[w])
      BY <2>3 DEF Value
    <3>2. 0 \in Int
      OBVIOUS
    <3>. QED
      BY <2>3, <3>1, <3>2, WordElement, ElementIsInteger
  <2>. QED
    BY <2>2, <2>3
<1>2. Nary(op, s, t).val \in [Valuation(type) -> Element(type)]
  BY <1>1 DEF Nary, Made, Valued, Sound
<1>. QED
  BY <1>2, NaryValues DEF Valued

LEMMA UnaryValued ==
    ASSUME Inv, NEW t, Sound(t), Valued(t)
    PROVE  /\ Valued(Neg(t)) /\ Neg(t).root = "unary"
           /\ \A w \in Valuation(type) : Neg(t).val[w] = Wrapped(type, -t.val[w])
           /\ \A n \in Int : type = "BV" =>
                 /\ Valued(Rotate(t, n)) /\ Rotate(t, n).root = "unary"
                 /\ \A w \in Valuation(type) : Rotate(t, n).val[w] = Rotated(t.val[w], n)
<1>1. t.sort = type
  BY DEF Sound
<1>2. Neg(t).val = [w \in Valuation(type) |-> Wrapped(type, -t.val[w])] /\ Neg(t).root = "unary"
  BY <1>1 DEF Neg, Made, Valued
<1>3. \A w \in Valuation(type) : Wrapped(type, -t.val[w]) \in Element(type)
  BY NegatedElement DEF Valued
<1>4. Valued(Neg(t))
  BY <1>2, <1>3 DEF Valued
<1>5. ASSUME NEW n \in Int, type = "BV"
      PROVE  /\ Valued(Rotate(t, n)) /\ Rotate(t, n).root = "unary"
             /\ \A w \in Valuation(type) : Rotate(t, n).val[w] = Rotated(t.val[w], n)
  <2>1. /\ Rotate(t, n).val = [w \in Valuation(type) |-> Rotated(t.val[w], n)]
        /\ Rotate(t, n).root = "unary"
    BY DEF Rotate, Made, Valued
  <2>2. \A w \in Valuation(type) : Rotated(t.val[w], n) \in Element(type)
    BY <1>5, WordElement, ElementIsInteger
  <2>. QED
    BY <2>1, <2>2 DEF Valued
<1>. QED
  BY <1>2, <1>4, <1>5

LEMMA VarValued ==
    ASSUME Inv, NEW n \in {"x", "y", "q"}
    PROVE  Valued(Var(n)) /\ Var(n).root = "var" /\ Var(n).val = [w \in Valuation(type) |-> w[n]]
<1>1. \A w \in Valuation(type) : w[n] \in Element(type)
  <2>1. Domain(type) \subseteq Element(type)
    BY TermsAssumption DEF Domain, Element
  <2>2. \A w \in Valuation(type) : w[n] \in Domain(type)
    BY DEF Valuation
  <2>. QED
    BY <2>1, <2>2
<1>. QED
  BY <1>1 DEF Var, Valued

-----------------------------------------------------------------------------
(* Every step keeps terms integers, or words, or field elements. *)
LEMMA ThrowKeepsValues ==
    ASSUME Inv, Values, UNCHANGED <<type, a, b, quotients>>, holds' \subseteq holds
    PROVE  Values'
  BY DEF Values, Valued, Reduced, Size

LEMMA ResultKeepsValues ==
    ASSUME Inv, Values, NEW op, NEW arg, NEW r, Valued(r), Reduced(r),
           Ignore(op, arg, r) \/ Return(op, arg, r)
    PROVE  Values'
<1>1. a' = r /\ b' = b /\ type' = type /\ holds' = holds /\ quotients' = quotients
  BY DEF Ignore, Return, Called
<1>. QED
  BY <1>1 DEF Values, Valued, Reduced, Size

LEMMA StepKeepsValues == Inv /\ Values /\ [Next]_vars => Values'
<1> SUFFICES ASSUME Inv, Values, [Next]_vars PROVE Values'
  OBVIOUS
<1>a. Sound(a) /\ Sound(b) /\ a.sort = type /\ b.sort = type
  BY DEF Inv, Sound
<1>b. Valued(a) /\ Valued(b) /\ Reduced(a) /\ Reduced(b)
  BY DEF Values
<1>t. ASSUME NEW op, NEW arg, Throw(op, arg) PROVE Values'
  BY <1>t, ThrowKeepsValues DEF Throw, Called
<1>i. ASSUME NEW op, NEW arg, Ignore(op, arg, a) PROVE Values'
  BY <1>i, <1>b, ResultKeepsValues
<1>f. ASSUME NEW op, NEW arg, NEW v, v \subseteq holds, AssertIf(op, arg, v) PROVE Values'
  BY <1>f, ThrowKeepsValues DEF AssertIf, Called
<1>r. ASSUME NEW op, NEW arg, NEW r, Return(op, arg, r), Valued(r), r.root \in {"unary", "nary"}
      PROVE  Values'
  BY <1>r, ResultKeepsValues DEF Reduced
<1>1. CASE UNCHANGED vars
  BY <1>1, ThrowKeepsValues DEF vars
<1>2. ASSUME NEW arg \in Arguments, NEW op \in {"+", "*", "^", "&", "|"}, Combine(op, arg)
      PROVE  Values'
  <2>1. CASE /\ Built(arg) /\ Kind[op] \in Operations(a.type)
             /\ Sorted(a.type, {a, Term(arg)})
             /\ Return(op, arg, Nary(Kind[op], a, Term(arg)))
    <3>1. Term(arg).sort = type /\ a.type = type
      BY <2>1, <1>a DEF Sorted
    <3>2. /\ Kind[op] \in {"ADD", "MUL", "XOR", "AND", "OR"}
          /\ Kind[op] \in {"ADD", "MUL"} \/ type = "BV"
      BY <2>1, <3>1 DEF Kind, Operations
    <3>3. Valued(Term(arg))
      BY <2>1, <3>1, TermValued
    <3>4. \A k \in {"ADD", "MUL", "XOR", "AND", "OR"} :
             k \in {"ADD", "MUL"} \/ type = "BV" =>
                Valued(Nary(k, a, Term(arg))) /\ Nary(k, a, Term(arg)).root = "nary"
      BY <3>3, <1>a, <1>b, NaryValued, NaryValues
    <3>5. /\ Valued(Nary(Kind[op], a, Term(arg)))
          /\ Nary(Kind[op], a, Term(arg)).root = "nary"
      BY <3>2, <3>4
    <3>. QED
      BY <2>1, <3>5, <1>r
  <2>. QED
    BY <1>2, <2>1, <1>t, <1>i DEF Combine
<1>3. ASSUME NEW arg \in Arguments, Subtract(arg) \/ SubtractAssign(arg)
      PROVE  Values'
  <2>. DEFINE r == Nary("ADD", a, Neg(Term(arg)))
  <2>1. CASE Built(arg) /\ Sorted(a.type, {a, Term(arg)}) /\ (Return("-", arg, r) \/ Return("-=", arg, r))
    <3>1. Term(arg).sort = type /\ Sound(Term(arg))
      <4>1. Term(arg).sort = type /\ a.type = type
        BY <2>1, <1>a DEF Sorted
      <4>2. Term(arg) = b \/ Term(arg) = Const(type, arg[2])
        BY <4>1 DEF Term
      <4>. QED
        BY <4>1, <4>2, <1>a DEF Sound, Const
    <3>2. Valued(Neg(Term(arg)))
      BY <2>1, <3>1, TermValued, UnaryValued
    <3>3. Valued(r) /\ r.root = "nary"
      BY <3>2, <1>a, <1>b, NaryValued, NaryValues
    <3>. QED
      BY <2>1, <3>3, <1>r
  <2>2. Sorted("FF", {a, Term(arg)}) => Sorted(a.type, {a, Term(arg)})
    BY <1>a DEF Sorted, Inv, Sound
  <2>. QED
    BY <1>3, <2>1, <2>2, <1>t DEF Subtract, SubtractAssign
<1>4. ASSUME NEW arg \in Arguments, SubtractFrom(arg) PROVE Values'
  <2>. DEFINE r == Nary("ADD", Neg(a), Term(arg))
  <2>1. CASE Built(arg) /\ Sorted(a.type, {a, Term(arg)}) /\ Return("c-", arg, r)
    <3>1. Term(arg).sort = type
      BY <2>1, <1>a DEF Sorted
    <3>2. Valued(Neg(a)) /\ Sound(Neg(a)) /\ Valued(Term(arg))
      BY <2>1, <3>1, <1>a, <1>b, TermValued, UnaryValued, ResultsSound
    <3>3. Valued(r) /\ r.root = "nary"
      BY <3>2, NaryValued, NaryValues
    <3>. QED
      BY <2>1, <3>3, <1>r
  <2>. QED
    BY <1>4, <2>1, <1>t DEF SubtractFrom
<1>5. ASSUME NEW arg \in Arguments, DivideAssign(arg) PROVE Values'
  BY <1>5, <1>t, <1>i DEF DivideAssign
<1>6. ASSUME NEW arg \in Arguments, NEW op \in {"==", "!="}, Compare(op, arg) PROVE Values'
  <2>1. \A v : {w \in holds : v[w]} \subseteq holds
    OBVIOUS
  <2>. QED
    BY <1>6, <1>t, <1>f DEF Compare
<1>7. ASSUME NEW c \in Literal, NEW op \in {"<", "<=", ">", ">="}, Bound(op, <<"const", c>>)
      PROVE  Values'
  BY <1>7, <1>t, <1>i, <1>f DEF Bound
<1>8. CASE Negate
  BY <1>8, <1>a, <1>b, <1>t, <1>r, UnaryValued DEF Negate
<1>9. ASSUME NEW op \in {"batch_add", "batch_mul"}, BatchCombine(op) PROVE Values'
  <2>1. Kind[op] \in {"ADD", "MUL"}
    BY DEF Kind
  <2>2. \A k \in {"ADD", "MUL"} : Valued(Batch(k, a, b)) /\ Batch(k, a, b).root = "nary"
    BY <1>a, <1>b, NaryValued, NaryValues
  <2>3. Valued(Batch(Kind[op], a, b)) /\ Batch(Kind[op], a, b).root = "nary"
    BY <2>1, <2>2
  <2>. QED
    BY <1>9, <2>3, <1>t, <1>r DEF BatchCombine
<1>10. ASSUME NEW n \in Distances, NEW op \in {"rotl", "rotr", "<<", ">>"}, Turn(op, n)
       PROVE  Values'
  <2>1. CASE /\ "ROT" \in Operations(a.type)
             /\ \/ Return(op, <<"places", n>>, Rotate(a, n))
                \/ Return(op, <<"places", n>>, Rotate(a, -n))
    <3>1. type = "BV"
      BY <2>1, <1>a DEF Operations, Sound
    <3>2. n \in Int /\ -n \in Int
      BY TermsAssumption
    <3>. QED
      BY <2>1, <3>1, <3>2, <1>a, <1>b, <1>r, UnaryValued
  <2>2. \/ Throw(op, <<"places", n>>)
        \/ Ignore(op, <<"places", n>>, a)
        \/ /\ "ROT" \in Operations(a.type)
           /\ \/ Return(op, <<"places", n>>, Rotate(a, n))
              \/ Return(op, <<"places", n>>, Rotate(a, -n))
    BY <1>10 DEF Turn
  <2>. QED
    BY <2>1, <2>2, <1>t, <1>i
<1>11. CASE CompareBool
  BY <1>11, <1>t, <1>f DEF CompareBool
<1>12. CASE Copy
  <2>1. a' = a /\ b' = a /\ holds' = holds /\ type' = type /\ quotients' = quotients
    BY <1>12 DEF Copy, Called
  <2>. QED
    BY <2>1 DEF Values, Valued, Reduced, Size
<1>13. ASSUME NEW arg \in Arguments, NEW op \in {"/", "c/"}, Divide(op, arg) PROVE Values'
  <2>. DEFINE num == IF op = "c/" THEN Term(arg) ELSE a
              den == IF op = "c/" THEN a ELSE Term(arg)
  <2>1. CASE "DIV" \notin Operations(num.type) /\ Built(arg) /\ Ignore(op, arg, num)
    <3>1. CASE op = "c/"
      <4>1. arg[1] = "const"
        BY <1>13, <3>1 DEF Divide
      <4>2. num = Const(a.type, arg[2])
        BY <3>1, <4>1 DEF Term
      <4>3. num.type = "BV" /\ num.sort = num.type /\ num.type = a.type
        BY <2>1, <4>2 DEF Operations, Const
      <4>4. Term(arg).sort = type
        BY <3>1, <4>3 DEF Inv, Sound
      <4>5. Valued(num) /\ Reduced(num)
        BY <2>1, <3>1, <4>4, TermValued
      <4>. QED
        BY <2>1, <4>5, ResultKeepsValues
    <3>2. CASE op # "c/"
      BY <2>1, <3>2, <1>i
    <3>. QED
      BY <3>1, <3>2
  <2>2. CASE ThrowAfterHalf(op, arg, den)
    BY <2>2, ThrowKeepsValues DEF ThrowAfterHalf, Called
  <2>3. CASE /\ Sorted(num.type, {num, den})
             /\ Called(op, arg, "done")
             /\ holds' = {w \in holds : Quotient(num, den, w)}
             /\ a' = Var("q")
             /\ quotients' = 1
             /\ UNCHANGED b
    <3>1. type' = type /\ num.type = type /\ holds' \subseteq holds
      BY <2>3, DividendTyped DEF Called
    <3>2. Valued(a)' /\ Valued(b)'
      <4>1. Valued(Var("q"))
        BY VarValued
      <4>. QED
        BY <2>3, <3>1, <4>1, <1>b DEF Valued
    <3>3. Reduced(b)'
      BY <2>3, <3>1, <1>b DEF Reduced, Size
    <3>4. \A w \in holds' : w \in Valuation(type) /\ InRange(type, w["q"])
      BY <2>3, <3>1 DEF Quotient, Inv, Ranged
    <3>5. \A w \in holds' : w["q"] \in 0 .. Size - 1
      <4>1. \A w \in holds' : w["q"] \in Domain(type)
        BY <3>4 DEF Valuation
      <4>2. CASE type = "FFI"
        BY <3>4, <4>1, <4>2, TermsAssumption DEF InRange, Domain, Size, RingSize
      <4>3. CASE type # "FFI"
        BY <4>1, <4>3 DEF Domain, Size
      <4>. QED
        BY <4>2, <4>3
    <3>6. Reduced(a)'
      <4>1. \A w \in holds' : a'.val[w] = w["q"]
        BY <2>3, <3>4, VarValued
      <4>. QED
        BY <3>1, <3>5, <4>1 DEF Reduced, Size
    <3>. QED
      BY <2>3, <3>2, <3>3, <3>6 DEF Values
  <2>. QED
    BY <1>13, <2>1, <2>2, <2>3, <1>t DEF Divide
<1>. QED
  BY <1>1, <1>2, <1>3, <1>4, <1>5, <1>6, <1>7, <1>8, <1>9, <1>10, <1>11, <1>12, <1>13 DEF Next

LEMMA InitValues == Init => Values
<1> SUFFICES ASSUME Init PROVE Values
  OBVIOUS
<1>1. Inv
  BY InitInv
<1>2. /\ Valued(Var("x")) /\ Var("x").root = "var" /\ Var("x").val = [w \in Valuation(type) |-> w["x"]]
      /\ Valued(Var("y")) /\ Var("y").root = "var" /\ Var("y").val = [w \in Valuation(type) |-> w["y"]]
  BY <1>1, VarValued
<1>3. \A w \in holds : w["x"] \in 0 .. Size - 1 /\ w["y"] \in 0 .. Size - 1
  BY <1>1, InvReduced DEF ModelsAreReduced, Size
<1>4. holds \subseteq Valuation(type)
  BY DEF Init
<1>. QED
  BY <1>2, <1>3, <1>4 DEF Init, Values, Reduced

(* What TypeOK says besides. *)
Counted == calls \in 0 .. MaxCalls /\ outcome \in {"done", "ignored", "threw"}

LEMMA StepCounted == Counted /\ [Next]_vars => Counted'
<1> SUFFICES ASSUME Counted, [Next]_vars PROVE Counted'
  OBVIOUS
<1>1. ASSUME NEW op, NEW arg, NEW how \in {"done", "ignored", "threw"}, Called(op, arg, how)
      PROVE  Counted'
  BY <1>1, TermsAssumption DEF Counted, Called
<1>t. \A op, arg : Throw(op, arg) => Counted'
  BY <1>1 DEF Throw
<1>i. \A op, arg, r : Ignore(op, arg, r) => Counted'
  BY <1>1 DEF Ignore
<1>r. \A op, arg, r : Return(op, arg, r) => Counted'
  BY <1>1 DEF Return
<1>f. \A op, arg, v : AssertIf(op, arg, v) => Counted'
  BY <1>1 DEF AssertIf
<1>2. CASE UNCHANGED vars
  BY <1>2 DEF Counted, vars
<1>3. CASE Copy
  BY <1>3, <1>1 DEF Copy
<1>4. ASSUME NEW arg \in Arguments, NEW op \in {"/", "c/"}, Divide(op, arg) PROVE Counted'
  BY <1>4, <1>1, <1>t, <1>i DEF Divide, ThrowAfterHalf
<1>5. CASE \E arg \in Arguments :
              \/ \E op \in {"+", "*", "^", "&", "|"} : Combine(op, arg)
              \/ Subtract(arg) \/ SubtractFrom(arg) \/ SubtractAssign(arg)
  BY <1>5, <1>t, <1>i, <1>r DEF Combine, Subtract, SubtractFrom, SubtractAssign
<1>6. CASE \E arg \in Arguments :
              \/ DivideAssign(arg)
              \/ \E op \in {"==", "!="} : Compare(op, arg)
  BY <1>6, <1>t, <1>i, <1>f DEF DivideAssign, Compare
<1>7. ASSUME NEW c \in Literal, NEW op \in {"<", "<=", ">", ">="}, Bound(op, <<"const", c>>)
      PROVE  Counted'
  BY <1>7, <1>t, <1>i, <1>f DEF Bound
<1>8. CASE Negate \/ CompareBool \/ \E op \in {"batch_add", "batch_mul"} : BatchCombine(op)
  BY <1>8, <1>t, <1>r, <1>f DEF Negate, CompareBool, BatchCombine
<1>9. ASSUME NEW n \in Distances, NEW op \in {"rotl", "rotr", "<<", ">>"}, Turn(op, n)
      PROVE  Counted'
  BY <1>9, <1>t, <1>i, <1>r DEF Turn
<1>. QED
  BY <1>2, <1>3, <1>4, <1>5, <1>6, <1>7, <1>8, <1>9 DEF Next

(* Whatever a client calls, its terms stay terms of its type: values of the  *)
(* sort that cvc5 gave them, under every valuation (term.hpp:28-107).        *)
THEOREM TypeCorrect == Spec => []TypeOK
<1>1. Init => Counted
  BY TermsAssumption DEF Init, Counted
<1>2. Inv /\ Values /\ Counted => TypeOK
  <2> SUFFICES ASSUME Inv, Values, Counted PROVE TypeOK
    OBVIOUS
  <2>1. ASSUME NEW t \in {a, b}
        PROVE  /\ t.type \in {type, "FF"}
               /\ t.sort = type
               /\ t.root \in {"var", "const", "unary", "nary"}
               /\ DOMAIN t.val = Valuation(type)
               /\ type = "FFI" \/ \A w \in DOMAIN t.val : t.val[w] \in Domain(type)
    <3>1. Sound(t) /\ Valued(t)
      BY DEF Inv, Values
    <3>2. type = "FFI" \/ Element(type) = Domain(type)
      BY DEF Element, Domain
    <3>. QED
      BY <3>1, <3>2 DEF Sound, Valued
  <2>. QED
    BY <2>1 DEF TypeOK, Inv, Ranged, Values, Counted
<1>. QED
  BY <1>1, <1>2, InitInv, InitValues, StepKeepsInv, StepKeepsValues, StepCounted, PTL DEF Spec

-----------------------------------------------------------------------------
(* The terms of a careful client compute as elements of the ring do. *)

(* A term whose comparison is exact is compared by its element of the ring. *)
LEMMA ComparedResidue ==
    ASSUME Inv, NEW t, Sound(t), Valued(t), Reduced(t), Exact(t), NEW w \in holds
    PROVE  Compared(t).val[w] = Residue(t)[w] /\ Residue(t)[w] \in 0 .. Size - 1
<1>. w \in Valuation(type)
  BY DEF Inv, Ranged
<1>1. t.val[w] \in Element(type) /\ Residue(t)[w] = t.val[w] % Size
  BY DEF Valued, Residue, Size
<1>2. t.val[w] \in Int /\ Residue(t)[w] \in 0 .. Size - 1
  BY <1>1, ElementIsInteger, SizePositive, Split
<1>3. t.val[w] \in 0 .. Size - 1 => Residue(t)[w] = t.val[w]
  BY <1>1, SizePositive, Small
<1>4. CASE type = "FFI"
  <2>1. t.type = "FFI" /\ t.sort = "FFI" /\ Size = Mod
    BY <1>4, SizePositive DEF Exact, Sound
  <2>2. CASE t.root = "var"
    <3>1. Compared(t) = t
      BY <2>2 DEF Compared, NumChildren
    <3>. QED
      BY <2>2, <3>1, <1>2, <1>3 DEF Reduced
  <2>3. CASE t.root \in {"const", "nary"}
    <3>1. NumChildren(t) = 2
      BY <2>1, <2>3 DEF NumChildren
    <3>2. Compared(t) = Made(t, "nary", [v \in DOMAIN t.val |-> t.val[v] % Mod])
      BY <2>1, <3>1 DEF Compared, mod
    <3>3. Compared(t).val[w] = t.val[w] % Mod
      BY <3>2 DEF Made, Valued
    <3>. QED
      BY <2>1, <3>3, <1>1, <1>2
  <2>. QED
    BY <2>1, <2>2, <2>3 DEF Valued, Exact
<1>5. CASE type # "FFI"
  <2>1. Compared(t) = t
    BY <1>5 DEF Compared, mod, Sound
  <2>. QED
    BY <1>1, <1>2, <1>3, <1>5, <2>1, ElementIsInteger
<1>. QED
  BY <1>4, <1>5

LEMMA CanonicalResidue ==
    ASSUME Inv, NEW t, Sound(t), Valued(t), Reduced(t), Canonical(t), NEW w \in holds
    PROVE  t.val[w] = Residue(t)[w]
<1>. w \in Valuation(type)
  BY DEF Inv, Ranged
<1>1. Residue(t)[w] = t.val[w] % Size
  BY DEF Valued, Residue, Size
<1>2. t.val[w] \in 0 .. Size - 1
  <2>1. CASE type = "FFI"
    BY <2>1 DEF Canonical, Reduced, Sound
  <2>2. CASE type # "FFI"
    BY <2>2, ElementIsInteger DEF Valued
  <2>. QED
    BY <2>1, <2>2
<1>. QED
  BY <1>1, <1>2, SizePositive, Small

LEMMA ZeroCompared ==
    ASSUME NEW ty \in {"FF", "FFI", "BV"}, NEW w \in Valuation(type)
    PROVE  Compared(Const(ty, 0)).val[w] = 0
<1>1. 0 % Mod = 0
  BY TermsAssumption, Small
<1>2. Const(ty, 0).val = [v \in Valuation(type) |-> 0] /\ Const(ty, 0).type = ty
  BY <1>1 DEF Const
<1>3. mod(Const(ty, 0)).val[w] = 0
  BY <1>1, <1>2 DEF mod, Made
<1>. QED
  BY <1>2, <1>3 DEF Compared

(* A second operand of the sort of the terms. *)
LEMMA OperandSound ==
    ASSUME Inv, NEW arg, Term(arg).sort = type PROVE Sound(Term(arg))
<1>1. Term(arg) = b \/ Term(arg) = Const(a.type, arg[2])
  BY DEF Term
<1>2. CASE Term(arg) = Const(a.type, arg[2])
  BY <1>2 DEF Sound, Const
<1>. QED
  BY <1>1, <1>2 DEF Inv

LEMMA ElementOf ==
    ASSUME Inv, NEW t, Valued(t), NEW w \in Valuation(type)
    PROVE  t.val[w] \in Element(type) /\ Residue(t)[w] = t.val[w] % Size
  BY DEF Valued, Residue, Size

(* The registers of the ring follow those of the client. *)
LEMMA Registers ==
    ASSUME Inv, Values
    PROVE  /\ Ring!Valuation = Valuation(type)
           /\ UNCHANGED <<type, a>> => Residue(a)' = Residue(a)
           /\ UNCHANGED <<type, b>> => Residue(b)' = Residue(b)
           /\ UNCHANGED type => RingSize(type)' = RingSize(type)
<1>1. Ring!Valuation = Valuation(type)
  BY DEF Ring!Valuation, Residue, Values, Valued
<1>. QED
  BY <1>1 DEF Residue

LEMMA RefuseRefines ==
    ASSUME Inv, Values, NEW op, NEW arg, Throw(op, arg) \/ Ignore(op, arg, a)
    PROVE  Ring!Next
<1>1. /\ call' = <<op, arg>> /\ type' = type /\ a' = a /\ b' = b /\ holds' = holds
      /\ outcome' \in {"threw", "ignored"}
  BY DEF Throw, Ignore, Called
<1>2. call'[1] = op /\ call'[2] = arg
  BY <1>1
<1>3. Ring!Refuse(op, arg)
  BY <1>1, Registers DEF Ring!Refuse, Ring!Called
<1>. QED
  BY <1>2, <1>3 DEF Ring!Next

LEMMA ComputeRefines ==
    ASSUME Inv, Values, NEW op \in Ring!Computation, NEW arg, NEW r, Return(op, arg, r), Valued(r),
           \A w \in Valuation(type) :
              r.val[w] % Size = Ring!Value(op, Residue(a)[w], Ring!Argument(arg)[w], arg[2])
    PROVE  Ring!Next
<1>1. /\ call' = <<op, arg>> /\ type' = type /\ a' = r /\ b' = b /\ holds' = holds
      /\ outcome' = "done"
  BY DEF Return, Called
<1>2. call'[1] = op /\ call'[2] = arg
  BY <1>1
<1>3. Residue(a)' = [w \in Valuation(type) |-> r.val[w] % Size]
  BY <1>1 DEF Residue, Size, Valued
<1>4. Residue(a)' = [w \in Valuation(type) |->
                       Ring!Value(op, Residue(a)[w], Ring!Argument(arg)[w], arg[2])]
  BY <1>3
<1>5. Ring!Compute(op, arg)
  BY <1>1, <1>4, Registers DEF Ring!Compute, Ring!Called
<1>. QED
  BY <1>2, <1>5 DEF Ring!Next

LEMMA AssertRefines ==
    ASSUME Inv, Values, NEW op \in Ring!Assertion, NEW arg, NEW v, AssertIf(op, arg, v),
           v = {w \in holds : Ring!Related(op, Residue(a)[w], Ring!Argument(arg)[w])}
    PROVE  Ring!Next
<1>1. /\ call' = <<op, arg>> /\ type' = type /\ a' = a /\ b' = b /\ holds' = v
      /\ outcome' = "done"
  BY DEF AssertIf, Called
<1>2. call'[1] = op /\ call'[2] = arg
  BY <1>1
<1>3. Ring!Assert(op, arg)
  BY <1>1, Registers DEF Ring!Assert, Ring!Called
<1>. QED
  BY <1>2, <1>3 DEF Ring!Next

(* The ring's words are those of the terms. *)
LEMMA SameWords ==
    /\ \A op, u, v : Ring!Bitwise(op, u, v) = Bitwise(op, u, v)
    /\ \A u, n : Ring!Rotated(u, n) = Rotated(u, n)
<1>1. \A bits : Ring!Word(bits) = Word(bits)
  BY DEF Ring!Word, Word
<1>2. \A u : Ring!Bits(u) = Bits(u)
  BY DEF Ring!Bits, Bits, Ring!Positions, Positions
<1>3. \A x, y : Ring!SymDiff(x, y) = SymDiff(x, y)
  BY DEF Ring!SymDiff, SymDiff
<1>. QED
  BY <1>1, <1>2, <1>3 DEF Ring!Bitwise, Bitwise, Ring!Rotated, Rotated

LEMMA CombineRefines ==
    ASSUME Inv, Values, NEW arg \in Arguments, NEW op \in {"+", "*", "^", "&", "|"}, Combine(op, arg)
    PROVE  Ring!Next
<1>1. CASE Throw(op, arg) \/ Ignore(op, arg, a)
  BY <1>1, RefuseRefines
<1>2. CASE /\ Built(arg) /\ Kind[op] \in Operations(a.type)
           /\ Sorted(a.type, {a, Term(arg)})
           /\ Return(op, arg, Nary(Kind[op], a, Term(arg)))
  <2>. DEFINE t == Term(arg)
  <2>1. a.type = type /\ t.sort = type /\ Sound(a) /\ Valued(a)
    BY <1>2 DEF Sorted, Inv, Sound, Values
  <2>2. Valued(t) /\ Ring!Argument(arg) = Residue(t)
    BY <1>2, <2>1, TermValued
  <2>. HIDE DEF t
  <2>3. ASSUME NEW kind \in {"ADD", "MUL", "XOR", "AND", "OR"}, kind = Kind[op]
        PROVE  Ring!Next
    <3>1. Return(op, arg, Nary(kind, a, t)) /\ op \in Ring!Computation
      BY <1>2, <2>3 DEF t, Ring!Computation
    <3>2. kind \in {"ADD", "MUL"} \/ type = "BV"
      BY <1>2, <2>1, <2>3 DEF Operations
    <3>3. Valued(Nary(kind, a, t))
      BY <2>1, <2>2, <3>2, NaryValued
    <3>4. ASSUME NEW w \in Valuation(type)
          PROVE  Nary(kind, a, t).val[w] % Size
                   = Ring!Value(op, Residue(a)[w], Ring!Argument(arg)[w], arg[2])
      <4>. DEFINE u == a.val[w]  v == t.val[w]
      <4>1. Nary(kind, a, t).val[w] = Value(type, kind, u, v)
        BY <2>1, NaryValues
      <4>2. /\ u \in Element(type) /\ Residue(a)[w] = u % Size
            /\ v \in Element(type) /\ Residue(t)[w] = v % Size
        BY <2>1, <2>2, ElementOf
      <4>. HIDE DEF u, v
      <4>3. Ring!Value(op, u % Size, v % Size, arg[2]) = Value(type, kind, u, v) % Size
        <5>1. CASE kind = "ADD"
          <6>1. op = "+"
            BY <2>3, <5>1 DEF Kind
          <6>2. Ring!Value("+", u % Size, v % Size, arg[2]) = ((u % Size) + (v % Size)) % Size
            BY DEF Ring!Value, Size
          <6>. QED
            BY <4>2, <5>1, <6>1, <6>2, ValueElement
        <5>2. CASE kind = "MUL"
          <6>1. op = "*"
            BY <2>3, <5>2 DEF Kind
          <6>2. Ring!Value("*", u % Size, v % Size, arg[2]) = ((u % Size) * (v % Size)) % Size
            BY DEF Ring!Value, Size
          <6>. QED
            BY <4>2, <5>2, <6>1, <6>2, ValueElement
        <5>3. CASE kind \in {"XOR", "AND", "OR"}
          <6>1. type = "BV"
            BY <3>2, <5>3
          <6>2. u % Size = u /\ v % Size = v
            BY <4>2, <6>1, ElementIsInteger, SizePositive, Small
          <6>3. Bitwise(kind, u, v) \in 0 .. Size - 1
            <7>1. 0 \in Int
              OBVIOUS
            <7>. QED
              BY <5>3, <6>1, <7>1, WordElement
          <6>4. Bitwise(kind, u, v) % Size = Bitwise(kind, u, v)
            BY <6>3, SizePositive, Small
          <6>5. Value(type, kind, u, v) = Bitwise(kind, u, v)
            BY <5>3 DEF Value
          <6>6. Ring!Value(op, u, v, arg[2]) = Bitwise(kind, u, v)
            <7>1. CASE op = "^"
              BY <7>1, <2>3, SameWords DEF Ring!Value, Kind
            <7>2. CASE op = "&"
              BY <7>2, <2>3, SameWords DEF Ring!Value, Kind
            <7>3. CASE op = "|"
              BY <7>3, <2>3, SameWords DEF Ring!Value, Kind
            <7>. QED
              BY <7>1, <7>2, <7>3, <2>3, <5>3 DEF Kind
          <6>. QED
            BY <6>2, <6>4, <6>5, <6>6
        <5>. QED
          BY <5>1, <5>2, <5>3
      <4>. QED
        BY <2>2, <4>1, <4>2, <4>3
    <3>. QED
      BY <3>1, <3>3, <3>4, ComputeRefines
  <2>. QED
    BY <2>3 DEF Kind
<1>. QED
  BY <1>1, <1>2 DEF Combine

LEMMA SubtractRefines ==
    ASSUME Inv, Values, NEW arg \in Arguments, Subtract(arg) \/ SubtractAssign(arg)
    PROVE  Ring!Next
<1>. DEFINE t == Term(arg)
<1>1. CASE Throw("-", arg) \/ Throw("-=", arg)
  BY <1>1, RefuseRefines
<1>2. ASSUME NEW op \in {"-", "-="}, Built(arg), t.sort = type, Return(op, arg, Nary("ADD", a, Neg(t)))
      PROVE  Ring!Next
  <2>1. Sound(a) /\ Valued(a) /\ Sound(t) /\ Valued(t) /\ Ring!Argument(arg) = Residue(t)
    BY <1>2, TermValued, OperandSound DEF Inv, Values
  <2>2. Valued(Nary("ADD", a, Neg(t)))
    BY <2>1, UnaryValued, NaryValued
  <2>3. ASSUME NEW w \in Valuation(type)
        PROVE  Nary("ADD", a, Neg(t)).val[w] % Size
                 = Ring!Value(op, Residue(a)[w], Ring!Argument(arg)[w], arg[2])
    <3>1. Nary("ADD", a, Neg(t)).val[w] = Value(type, "ADD", a.val[w], Neg(t).val[w])
      BY <2>1, NaryValues
    <3>2. Neg(t).val[w] = Wrapped(type, -t.val[w])
      BY <2>1, UnaryValued
    <3>3. /\ a.val[w] \in Element(type) /\ Residue(a)[w] = a.val[w] % Size
          /\ t.val[w] \in Element(type) /\ Residue(t)[w] = t.val[w] % Size
      BY <2>1, ElementOf
    <3>4. \A u, v, n : Ring!Value(op, u, v, n) = (u - v) % Size
      BY <1>2 DEF Ring!Value, Size
    <3>. QED
      BY <2>1, <3>1, <3>2, <3>3, <3>4, DifferenceElement
  <2>4. op \in Ring!Computation
    BY <1>2 DEF Ring!Computation
  <2>. QED
    BY <1>2, <2>2, <2>3, <2>4, ComputeRefines
<1>3. Sorted(a.type, {a, t}) \/ Sorted("FF", {a, t}) => t.sort = type
  BY DEF Sorted, Inv, Sound
<1>. QED
  BY <1>1, <1>2, <1>3 DEF Subtract, SubtractAssign

LEMMA SubtractFromRefines ==
    ASSUME Inv, Values, NEW arg \in Arguments, SubtractFrom(arg)
    PROVE  Ring!Next
<1>. DEFINE t == Term(arg)
<1>1. CASE Throw("c-", arg)
  BY <1>1, RefuseRefines
<1>2. CASE Built(arg) /\ Sorted(a.type, {a, t}) /\ Return("c-", arg, Nary("ADD", Neg(a), t))
  <2>0. t.sort = type
    BY <1>2 DEF Sorted, Inv, Sound
  <2>1. /\ Sound(a) /\ Valued(a) /\ Valued(t) /\ Ring!Argument(arg) = Residue(t)
        /\ Sound(Neg(a)) /\ Valued(Neg(a))
    BY <1>2, <2>0, TermValued, ResultsSound, UnaryValued DEF Inv, Values
  <2>2. Valued(Nary("ADD", Neg(a), t))
    BY <2>1, NaryValued
  <2>3. ASSUME NEW w \in Valuation(type)
        PROVE  Nary("ADD", Neg(a), t).val[w] % Size
                 = Ring!Value("c-", Residue(a)[w], Ring!Argument(arg)[w], arg[2])
    <3>1. Nary("ADD", Neg(a), t).val[w] = Value(type, "ADD", Neg(a).val[w], t.val[w])
      BY <2>1, NaryValues
    <3>2. Neg(a).val[w] = Wrapped(type, -a.val[w])
      BY <2>1, UnaryValued
    <3>3. /\ a.val[w] \in Element(type) /\ Residue(a)[w] = a.val[w] % Size
          /\ t.val[w] \in Element(type) /\ Residue(t)[w] = t.val[w] % Size
      BY <2>1, ElementOf
    <3>4. \A u, v, n : Ring!Value("c-", u, v, n) = (v - u) % Size
      BY DEF Ring!Value, Size
    <3>. QED
      BY <2>1, <3>1, <3>2, <3>3, <3>4, DifferenceElement
  <2>4. "c-" \in Ring!Computation
    BY DEF Ring!Computation
  <2>. QED
    BY <1>2, <2>2, <2>3, <2>4, ComputeRefines
<1>. QED
  BY <1>1, <1>2 DEF SubtractFrom

LEMMA NegateRefines == ASSUME Inv, Values, Negate PROVE Ring!Next
<1>. DEFINE arg == <<"b", 0>>
<1>1. CASE Throw("neg", arg)
  BY <1>1, RefuseRefines
<1>2. CASE Return("neg", arg, Neg(a))
  <2>1. Sound(a) /\ Valued(a)
    BY DEF Inv, Values
  <2>2. Valued(Neg(a))
    BY <2>1, UnaryValued
  <2>3. ASSUME NEW w \in Valuation(type)
        PROVE  Neg(a).val[w] % Size = Ring!Value("neg", Residue(a)[w], Ring!Argument(arg)[w], arg[2])
    <3>1. Neg(a).val[w] = Wrapped(type, -a.val[w])
      BY <2>1, UnaryValued
    <3>2. a.val[w] \in Element(type) /\ Residue(a)[w] = a.val[w] % Size
      BY <2>1, ElementOf
    <3>3. \A u, v, n : Ring!Value("neg", u, v, n) = (-u) % Size
      BY DEF Ring!Value, Size
    <3>. QED
      BY <3>1, <3>2, <3>3, NegatedElement
  <2>4. "neg" \in Ring!Computation
    BY DEF Ring!Computation
  <2>. QED
    BY <1>2, <2>2, <2>3, <2>4, ComputeRefines
<1>. QED
  BY <1>1, <1>2 DEF Negate

LEMMA BatchRefines ==
    ASSUME Inv, Values, NEW op \in {"batch_add", "batch_mul"}, BatchCombine(op)
    PROVE  Ring!Next
<1>. DEFINE arg == <<"b", 0>>
<1>1. CASE Throw(op, arg)
  BY <1>1, RefuseRefines
<1>2. ASSUME NEW kind \in {"ADD", "MUL"}, kind = Kind[op], Return(op, arg, Batch(kind, a, b))
      PROVE  Ring!Next
  <2>1. Sound(a) /\ Valued(a) /\ Valued(b) /\ Ring!Argument(arg) = Residue(b)
    BY DEF Inv, Values, Ring!Argument
  <2>2. Valued(Batch(kind, a, b))
    BY <2>1, NaryValued
  <2>3. ASSUME NEW w \in Valuation(type)
        PROVE  Batch(kind, a, b).val[w] % Size
                 = Ring!Value(op, Residue(a)[w], Ring!Argument(arg)[w], arg[2])
    <3>. DEFINE u == a.val[w]  v == b.val[w]
    <3>1. Batch(kind, a, b).val[w] = Value(type, kind, u, v)
      <4>1. Nary(kind, a, b).val[w] = Value(type, kind, u, v)
        BY <2>1, NaryValues
      <4>2. Batch(kind, a, b).val = Nary(kind, a, b).val
        BY <2>1, NaryValues
      <4>. QED
        BY <4>1, <4>2
    <3>2. /\ u \in Element(type) /\ Residue(a)[w] = u % Size
          /\ v \in Element(type) /\ Residue(b)[w] = v % Size
      BY <2>1, ElementOf
    <3>. HIDE DEF u, v
    <3>3. CASE kind = "ADD"
      <4>1. op = "batch_add"
        BY <1>2, <3>3 DEF Kind
      <4>2. Ring!Value("batch_add", u % Size, v % Size, arg[2]) = ((u % Size) + (v % Size)) % Size
        BY DEF Ring!Value, Size
      <4>. QED
        BY <2>1, <3>1, <3>2, <3>3, <4>1, <4>2, ValueElement
    <3>4. CASE kind = "MUL"
      <4>1. op = "batch_mul"
        BY <1>2, <3>4 DEF Kind
      <4>2. Ring!Value("batch_mul", u % Size, v % Size, arg[2]) = ((u % Size) * (v % Size)) % Size
        BY DEF Ring!Value, Size
      <4>. QED
        BY <2>1, <3>1, <3>2, <3>4, <4>1, <4>2, ValueElement
    <3>. QED
      BY <3>3, <3>4
  <2>4. op \in Ring!Computation
    BY DEF Ring!Computation
  <2>. QED
    BY <1>2, <2>2, <2>3, <2>4, ComputeRefines
<1>. QED
  BY <1>1, <1>2 DEF BatchCombine, Kind

LEMMA TurnRefines ==
    ASSUME Inv, Values, NEW n \in Distances, NEW op \in {"rotl", "rotr", "<<", ">>"}, Turn(op, n)
    PROVE  Ring!Next
<1>. DEFINE arg == <<"places", n>>
<1>1. CASE Throw(op, arg) \/ Ignore(op, arg, a)
  BY <1>1, RefuseRefines
<1>2. ASSUME NEW k \in Int, "ROT" \in Operations(a.type), Return(op, arg, Rotate(a, k)),
             (op = "rotl" /\ k = n) \/ (op = "rotr" /\ k = -n)
      PROVE  Ring!Next
  <2>1. Sound(a) /\ Valued(a)
    BY DEF Inv, Values
  <2>2. type = "BV"
    BY <1>2, <2>1 DEF Operations, Sound
  <2>3. Valued(Rotate(a, k))
    BY <2>1, <2>2, UnaryValued
  <2>4. ASSUME NEW w \in Valuation(type)
        PROVE  Rotate(a, k).val[w] % Size = Ring!Value(op, Residue(a)[w], Ring!Argument(arg)[w], arg[2])
    <3>1. Rotate(a, k).val[w] = Rotated(a.val[w], k)
      BY <2>1, <2>2, UnaryValued
    <3>2. a.val[w] \in Element(type) /\ Residue(a)[w] = a.val[w] % Size
      BY <2>1, ElementOf
    <3>3. Residue(a)[w] = a.val[w]
      BY <2>2, <3>2, ElementIsInteger, SizePositive, Small
    <3>4. Rotated(a.val[w], k) % Size = Rotated(a.val[w], k)
      <4>1. Rotated(a.val[w], k) \in 0 .. Size - 1
        BY <2>2, WordElement
      <4>. QED
        BY <4>1, SizePositive, Small
    <3>5. \A u, v : Ring!Value(op, u, v, n) = Rotated(u, k)
      <4>1. CASE op = "rotl"
        BY <1>2, <4>1, SameWords DEF Ring!Value
      <4>2. CASE op = "rotr"
        BY <1>2, <4>2, SameWords DEF Ring!Value
      <4>. QED
        BY <1>2, <4>1, <4>2
    <3>6. arg[2] = n
      OBVIOUS
    <3>. QED
      BY <3>1, <3>3, <3>4, <3>5, <3>6
  <2>5. op \in Ring!Computation
    BY <1>2 DEF Ring!Computation
  <2>. QED
    BY <1>2, <2>3, <2>4, <2>5, ComputeRefines
<1>3. n \in Int /\ -n \in Int
  BY TermsAssumption
<1>4. CASE /\ "ROT" \in Operations(a.type)
           /\ \/ op = "rotl" /\ Return(op, arg, Rotate(a, n))
              \/ op = "rotr" /\ Return(op, arg, Rotate(a, -n))
  BY <1>2, <1>3, <1>4
<1>. QED
  BY <1>1, <1>4 DEF Turn

LEMMA CompareRefines ==
    ASSUME Inv, Values, Careful, NEW arg \in Arguments, NEW op \in {"==", "!="}, Compare(op, arg)
    PROVE  Ring!Next
<1>. DEFINE t == Term(arg)
            v == {w \in holds : Equal(a, t, w) <=> op = "=="}
<1>1. CASE Throw(op, arg)
  BY <1>1, RefuseRefines
<1>2. CASE /\ Built(arg) /\ Sorted(a.sort, {a, t})
           /\ Exact(a) /\ Exact(t)
           /\ AssertIf(op, arg, v)
  <2>1. t.sort = type
    BY <1>2 DEF Sorted, Inv, Sound
  <2>2. /\ Sound(a) /\ Valued(a) /\ Reduced(a)
        /\ Sound(t) /\ Valued(t) /\ Reduced(t) /\ Ring!Argument(arg) = Residue(t)
    BY <1>2, <2>1, TermValued, OperandSound DEF Inv, Values
  <2>3. \A w \in holds : Equal(a, t, w) <=> Residue(a)[w] = Residue(t)[w]
    BY <1>2, <2>2, ComparedResidue DEF Equal
  <2>4. \A x, y : Ring!Related(op, x, y) <=> (x = y <=> op = "==")
    BY DEF Ring!Related
  <2>5. v = {w \in holds : Ring!Related(op, Residue(a)[w], Ring!Argument(arg)[w])}
    BY <2>2, <2>3, <2>4
  <2>6. op \in Ring!Assertion
    BY DEF Ring!Assertion
  <2>. QED
    BY <1>2, <2>5, <2>6, AssertRefines
<1>. QED
  BY <1>1, <1>2 DEF Compare

LEMMA CompareBoolRefines == ASSUME Inv, Values, Careful, CompareBool PROVE Ring!Next
<1>. DEFINE arg == <<"b", 0>>
            v == {w \in holds : a.val[w] = b.val[w]}
<1>1. CASE Throw("bool==", arg)
  BY <1>1, RefuseRefines
<1>2. CASE Canonical(a) /\ Canonical(b) /\ AssertIf("bool==", arg, v)
  <2>1. /\ Sound(a) /\ Valued(a) /\ Reduced(a)
        /\ Sound(b) /\ Valued(b) /\ Reduced(b) /\ Ring!Argument(arg) = Residue(b)
    BY DEF Inv, Values, Ring!Argument
  <2>2. \A w \in holds : a.val[w] = Residue(a)[w] /\ b.val[w] = Residue(b)[w]
    BY <1>2, <2>1, CanonicalResidue
  <2>3. \A x, y : Ring!Related("bool==", x, y) <=> x = y
    BY DEF Ring!Related
  <2>4. v = {w \in holds : Ring!Related("bool==", Residue(a)[w], Ring!Argument(arg)[w])}
    BY <2>1, <2>2, <2>3
  <2>5. "bool==" \in Ring!Assertion
    BY DEF Ring!Assertion
  <2>. QED
    BY <1>2, <2>4, <2>5, AssertRefines
<1>. QED
  BY <1>1, <1>2 DEF CompareBool

LEMMA BoundRefines ==
    ASSUME Inv, Values, Careful, NEW c \in Literal, NEW op \in {"<", "<=", ">", ">="},
           Bound(op, <<"const", c>>)
    PROVE  Ring!Next
<1>. DEFINE arg == <<"const", c>>
            t == Term(arg)
            v == {w \in holds : Ordered(op, a.val[w], t.val[w])}
<1>1. CASE Throw(op, arg) \/ Ignore(op, arg, a)
  BY <1>1, RefuseRefines
<1>2. CASE Built(arg) /\ Sorted(a.type, {a}) /\ Canonical(a) /\ AssertIf(op, arg, v)
  <2>1. a.type = type
    BY <1>2 DEF Sorted, Inv, Sound
  <2>2. arg[1] = "const" /\ arg[2] = c /\ arg \in Arguments
    BY DEF Arguments
  <2>3. t = Const(type, c)
    BY <2>1, <2>2 DEF Term
  <2>4. t.sort = type /\ t.root = "const"
    BY <2>3 DEF Const
  <2>5. /\ Sound(a) /\ Valued(a) /\ Reduced(a)
        /\ Sound(t) /\ Valued(t) /\ Reduced(t) /\ Ring!Argument(arg) = Residue(t)
    BY <1>2, <2>2, <2>4, TermValued, OperandSound DEF Inv, Values
  <2>6. \A w \in holds : a.val[w] = Residue(a)[w] /\ t.val[w] = Residue(t)[w]
    BY <1>2, <2>4, <2>5, CanonicalResidue DEF Canonical
  <2>7. \A x, y : Ring!Related(op, x, y) <=> Ordered(op, x, y)
    <3>1. CASE op \in {"<", "<="}
      BY <3>1 DEF Ring!Related, Ordered
    <3>2. CASE op \in {">", ">="}
      BY <3>2 DEF Ring!Related, Ordered
    <3>. QED
      BY <3>1, <3>2
  <2>8. v = {w \in holds : Ring!Related(op, Residue(a)[w], Ring!Argument(arg)[w])}
    BY <2>5, <2>6, <2>7
  <2>9. op \in Ring!Assertion
    BY DEF Ring!Assertion
  <2>. QED
    BY <1>2, <2>8, <2>9, AssertRefines
<1>. QED
  BY <1>1, <1>2 DEF Bound

LEMMA CopyRefines == ASSUME Inv, Values, Copy PROVE Ring!Next
<1>1. /\ call' = <<"copy", <<"b", 0>>>> /\ type' = type /\ a' = a /\ b' = a /\ holds' = holds
      /\ outcome' = "done"
  BY DEF Copy, Called
<1>2. Residue(b)' = Residue(a)
  BY <1>1 DEF Residue
<1>3. Ring!Copy
  BY <1>1, <1>2, Registers DEF Ring!Copy, Ring!Called
<1>. QED
  BY <1>3 DEF Ring!Next

LEMMA DivideAssignRefines ==
    ASSUME Inv, Values, NEW arg \in Arguments, DivideAssign(arg)
    PROVE  Ring!Next
  BY RefuseRefines DEF DivideAssign

(* The zero divisor is excluded before cvc5 refuses the multiplication. *)
LEMMA HalfRefines ==
    ASSUME Inv, Values, NEW arg \in Arguments, ThrowAfterHalf("/", arg, Term(arg)),
           Exact(Term(arg)), Term(arg).type = Term(arg).sort,
           ~Sorted(a.type, {a, Term(arg)})
    PROVE  Ring!Next
<1>. DEFINE den == Term(arg)
<1>1. /\ call' = <<"/", arg>> /\ type' = type /\ a' = a /\ b' = b /\ outcome' = "threw"
      /\ holds' = {w \in holds : ~Equal(den, Const(den.type, 0), w)}
  BY DEF ThrowAfterHalf, Called
<1>2. call'[1] = "/" /\ call'[2] = arg
  BY <1>1
<1>3. holds \subseteq Valuation(type) /\ type \in {"FF", "FFI", "BV"}
  BY TermsAssumption DEF Inv, Ranged
<1>4. \/ holds' = holds
      \/ holds' = {w \in holds : Ring!Argument(arg)[w] # 0}
  <2>1. CASE arg = <<"b", 0>>
    <3>1. arg[1] = "b" /\ den = b
      BY <2>1 DEF Term
    <3>2. Sound(den) /\ Valued(den) /\ Reduced(den) /\ Ring!Argument(arg) = Residue(den)
      BY <3>1 DEF Inv, Values, Ring!Argument
    <3>3. den.type \in {"FF", "FFI", "BV"}
      BY <3>2, <1>3 DEF Sound
    <3>4. \A w \in holds : Equal(den, Const(den.type, 0), w) <=> Ring!Argument(arg)[w] = 0
      BY <3>2, <3>3, <1>3, ComparedResidue, ZeroCompared DEF Equal
    <3>. QED
      BY <1>1, <3>4
  <2>2. ASSUME NEW c \in Literal, arg = <<"const", c>>
        PROVE  \/ holds' = holds
               \/ holds' = {w \in holds : Ring!Argument(arg)[w] # 0}
    <3>1. arg[1] = "const" /\ arg[2] = c
      BY <2>2
    <3>2. den = Const(a.type, c)
      BY <3>1 DEF Term
    <3>3. den.sort = a.type /\ a.type # type
      BY <3>2 DEF Const, Sorted, Inv, Sound
    <3>4. a.type = "FF" /\ den.type = "FF" /\ den.sort = "FF" /\ den.root = "const"
      BY <3>2, <3>3 DEF Const, Inv, Sound
    <3>5. Compared(den) = den
      BY <3>4 DEF Compared, mod
    <3>6. c \in 0 .. Mod - 1 /\ c % Mod = c
      BY TermsAssumption, Small
    <3>7. \A w \in holds : Compared(den).val[w] = c
      BY <3>2, <3>5, <3>6, <1>3 DEF Const
    <3>8. \A w \in holds : Equal(den, Const(den.type, 0), w) <=> c = 0
      BY <3>4, <3>7, <1>3, ZeroCompared DEF Equal
    <3>9. CASE c = 0
      <4>1. \A w \in holds : Ring!Argument(arg)[w] = 0
        <5>1. 0 % Size = 0
          BY SizePositive, Small
        <5>2. Ring!Argument(arg) = [w \in Valuation(type) |-> 0]
          BY <3>1, <3>9, <5>1, Registers DEF Ring!Argument, Size
        <5>. QED
          BY <5>2, <1>3
      <4>. QED
        BY <1>1, <3>8, <3>9, <4>1
    <3>10. CASE c # 0
      BY <1>1, <3>8, <3>10
    <3>. QED
      BY <3>9, <3>10
  <2>. QED
    BY <2>1, <2>2 DEF Arguments
<1>5. Ring!Refuse("/", arg)
  BY <1>1, <1>4, Registers DEF Ring!Refuse, Ring!Called
<1>. QED
  BY <1>2, <1>5 DEF Ring!Next

(* The two assertions of a division, as a statement about the ring. *)
LEMMA QuotientMeaning ==
    ASSUME Inv, NEW num, Sound(num), Valued(num), Reduced(num), Exact(num), num.type = type,
           NEW den, Sound(den), Valued(den), Reduced(den), Exact(den),
           NEW w \in holds
    PROVE  Quotient(num, den, w) <=>
             /\ w["q"] \in 0 .. Size - 1
             /\ Residue(den)[w] # 0
             /\ (w["q"] * Residue(den)[w]) % Size = Residue(num)[w]
<1>. DEFINE q == Var("q")
            product == Nary("MUL", q, den)
<1>a. Sound(q) /\ Valued(q) /\ q.type = type
  BY VarSound, VarValued DEF Var
<1>b. q.val = [v \in Valuation(type) |-> v["q"]]
  BY DEF Var
<1>. HIDE DEF q
<1>c. Sound(product) /\ Valued(product) /\ product.root = "nary" /\ product.type = type
  <2>. "MUL" \in {"ADD", "MUL", "XOR", "AND", "OR"} /\ "MUL" \in {"ADD", "MUL"}
    OBVIOUS
  <2>1. Valued(product) /\ product.root = "nary"
    BY <1>a, NaryValued, NaryValues
  <2>2. product.type = q.type
    BY DEF Nary, Made
  <2>. QED
    BY <1>a, <2>1, <2>2, ResultsSound
<1>. HIDE DEF product
<1>d. Reduced(product) /\ Exact(product)
  BY <1>c DEF Reduced, Exact, Sound
<1>1. w \in Valuation(type) /\ type \in {"FF", "FFI", "BV"}
  BY TermsAssumption DEF Inv, Ranged
<1>2. Equal(den, Const(den.type, 0), w) <=> Residue(den)[w] = 0
  <2>1. den.type \in {"FF", "FFI", "BV"}
    BY <1>1 DEF Sound
  <2>. QED
    BY <1>1, <2>1, ComparedResidue, ZeroCompared DEF Equal
<1>3. InRange(num.type, w["q"]) <=> w["q"] \in 0 .. Size - 1
  <2>1. w["q"] \in Domain(type)
    BY <1>1 DEF Valuation
  <2>2. CASE type = "FFI"
    BY <2>1, <2>2, TermsAssumption DEF InRange, Domain, Size, RingSize
  <2>3. CASE type # "FFI"
    BY <2>1, <2>3 DEF InRange, Domain, Size
  <2>. QED
    BY <2>2, <2>3
<1>4. Equal(product, num, w) <=> Residue(product)[w] = Residue(num)[w]
  BY <1>c, <1>d, ComparedResidue DEF Equal
<1>5. w["q"] \in 0 .. Size - 1 =>
         Residue(product)[w] = (w["q"] * Residue(den)[w]) % Size
  <2>. SUFFICES ASSUME w["q"] \in 0 .. Size - 1
                PROVE  Residue(product)[w] = (w["q"] * Residue(den)[w]) % Size
    OBVIOUS
  <2>. DEFINE u == w["q"]  v == den.val[w]
  <2>1. u % Size = u
    BY SizePositive, Small
  <2>2. q.val[w] = u
    BY <1>b, <1>1
  <2>3. product.val[w] = Value(type, "MUL", q.val[w], v)
    <3>1. q.sort = type /\ DOMAIN q.val = Valuation(type)
      BY <1>a DEF Sound, Valued
    <3>. QED
      BY <1>1, <3>1 DEF product, Nary, Made
  <2>4. u \in Element(type)
    BY ElementIsInteger
  <2>5. v \in Element(type) /\ Residue(den)[w] = v % Size
    BY <1>1, ElementOf
  <2>6. Residue(product)[w] = product.val[w] % Size
    BY <1>c, <1>1, ElementOf
  <2>. HIDE DEF u, v
  <2>7. Value(type, "MUL", u, v) % Size = ((u % Size) * (v % Size)) % Size
    BY <2>4, <2>5, ValueElement
  <2>8. Residue(product)[w] = (u * Residue(den)[w]) % Size
    BY <2>1, <2>2, <2>3, <2>5, <2>6, <2>7
  <2>. QED
    BY <2>8 DEF u
<1>. QED
  BY <1>2, <1>3, <1>4, <1>5 DEF Quotient, product, q

LEMMA Operands ==
    ASSUME Inv, Values, NEW arg \in Arguments, NEW op, Built(arg),
           LET num == IF op = "c/" THEN Term(arg) ELSE a
               den == IF op = "c/" THEN a ELSE Term(arg)
           IN Sorted(num.type, {num, den})
    PROVE  LET num == IF op = "c/" THEN Term(arg) ELSE a
               den == IF op = "c/" THEN a ELSE Term(arg)
           IN /\ Sound(num) /\ Valued(num) /\ Reduced(num)
              /\ Sound(den) /\ Valued(den) /\ Reduced(den)
              /\ Residue(num) = IF op = "c/" THEN Ring!Argument(arg) ELSE Residue(a)
              /\ Residue(den) = IF op = "c/" THEN Residue(a) ELSE Ring!Argument(arg)
<1>. DEFINE num == IF op = "c/" THEN Term(arg) ELSE a
            den == IF op = "c/" THEN a ELSE Term(arg)
<1>1. num.type = type
  BY DividendTyped
<1>2. num.sort = type /\ den.sort = type
  BY <1>1 DEF Sorted
<1>3. Term(arg).sort = type
  BY <1>2 DEF Inv, Sound
<1>4. /\ Sound(Term(arg)) /\ Valued(Term(arg)) /\ Reduced(Term(arg))
      /\ Ring!Argument(arg) = Residue(Term(arg))
  BY <1>3, TermValued, OperandSound
<1>. QED
  BY <1>4 DEF Inv, Values

LEMMA DivideRefines ==
    ASSUME Inv, Values, Careful, NEW arg \in Arguments, NEW op \in {"/", "c/"}, Divide(op, arg)
    PROVE  Ring!Next
<1>. DEFINE num == IF op = "c/" THEN Term(arg) ELSE a
            den == IF op = "c/" THEN a ELSE Term(arg)
<1>1. CASE Throw(op, arg)
  BY <1>1, RefuseRefines
<1>2. CASE Built(arg) /\ "DIV" \notin Operations(num.type) /\ Ignore(op, arg, num)
  <2>1. CASE op = "/"
    BY <1>2, <2>1, RefuseRefines
  <2>2. CASE op = "c/"
    <3>1. arg[1] = "const"
      BY <2>2 DEF Divide
    <3>2. num = Const(a.type, arg[2])
      BY <2>2, <3>1 DEF Term
    <3>3. num.type = "BV" /\ num.sort = num.type /\ num.type = a.type
      BY <1>2, <3>2 DEF Operations, Const
    <3>4. Term(arg).sort = type
      BY <2>2, <3>3 DEF Inv, Sound
    <3>5. Ring!Argument(arg) = Residue(num)
      BY <1>2, <2>2, <3>4, TermValued
    <3>6. /\ call' = <<op, arg>> /\ type' = type /\ a' = num /\ b' = b /\ holds' = holds
          /\ outcome' = "ignored"
      BY <1>2 DEF Ignore, Called
    <3>7. Residue(a)' = Ring!Argument(arg)
      BY <3>5, <3>6 DEF Residue
    <3>8. Ring!Refuse(op, arg)
      BY <3>6, <3>7, Registers DEF Ring!Refuse, Ring!Called
    <3>9. call'[1] = op /\ call'[2] = arg
      BY <3>6
    <3>. QED
      BY <3>8, <3>9 DEF Ring!Next
  <2>. QED
    BY <2>1, <2>2
<1>3. CASE /\ den.type = den.sort /\ ~Sorted(num.type, {num, den})
           /\ Exact(den) /\ ThrowAfterHalf(op, arg, den)
  <2>1. CASE op = "/"
    BY <1>3, <2>1, HalfRefines
  <2>2. CASE op = "c/"
    <3>1. arg[1] = "const"
      BY <2>2 DEF Divide
    <3>2. num = Const(a.type, arg[2])
      BY <2>2, <3>1 DEF Term
    <3>. QED
      BY <1>3, <2>2, <3>2 DEF Sorted, Const
  <2>. QED
    BY <2>1, <2>2
<1>4. CASE /\ Built(arg)
           /\ Sorted(num.type, {num, den})
           /\ Exact(num) /\ Exact(den)
           /\ Called(op, arg, "done")
           /\ holds' = {w \in holds : Quotient(num, den, w)}
           /\ a' = Var("q")
           /\ UNCHANGED b
  <2>1. num.type = type
    BY <1>4, DividendTyped
  <2>2. /\ Sound(num) /\ Valued(num) /\ Reduced(num)
        /\ Sound(den) /\ Valued(den) /\ Reduced(den)
        /\ Residue(num) = IF op = "c/" THEN Ring!Argument(arg) ELSE Residue(a)
        /\ Residue(den) = IF op = "c/" THEN Residue(a) ELSE Ring!Argument(arg)
    BY <1>4, Operands
  <2>. HIDE DEF num, den
  <2>3. /\ call' = <<op, arg>> /\ type' = type /\ a' = Var("q") /\ b' = b /\ outcome' = "done"
        /\ holds' = {w \in holds : Quotient(num, den, w)}
    BY <1>4 DEF Called
  <2>4. \A w \in holds : Quotient(num, den, w) <=>
           /\ w["q"] \in 0 .. Size - 1
           /\ Residue(den)[w] # 0
           /\ (w["q"] * Residue(den)[w]) % Size = Residue(num)[w]
    BY <1>4, <2>1, <2>2, QuotientMeaning
  <2>5. Residue(a)' = [w \in Valuation(type) |-> w["q"] % Size]
    BY <2>3 DEF Residue, Size, Var
  <2>6. call'[1] = op /\ call'[2] = arg
    BY <2>3
  <2>7. Ring!Divide(op, arg)
    BY <2>2, <2>3, <2>4, <2>5, Registers DEF Ring!Divide, Ring!Called, Size
  <2>. QED
    BY <2>6, <2>7 DEF Ring!Next
<1>. QED
  BY <1>1, <1>2, <1>3, <1>4 DEF Divide

LEMMA StepRefines ==
    ASSUME Inv, Values, Careful, [Next]_vars
    PROVE  [Ring!Next]_(Ring!vars)
<1>1. CASE UNCHANGED vars
  BY <1>1, Registers DEF vars, Ring!vars
<1>2. CASE Next
  <2>1. Ring!Next
    BY <1>2, CombineRefines, SubtractRefines, SubtractFromRefines, NegateRefines, BatchRefines,
       TurnRefines, DivideRefines, DivideAssignRefines, CompareRefines, CompareBoolRefines,
       BoundRefines, CopyRefines DEF Next
  <2>. QED
    BY <2>1
<1>. QED
  BY <1>1, <1>2

LEMMA InitRefines == ASSUME Init PROVE Ring!Init
<1>1. Inv /\ Values
  BY InitInv, InitValues
<1>2. /\ Residue(a) = [w \in Valuation(type) |-> w["x"] % Size]
      /\ Residue(b) = [w \in Valuation(type) |-> w["y"] % Size]
  BY DEF Init, Var, Residue, Size
<1>3. \A n \in {"x", "y"}, w \in Valuation(type) :
         InRange(type, w[n]) <=> w[n] \in 0 .. Size - 1
  <2>1. \A n \in {"x", "y"}, w \in Valuation(type) : w[n] \in Domain(type)
    BY DEF Valuation
  <2>2. CASE type = "FFI"
    BY <2>1, <2>2, TermsAssumption DEF InRange, Domain, Size, RingSize
  <2>3. CASE type # "FFI"
    BY <2>1, <2>3 DEF InRange, Domain, Size
  <2>. QED
    BY <2>2, <2>3
<1>. QED
  BY <1>1, <1>2, <1>3, Registers DEF Init, Ring!Init, Size

(* For every modulus, width, constants and sequence of calls: what a careful *)
(* client computes and asserts with symbolic terms of any type is what the   *)
(* ring of its elements computes and asserts, or is refused (term.cpp:90-417).*)
THEOREM Computes == ASSUME Careful PROVE Spec => ComputesInTheRing
<1>1. Init => Ring!Init
  BY InitRefines
<1>2. Inv /\ Values /\ [Next]_vars => [Ring!Next]_(Ring!vars)
  BY StepRefines
<1>. QED
  BY <1>1, <1>2, InitInv, InitValues, StepKeepsInv, StepKeepsValues, PTL
     DEF Spec, ComputesInTheRing, Ring!Spec

-----------------------------------------------------------------------------
(* Quotients are determined: before the first division nothing depends on   *)
(* the unknown q, and a divisor with an inverse leaves it one value.         *)

LEMMA UniqueQuotient ==
    ASSUME NEW m \in Nat \ {0}, m > 1, NEW d \in 0 .. m - 1, NEW n \in 0 .. m - 1,
           NEW y \in 0 .. m - 1, (d * y) % m = 1
    PROVE  \E x \in 0 .. m - 1 : \A v \in 0 .. m - 1 : (v * d) % m = n <=> v = x
<1>. DEFINE x == (n * y) % m
<1>. m \in Int /\ d \in Int /\ n \in Int /\ y \in Int /\ n * y \in Int /\ d * y \in Int
  OBVIOUS
<1>1. x \in 0 .. m - 1
  BY Split
<1>2. d % m = d /\ n % m = n /\ y % m = y /\ x % m = x
  BY <1>1, Small
<1>3. (x * d) % m = n
  <2>1. ((n * y) * d) % m = (((n * y) % m) * (d % m)) % m
    BY Congruent
  <2>2. (n * (d * y)) % m = ((n % m) * ((d * y) % m)) % m
    BY Congruent
  <2>3. (n * y) * d = n * (d * y)
    OBVIOUS
  <2>. HIDE DEF x
  <2>4. (x * d) % m = (n * 1) % m
    BY <1>2, <2>1, <2>2, <2>3 DEF x
  <2>. QED
    BY <1>2, <2>4
<1>4. ASSUME NEW v \in 0 .. m - 1, (v * d) % m = n
      PROVE  v = x
  <2>. v \in Int /\ v * d \in Int
    OBVIOUS
  <2>1. ((v * d) * y) % m = (((v * d) % m) * (y % m)) % m
    BY Congruent
  <2>2. (v * (d * y)) % m = ((v % m) * ((d * y) % m)) % m
    BY Congruent
  <2>3. (v * d) * y = v * (d * y)
    OBVIOUS
  <2>4. v % m = v
    BY Small
  <2>5. (v * (d * y)) % m = (v * 1) % m
    BY <2>2, <2>4
  <2>6. v * 1 = v
    OBVIOUS
  <2>. QED
    BY <1>2, <1>4, <2>1, <2>3, <2>4, <2>5, <2>6
<1>. HIDE DEF x
<1>. QED
  BY <1>1, <1>3, <1>4

Other(w, v) == [w EXCEPT !["q"] = v]
Spread(t) == DOMAIN t.val = Valuation(type)
Blind(t) ==
    Spread(t) /\ \A w \in Valuation(type), v \in Domain(type) : t.val[Other(w, v)] = t.val[w]
Closed(s) == \A w \in s, v \in Domain(type) : Other(w, v) \in s
Unread == quotients = 0 => Blind(a) /\ Blind(b) /\ Closed(holds)

LEMMA OtherValuation ==
    ASSUME NEW w \in Valuation(type), NEW v \in Domain(type)
    PROVE  /\ Other(w, v) \in Valuation(type)
           /\ Other(w, v)["q"] = v /\ Other(w, v)["x"] = w["x"] /\ Other(w, v)["y"] = w["y"]
  BY DEF Other, Valuation

LEMMA BlindTerm == ASSUME Blind(b), NEW arg PROVE Blind(Term(arg))
<1>1. \A ty, c : Blind(Const(ty, c))
  BY OtherValuation DEF Blind, Spread, Const
<1>. QED
  BY <1>1 DEF Term

LEMMA BlindResult ==
    ASSUME NEW s, Blind(s)
    PROVE  /\ Blind(Neg(s)) /\ Blind(Compared(s))
           /\ \A n : Blind(Rotate(s, n))
           /\ \A op, t : Blind(t) => Blind(Nary(op, s, t)) /\ Blind(Batch(op, s, t))
<1>1. Blind(Neg(s))
  BY OtherValuation DEF Neg, Made, Blind, Spread
<1>2. Blind(Compared(s))
  BY OtherValuation DEF Compared, mod, Made, Blind, Spread
<1>3. ASSUME NEW n PROVE Blind(Rotate(s, n))
  BY OtherValuation DEF Rotate, Made, Blind, Spread
<1>4. ASSUME NEW op, NEW t, Blind(t) PROVE Blind(Nary(op, s, t)) /\ Blind(Batch(op, s, t))
  <2>1. Blind(Nary(op, s, t))
    BY <1>4, OtherValuation DEF Nary, Made, Blind, Spread
  <2>2. Batch(op, s, t).val = Nary(op, s, t).val
    BY DEF Batch, Nary, Made
  <2>. QED
    BY <2>1, <2>2 DEF Blind, Spread
<1>. QED
  BY <1>1, <1>2, <1>3, <1>4

LEMMA UnreadNarrows ==
    ASSUME Inv, Unread, UNCHANGED <<type, a, b, quotients>>, holds' \subseteq holds,
           Blind(a) /\ Blind(b) /\ Closed(holds) =>
              \A w \in holds, v \in Domain(type) : w \in holds' => Other(w, v) \in holds'
    PROVE  Unread'
<1> SUFFICES ASSUME quotients = 0 PROVE Blind(a)' /\ Blind(b)' /\ Closed(holds)'
  BY DEF Unread
<1>1. Blind(a) /\ Blind(b) /\ Closed(holds)
  BY DEF Unread
<1>2. \A w \in holds', v \in Domain(type) : Other(w, v) \in holds'
  BY <1>1
<1>. QED
  BY <1>1, <1>2 DEF Blind, Spread, Closed

LEMMA UnreadResult ==
    ASSUME Inv, Unread, NEW op, NEW arg, NEW r, Blind(a) /\ Blind(b) => Blind(r),
           Ignore(op, arg, r) \/ Return(op, arg, r)
    PROVE  Unread'
<1>1. a' = r /\ b' = b /\ type' = type /\ holds' = holds /\ quotients' = quotients
  BY DEF Ignore, Return, Called
<1>. QED
  BY <1>1 DEF Unread, Blind, Spread, Closed

LEMMA StepUnread == Inv /\ Unread /\ [Next]_vars => Unread'
<1> SUFFICES ASSUME Inv, Unread, [Next]_vars PROVE Unread'
  OBVIOUS
<1>h. ASSUME NEW w \in holds PROVE w \in Valuation(type)
  BY DEF Inv, Ranged
<1>t. ASSUME NEW op, NEW arg, Throw(op, arg) PROVE Unread'
  BY <1>t, UnreadNarrows DEF Throw, Called, Unread, Closed
<1>i. ASSUME NEW op, NEW arg, Ignore(op, arg, a) PROVE Unread'
  BY <1>i, UnreadResult
<1>0. CASE UNCHANGED vars
  BY <1>0, UnreadNarrows DEF vars, Unread, Closed
<1>1. ASSUME NEW arg \in Arguments, NEW op \in {"+", "*", "^", "&", "|"}, Combine(op, arg)
      PROVE  Unread'
  <2>1. CASE Return(op, arg, Nary(Kind[op], a, Term(arg)))
    <3>1. Blind(a) /\ Blind(b) => Blind(Nary(Kind[op], a, Term(arg)))
      BY BlindTerm, BlindResult
    <3>. QED
      BY <2>1, <3>1, UnreadResult
  <2>. QED
    BY <1>1, <2>1, <1>t, <1>i DEF Combine
<1>2. ASSUME NEW arg \in Arguments, Subtract(arg) \/ SubtractFrom(arg) \/ SubtractAssign(arg)
      PROVE  Unread'
  <2>1. Blind(a) /\ Blind(b) =>
           /\ Blind(Nary("ADD", a, Neg(Term(arg))))
           /\ Blind(Nary("ADD", Neg(a), Term(arg)))
    BY BlindTerm, BlindResult
  <2>. QED
    BY <1>2, <2>1, <1>t, UnreadResult DEF Subtract, SubtractFrom, SubtractAssign
<1>3. ASSUME NEW arg \in Arguments, DivideAssign(arg) PROVE Unread'
  BY <1>3, <1>t, <1>i DEF DivideAssign
<1>4. CASE Negate
  BY <1>4, <1>t, UnreadResult, BlindResult DEF Negate
<1>5. ASSUME NEW op \in {"batch_add", "batch_mul"}, BatchCombine(op) PROVE Unread'
  <2>1. Blind(a) /\ Blind(b) => Blind(Batch(Kind[op], a, b))
    BY BlindResult
  <2>. QED
    BY <1>5, <2>1, <1>t, UnreadResult DEF BatchCombine
<1>6. ASSUME NEW n \in Distances, NEW op \in {"rotl", "rotr", "<<", ">>"}, Turn(op, n)
      PROVE  Unread'
  <2>1. \/ Throw(op, <<"places", n>>)
        \/ Ignore(op, <<"places", n>>, a)
        \/ Return(op, <<"places", n>>, Rotate(a, n))
        \/ Return(op, <<"places", n>>, Rotate(a, -n))
    BY <1>6 DEF Turn
  <2>. QED
    BY <2>1, <1>t, <1>i, UnreadResult, BlindResult
<1>7. ASSUME NEW arg \in Arguments, NEW op \in {"==", "!="}, Compare(op, arg) PROVE Unread'
  <2>. DEFINE t == Term(arg)
              r == {w \in holds : Equal(a, t, w) <=> op = "=="}
  <2>1. CASE AssertIf(op, arg, r)
    <3>1. UNCHANGED <<type, a, b, quotients>> /\ holds' = r
      BY <2>1 DEF AssertIf, Called
    <3>2. ASSUME Blind(a), Blind(b), NEW w \in holds, NEW v \in Domain(type)
          PROVE  Equal(a, t, Other(w, v)) <=> Equal(a, t, w)
      <4>1. Blind(Compared(a)) /\ Blind(Compared(t))
        BY <3>2, BlindTerm, BlindResult
      <4>. QED
        BY <4>1, <1>h DEF Equal, Blind
    <3>3. Blind(a) /\ Blind(b) /\ Closed(holds) =>
             \A w \in holds, v \in Domain(type) : w \in r => Other(w, v) \in r
      BY <3>2 DEF Closed
    <3>. QED
      BY <3>1, <3>3, UnreadNarrows
  <2>. QED
    BY <1>7, <2>1, <1>t DEF Compare
<1>8. CASE CompareBool
  <2>. DEFINE r == {w \in holds : a.val[w] = b.val[w]}
  <2>1. CASE AssertIf("bool==", <<"b", 0>>, r)
    <3>1. UNCHANGED <<type, a, b, quotients>> /\ holds' = r
      BY <2>1 DEF AssertIf, Called
    <3>2. Blind(a) /\ Blind(b) /\ Closed(holds) =>
             \A w \in holds, v \in Domain(type) : w \in r => Other(w, v) \in r
      BY <1>h DEF Closed, Blind
    <3>. QED
      BY <3>1, <3>2, UnreadNarrows
  <2>. QED
    BY <1>8, <2>1, <1>t DEF CompareBool
<1>9. ASSUME NEW c \in Literal, NEW op \in {"<", "<=", ">", ">="}, Bound(op, <<"const", c>>)
      PROVE  Unread'
  <2>. DEFINE t == Term(<<"const", c>>)
              r == {w \in holds : Ordered(op, a.val[w], t.val[w])}
  <2>1. CASE AssertIf(op, <<"const", c>>, r)
    <3>1. UNCHANGED <<type, a, b, quotients>> /\ holds' = r
      BY <2>1 DEF AssertIf, Called
    <3>2. ASSUME Blind(a), Blind(b), Closed(holds), NEW w \in holds, NEW v \in Domain(type)
          PROVE  w \in r => Other(w, v) \in r
      <4>1. Blind(t)
        BY <3>2, BlindTerm
      <4>2. a.val[Other(w, v)] = a.val[w] /\ t.val[Other(w, v)] = t.val[w]
        BY <3>2, <4>1, <1>h DEF Blind
      <4>3. Other(w, v) \in holds
        BY <3>2 DEF Closed
      <4>. QED
        BY <4>2, <4>3
    <3>. QED
      BY <3>1, <3>2, UnreadNarrows
  <2>. QED
    BY <1>9, <2>1, <1>t, <1>i DEF Bound
<1>10. CASE Copy
  BY <1>10 DEF Copy, Called, Unread, Blind, Spread, Closed
<1>11. ASSUME NEW arg \in Arguments, NEW op \in {"/", "c/"}, Divide(op, arg) PROVE Unread'
  <2>. DEFINE num == IF op = "c/" THEN Term(arg) ELSE a
              den == IF op = "c/" THEN a ELSE Term(arg)
  <2>1. CASE Ignore(op, arg, num)
    <3>1. Blind(a) /\ Blind(b) => Blind(num)
      BY BlindTerm
    <3>. QED
      BY <2>1, <3>1, UnreadResult
  <2>2. CASE ThrowAfterHalf(op, arg, den)
    <3>. DEFINE zero == Const(den.type, 0)
    <3>1. /\ UNCHANGED <<type, a, b, quotients>>
          /\ holds' = {w \in holds : ~Equal(den, zero, w)}
      BY <2>2 DEF ThrowAfterHalf, Called
    <3>2. ASSUME Blind(a), Blind(b), Closed(holds), NEW w \in holds, NEW v \in Domain(type)
          PROVE  w \in holds' => Other(w, v) \in holds'
      <4>1. Blind(den)
        BY <3>2, BlindTerm
      <4>2. Blind(zero)
        BY OtherValuation DEF Blind, Spread, Const
      <4>3. Blind(Compared(den)) /\ Blind(Compared(zero))
        BY <4>1, <4>2, BlindResult
      <4>. HIDE DEF den, zero
      <4>4. Equal(den, zero, Other(w, v)) <=> Equal(den, zero, w)
        BY <4>3, <1>h DEF Equal, Blind
      <4>5. Other(w, v) \in holds
        BY <3>2 DEF Closed
      <4>. QED
        BY <3>1, <4>4, <4>5
    <3>. QED
      BY <3>1, <3>2, UnreadNarrows
  <2>3. CASE quotients' = 1
    BY <2>3 DEF Unread
  <2>. QED
    BY <1>11, <2>1, <2>2, <2>3, <1>t DEF Divide
<1>. QED
  BY <1>0, <1>1, <1>2, <1>3, <1>4, <1>5, <1>6, <1>7, <1>8, <1>9, <1>10, <1>11 DEF Next

LEMMA InitUnread == Init => Unread
<1> SUFFICES ASSUME Init PROVE Blind(a) /\ Blind(b) /\ Closed(holds)
  BY DEF Unread
<1>1. Blind(a) /\ Blind(b)
  BY OtherValuation DEF Init, Var, Blind, Spread
<1>2. Closed(holds)
  BY OtherValuation DEF Init, Closed
<1>. QED
  BY <1>1, <1>2

(* Every element of the field but zero has an inverse. *)
FieldOf(m) == \A d \in 1 .. m - 1 : \E y \in 0 .. m - 1 : (d * y) % m = 1

LEMMA OneQuotient ==
    ASSUME Inv, Values, Unread, Careful, FieldOf(Mod), NEW arg \in Arguments,
           NEW op \in {"/", "c/"}, Divide(op, arg), outcome' = "done", NEW w \in holds
    PROVE  Cardinality(Quotients(holds', w)) =
              IF Divisor.val[w] % RingSize(type) = 0 THEN 0 ELSE 1
<1>. DEFINE num == IF op = "c/" THEN Term(arg) ELSE a
            den == IF op = "c/" THEN a ELSE Term(arg)
<1>1. /\ Built(arg) /\ "DIV" \in Operations(num.type)
      /\ Sorted(num.type, {num, den})
      /\ Exact(num) /\ Exact(den)
      /\ quotients = 0
      /\ call' = <<op, arg>>
      /\ holds' = {u \in holds : Quotient(num, den, u)}
  BY DEF Divide, Throw, Ignore, ThrowAfterHalf, Called
<1>2. num.type = type
  BY <1>1, DividendTyped
<1>3. Sound(num) /\ Valued(num) /\ Reduced(num) /\ Sound(den) /\ Valued(den) /\ Reduced(den)
  BY <1>1, Operands
<1>4. Blind(num) /\ Blind(den) /\ Closed(holds)
  BY <1>1, BlindTerm DEF Unread
<1>5. Divisor = den
  <2>1. call'[1] = op /\ call'[2] = arg
    BY <1>1
  <2>. QED
    BY <2>1 DEF Divisor
<1>. HIDE DEF num, den
<1>6. Size = Mod /\ Size > 1 /\ Size \in Nat \ {0}
  BY <1>1, <1>2, SizePositive, TermsAssumption DEF Operations
<1>7. w \in Valuation(type)
  BY DEF Inv, Ranged
<1>. DEFINE d == Residue(den)[w]
            n == Residue(num)[w]
<1>8. d \in 0 .. Size - 1 /\ n \in 0 .. Size - 1 /\ d = Divisor.val[w] % RingSize(type)
  BY <1>1, <1>3, <1>5, <1>7, ComparedResidue, ElementOf DEF Size
<1>9. ASSUME NEW v \in Domain(type)
      PROVE  Other(w, v) \in holds' <=> v \in 0 .. Size - 1 /\ d # 0 /\ (v * d) % Size = n
  <2>1. Other(w, v) \in holds /\ Other(w, v) \in Valuation(type) /\ Other(w, v)["q"] = v
    BY <1>4, <1>7, OtherValuation DEF Closed
  <2>2. Residue(den)[Other(w, v)] = d /\ Residue(num)[Other(w, v)] = n
    BY <1>3, <1>4, <1>7, <2>1, ElementOf DEF Blind
  <2>. DEFINE u == Other(w, v)
  <2>. HIDE DEF u
  <2>3. Quotient(num, den, u) <=>
           /\ u["q"] \in 0 .. Size - 1
           /\ Residue(den)[u] # 0
           /\ (u["q"] * Residue(den)[u]) % Size = Residue(num)[u]
    BY <1>1, <1>2, <1>3, <2>1, QuotientMeaning DEF u
  <2>. QED
    BY <1>1, <2>1, <2>2, <2>3 DEF u
<1>10. 0 .. Size - 1 \subseteq Domain(type)
  BY <1>6 DEF Domain, Size
<1>. HIDE DEF d, n
<1>11. Quotients(holds', w) = {v \in 0 .. Size - 1 : d # 0 /\ (v * d) % Size = n}
  BY <1>9, <1>10 DEF Quotients, Other
<1>12. CASE d = 0
  <2>1. Quotients(holds', w) = {}
    BY <1>11, <1>12
  <2>. QED
    BY <1>8, <1>12, <2>1, FS_EmptySet
<1>13. CASE d # 0
  <2>. DEFINE m == Size
  <2>0. m \in Nat \ {0} /\ m > 1 /\ FieldOf(m) /\ d \in 1 .. m - 1 /\ n \in 0 .. m - 1
    BY <1>6, <1>8, <1>13
  <2>. HIDE DEF m
  <2>1. PICK y \in 0 .. m - 1 : (d * y) % m = 1
    BY <2>0 DEF FieldOf
  <2>. d \in 0 .. m - 1
    BY <2>0
  <2>2. PICK x \in 0 .. m - 1 : \A v \in 0 .. m - 1 : (v * d) % m = n <=> v = x
    BY <2>0, <2>1, UniqueQuotient
  <2>3. Quotients(holds', w) = {x}
    BY <1>11, <1>13, <2>2 DEF m
  <2>. QED
    BY <1>8, <1>13, <2>3, FS_Singleton
<1>. QED
  BY <1>12, <1>13

LEMMA StepDetermined ==
    ASSUME Inv, Values, Unread, Careful, FieldOf(Mod), [Next]_vars
    PROVE  [ (call'[1] \in {"/", "c/"} /\ outcome' = "done") =>
               \A w \in holds :
                  Cardinality(Quotients(holds', w)) =
                     IF Divisor.val[w] % RingSize(type) = 0 THEN 0 ELSE 1 ]_vars
<1>1. ASSUME NEW op, NEW arg, NEW how, op \notin {"/", "c/"}, Called(op, arg, how)
      PROVE  call'[1] \notin {"/", "c/"}
  BY <1>1 DEF Called
<1>t. \A op, arg : Throw(op, arg) /\ op \notin {"/", "c/"} => call'[1] \notin {"/", "c/"}
  BY <1>1 DEF Throw
<1>i. \A op, arg, r : Ignore(op, arg, r) /\ op \notin {"/", "c/"} => call'[1] \notin {"/", "c/"}
  BY <1>1 DEF Ignore
<1>r. \A op, arg, r : Return(op, arg, r) /\ op \notin {"/", "c/"} => call'[1] \notin {"/", "c/"}
  BY <1>1 DEF Return
<1>f. \A op, arg, v : AssertIf(op, arg, v) /\ op \notin {"/", "c/"} => call'[1] \notin {"/", "c/"}
  BY <1>1 DEF AssertIf
<1>2. CASE \E arg \in Arguments, op \in {"/", "c/"} : Divide(op, arg)
  BY <1>2, OneQuotient
<1>3. CASE call'[1] \notin {"/", "c/"} \/ UNCHANGED vars
  BY <1>3
<1>4. ASSUME NEW arg \in Arguments, NEW op \in {"+", "*", "^", "&", "|"}, Combine(op, arg)
      PROVE  call'[1] \notin {"/", "c/"}
  BY <1>4, <1>t, <1>i, <1>r DEF Combine
<1>5. ASSUME NEW arg \in Arguments, Subtract(arg) \/ SubtractFrom(arg) \/ SubtractAssign(arg)
      PROVE  call'[1] \notin {"/", "c/"}
  BY <1>5, <1>t, <1>r DEF Subtract, SubtractFrom, SubtractAssign
<1>6. ASSUME NEW arg \in Arguments, DivideAssign(arg) PROVE call'[1] \notin {"/", "c/"}
  BY <1>6, <1>t, <1>i DEF DivideAssign
<1>7. ASSUME NEW arg \in Arguments, NEW op \in {"==", "!="}, Compare(op, arg)
      PROVE  call'[1] \notin {"/", "c/"}
  BY <1>7, <1>t, <1>f DEF Compare
<1>8. ASSUME NEW c \in Literal, NEW op \in {"<", "<=", ">", ">="}, Bound(op, <<"const", c>>)
      PROVE  call'[1] \notin {"/", "c/"}
  BY <1>8, <1>t, <1>i, <1>f DEF Bound
<1>9. CASE Negate \/ CompareBool \/ \E op \in {"batch_add", "batch_mul"} : BatchCombine(op)
  <2>1. call'[1] \notin {"/", "c/"}
    BY <1>9, <1>t, <1>r, <1>f DEF Negate, CompareBool, BatchCombine
  <2>. QED
    BY <2>1, <1>3
<1>10. ASSUME NEW n \in Distances, NEW op \in {"rotl", "rotr", "<<", ">>"}, Turn(op, n)
       PROVE  call'[1] \notin {"/", "c/"}
  BY <1>10, <1>t, <1>i, <1>r DEF Turn
<1>11. CASE Copy
  <2>1. call'[1] \notin {"/", "c/"}
    BY <1>11, <1>1 DEF Copy
  <2>. QED
    BY <2>1, <1>3
<1>12. \/ \E arg \in Arguments, op \in {"/", "c/"} : Divide(op, arg)
       \/ call'[1] \notin {"/", "c/"} \/ UNCHANGED vars
       \/ Negate \/ CompareBool \/ \E op \in {"batch_add", "batch_mul"} : BatchCombine(op)
       \/ Copy
  BY <1>4, <1>5, <1>6, <1>7, <1>8, <1>10 DEF Next
<1>. QED
  BY <1>2, <1>3, <1>9, <1>11, <1>12

(* Over a field, for a careful client, a division neither loses nor          *)
(* multiplies solutions: each valuation has one quotient where the divisor   *)
(* is not zero and none where it is (term.cpp:141-154).                      *)
THEOREM QuotientsDetermined == ASSUME Careful, FieldOf(Mod) PROVE Spec => DivisionIsDetermined
<1>1. Inv /\ Values /\ Unread /\ [Next]_vars =>
        [ (call'[1] \in {"/", "c/"} /\ outcome' = "done") =>
            \A w \in holds :
               Cardinality(Quotients(holds', w)) =
                  IF Divisor.val[w] % RingSize(type) = 0 THEN 0 ELSE 1 ]_vars
  BY StepDetermined
<1>. QED
  BY <1>1, InitInv, InitValues, InitUnread, StepKeepsInv, StepKeepsValues, StepUnread, PTL
     DEF Spec, DivisionIsDetermined

-----------------------------------------------------------------------------
(* The operations that can never be used. *)
Unusable(op) == op \in {"/=", "<<", ">>"} \/ (op = "-=" /\ type # "FF")
Typed == {a.type, b.type} = {type}

LEMMA ThrowUnusable ==
    ASSUME NEW op, NEW arg, Throw(op, arg),
           op \in Documented(type) /\ Typed /\ Built(arg) => Unusable(op)
    PROVE  UnusableOperations'
<1>1. /\ call' = <<op, arg>> /\ outcome' = "threw" /\ type' = type /\ a' = a /\ b' = b
  BY DEF Throw, Called
<1>2. call'[1] = op /\ call'[2] = arg
  BY <1>1
<1>3. Built(call[2])' => Built(arg)
  BY <1>1, <1>2 DEF Built
<1>. QED
  BY <1>1, <1>2, <1>3 DEF UnusableOperations, Unusable, Typed

LEMMA UsedUnusable ==
    ASSUME NEW op, NEW arg, call' = <<op, arg>>, outcome' # "threw", type' = type,
           op \in Documented(type) /\ Typed' => ~Unusable(op)
    PROVE  UnusableOperations'
<1>1. call'[1] = op
  OBVIOUS
<1>. QED
  BY <1>1 DEF UnusableOperations, Unusable, Typed

LEMMA Sorts ==
    ASSUME Inv, Typed, NEW arg
    PROVE  /\ a.type = type /\ b.type = type /\ Sorted(a.type, {a, b, Term(arg)})
           /\ Term(arg).type = type /\ Term(arg).sort = type
<1>1. a.type = type /\ b.type = type
  BY DEF Typed
<1>2. a.sort = type /\ b.sort = type
  BY DEF Inv, Sound
<1>3. Term(arg).type = type /\ Term(arg).sort = type
  BY <1>1, <1>2 DEF Term, Const
<1>. QED
  BY <1>1, <1>2, <1>3 DEF Sorted

LEMMA StepUnusable == Inv /\ UnusableOperations /\ [Next]_vars => UnusableOperations'
<1> SUFFICES ASSUME Inv, UnusableOperations, [Next]_vars PROVE UnusableOperations'
  OBVIOUS
<1>1. CASE UNCHANGED vars
  BY <1>1 DEF UnusableOperations, vars, Built
<1>2. ASSUME NEW arg \in Arguments, NEW op \in {"+", "*", "^", "&", "|"}, Combine(op, arg)
      PROVE  UnusableOperations'
  <2>1. CASE outcome' = "threw"
    <3>1. Throw(op, arg)
      BY <1>2, <2>1 DEF Combine, Ignore, Return, Called
    <3>2. ~Built(arg) \/ ~Sorted(a.type, {a, Term(arg)})
      BY <1>2, <2>1 DEF Combine, Ignore, Return, Called
    <3>3. ~(Typed /\ Built(arg))
      BY <3>2, Sorts DEF Sorted
    <3>. QED
      BY <3>1, <3>3, ThrowUnusable
  <2>2. CASE outcome' # "threw"
    <3>1. call' = <<op, arg>> /\ type' = type
      BY <1>2 DEF Combine, Throw, Ignore, Return, Called
    <3>. QED
      BY <2>2, <3>1, UsedUnusable DEF Unusable
  <2>. QED
    BY <2>1, <2>2
<1>3. ASSUME NEW arg \in Arguments, Subtract(arg) PROVE UnusableOperations'
  <2>1. CASE Throw("-", arg) /\ ~(Built(arg) /\ Sorted(a.type, {a, Term(arg)}))
    <3>1. ~(Typed /\ Built(arg))
      BY <2>1, Sorts DEF Sorted
    <3>. QED
      BY <2>1, <3>1, ThrowUnusable
  <2>2. CASE Return("-", arg, Nary("ADD", a, Neg(Term(arg))))
    BY <2>2, UsedUnusable DEF Return, Called, Unusable
  <2>. QED
    BY <1>3, <2>1, <2>2 DEF Subtract
<1>4. ASSUME NEW arg \in Arguments, SubtractFrom(arg) PROVE UnusableOperations'
  <2>1. CASE Throw("c-", arg) /\ ~(Built(arg) /\ Sorted(a.type, {a, Term(arg)}))
    <3>1. ~(Typed /\ Built(arg))
      BY <2>1, Sorts DEF Sorted
    <3>. QED
      BY <2>1, <3>1, ThrowUnusable
  <2>2. CASE Return("c-", arg, Nary("ADD", Neg(a), Term(arg)))
    BY <2>2, UsedUnusable DEF Return, Called, Unusable
  <2>. QED
    BY <1>4, <2>1, <2>2 DEF SubtractFrom
<1>5. ASSUME NEW arg \in Arguments, SubtractAssign(arg) PROVE UnusableOperations'
  <2>1. CASE /\ Throw("-=", arg)
             /\ ~(Built(arg) /\ Sorted(a.type, {Term(arg)}) /\ Sorted("FF", {a, Term(arg)}))
    <3>1. Typed /\ Built(arg) => Unusable("-=")
      BY <2>1, Sorts DEF Sorted, Unusable
    <3>. QED
      BY <2>1, <3>1, ThrowUnusable
  <2>2. CASE Sorted("FF", {a, Term(arg)}) /\ Return("-=", arg, Nary("ADD", a, Neg(Term(arg))))
    <3>1. type = "FF"
      BY <2>2 DEF Sorted, Inv, Sound
    <3>. QED
      BY <2>2, <3>1, UsedUnusable DEF Return, Called, Unusable
  <2>. QED
    BY <1>5, <2>1, <2>2 DEF SubtractAssign
<1>6. ASSUME NEW arg \in Arguments, DivideAssign(arg) PROVE UnusableOperations'
  <2>1. CASE Throw("/=", arg)
    BY <2>1, ThrowUnusable DEF Unusable
  <2>2. CASE "DIV" \notin Operations(a.type) /\ Ignore("/=", arg, a)
    <3>1. a.type = "BV"
      BY <2>2 DEF Operations
    <3>2. a' = a /\ type' = type /\ call' = <<"/=", arg>> /\ outcome' = "ignored"
      BY <2>2 DEF Ignore, Called
    <3>3. "/=" \in Documented(type) => type # "BV"
      BY DEF Documented
    <3>4. ~("/=" \in Documented(type) /\ Typed')
      BY <3>1, <3>2, <3>3 DEF Typed
    <3>. QED
      BY <3>2, <3>4, UsedUnusable
  <2>. QED
    BY <1>6, <2>1, <2>2 DEF DivideAssign
<1>7. ASSUME NEW arg \in Arguments, NEW op \in {"/", "c/"}, Divide(op, arg) PROVE UnusableOperations'
  <2>. DEFINE num == IF op = "c/" THEN Term(arg) ELSE a
              den == IF op = "c/" THEN a ELSE Term(arg)
  <2>1. CASE outcome' = "threw"
    <3>1. ASSUME Typed, Built(arg)
          PROVE  FALSE
      <4>1. num.type = type /\ num.sort = type /\ den.type = type /\ den.sort = type
        BY <3>1, Sorts DEF Sorted
      <4>2. den.type = den.sort /\ Sorted(num.type, {num, den})
        BY <4>1 DEF Sorted
      <4>. QED
        BY <1>7, <2>1, <3>1, <4>2 DEF Divide, Ignore, Called
    <3>2. call' = <<op, arg>> /\ type' = type /\ a' = a /\ b' = b
      BY <1>7, <2>1 DEF Divide, Throw, ThrowAfterHalf, Ignore, Called
    <3>3. call'[2] = arg
      BY <3>2
    <3>4. Typed' /\ Built(call[2])' => Typed /\ Built(arg)
      BY <3>2, <3>3 DEF Typed, Built
    <3>. QED
      BY <3>1, <3>4 DEF UnusableOperations, Typed
  <2>2. CASE outcome' # "threw"
    <3>1. call' = <<op, arg>> /\ type' = type
      BY <1>7 DEF Divide, Throw, ThrowAfterHalf, Ignore, Called
    <3>. QED
      BY <2>2, <3>1, UsedUnusable DEF Unusable
  <2>. QED
    BY <2>1, <2>2
<1>8. CASE Negate
  <2>1. CASE Throw("neg", <<"b", 0>>) /\ ~Sorted(a.type, {a})
    <3>1. ~Typed
      BY <2>1, Sorts DEF Sorted
    <3>. QED
      BY <2>1, <3>1, ThrowUnusable
  <2>2. CASE Return("neg", <<"b", 0>>, Neg(a))
    BY <2>2, UsedUnusable DEF Return, Called, Unusable
  <2>. QED
    BY <1>8, <2>1, <2>2 DEF Negate
<1>9. ASSUME NEW n \in Distances, NEW op \in {"rotl", "rotr", "<<", ">>"}, Turn(op, n)
      PROVE  UnusableOperations'
  <2>. DEFINE arg == <<"places", n>>
  <2>1. CASE Throw(op, arg) /\ op \in {"<<", ">>"}
    BY <2>1, ThrowUnusable DEF Unusable
  <2>2. CASE Ignore(op, arg, a) /\ "ROT" \notin Operations(a.type)
    <3>1. a.type # "BV"
      BY <2>2 DEF Operations
    <3>2. a' = a /\ type' = type /\ call' = <<op, arg>> /\ outcome' = "ignored"
      BY <2>2 DEF Ignore, Called
    <3>3. op \in Documented(type) => type = "BV"
      BY DEF Documented
    <3>4. ~(op \in Documented(type) /\ Typed')
      BY <3>1, <3>2, <3>3 DEF Typed
    <3>. QED
      BY <3>2, <3>4, UsedUnusable
  <2>3. CASE op \in {"rotl", "rotr"} /\ (Return(op, arg, Rotate(a, n)) \/ Return(op, arg, Rotate(a, -n)))
    BY <2>3, UsedUnusable DEF Return, Called, Unusable
  <2>. QED
    BY <1>9, <2>1, <2>2, <2>3 DEF Turn
<1>10. ASSUME NEW op, NEW arg, op \notin Documented(type), call' = <<op, arg>>, type' = type
       PROVE  UnusableOperations'
  <2>1. call'[1] = op
    BY <1>10
  <2>. QED
    BY <1>10, <2>1 DEF UnusableOperations
<1>11. ASSUME NEW arg \in Arguments, NEW op \in {"==", "!="}, Compare(op, arg) PROVE UnusableOperations'
  BY <1>10, <1>11 DEF Compare, Throw, AssertIf, Called, Documented
<1>12. ASSUME NEW c \in Literal, NEW op \in {"<", "<=", ">", ">="}, Bound(op, <<"const", c>>)
       PROVE  UnusableOperations'
  BY <1>10, <1>12 DEF Bound, Throw, Ignore, AssertIf, Called, Documented
<1>13. ASSUME NEW op \in {"batch_add", "batch_mul"}, BatchCombine(op) PROVE UnusableOperations'
  BY <1>10, <1>13 DEF BatchCombine, Throw, Return, Called, Documented
<1>14. CASE CompareBool
  BY <1>10, <1>14 DEF CompareBool, Throw, AssertIf, Called, Documented
<1>15. CASE Copy
  BY <1>10, <1>15 DEF Copy, Called, Documented
<1>. QED
  BY <1>1, <1>2, <1>3, <1>4, <1>5, <1>6, <1>7, <1>8, <1>9, <1>11, <1>12, <1>13, <1>14, <1>15 DEF Next

(* For every modulus, width and client: of the documented operations, on     *)
(* terms of one type, /=, the shifts and, but for field elements, -= always  *)
(* throw, and no other does (term.cpp:108-112, 156-169, 310-335).            *)
THEOREM NeverUsable == Spec => []UnusableOperations
<1>1. Init => UnusableOperations
  BY DEF Init, UnusableOperations, Documented
<1>. QED
  BY <1>1, InitInv, StepKeepsInv, StepUnusable, PTL DEF Spec
=============================================================================
