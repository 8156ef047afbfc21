-------------------------------- MODULE Words --------------------------------
(* Words of Width bits, as cvc5's bit vectors (external): a word is the      *)
(* number its set of bits stands for.                                        *)
EXTENDS Integers, FiniteSetsExt

CONSTANT Width

ASSUME WidthAssumption == Width \in Nat \ {0}

Positions == 0 .. Width - 1
Bits(u) == {i \in Positions : (u \div 2 ^ i) % 2 = 1}
Word(bits) ==
    LET n[i \in 0 .. Width] == IF i = 0 THEN 0 ELSE 2 * n[i - 1] + (IF Width - i \in bits THEN 1 ELSE 0)
    IN n[Width]

Bitwise(op, u, v) ==
    Word(CASE op = "XOR" -> SymDiff(Bits(u), Bits(v))
           [] op = "AND" -> Bits(u) \cap Bits(v)
           [] op = "OR" -> Bits(u) \cup Bits(v))

(* Rotation by n places to the left; to the right it is one by -n. *)
Rotated(u, n) == Word({(i + n) % Width : i \in Bits(u)})

(* Powers of 2, as far as they are used. *)
ASSUME PowersAssumption ==
    /\ 2 ^ 0 = 1
    /\ \A i \in 0 .. Width : 2 ^ i \in Nat \ {0}
    /\ \A i \in 1 .. Width : 2 ^ i = 2 * 2 ^ (i - 1)
=============================================================================
