--------------------------- MODULE FieldElements ----------------------------
(***************************************************************************)
(* The generated field arithmetic (fr.cpp, fr.hpp, what they call of       *)
(* fr.asm).  An FrElement is a small integer or an array of words, in      *)
(* normal or in Montgomery form; a RawFr::Element is an array of words in  *)
(* Montgomery form.  A client computes on one element through one of the   *)
(* two interfaces; FieldAlgebra is what they promise.                      *)
(***************************************************************************)
EXTENDS Integers, Sequences

CONSTANTS
    Mod,        \* the prime q
    Word,       \* number of values of a word, 2^64
    Fr_N64,     \* words of an element
    ScalarBits, \* bits of an exponent, 8 * scalarSize
    Small,      \* int32_t: the values of shortVal
    Number      \* integers a client writes

R == Word ^ Fr_N64
Field == 0 .. Mod - 1

(* Powers of the base of the words, as far as they are used. *)
ASSUME WordAssumption ==
    /\ Word \in Nat /\ Word > 1
    /\ Fr_N64 \in Nat \ {0}
    /\ ScalarBits \in Nat
    /\ \A k \in 0 .. Fr_N64 : Word ^ k \in Nat \ {0}
    /\ Word ^ 0 = 1
    /\ \A k \in 1 .. Fr_N64 : Word ^ k = Word * Word ^ (k - 1)

(* Montgomery's method needs an odd prime below R; a product of two small    *)
(* integers needs no more than one addition of the prime.                    *)
ASSUME FieldAssumption ==
    /\ Mod \in Nat /\ Mod > 2 /\ Mod < R
    /\ \A x \in 1 .. Mod - 1 : \E y \in Field : (x * y) % Mod = 1
    /\ \E y \in Field : (R * y) % Mod = 1
    /\ {0, 1} \subseteq Small /\ Small \subseteq Int
    /\ \A m, n \in Small : {m * n, m + n, m - n, -n} \subseteq -Mod + 1 .. Mod - 1
    /\ Number \subseteq Int /\ Small \subseteq Number
    /\ 0 .. Word - 1 \subseteq Number /\ 0 .. R - 1 \subseteq Number

VARIABLES
    api,        \* the interface the client uses
    element,    \* its FrElement
    raw,        \* its RawFr::Element, as the number in its words
    data,       \* its buffer, words in big-endian order
    call,       \* its last call
    out         \* what the call returned

vars == <<api, element, raw, data, call, out>>

A == INSTANCE FieldAlgebra WITH value <- 0

(* GMP; where there is no inverse, mpz_invert leaves the result undefined,   *)
(* and left is what is found there.                                          *)
mpz_invert(x, left) == A!Inverse(x, left)
mpz_powm(x, n) == A!Power(x, n)

RInverse == CHOOSE y \in Field : (R * y) % Mod = 1
R2 == (R * R) % Mod
R3 == (R * R * R) % Mod
Fr_rawMMul(a, b) == ((((a % Mod) * (b % Mod)) % Mod) * RInverse) % Mod
Fr_rawToMontgomery(a) == Fr_rawMMul(a, R2)
Fr_rawFromMontgomery(a) == Fr_rawMMul(a, 1)
Fr_rawNeg(a) == IF a = 0 THEN 0 ELSE Mod - a

-----------------------------------------------------------------------------
(* FrElement: type bits 63 (long) and 62 (Montgomery), shortVal, longVal.    *)
(* What a format does not use is what was there before.                      *)
Type == {"SHORT", "SHORTMONTGOMERY", "LONG", "LONGMONTGOMERY"}
IsLong(e) == e.type \in {"LONG", "LONGMONTGOMERY"}
IsMontgomery(e) == e.type \in {"SHORTMONTGOMERY", "LONGMONTGOMERY"}

Long(n) == [type |-> "LONG", shortVal |-> 0, longVal |-> n]
LongMontgomery(n) == [type |-> "LONGMONTGOMERY", shortVal |-> 0, longVal |-> n]

Fr_toNormal(e) ==
    IF e.type = "LONGMONTGOMERY"
    THEN [e EXCEPT !.type = "LONG", !.longVal = Fr_rawFromMontgomery(@)]
    ELSE e

(* Faulty variant of Fr_toMontgomery: a short element is only marked. *)
Fr_toMontgomery_Marked(e) ==
    IF IsMontgomery(e) THEN e
    ELSE IF IsLong(e) THEN [e EXCEPT !.type = "LONGMONTGOMERY", !.longVal = Fr_rawToMontgomery(@)]
    ELSE [e EXCEPT !.type = "SHORTMONTGOMERY"]
Fr_toMontgomery(e) ==
    IF IsMontgomery(e) THEN e
    ELSE IF IsLong(e) THEN [e EXCEPT !.type = "LONGMONTGOMERY", !.longVal = Fr_rawToMontgomery(@)]
    ELSE [e EXCEPT !.type = "SHORTMONTGOMERY", !.longVal = Fr_rawToMontgomery(e.shortVal)]

(* if (shortVal < 0) mpz_add(r, r, q) *)
Lifted(n) == IF n < 0 THEN n + Mod ELSE n

Fr_toMpz(e) ==
    LET tmp == Fr_toNormal(e) IN IF ~IsLong(tmp) THEN Lifted(tmp.shortVal) ELSE tmp.longVal

Fr_fromMpz(e, v) ==
    IF v \in Small THEN [e EXCEPT !.type = "SHORT", !.shortVal = v]
    ELSE [e EXCEPT !.type = "LONG", !.longVal = v]

(* The sum or difference of two small integers stays small if it fits;       *)
(* otherwise it is a Montgomery number iff one of the operands is a long one. *)
Fr_rawAdd(a, b) == IF a + b < Mod THEN a + b ELSE a + b - Mod
Fr_rawSub(a, b) == IF a >= b THEN a - b ELSE a - b + Mod
Fitted(n) == IF n \in Small THEN [type |-> "SHORT", shortVal |-> n, longVal |-> 0] ELSE Long(Lifted(n))
NormalWords(e) == IF IsLong(e) THEN e.longVal ELSE Lifted(e.shortVal)
(* The type of the result is written first: an operand that is the result    *)
(* passes for a Montgomery number and is not converted.                      *)
MontgomeryWords(e, isResult) == IF isResult THEN e.longVal ELSE Fr_toMontgomery(e).longVal
Combined(a, b, r, Raw(_, _)) ==
    IF "LONGMONTGOMERY" \in {a.type, b.type}
    THEN LongMontgomery(Raw(MontgomeryWords(a, r = "first"), MontgomeryWords(b, r = "second")))
    ELSE Long(Raw(NormalWords(a), NormalWords(b)))

(* Where r, the result, is: apart from a and b, or one of them. *)
Place == {"apart", "first", "second"}

Fr_add(a, b, r) ==
    IF ~IsLong(a) /\ ~IsLong(b) THEN Fitted(a.shortVal + b.shortVal) ELSE Combined(a, b, r, Fr_rawAdd)
(* A negative small integer minus a number: rawNegLS writes q minus the      *)
(* integer into the result and then subtracts the number, by then            *)
(* overwritten if it is the result.                                          *)
SubtractsItself(a, b, r) == r = "second" /\ ~IsLong(a) /\ a.shortVal < 0 /\ b.type = "LONG"
Fr_sub(a, b, r) ==
    IF ~IsLong(a) /\ ~IsLong(b) THEN Fitted(a.shortVal - b.shortVal)
    ELSE IF SubtractsItself(a, b, r) THEN Long(0)
    ELSE Combined(a, b, r, Fr_rawSub)
(* The operand that is the result would have had to be converted. *)
Spoils(a, b, r) ==
    /\ "LONGMONTGOMERY" \in {a.type, b.type}
    /\ \/ r = "first" /\ ~IsMontgomery(a)
       \/ r = "second" /\ ~IsMontgomery(b)

Fr_neg(a) ==
    IF IsLong(a) THEN [a EXCEPT !.longVal = Fr_rawNeg(@)] ELSE Fitted(-a.shortVal)

(* Faulty variant of Words: the words of a short Montgomery element are      *)
(* taken from its integer.                                                   *)
Words_Short(e) == IF ~IsLong(e) THEN Lifted(e.shortVal) ELSE e.longVal
(* What the multiplication reads of an operand. *)
Words(e) == IF e.type = "SHORT" THEN Lifted(e.shortVal) ELSE e.longVal

(* The product of two small integers becomes long, also where it fits;       *)
(* otherwise one Montgomery multiplication, and one with R3 if neither of    *)
(* the operands is in Montgomery form.                                       *)
Fr_mul(a, b) ==
    LET product == Fr_rawMMul(Words(a), Words(b))
    IN IF ~IsLong(a) /\ ~IsLong(b) THEN Long(Lifted(a.shortVal * b.shortVal))
       ELSE IF IsMontgomery(a) # IsMontgomery(b) THEN Long(product)
       ELSE LongMontgomery(IF IsMontgomery(a) THEN product ELSE Fr_rawMMul(product, R3))

(* tmp starts with what is on the stack. *)
Fr_inv(e, a, left) == Fr_fromMpz(e, mpz_invert(Fr_toMpz(a), left))
Fr_div(a, b, left) == Fr_mul(a, Fr_inv(Long(0), b, left))

(* Operands a client can have got from calls before. *)
Operand ==
    {[type |-> "SHORT", shortVal |-> n, longVal |-> 0] : n \in Small}
    \cup {[type |-> "SHORTMONTGOMERY", shortVal |-> n, longVal |-> Fr_rawToMontgomery(n)] : n \in Small}
    \cup [type : {"LONG", "LONGMONTGOMERY"}, shortVal : {0}, longVal : Field]

-----------------------------------------------------------------------------
(* How a call ended, and the number it printed. *)
Outcome(kind) == [kind |-> kind, text |-> 0]
Printed(n) == [kind |-> "text", text |-> n]
None == Outcome("none")

(* The static initializers: Fr_init() before anything else. *)
Init ==
    /\ api \in {"Fr", "RawFr"}
    /\ element = [type |-> "SHORT", shortVal |-> 0, longVal |-> 0]
    /\ raw = 0
    /\ data \in [1 .. Fr_N64 -> {0, Word - 1}]
    /\ call = [op |-> "keep", arg |-> 0]
    /\ out = None

Fr(op, n, e) ==
    /\ api = "Fr"
    /\ out # Outcome("SIGFPE")
    /\ element' = e
    /\ call' = [op |-> op, arg |-> n]
    /\ UNCHANGED <<api, raw, data>>

(* mpz_fdiv_q and mpz_fdiv_r raise a signal for a divisor 0. *)
DivideIntegers(op, b, Quotient(_, _)) ==
    LET n == Fr_toMpz(b)
    IN IF n = 0 THEN Fr(op, n, element) /\ out' = Outcome("SIGFPE")
       ELSE Fr(op, n, Fr_fromMpz(element, Quotient(Fr_toMpz(element), n))) /\ out' = None

Fr_str2element == \E n \in Number : Fr("set", n, Fr_fromMpz(element, n % Mod)) /\ out' = None

(* Faulty variant of Text: a negative integer keeps its sign. *)
Text_Signed(e) == IF IsLong(e) THEN Fr_toNormal(e).longVal ELSE e.shortVal
(* The text, as the number it denotes. *)
Text(e) == IF IsLong(e) THEN Fr_toNormal(e).longVal ELSE Lifted(e.shortVal)
Fr_element2str ==
    /\ Fr("keep", 0, element)
    /\ out' = Printed(Text(element))

Fr_idiv == \E b \in Operand : DivideIntegers("idiv", b, LAMBDA m, n : m \div n)
Fr_mod == \E b \in Operand : DivideIntegers("mod", b, LAMBDA m, n : m % n)
Fr_pow == \E b \in Operand :
    Fr("pow", Fr_toMpz(b), Fr_fromMpz(element, mpz_powm(Fr_toMpz(element), Fr_toMpz(b)))) /\ out' = None
InvertElement == \E a \in Operand, left \in Field :
    Fr("inv", Fr_toMpz(a), Fr_inv(element, a, left)) /\ out' = None
DivideElement == \E b \in Operand, left \in Field :
    Fr("div", Fr_toMpz(b), Fr_div(element, b, left)) /\ out' = None
AddElement == \E b \in Operand, r \in Place :
    /\ Fr(IF Spoils(element, b, r) THEN "spoilt" ELSE "add", Fr_toMpz(b), Fr_add(element, b, r))
    /\ out' = None
SubtractElement == \E b \in Operand, r \in Place :
    /\ Fr(IF Spoils(element, b, r) \/ SubtractsItself(element, b, r) THEN "spoilt" ELSE "sub",
          Fr_toMpz(b), Fr_sub(element, b, r))
    /\ out' = None
NegateElement == \E a \in Operand : Fr("neg", Fr_toMpz(a), Fr_neg(a)) /\ out' = None
MultiplyElement == \E b \in Operand : Fr("mul", Fr_toMpz(b), Fr_mul(element, b)) /\ out' = None
ConvertElement ==
    \E e \in {Fr_toMontgomery(element), Fr_toNormal(element)} : Fr("keep", 0, e) /\ out' = None

-----------------------------------------------------------------------------
(* RawFr, with the element at hand as the result. *)
Raw(op, n, a) ==
    /\ api = "RawFr"
    /\ raw' = a
    /\ call' = [op |-> op, arg |-> n]
    /\ UNCHANGED <<api, element>>

Plainly == out' = None /\ UNCHANGED data

rawFromString == \E n \in Number : Raw("set", n, Fr_rawToMontgomery(n % Mod)) /\ Plainly
rawFromUI == \E n \in 0 .. Word - 1 : Raw("set", n, Fr_rawToMontgomery(n)) /\ Plainly
rawSet == \E n \in Small : Raw("set", n, Fr_rawToMontgomery(IF n < 0 THEN n + Mod ELSE n)) /\ Plainly

(* add, sub, mul, square and neg of fr.hpp, on an element or on an int. *)
rawAdd == \E a \in Field :
    Raw("add", Fr_rawFromMontgomery(a), Fr_rawAdd(raw, a)) /\ Plainly
rawSub == \E a \in Field :
    Raw("sub", Fr_rawFromMontgomery(a), Fr_rawSub(raw, a)) /\ Plainly
rawMul == \E a \in Field : Raw("mul", Fr_rawFromMontgomery(a), Fr_rawMMul(raw, a)) /\ Plainly
rawNegate == \E a \in Field : Raw("neg", Fr_rawFromMontgomery(a), Fr_rawNeg(a)) /\ Plainly

(* The words are inverted as they are, a/R modulo q, and then corrected. *)
inv(a, left) == Fr_rawMMul(mpz_invert(a, left), R3)
rawInverse == \E a, left \in Field :
    Raw("inv", Fr_rawFromMontgomery(a), inv(a, left)) /\ Plainly
rawDiv == \E a, left \in Field :
    Raw("div", Fr_rawFromMontgomery(a), Fr_rawMMul(raw, inv(a, left))) /\ Plainly

(* exp: square and multiply from the highest bit that is set; r is the base  *)
(* itself, of which a copy has been made.                                    *)
exp(base, bits) ==
    LET Square(a) == Fr_rawMMul(a, a)
        After(acc, b) ==
            IF ~acc.oneFound THEN IF b = 1 THEN [oneFound |-> TRUE, r |-> base] ELSE acc
            ELSE [acc EXCEPT !.r = IF b = 1 THEN Fr_rawMMul(Square(@), base) ELSE Square(@)]
        loop[i \in 0 .. Len(bits)] ==
            IF i = 0 THEN [oneFound |-> FALSE, r |-> base] ELSE After(loop[i - 1], bits[i])
        end == loop[Len(bits)]
    IN IF end.oneFound THEN end.r ELSE Fr_rawToMontgomery(1)
(* The number with these digits, the highest first. *)
Numeral(digits, base) ==
    LET n[i \in 0 .. Len(digits)] == IF i = 0 THEN 0 ELSE base * n[i - 1] + digits[i]
    IN n[Len(digits)]
Binary(bits) == Numeral(bits, 2)
rawExp == \E bits \in [1 .. ScalarBits -> {0, 1}] :
    Binary(bits) \in Number /\ Raw("pow", Binary(bits), exp(raw, bits)) /\ Plainly

rawToString ==
    /\ Raw("keep", 0, raw)
    /\ out' = Printed(Fr_rawFromMontgomery(raw))
    /\ UNCHANGED data

(* mpz_export writes the words a number has, the highest first, from the     *)
(* beginning of the buffer.                                                  *)
Digits(n) == CHOOSE k \in 0 .. Fr_N64 : n < Word ^ k /\ (k = 0 \/ n >= Word ^ (k - 1))
(* Faulty variant of Exported: the lowest word comes first. *)
Exported_LowestFirst(buffer, n) ==
    [i \in 1 .. Fr_N64 |-> IF i <= Digits(n) THEN (n \div Word ^ (i - 1)) % Word ELSE buffer[i]]
Exported(buffer, n) ==
    [i \in 1 .. Fr_N64 |->
        IF i <= Digits(n) THEN (n \div Word ^ (Digits(n) - i)) % Word ELSE buffer[i]]
Imported(buffer) == Numeral(buffer, Word)

(* A buffer that is too short is refused with a negative number. *)
Refused == Outcome("refused")
toRprBE ==
    /\ Raw("keep", 0, raw)
    /\ \E bytes \in {Fr_N64 - 1, Fr_N64} :
        IF bytes < Fr_N64 THEN out' = Refused /\ UNCHANGED data
        ELSE out' = Outcome("written") /\ data' = Exported(data, Fr_rawFromMontgomery(raw))

fromRprBE ==
    \E bytes \in {Fr_N64 - 1, Fr_N64} :
        /\ IF bytes < Fr_N64 THEN Raw("keep", 0, raw) /\ out' = Refused
           ELSE Raw("set", Imported(data), Fr_rawToMontgomery(Imported(data))) /\ out' = None
        /\ UNCHANGED data

Next ==
    \/ Fr_str2element \/ Fr_element2str \/ Fr_idiv \/ Fr_mod \/ Fr_pow
    \/ AddElement \/ SubtractElement \/ NegateElement
    \/ InvertElement \/ DivideElement \/ MultiplyElement \/ ConvertElement
    \/ rawFromString \/ rawFromUI \/ rawSet \/ rawAdd \/ rawSub \/ rawMul \/ rawNegate
    \/ rawInverse \/ rawDiv \/ rawExp \/ rawToString \/ toRprBE \/ fromRprBE

Spec == Init /\ [][Next]_vars

-----------------------------------------------------------------------------
(* The number the client's element stands for. *)
Value ==
    IF api = "RawFr" THEN (raw * RInverse) % Mod
    ELSE CASE element.type \in {"SHORT", "SHORTMONTGOMERY"} -> element.shortVal % Mod
           [] element.type = "LONG" -> element.longVal
           [] element.type = "LONGMONTGOMERY" -> (element.longVal * RInverse) % Mod

Promise == INSTANCE FieldAlgebra WITH value <- Value

(* Representation: words are below the prime, and the two halves of a short  *)
(* Montgomery element agree.                                                 *)
TypeOK ==
    /\ element \in [type : Type, shortVal : Small, longVal : Field]
    /\ element.type = "SHORTMONTGOMERY" => element.longVal = (element.shortVal * R) % Mod
    /\ raw \in Field
    /\ data \in [1 .. Fr_N64 -> 0 .. Word - 1]

(* Whatever the formats of its operands, a call computes the function of the *)
(* field.  A sum or a difference may take the place of an operand, but not  *)
(* of one that has yet to be converted to Montgomery form, nor of the number *)
(* a negative integer is diminished by; of an inverse of 0 nothing is said   *)
(* (fr.cpp:17-163, 180-275, fr.asm:1110, 1607, 2095, 2180, 2379).            *)
ComputesInTheField == Promise!Spec

(* An element is printed as the number it stands for (fr.cpp:64, 222).       *)
PrintsItsValue == out.kind = "text" => out.text = Value

(* What toRprBE writes of a number that has all its words is read back by    *)
(* fromRprBE as the same element (fr.cpp:289-316).  Of a shorter one nothing *)
(* is said: its words are followed by what was in the buffer.                *)
FullNumbersReadBack ==
    (out.kind = "written" /\ Value >= Word ^ (Fr_N64 - 1)) =>
        Fr_rawToMontgomery(Imported(data)) = raw
=============================================================================
