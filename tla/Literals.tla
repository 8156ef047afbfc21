------------------------------ MODULE Literals ------------------------------
(***************************************************************************)
(* How a number gets from the string in a circuit's selectors, or in a     *)
(* client's comparison x == "12", into a constant term: the constructor    *)
(* STerm(const std::string&, Solver*, TermType) overwrites the second      *)
(* character with '0' and reads the result in base 10.                     *)
(*                                                                         *)
(* A string is a sequence of characters, and a character the value it has  *)
(* as a digit; 'x' is no digit.  Of a string of one character the          *)
(* constructor overwrites the terminator, which is undefined behaviour:    *)
(* "kept" is the outcome of a build that goes by the length of the string, *)
(* "extended" that of one that goes by the terminator and finds the next   *)
(* one right behind.                                                       *)
(***************************************************************************)
EXTENDS Integers, Sequences

CONSTANTS
    Mod,        \* modulus of the constants
    Build,      \* outcomes of the undefined write: subset of {"kept", "extended"}
    Numbers,    \* numbers written as strings
    Width       \* digits of a number in hexadecimal (64 for bb::fr)

ASSUME BuildAssumption == Build # {} /\ Build \subseteq {"kept", "extended"}

(* The numbers fit their hexadecimal width, and two decimal digits count     *)
(* further than one hexadecimal digit.                                       *)
ASSUME NumbersAssumption ==
    /\ Mod \in Nat /\ Width \in Nat \ {0}
    /\ Numbers \subseteq Nat
    /\ \A n \in Numbers : n < 16 ^ Width /\ n < 10 ^ (2 * Width)

(* Powers of the two bases, as far as they are used. *)
ASSUME PowersAssumption ==
    \A base \in {10, 16} :
       /\ base ^ 0 = 1
       /\ \A k \in 0 .. 2 * Width : base ^ k \in Nat \ {0}
       /\ \A k \in 1 .. 2 * Width : base ^ k = base * base ^ (k - 1)

X == 16

(* The number a string of digits denotes in a base. *)
Number(text, base) ==
    LET n[i \in 0 .. Len(text)] == IF i = 0 THEN 0 ELSE base * n[i - 1] + text[i]
    IN n[Len(text)]

(* How the exporters write a number: snarkjs in decimal, bb::fr with a 0x   *)
(* prefix and all its digits (external).                                    *)
InBase(n, base, width) == [i \in 1 .. width |-> (n \div base ^ (width - i)) % base]
DecimalWidth(n) == CHOOSE w \in 1 .. 2 * Width : n < 10 ^ w /\ (w = 1 \/ 10 ^ (w - 1) <= n)
Decimal(n) == InBase(n, 10, DecimalWidth(n))
Hex(n) == <<0, X>> \o InBase(n, 16, Width)

(* tmp[1] = '0' *)
Overwritten(text) ==
    IF Len(text) > 1 THEN {[text EXCEPT ![2] = 0]}
    ELSE {IF b = "kept" THEN text ELSE text \o <<0>> : b \in Build}

(* Faulty variant of Read: the base is left to its default, 16. *)
Read_DefaultBase(text) ==
    {Number(t, 16) % Mod : t \in {u \in Overwritten(text) : \A i \in DOMAIN u : u[i] < 16}}

(* Const(tmp, s, 10, type): cvc5 rejects a string with a letter and reduces *)
(* the number.                                                              *)
Read(text) ==
    {Number(t, 10) % Mod : t \in {u \in Overwritten(text) : \A i \in DOMAIN u : u[i] < 10}}

-----------------------------------------------------------------------------
(* One constant on its way: written by an exporter, then read. *)
VARIABLES meant, text, got
literal == <<meant, text, got>>

InitLiteral ==
    /\ meant \in Numbers
    /\ text = <<>>
    /\ got = {}

Write ==
    /\ text = <<>>
    /\ text' \in {Decimal(meant), Hex(meant)}
    /\ UNCHANGED <<meant, got>>

Construct ==
    /\ text # <<>>
    /\ got = {}
    /\ \E c \in Read(text) : got' = {c}
    /\ UNCHANGED <<meant, text>>

NextLiteral == Write \/ Construct
SpecLiteral == InitLiteral /\ [][NextLiteral]_literal

(* Which constants a client can rely on, whatever the undefined write does: *)
(* decimal ones with a '0' in second place, hexadecimal ones below ten, and *)
(* one digit alone only in a build that goes by the length (or where a 0    *)
(* behind the digit changes nothing modulo Mod, as for 0).  Every other one *)
(* may be read as another number, or rejected (term.hpp:115-123).           *)
SafeToWrite(n, t) ==
    \/ t = Decimal(n) /\ n >= 10 /\ t[2] = 0
    \/ t = Decimal(n) /\ n < 10 /\ ("extended" \in Build => (10 * n) % Mod = n)
    \/ t = Hex(n) /\ n < 10
MisreadCharacterised ==
    (text # <<>> /\ meant < Mod) =>
        (Read(text) = {meant} <=> SafeToWrite(meant, text))
=============================================================================
