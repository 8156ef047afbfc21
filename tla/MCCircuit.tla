----------------------------- MODULE MCCircuit ------------------------------
(* Instances of Circuit: five variables, up to two gates over them, copy     *)
(* constraints, names and public inputs.  Strings and how they are read come *)
(* from Literals.                                                            *)
EXTENDS Circuit

L(build) == INSTANCE Literals
    WITH Build <- build, Numbers <- {}, Width <- 2, meant <- 0, text <- <<>>, got <- {}

N == 5

(* Characters are digits, as in Literals. *)
MCZero == <<0>>
MCOne == <<1>>
Two == <<2>>
HexTwo == <<0, L({"kept"})!X, 0, 2>>
Twelve == <<1, 2>>
HexTen == <<0, L({"kept"})!X, 0, 10>>
HexZero == <<0, L({"kept"})!X, 0, 0>>

(* The number a string stands for: hexadecimal behind a prefix. *)
Denoted(l) ==
    IF Len(l) > 2 THEN L({"kept"})!Number(SubSeq(l, 3, Len(l)), 16) ELSE L({"kept"})!Number(l, 10)

MCLiteral == {MCZero, MCOne, Two, HexTwo, HexTen, HexZero}
MCMeaning == [l \in MCLiteral |-> Denoted(l) % Mod]
MCReading == [l \in MCLiteral |-> L({"kept"})!Read(l)]

(* With a string of two digits, and both outcomes for one digit. *)
MCLiteralAll == MCLiteral \cup {Twelve}
MCMeaningAll == [l \in MCLiteralAll |-> Denoted(l) % Mod]
MCReadingAll == [l \in MCLiteralAll |-> L({"kept", "extended"})!Read(l)]

MCName == {"zero", "one", "a", "b"}

(* Selectors and wires: a bit, a product, a sum, a constant, a gate with all *)
(* selectors, one whose zeros are written in hexadecimal, one with a letter  *)
(* that base 10 rejects, and the gates that fix variables 0 and 1.           *)
PlonkShape ==
    { [q |-> <<MCOne, Two, MCZero, MCZero, MCZero>>, w |-> <<2, 2, 2>>],
      [q |-> <<MCOne, MCZero, MCZero, Two, MCZero>>, w |-> <<2, 3, 4>>],
      [q |-> <<MCZero, MCOne, MCOne, HexTwo, MCZero>>, w |-> <<2, 4, 1>>],
      [q |-> <<MCZero, MCOne, MCZero, MCZero, Two>>, w |-> <<3, 0, 0>>],
      [q |-> <<MCOne, Two, MCOne, Two, MCOne>>, w |-> <<4, 3, 2>>],
      [q |-> <<HexZero, MCOne, MCZero, HexZero, HexZero>>, w |-> <<3, 3, 2>>],
      [q |-> <<MCZero, MCOne, MCZero, HexTen, MCZero>>, w |-> <<4, 0, 3>>],
      [q |-> <<MCZero, MCOne, MCZero, MCZero, MCZero>>, w |-> <<0, 0, 0>>],
      [q |-> <<MCZero, MCOne, MCZero, MCZero, Two>>, w |-> <<1, 0, 0>>] }

R1csShape ==
    { [A |-> <<<<MCOne, 2>>>>, B |-> <<<<Two, 3>>>>, C |-> <<<<MCOne, 4>>>>],
      [A |-> <<<<MCOne, 2>>, <<Two, 1>>>>, B |-> <<<<MCOne, 2>>>>, C |-> <<>>],
      [A |-> <<>>, B |-> <<>>, C |-> <<<<MCOne, 3>>, <<HexTwo, 4>>, <<HexZero, 0>>>>],
      [A |-> <<<<MCOne, 3>>, <<HexTen, 4>>>>, B |-> <<>>, C |-> <<>>] }

RealMaps ==
    { [i \in 0 .. N - 1 |-> i],
      [i \in 0 .. N - 1 |-> IF i = 4 THEN 2 ELSE i],
      [i \in 0 .. N - 1 |-> IF i = 2 THEN 4 ELSE i],
      [i \in 0 .. N - 1 |-> IF i \in {0, 3} THEN 3 ELSE i],
      [i \in 0 .. N - 1 |-> IF i \in {1, 4} THEN 4 ELSE i],
      [i \in 0 .. N - 1 |-> IF i = 3 THEN 1 ELSE i] }

Upto(k, S) == UNION {[1 .. n -> S] : n \in 0 .. k}
OnReal(real, gate) == [gate EXCEPT !.w = [k \in 1 .. 3 |-> real[gate.w[k]]]]
R1csOnReal(real, gate) ==
    [f \in {"A", "B", "C"} |-> [j \in DOMAIN gate[f] |-> <<gate[f][j][1], real[gate[f][j][2]]>>]]

NameMaps(real) ==
    { m \in { <<>>,
              [i \in {2, 3} |-> IF i = 2 THEN "a" ELSE "b"],
              [i \in {3, 4} |-> "a"],
              [i \in {0, 2} |-> IF i = 0 THEN "a" ELSE "zero"] } :
        DOMAIN m \subseteq {real[i] : i \in 0 .. N - 1} \cup {0, 1} }

Values == [i \in 0 .. N - 1 |-> IF i = 0 THEN MCZero ELSE IF i = 1 THEN MCOne ELSE IF i = 3 THEN HexTen ELSE Two]

SchemaOf(isPLONK, gates, real, names, publics, values) ==
    [num_vars |-> N, variables |-> values, real_variable_index |-> real, isPLONK |-> isPLONK,
     gates |-> gates, vars_of_interest |-> names, public_inps |-> publics]

Publics == {<<>>, <<2, 4>>, <<4, 3>>}

MCSchema ==
    UNION { {SchemaOf(TRUE, [k \in DOMAIN gates |-> OnReal(real, gates[k])], real, names, publics, Values) :
                gates \in Upto(2, PlonkShape), names \in NameMaps(real), publics \in Publics}
            \cup
            {SchemaOf(FALSE, [k \in DOMAIN gates |-> R1csOnReal(real, gates[k])], real, names, publics, Values) :
                gates \in Upto(2, R1csShape), names \in NameMaps(real), publics \in Publics}
          : real \in RealMaps }

(* Schemas whose strings are not all read as the numbers they denote. *)
Identity == [i \in 0 .. N - 1 |-> i]
MisreadGates ==
    { <<[q |-> <<MCZero, MCOne, MCZero, MCZero, Twelve>>, w |-> <<2, 0, 0>>]>>,
      <<[q |-> <<MCOne, MCZero, MCZero, Two, MCZero>>, w |-> <<2, 3, 4>>],
        [q |-> <<MCZero, HexTen, MCZero, Two, MCZero>>, w |-> <<2, 0, 3>>]>> }
MisreadR1cs ==
    { <<[A |-> <<<<Twelve, 2>>>>, B |-> <<<<MCOne, 3>>>>, C |-> <<<<HexTen, 4>>>>]>> }
MisreadValues == {Values, [Values EXCEPT ![2] = Twelve]}
MCSchemaAll ==
    {SchemaOf(TRUE, gates, Identity, names, publics, values) :
        gates \in MisreadGates, names \in NameMaps(Identity), publics \in Publics, values \in MisreadValues}
    \cup
    {SchemaOf(FALSE, gates, Identity, names, publics, values) :
        gates \in MisreadR1cs, names \in NameMaps(Identity), publics \in Publics, values \in MisreadValues}
=============================================================================
