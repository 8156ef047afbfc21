-------------------------- MODULE MCUniqueWitness ---------------------------
(* Instances of Printing: four variables, constants included, over the       *)
(* field of three elements.                                                  *)
EXTENDS Printing

N == 4

MCLiteral == {"0", "1", "2", "0x0a"}
MCMeaning == [l \in MCLiteral |-> CASE l = "0" -> 0 [] l = "1" -> 1 [] l = "2" -> 2 [] OTHER -> 1]
MCReading == [l \in MCLiteral |-> IF l = "0x0a" THEN {} ELSE {MCMeaning[l]}]
MCName == {"zero", "one", "a", "b", "c", "var_2"}

Gate(q, w) == [q |-> q, w |-> w]
Bit == Gate(<<"1", "2", "0", "0", "0">>, <<2, 2, 2>>)
Square == Gate(<<"1", "0", "0", "2", "0">>, <<2, 2, 3>>)
Product == Gate(<<"1", "0", "0", "2", "0">>, <<2, 3, 1>>)
Sum == Gate(<<"0", "1", "1", "0", "1">>, <<2, 3, 0>>)
Fix == Gate(<<"0", "1", "0", "0", "1">>, <<3, 0, 0>>)
FixZero == Gate(<<"0", "1", "0", "0", "0">>, <<0, 0, 0>>)
OtherBit == Gate(<<"1", "2", "0", "0", "0">>, <<3, 3, 3>>)
Rejected == Gate(<<"0", "1", "0", "0", "0x0a">>, <<3, 0, 0>>)

GateLists ==
    { <<>>, <<Bit>>, <<Square>>, <<Product>>, <<Square, Fix>>, <<Bit, Sum>>, <<Fix, Rejected>>,
      <<FixZero>>, <<FixZero, OtherBit>> }

RealMaps ==
    { [i \in 0 .. N - 1 |-> i],
      [i \in 0 .. N - 1 |-> IF i = 3 THEN 2 ELSE i],
      [i \in 0 .. N - 1 |-> IF i \in {0, 2} THEN 2 ELSE i] }

NameMaps ==
    { [i \in {2} |-> "a"], [i \in {2, 3} |-> IF i = 2 THEN "a" ELSE "b"], [i \in {3} |-> "var_2"],
      [i \in {2, 3} |-> "a"] }

OnReal(real, gate) == [gate EXCEPT !.w = [k \in 1 .. 3 |-> real[gate.w[k]]]]
Values == [i \in 0 .. N - 1 |-> IF i = 0 THEN "0" ELSE IF i = 1 THEN "1" ELSE "2"]

MCSchema ==
    { s \in { [num_vars |-> N, variables |-> Values, real_variable_index |-> real, isPLONK |-> TRUE,
               gates |-> [k \in DOMAIN gates |-> OnReal(real, gates[k])],
               vars_of_interest |-> names, public_inps |-> publics] :
              gates \in GateLists, real \in RealMaps, names \in NameMaps, publics \in {<<>>, <<3>>} } :
        /\ DOMAIN s.vars_of_interest \subseteq Range(s.real_variable_index)
        /\ s.real_variable_index[0] # 0 => OnReal(s.real_variable_index, FixZero) \in Range(s.gates) }

Unique(equal) ==
    [fn |-> "unique_witness", equal |-> equal, not_equal |-> <<>>, any_equal |-> <<>>, any_not_equal |-> <<>>]
Ext(equal, not_equal, any_equal, any_not_equal) ==
    [fn |-> "unique_witness_ext", equal |-> equal, not_equal |-> not_equal,
     any_equal |-> any_equal, any_not_equal |-> any_not_equal]

MCCall ==
    { Unique(<<>>), Unique(<<"a">>), Unique(<<"b", "one">>), Unique(<<"one", "zero", "a", "b">>),
      Ext(<<"a">>, <<>>, <<>>, <<>>),
      Ext(<<"b">>, <<"a">>, <<>>, <<>>),
      Ext(<<>>, <<>>, <<"a", "b">>, <<"a">>),
      Ext(<<"zero">>, <<>>, <<>>, <<"a", "b">>),
      Ext(<<>>, <<"one">>, <<"a">>, <<"c">>),
      Ext(<<>>, <<>>, <<"c">>, <<>>) }

Both == <<"circuit1", "circuit2">>
MCRequest ==
    { [circuits |-> Both, special |-> <<"a", "one">>],
      [circuits |-> Both, special |-> <<"a", "c", "zero">>],
      [circuits |-> <<"circuit1">>, special |-> <<"b", "a">>] }
=============================================================================
