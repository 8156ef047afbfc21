------------------------ MODULE MCWitnessCalculator -------------------------
(* Instances of WitnessCalculator: words of three bits, hash maps with and   *)
(* without collisions, input files that fit them or not.                     *)
EXTENDS WitnessCalculator, SequencesExt

MCKey == {"in", "a", "a2", "bc", "o", "p", "q", "b", "c", "x"}
MCHash ==
    [key \in MCKey |->
        CASE key = "in" -> 1 [] key \in {"a", "a2"} -> 3 [] key \in {"b", "bc"} -> 7 [] key = "c" -> 11
          [] key = "p" -> 1 [] key = "q" -> 5 [] key = "o" -> 2 [] key = "x" -> 13]

(* The table of the compiler: linear probing, taken modulo the size. *)
Empty == [hash |-> 0, signalid |-> N + 1, signalsize |-> 0]
Entry(key, first, size) == [hash |-> MCHash[key], signalid |-> first, signalsize |-> size]
Insert(table_, e) ==
    LET n == Cardinality(DOMAIN table_)
        Slot(j) == (e.hash + j) % n
        j0 == CHOOSE j \in 0 .. n - 1 :
                /\ table_[Slot(j)] = Empty
                /\ \A i \in 0 .. j - 1 : table_[Slot(i)] # Empty
    IN [table_ EXCEPT ![Slot(j0)] = e]
TableOf(n, entries) == FoldLeft(Insert, [p \in 0 .. n - 1 |-> Empty], entries)

First == N + 1
Whole == <<Entry("in", First, N)>>
Split == <<Entry("a", First, 1), Entry("bc", First + 1, N - 1)>>
Single == <<Entry("a", First, 1), Entry("b", First + 1, 1), Entry("c", First + 2, 1)>>
WithEmpty == <<Entry("p", First, 1), Entry("q", First + 1, N - 1), Entry("o", First + N, 0)>>

MCTable ==
    { TableOf(4, Whole), TableOf(8, Split), TableOf(4, Split),
      TableOf(3, Single), TableOf(5, Single), TableOf(4, Single), TableOf(4, WithEmpty) }

Bin(d) == [type |-> "string", prefix |-> "0b", digits |-> d]
Oct(d) == [type |-> "string", prefix |-> "0o", digits |-> d]
Dec(d) == [type |-> "string", prefix |-> "none", digits |-> d]
Hex(d) == [type |-> "string", prefix |-> "0x", digits |-> d]
Num(h) == [type |-> "number", halves |-> h]
Bad == [type |-> "boolean"]
Line(key, rows) == [key |-> key, rows |-> rows]
V0 == Dec(<<0>>)
V1 == Num(2)

MCJson ==
    { <<>>,
      <<Line("in", <<<<V1, V0, V1>>>>)>>,
      <<Line("in", <<<<Bin(<<1, 0>>)>>, <<Oct(<<1, 2>>), Hex(<<15>>)>>>>)>>,
      <<Line("in", <<<<Num(-2), Num(10), Num(3)>>>>)>>,
      <<Line("in", <<<<Dec(<<>>), V1, V1>>>>)>>,
      <<Line("in", <<<<V1, V0>>>>)>>,
      <<Line("in", <<<<V1, V0, V1, V1>>>>)>>,
      <<Line("in", <<<<V1, Bin(<<2>>), V1>>>>)>>,
      <<Line("in", <<<<V1, Dec(<<99>>), Bad>>>>)>>,
      <<Line("in", <<<<V1, V1, V1>>>>), Line("x", <<<<V1>>>>)>>,
      <<Line("a", <<<<V1>>>>), Line("bc", <<<<V0, V1>>>>)>>,
      <<Line("bc", <<<<V0, V1>>>>)>>,
      <<Line("a", <<<<V1>>>>), Line("a2", <<<<V0>>>>), Line("bc", <<<<V0, V1>>>>)>>,
      <<Line("a2", <<<<V1>>>>), Line("bc", <<<<V0, V1>>>>), Line("x", <<<<>>>>)>>,
      <<Line("a", <<<<V1>>>>), Line("b", <<<<V1>>>>), Line("c", <<<<Hex(<<1, 0>>)>>>>)>>,
      <<Line("a", <<<<V1>>>>), Line("a2", <<<<V1>>>>), Line("b", <<<<V1>>>>), Line("c", <<<<V1>>>>)>>,
      <<Line("b", <<<<V1>>>>), Line("c", <<<<V0>>>>)>>,
      <<Line("o", <<<<>>>>), Line("p", <<<<V1>>>>), Line("q", <<<<V1, V0>>>>)>>,
      <<Line("p", <<<<V1>>>>), Line("q", <<<<V1, V0>>>>)>>,
      <<Line("o", <<<<V1>>>>), Line("p", <<<<V1>>>>), Line("q", <<<<V1, V0>>>>)>> }
=============================================================================
