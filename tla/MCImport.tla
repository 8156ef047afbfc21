------------------------------ MODULE MCImport ------------------------------
(* Three versions of a circuit, with removed and merged signals, and with    *)
(* different numbers of wires, outputs and public inputs.                    *)
EXTENDS Import

Line(w, l) == [wire |-> w, label |-> l]
LC(wires, coefficient) == [w \in wires |-> coefficient]

Small ==
    [sym |-> <<Line(1, "out"), Line(2, "in"), Line(-1, "gone"), Line(2, "copy")>>,
     nVars |-> 3, nOutputs |-> 1, nPubInputs |-> 0,
     constraints |-> <<<<LC({2}, "1"), LC({2}, "1"), LC({1}, "1")>>>>]
Large ==
    [sym |-> <<Line(1, "out"), Line(2, "pub"), Line(3, "priv"), Line(-1, "gone")>>,
     nVars |-> 4, nOutputs |-> 1, nPubInputs |-> 1,
     constraints |-> <<<<[w \in {0, 2} |-> IF w = 0 THEN "5" ELSE "1"], LC({3}, "2"), LC({1}, "1")>>,
                       <<LC({}, "0"), LC({}, "0"), [w \in {1, 3} |-> IF w = 1 THEN "7" ELSE "1"]>>>>]
Check ==
    [sym |-> <<Line(2, "priv"), Line(1, "pub")>>,
     nVars |-> 3, nOutputs |-> 0, nPubInputs |-> 1,
     constraints |-> <<<<LC({1, 2}, "1"), LC({0}, "1"), LC({}, "0")>>>>]
MCCircuit == {Small, Large, Check}
=============================================================================
