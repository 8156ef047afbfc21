------------------------------ MODULE MCSolver ------------------------------
(* Instance of Solver: three variables over GF(2), one of each sort, two of  *)
(* which carry one name, and the formulas x = c and x # y.                   *)
EXTENDS Solver

MCVar == {"x", "y", "z"}
MCValue == {0, 1}
MCNameOf == [x |-> "a", y |-> "a", z |-> "c"]
MCSortOf == [x |-> "ff", y |-> "int", z |-> "bv"]
MCKey == {"k1", "k2"}

MCFormula == {<<"eq", "x", 0>>, <<"eq", "x", 1>>, <<"ne", "x", "y">>, <<"eq", "z", 1>>}
MCHolds(f, v) == IF f[1] = "eq" THEN v[f[2]] = f[3] ELSE v[f[2]] # v[f[3]]
=============================================================================
