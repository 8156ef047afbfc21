----------------------------- MODULE RingAlgebra -----------------------------
(***************************************************************************)
(* What arithmetic on symbolic terms promises its client, whatever solver  *)
(* engine the terms run on: two registers hold elements of the ring of     *)
(* integers modulo size, as functions of a valuation of the unknowns; an   *)
(* operation computes in that ring; an assertion keeps the valuations of   *)
(* which it is true.  An operation may be refused, with nothing changed,   *)
(* but it may not return something else.                                   *)
(***************************************************************************)
EXTENDS Words

VARIABLES
    size,       \* of the ring
    a, b,       \* the registers: valuation -> ring
    holds,      \* the valuations that satisfy all assertions
    call,       \* the last call, <<operation, argument>>
    outcome     \* "done", "ignored" (with a message) or "threw"

vars == <<size, a, b, holds, call, outcome>>

Valuation == DOMAIN a
Argument(arg) ==
    IF arg[1] = "b" THEN b ELSE [w \in Valuation |-> arg[2] % size]

Computation == {"+", "-", "*", "c-", "neg", "-=", "batch_add", "batch_mul", "^", "&", "|", "rotl", "rotr"}
Value(op, u, v, n) ==
    CASE op \in {"+", "batch_add"} -> (u + v) % size
      [] op \in {"-", "-="} -> (u - v) % size
      [] op = "c-" -> (v - u) % size
      [] op \in {"*", "batch_mul"} -> (u * v) % size
      [] op = "neg" -> (-u) % size
      [] op = "^" -> Bitwise("XOR", u, v)
      [] op = "&" -> Bitwise("AND", u, v)
      [] op = "|" -> Bitwise("OR", u, v)
      [] op = "rotl" -> Rotated(u, n)
      [] op = "rotr" -> Rotated(u, -n)

Assertion == {"==", "!=", "bool==", "<", "<=", ">", ">="}
Related(op, u, v) ==
    CASE op \in {"==", "bool=="} -> u = v
      [] op = "!=" -> u # v
      [] op = "<" -> u < v
      [] op = "<=" -> u <= v
      [] op = ">" -> u > v
      [] op = ">=" -> u >= v

-----------------------------------------------------------------------------
Init ==
    /\ a = [w \in Valuation |-> w["x"] % size]
    /\ b = [w \in Valuation |-> w["y"] % size]
    /\ holds = {w \in Valuation : w["x"] \in 0 .. size - 1 /\ w["y"] \in 0 .. size - 1}
    /\ call = <<"none", <<"b", 0>>>>
    /\ outcome = "done"

Called(op, arg, how) == call' = <<op, arg>> /\ outcome' = how /\ UNCHANGED size

Compute(op, arg) ==
    /\ Called(op, arg, "done")
    /\ a' = [w \in Valuation |-> Value(op, a[w], Argument(arg)[w], arg[2])]
    /\ UNCHANGED <<b, holds>>

(* The quotient is a new unknown q; a divisor that is zero is excluded. *)
Divide(op, arg) ==
    /\ op \in {"/", "c/", "/="}
    /\ Called(op, arg, "done")
    /\ LET num == IF op = "c/" THEN Argument(arg) ELSE a
           den == IF op = "c/" THEN a ELSE Argument(arg)
       IN holds' = {w \in holds :
                      /\ w["q"] \in 0 .. size - 1
                      /\ den[w] # 0
                      /\ (w["q"] * den[w]) % size = num[w]}
    /\ a' = [w \in Valuation |-> w["q"] % size]
    /\ UNCHANGED b

Assert(op, arg) ==
    /\ Called(op, arg, "done")
    /\ holds' = {w \in holds : Related(op, a[w], Argument(arg)[w])}
    /\ UNCHANGED <<a, b>>

Copy == Called("copy", <<"b", 0>>, "done") /\ b' = a /\ UNCHANGED <<a, holds>>

(* A refused operation asserts nothing, but a division may have excluded the *)
(* zero divisor; one that is only ignored may return either operand.         *)
Refuse(op, arg) ==
    /\ \/ Called(op, arg, "threw") /\ a' = a
       \/ Called(op, arg, "ignored") /\ a' \in {a, Argument(arg)}
    /\ \/ holds' = holds
       \/ op = "/" /\ holds' = {w \in holds : Argument(arg)[w] # 0}
    /\ UNCHANGED b

Next ==
    LET op == call'[1]
        arg == call'[2]
    IN \/ op \in Computation /\ Compute(op, arg)
       \/ Divide(op, arg)
       \/ op \in Assertion /\ Assert(op, arg)
       \/ Copy
       \/ Refuse(op, arg)

Spec == Init /\ [][Next]_vars
=============================================================================
