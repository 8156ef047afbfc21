---------------------------- MODULE FieldAlgebra ----------------------------
(***************************************************************************)
(* What the generated field arithmetic promises: an element stands for a   *)
(* number modulo the prime, and a call computes on the numbers, however    *)
(* they are represented.                                                   *)
(***************************************************************************)
EXTENDS Integers

CONSTANTS
    Mod,        \* the prime
    Number      \* integers a client writes

VARIABLES
    value,      \* the number the element at hand stands for
    call        \* the last call: its name and its argument as a number

Field == 0 .. Mod - 1

(* 0 has no inverse; what a call leaves in its place, left, can be anything. *)
Inverse(x, left) == IF x = 0 THEN left ELSE CHOOSE y \in Field : (x * y) % Mod = 1
Power(x, n) ==
    LET p[m \in 0 .. n] == IF m = 0 THEN 1 ELSE (x * p[m - 1]) % Mod
    IN p[n]

(* "spoilt" is an addition or a subtraction that destroys an operand before   *)
(* it has read it: an element comes out, and no more is promised.            *)
Op == {"set", "keep", "add", "sub", "mul", "neg", "div", "idiv", "mod", "pow", "inv", "spoilt"}
Apply(op, x, n, left) ==
    CASE op = "set" -> n % Mod
      [] op = "keep" -> x
      [] op = "add" -> (x + n) % Mod
      [] op = "sub" -> (x - n) % Mod
      [] op = "mul" -> (x * n) % Mod
      [] op = "neg" -> -n % Mod
      [] op = "div" -> (x * Inverse(n, left)) % Mod
      [] op = "idiv" -> x \div n
      [] op = "mod" -> x % n
      [] op = "pow" -> Power(x, n)
      [] op = "inv" -> Inverse(n, left)
      [] op = "spoilt" -> left

Init == value = 0 /\ call = [op |-> "keep", arg |-> 0]

(* A division of integers by 0 is the only call that fails. *)
Fails(op, n) == op \in {"idiv", "mod"} /\ n = 0

Compute(op, n) ==
    /\ call' = [op |-> op, arg |-> n]
    /\ IF Fails(op, n) THEN UNCHANGED value
       ELSE \E left \in Field : value' = Apply(op, value, n, left)

Next == \E op \in Op, n \in Number : Compute(op, n)

Spec == Init /\ [][Next]_<<value, call>>
=============================================================================
