-------------------------------- MODULE Terms --------------------------------
(***************************************************************************)
(* smt_terms::STerm: arithmetic on symbolic terms of the three types, field*)
(* elements (FF), integers that stand for field elements (FFI) and bit     *)
(* vectors (BV).  A client works on two terms a and b of one type, over    *)
(* the unknowns x and y; a division brings the unknown q.                  *)
(*                                                                         *)
(* A cvc5 term is modelled by its sort, the shape of its root and its value*)
(* under every valuation of the unknowns; an FFI term is an integer, which *)
(* only mod() brings back into the field.  mkTerm throws when the sorts of *)
(* its children are not those of its kind (external).                      *)
(***************************************************************************)
EXTENDS Words

CONSTANTS
    Mod,        \* the field is that of the integers modulo Mod
    Types,      \* subset of {"FF", "FFI", "BV"} the client may choose from
    Literal,    \* constants it uses, as numbers (see Literals)
    Distances,  \* of shifts and rotations
    Calls,      \* the operations it calls
    MaxCalls,   \* bound on their number
    Careful     \* it compares FFI terms only where the comparison is exact

ASSUME TermsAssumption ==
    /\ Mod \in Nat /\ Mod > 1
    /\ Types \subseteq {"FF", "FFI", "BV"}
    /\ Literal \subseteq 0 .. Mod - 1
    /\ Distances \subseteq Nat
    /\ MaxCalls \in Nat
    /\ Careful \in BOOLEAN

VARIABLES
    type,       \* TermType of the client
    a, b,       \* its terms
    quotients,  \* number of divisions done (at most one is modelled)
    holds,      \* the valuations that satisfy all assertions of the solver
    calls,      \* number of calls made
    call,       \* the last call, <<operation, argument>>
    outcome     \* "done", "ignored" (a line on stderr) or "threw"

vars == <<type, a, b, quotients, holds, calls, call, outcome>>

RingSize(sort) == IF sort = "BV" THEN 2 ^ Width ELSE Mod
(* An integer unknown ranges over more than the field. *)
Domain(sort) == IF sort = "FFI" THEN -1 .. Mod ELSE 0 .. RingSize(sort) - 1
Valuation(sort) == [{"x", "y", "q"} -> Domain(sort)]

(* Faulty variant of Operations: bit vectors have no rotations.              *)
Operations_NoRotations(ty) ==
    {"ADD", "MUL", "NEG"}
      \cup (IF ty = "FF" THEN {} ELSE {"<", "<=", ">", ">="})
      \cup (IF ty = "BV" THEN {"XOR", "AND", "OR"} ELSE {"DIV"})
(* The operations typed_operations has a kind for. *)
Operations(ty) ==
    {"ADD", "MUL", "NEG"}
      \cup (IF ty = "FF" THEN {} ELSE {"<", "<=", ">", ">="})
      \cup (IF ty = "BV" THEN {"XOR", "AND", "OR", "ROT", "SHIFT"} ELSE {"DIV"})

-----------------------------------------------------------------------------
(* What cvc5 computes (external). *)
Wrapped(sort, v) == IF sort = "FFI" THEN v ELSE v % RingSize(sort)
Value(sort, op, u, v) ==
    CASE op = "ADD" -> Wrapped(sort, u + v)
      [] op = "MUL" -> Wrapped(sort, u * v)
      [] op \in {"XOR", "AND", "OR"} -> Bitwise(op, u, v)
(* getNumChildren; a constant of type FFI is a number mod the modulus. *)
NumChildren(t) ==
    CASE t.root = "var" -> 0
      [] t.root = "const" -> IF t.sort = "FFI" THEN 2 ELSE 0
      [] t.root = "unary" -> 1
      [] t.root = "nary" -> 2
Sorted(sort, terms) == \A t \in terms : t.sort = sort

(* Faulty variant of InRange: the upper bound is not asserted. *)
InRange_NoUpper(sort, v) == sort = "FFI" => v >= 0

(* STerm(name, ..., isconst = false): the assertions about the range of an  *)
(* FFI variable.                                                            *)
InRange(sort, v) == sort = "FFI" => v >= 0 /\ v < Mod
Var(n) ==
    [type |-> type, sort |-> type, root |-> "var", val |-> [w \in Valuation(type) |-> w[n]]]

(* Faulty variant of Fits: the width is not looked at. *)
Fits_Any(ty, c) == TRUE

(* STerm(value, ..., isconst = true): a field element first, whatever the   *)
(* type; a bit vector must have room for it.                                *)
Const(ty, c) ==
    [type |-> ty, sort |-> ty, root |-> "const", val |-> [w \in Valuation(type) |-> c % Mod]]
Fits(ty, c) == ty = "BV" => c % Mod < RingSize("BV")

(* A term of the type of t, made of t by an operation. *)
Made(t, root, val) == [type |-> t.type, sort |-> t.sort, root |-> root, val |-> val]

(* The private mod(). *)
mod(t) ==
    IF t.type = "FFI" THEN Made(t, "nary", [w \in DOMAIN t.val |-> t.val[w] % Mod]) ELSE t

(* Faulty variant of Compared: terms are compared as they are. *)
Compared_Raw(t) == t

(* Both sides of operator== and operator!=. *)
Compared(t) == IF NumChildren(t) > 1 THEN mod(t) ELSE t

Nary(op, s, t) ==
    Made(s, "nary", [w \in DOMAIN s.val |-> Value(s.sort, op, s.val[w], t.val[w])])
Neg(t) == Made(t, "unary", [w \in DOMAIN t.val |-> Wrapped(t.sort, -t.val[w])])
Rotate(t, n) == Made(t, "unary", [w \in DOMAIN t.val |-> Rotated(t.val[w], n)])
(* batch_add and batch_mul give the default type to what they return. *)
Batch(op, s, t) == [Nary(op, s, t) EXCEPT !.type = "FF"]

-----------------------------------------------------------------------------
Init ==
    /\ type \in Types
    /\ a = Var("x")
    /\ b = Var("y")
    /\ quotients = 0
    /\ holds = {w \in Valuation(type) : InRange(type, w["x"]) /\ InRange(type, w["y"])}
    /\ calls = 0
    /\ call = <<"none", <<"b", 0>>>>
    /\ outcome = "done"

(* An operand: the term b, or a constant given to an overload for strings. *)
Arguments == {<<"b", 0>>} \cup {<<"const", c>> : c \in Literal}
Term(arg) == IF arg[1] = "b" THEN b ELSE Const(a.type, arg[2])
Built(arg) == arg[1] = "b" \/ Fits(a.type, arg[2])

Called(op, arg, how) ==
    /\ outcome # "threw"
    /\ calls < MaxCalls
    /\ op \in Calls
    /\ calls' = calls + 1
    /\ call' = <<op, arg>>
    /\ outcome' = how
    /\ UNCHANGED type

Throw(op, arg) == Called(op, arg, "threw") /\ UNCHANGED <<a, b, quotients, holds>>
Ignore(op, arg, result) ==
    /\ Called(op, arg, "ignored")
    /\ a' = result
    /\ UNCHANGED <<b, quotients, holds>>
Return(op, arg, result) ==
    /\ Called(op, arg, "done")
    /\ a' = result
    /\ UNCHANGED <<b, quotients, holds>>

Kind == [o \in {"+", "*", "^", "&", "|", "batch_add", "batch_mul"} |->
            CASE o \in {"+", "batch_add"} -> "ADD" [] o \in {"*", "batch_mul"} -> "MUL"
              [] o = "^" -> "XOR" [] o = "&" -> "AND" [] o = "|" -> "OR"]

(* operator+, *, ^, &, | and their assigning forms, with a term or a string  *)
(* on either side: all are commutative.                                      *)
Combine(op, arg) ==
    IF ~Built(arg) THEN Throw(op, arg)
    ELSE IF Kind[op] \notin Operations(a.type) THEN Ignore(op, arg, a)
    ELSE IF ~Sorted(a.type, {a, Term(arg)}) THEN Throw(op, arg)
    ELSE Return(op, arg, Nary(Kind[op], a, Term(arg)))

(* operator-, unary and binary, and operator-(string, STerm). *)
Negate ==
    LET arg == <<"b", 0>>
    IN IF Sorted(a.type, {a}) THEN Return("neg", arg, Neg(a)) ELSE Throw("neg", arg)
Subtract(arg) ==
    IF Built(arg) /\ Sorted(a.type, {a, Term(arg)})
    THEN Return("-", arg, Nary("ADD", a, Neg(Term(arg))))
    ELSE Throw("-", arg)
SubtractFrom(arg) ==
    /\ arg[1] = "const"
    /\ IF Built(arg) /\ Sorted(a.type, {a, Term(arg)})
       THEN Return("c-", arg, Nary("ADD", Neg(a), Term(arg)))
       ELSE Throw("c-", arg)
(* operator-= adds with the kind of field elements. *)
SubtractAssign(arg) ==
    IF Built(arg) /\ Sorted(a.type, {Term(arg)}) /\ Sorted("FF", {a, Term(arg)})
    THEN Return("-=", arg, Nary("ADD", a, Neg(Term(arg))))
    ELSE Throw("-=", arg)

BatchCombine(op) ==
    LET arg == <<"b", 0>>
    IN IF Sorted(a.type, {a, b}) THEN Return(op, arg, Batch(Kind[op], a, b)) ELSE Throw(op, arg)

(* rotl, rotr, and the shifts, whose kind takes no index: mkOp throws. *)
Turn(op, n) ==
    LET arg == <<"places", n>>
    IN IF "ROT" \notin Operations(a.type) THEN Ignore(op, arg, a)
       ELSE CASE op \in {"<<", ">>"} -> Throw(op, arg)
              [] op = "rotl" -> Return(op, arg, Rotate(a, n))
              [] op = "rotr" -> Return(op, arg, Rotate(a, -n))

-----------------------------------------------------------------------------
(* The FFI terms whose comparison is that of the field. *)
Exact(t) == t.sort = "FFI" => t.type = "FFI" /\ t.root # "unary"
Canonical(t) == t.sort = "FFI" => t.root \in {"var", "const"}

Equal(s, t, w) == Compared(s).val[w] = Compared(t).val[w]

(* Faulty variant of Quotient: a zero divisor is let through. *)
Quotient_AnyDivisor(num, den, w) ==
    /\ InRange(num.type, w["q"])
    /\ Equal(Nary("MUL", Var("q"), den), num, w)

(* The two assertions operator/ makes, other != "0" and res * other == this, *)
(* with the range of the variable res.                                       *)
Quotient(num, den, w) ==
    /\ ~Equal(den, Const(den.type, 0), w)
    /\ InRange(num.type, w["q"])
    /\ Equal(Nary("MUL", Var("q"), den), num, w)

(* The sorts of the operands differ: other != "0" has been asserted.         *)
ThrowAfterHalf(op, arg, den) ==
    /\ Called(op, arg, "threw")
    /\ holds' = {w \in holds : ~Equal(den, Const(den.type, 0), w)}
    /\ UNCHANGED <<a, b, quotients>>

(* operator/ with a term or a string on either side. *)
Divide(op, arg) ==
    LET num == IF op = "c/" THEN Term(arg) ELSE a
        den == IF op = "c/" THEN a ELSE Term(arg)
    IN /\ op = "c/" => arg[1] = "const"
       /\ IF ~Built(arg) THEN Throw(op, arg)
          ELSE IF "DIV" \notin Operations(num.type) THEN Ignore(op, arg, num)
          ELSE IF den.type # den.sort THEN Throw(op, arg)
          ELSE IF ~Sorted(num.type, {num, den})
          THEN (Careful => Exact(den)) /\ ThrowAfterHalf(op, arg, den)
          ELSE /\ Careful => Exact(num) /\ Exact(den)
               /\ quotients = 0
               /\ Called(op, arg, "done")
               /\ holds' = {w \in holds : Quotient(num, den, w)}
               /\ a' = Var("q")
               /\ quotients' = 1
               /\ UNCHANGED b

(* operator/= builds a std::string from a null pointer. *)
DivideAssign(arg) ==
    IF Built(arg) /\ "DIV" \notin Operations(a.type) THEN Ignore("/=", arg, a) ELSE Throw("/=", arg)

AssertIf(op, arg, valuations) ==
    /\ Called(op, arg, "done")
    /\ holds' = valuations
    /\ UNCHANGED <<a, b, quotients>>

(* operator== and operator!=, with a term or a string. *)
Compare(op, arg) ==
    IF ~Built(arg) \/ ~Sorted(a.sort, {a, Term(arg)}) THEN Throw(op, arg)
    ELSE /\ Careful => Exact(a) /\ Exact(Term(arg))
         /\ AssertIf(op, arg, {w \in holds : Equal(a, Term(arg), w) <=> op = "=="})

(* (Bool(a) == Bool(b)).assert_term(): the terms themselves are compared. *)
CompareBool ==
    LET arg == <<"b", 0>>
    IN IF ~Sorted(a.sort, {b}) THEN Throw("bool==", arg)
       ELSE /\ Careful => Canonical(a) /\ Canonical(b)
            /\ AssertIf("bool==", arg, {w \in holds : a.val[w] = b.val[w]})

(* operator<, <=, > and >= with a string. *)
Ordered(op, u, v) ==
    CASE op = "<" -> u < v [] op = "<=" -> u <= v [] op = ">" -> u > v [] op = ">=" -> u >= v
Bound(op, arg) ==
    IF op \notin Operations(a.type) THEN Ignore(op, arg, a)
    ELSE IF ~Built(arg) \/ ~Sorted(a.type, {a}) THEN Throw(op, arg)
    ELSE /\ Careful => Canonical(a)
         /\ AssertIf(op, arg, {w \in holds : Ordered(op, a.val[w], Term(arg).val[w])})

(* b = a; *)
Copy ==
    /\ Called("copy", <<"b", 0>>, "done")
    /\ b' = a
    /\ UNCHANGED <<a, quotients, holds>>

Next ==
    \/ \E arg \in Arguments :
          \/ \E op \in {"+", "*", "^", "&", "|"} : Combine(op, arg)
          \/ Subtract(arg) \/ SubtractFrom(arg) \/ SubtractAssign(arg)
          \/ \E op \in {"/", "c/"} : Divide(op, arg)
          \/ DivideAssign(arg)
          \/ \E op \in {"==", "!="} : Compare(op, arg)
    \/ \E c \in Literal, op \in {"<", "<=", ">", ">="} : Bound(op, <<"const", c>>)
    \/ Negate
    \/ \E op \in {"batch_add", "batch_mul"} : BatchCombine(op)
    \/ \E n \in Distances, op \in {"rotl", "rotr", "<<", ">>"} : Turn(op, n)
    \/ CompareBool
    \/ Copy

Spec == Init /\ [][Next]_vars

-----------------------------------------------------------------------------
TypeOK ==
    /\ type \in Types
    /\ \A t \in {a, b} :
          /\ t.type \in {type, "FF"}
          /\ t.sort = type
          /\ t.root \in {"var", "const", "unary", "nary"}
          /\ DOMAIN t.val = Valuation(type)
          /\ type = "FFI" \/ \A w \in DOMAIN t.val : t.val[w] \in Domain(type)
    /\ quotients \in 0 .. 1
    /\ holds \subseteq Valuation(type)
    /\ calls \in 0 .. MaxCalls
    /\ outcome \in {"done", "ignored", "threw"}

(* A model is read by integers, so no two models may stand for the same      *)
(* field elements: every unknown created so far is reduced wherever the      *)
(* assertions hold (term.cpp:49-56).                                         *)
ModelsAreReduced ==
    \A w \in holds :
       /\ {w["x"], w["y"]} \subseteq 0 .. RingSize(type) - 1
       /\ quotients = 1 => w["q"] \in 0 .. RingSize(type) - 1

(* The value of a term as an element of the ring. *)
Residue(t) == [w \in DOMAIN t.val |-> t.val[w] % RingSize(type)]
Ring == INSTANCE RingAlgebra WITH size <- RingSize(type), a <- Residue(a), b <- Residue(b)

(* Terms of every type compute and assert as elements of their ring do, or   *)
(* refuse: no operation returns a wrong term, and no assertion keeps or      *)
(* loses a valuation it should not (term.cpp:90-417).                        *)
ComputesInTheRing == Ring!Spec

(* A division neither loses nor multiplies solutions: where the divisor is   *)
(* not zero there is one quotient, where it is zero there is none            *)
(* (term.cpp:141-154).                                                       *)
Quotients(valuations, w) == {v \in Domain(type) : [w EXCEPT !["q"] = v] \in valuations}
Divisor == IF call'[1] = "c/" THEN a ELSE Term(call'[2])
DivisionIsDetermined ==
    [][ (call'[1] \in {"/", "c/"} /\ outcome' = "done") =>
          \A w \in holds :
             Cardinality(Quotients(holds', w)) =
                IF Divisor.val[w] % RingSize(type) = 0 THEN 0 ELSE 1 ]_vars

(* The operations the documentation lists for a type (term.hpp:69-72,         *)
(* README.md:118).                                                           *)
Documented(ty) ==
    {"+", "-", "c-", "neg", "*", "-="}
      \cup IF ty = "BV" THEN {"^", "&", "|", "<<", ">>", "rotl", "rotr"} ELSE {"/", "c/", "/="}

(* Of the documented operations on terms of one type, and on constants that  *)
(* fit it, exactly these can never be used: /= and the shifts, and -= on     *)
(* anything but field elements (term.cpp:108-112, 156-169, 310-335).         *)
UnusableOperations ==
    (call[1] \in Documented(type) /\ {a.type, b.type} = {type} /\ Built(call[2])) =>
        (outcome = "threw" <=> call[1] \in {"/=", "<<", ">>"} \/ (call[1] = "-=" /\ type # "FF"))

-----------------------------------------------------------------------------
(* What the documentation says of terms. *)

(* FFITerm: "integer elements which behave like finite field ones"           *)
(* (README.md:89): x == y keeps the valuations where both are the same field *)
(* element.                                                                  *)
EqualityIsOfTheField ==
    [][ (outcome' = "done" /\ call'[1] = "==") =>
          holds' = {w \in holds : Residue(a)[w] = Residue(Term(call'[2]))[w]} ]_vars
=============================================================================
