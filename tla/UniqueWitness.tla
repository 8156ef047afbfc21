--------------------------- MODULE UniqueWitness ----------------------------
(***************************************************************************)
(* unique_witness and unique_witness_ext: two circuits are built from one  *)
(* schema into one solver, related by equalities and inequalities between  *)
(* their variables, and the client asks the solver whether the system can  *)
(* be satisfied.  "unsat" is read as: the witness is unique.  Both build   *)
(* their circuits with the default arithmetization, PLONK.                 *)
(***************************************************************************)
EXTENDS Integers, Sequences, FiniteSets, Functions

CONSTANTS
    Mod, Literal, Zero, One, Meaning, Reading, Name, Schema,    \* see Circuit
    Call        \* calls: [fn, equal, not_equal, any_equal, any_not_equal]

ASSUME PlonkAssumption == \A s \in Schema : s.isPLONK
ASSUME CallAssumption ==
    Call \subseteq [fn : {"unique_witness", "unique_witness_ext"}, equal : Seq(Name),
                    not_equal : Seq(Name), any_equal : Seq(Name), any_not_equal : Seq(Name)]

VARIABLES
    schema, call,   \* the arguments
    step,           \* where the function is: "build", "relate", "built", "threw"
    pos,            \* position in the loops over names
    phase1, cursor1, names1, inverse1, symbolic1, optimized1,   \* c1
    phase2, cursor2, names2, inverse2, symbolic2, optimized2,   \* c2
    asserted, mode, candidate, produceModels, checked, res, cvc_result, reply   \* the solver

c1 == <<phase1, cursor1, names1, inverse1, symbolic1, optimized1>>
c2 == <<phase2, cursor2, names2, inverse2, symbolic2, optimized2>>
flags == <<mode, candidate, produceModels, checked, res, cvc_result, reply>>
vars == <<schema, call, step, pos, c1, c2, asserted, flags>>

C1 == INSTANCE Circuit WITH tag <- "circuit1", phase <- phase1, cursor <- cursor1,
        variable_names <- names1, variable_names_inverse <- inverse1,
        symbolic_vars <- symbolic1, optimized <- optimized1
C2 == INSTANCE Circuit WITH tag <- "circuit2", phase <- phase2, cursor <- cursor2,
        variable_names <- names2, variable_names_inverse <- inverse2,
        symbolic_vars <- symbolic2, optimized <- optimized2

ASSUME CircuitAssumption == C1!CircuitConstants

Ring == 0 .. Mod - 1
AllIndex == UNION {C1!RealIndex(s) : s \in Schema}
SymVar == {"circuit1", "circuit2"} \X AllIndex

(* The formulas relating the circuits; those of each circuit are Circuit's. *)
Eq(i, j) == [kind |-> "eq", a |-> <<"circuit1", i>>, b |-> <<"circuit2", j>>]
Ne(i, j) == [kind |-> "ne", a |-> <<"circuit1", i>>, b |-> <<"circuit2", j>>]
SomeEq(pairs) == [kind |-> "someeq", pairs |-> pairs]
SomeNe(pairs) == [kind |-> "somene", pairs |-> pairs]

Holds(f, v) ==
    CASE f.kind = "eq" -> v[f.a] = v[f.b]
      [] f.kind = "ne" -> v[f.a] # v[f.b]
      [] f.kind = "someeq" -> \E p \in f.pairs : v[<<"circuit1", p[1]>>] = v[<<"circuit2", p[2]>>]
      [] f.kind = "somene" -> \E p \in f.pairs : v[<<"circuit1", p[1]>>] # v[<<"circuit2", p[2]>>]
      [] OTHER -> C1!HoldsOwn(f, v)

S == INSTANCE Solver WITH Formula <- {}, Var <- SymVar, Value <- Ring, Holds <- Holds,
        SortOf <- [x \in SymVar |-> "ff"], NameOf <- [x \in SymVar |-> x],
        Key <- {}, MaxTerms <- 0

Init ==
    /\ C1!Init
    /\ C2!Init
    /\ call \in Call
    /\ step = "build"
    /\ pos = 1
    /\ mode = "assert"
    /\ candidate = [x \in SymVar |-> 0]
    /\ produceModels = TRUE      \* default_solver_config
    /\ checked = FALSE
    /\ res = FALSE
    /\ cvc_result = "null"
    /\ reply = S!NoReply

-----------------------------------------------------------------------------
(* Circuit c1(...); an exception of the constructor leaves the function. *)
BuildFirst ==
    /\ step = "build"
    /\ C1!Next
    /\ step' = IF phase1' = "threw" THEN "threw" ELSE step
    /\ UNCHANGED <<call, pos, c2, flags>>

(* Circuit c2(...) *)
BuildSecond ==
    /\ step = "build"
    /\ phase1 = "done"
    /\ C2!Next
    /\ step' = CASE phase2' = "threw" -> "threw"
                 [] phase2' = "done" -> "relate"
                 [] OTHER -> step
    /\ UNCHANGED <<call, pos, c1, flags>>

(* c1[name] and c2[name]: an unknown name throws. *)
Known(n) == n \in DOMAIN inverse1 /\ n \in DOMAIN inverse2

(* One iteration of a loop that asserts F(i, j) for the variables of a name. *)
RelateName(n, F(_, _)) ==
    \/ /\ Known(n)
       /\ S!assertFormula(F(inverse1[n], inverse2[n]))
       /\ pos' = pos + 1
       /\ UNCHANGED <<schema, call, step, c1, c2>>
    \/ /\ ~Known(n)
       /\ step' = "threw"
       /\ UNCHANGED <<schema, call, pos, c1, c2, asserted, flags>>

(* for (term : equal) c1[term] == c2[term]; *)
RelateEqual ==
    /\ step = "relate"
    /\ pos <= Len(call.equal)
    /\ RelateName(call.equal[pos], Eq)

(* for (term : not_equal) c1[term] != c2[term]; *)
RelateNotEqual ==
    /\ step = "relate"
    /\ call.fn = "unique_witness_ext"
    /\ pos > Len(call.equal)
    /\ pos <= Len(call.equal) + Len(call.not_equal)
    /\ RelateName(call.not_equal[pos - Len(call.equal)], Ne)

(* The assertion of batch_or over a list that may be empty: nothing then.   *)
AssertSome(pairs, F(_)) == IF pairs = {} THEN {} ELSE {F(pairs)}
PairsOf(names) == {<<inverse1[n], inverse2[n]>> : n \in {m \in names : Known(m)}}

(* The loop that looks the names up meets no unknown one. *)
AllKnown(names) == \A n \in names : Known(n)

(* The two disjunctions of unique_witness_ext, in order; the second may     *)
(* throw when the first is asserted already.                                *)
RelateSome ==
    /\ step = "relate"
    /\ call.fn = "unique_witness_ext"
    /\ pos > Len(call.equal) + Len(call.not_equal)
    /\ LET eqs == Range(call.any_equal)
           neqs == Range(call.any_not_equal)
           EqF == AssertSome(PairsOf(eqs), SomeEq)
           NeF == AssertSome(PairsOf(neqs), SomeNe)
       IN \/ /\ AllKnown(eqs) /\ AllKnown(neqs)
             /\ asserted' = asserted \cup EqF \cup NeF
             /\ step' = "built"
          \/ /\ AllKnown(eqs) /\ ~AllKnown(neqs)
             /\ asserted' = asserted \cup EqF
             /\ step' = "threw"
          \/ /\ ~AllKnown(eqs)
             /\ UNCHANGED asserted
             /\ step' = "threw"
    /\ UNCHANGED <<schema, call, pos, c1, c2, flags>>

NameAt(i) == IF i \in DOMAIN names1 THEN names1[i] ELSE ""

(* Faulty variant of Compared: the test of optimized is inverted. *)
Compared_OnlyUnused == {i \in symbolic1 : NameAt(i) \notin Range(call.equal) /\ optimized1[i]}
(* The variables unique_witness requires to differ somewhere. *)
Compared == {i \in symbolic1 : NameAt(i) \notin Range(call.equal) /\ ~optimized1[i]}

(* The loop over c1.symbolic_vars in unique_witness, and its batch_or. *)
RelateOthers ==
    /\ step = "relate"
    /\ call.fn = "unique_witness"
    /\ pos > Len(call.equal)
    /\ LET pairs == {<<C1!RealOf(schema, i), C2!RealOf(schema, i)>> : i \in Compared}
       IN asserted' = asserted \cup AssertSome(pairs, SomeNe)
    /\ step' = "built"
    /\ UNCHANGED <<schema, call, pos, c1, c2, flags>>

(* The client's s.check(), or smt_timer(&s).  The valuation behind "unknown" *)
(* is never read.                                                           *)
Check ==
    /\ step = "built"
    /\ ~checked
    /\ S!check
    /\ cvc_result' = "unknown" => UNCHANGED candidate
    /\ UNCHANGED <<schema, call, step, pos, c1, c2>>

(* The steps of the function, as opposed to the client's. *)
Step ==
    \/ BuildFirst
    \/ BuildSecond
    \/ RelateEqual
    \/ RelateNotEqual
    \/ RelateSome
    \/ RelateOthers

Next == Step \/ Check

Spec == Init /\ [][Next]_vars

(* One thread that blocks on nothing.  The check is not fair: without a     *)
(* timeout in its configuration (the default) cvc5 may search forever.      *)
FairSpec == Spec /\ WF_vars(Step)

-----------------------------------------------------------------------------
(* The question behind a call, in terms of the schema's witnesses. *)

(* The names of the variables, those of the constants included. *)
NameMap(s) ==
    [i \in DOMAIN s.vars_of_interest \cup {0, 1} |->
        IF i \in DOMAIN s.vars_of_interest THEN s.vars_of_interest[i]
        ELSE IF i = 0 THEN "zero" ELSE "one"]
Names(s) == Range(NameMap(s))
NamedIn(s, names) == {i \in DOMAIN NameMap(s) : NameMap(s)[i] \in names}

(* An encoding that misreads a string, or whose constants nothing fixes, is  *)
(* of another circuit: see EncodingExact.                                   *)
ASSUME ReadingAssumption == \A s \in Schema : C1!ReadsRight(s) /\ C1!ConstantsFixed(s)

Witnesses(s) == {w \in [C1!RealIndex(s) -> Ring] : C1!IsWitness(s, w)}

(* All variables with one of the names have the same value in both. *)
SameOn(s, pair, names) == \A i \in NamedIn(s, names) : pair[1][i] = pair[2][i]

(* "set all the other variables to be not equal at the same time"           *)
(* (README:164): all the variables that are not required to be equal.       *)
Others(s, c) == C1!RealIndex(s) \ NamedIn(s, Range(c.equal))

(* What a pair of witnesses must show to refute uniqueness.  Of              *)
(* unique_witness_ext, a list that is left empty, the default, requires      *)
(* nothing (circuit.hpp:77-80).                                             *)
IsEvidence(s, c, pair) ==
    /\ SameOn(s, pair, Range(c.equal))
    /\ IF c.fn = "unique_witness"
       THEN \E i \in Others(s, c) : pair[1][i] # pair[2][i]
       ELSE /\ \A n \in Range(c.not_equal) : ~SameOn(s, pair, {n})
            /\ c.any_equal # <<>> => \E n \in Range(c.any_equal) : SameOn(s, pair, {n})
            /\ c.any_not_equal # <<>> => ~SameOn(s, pair, Range(c.any_not_equal))

(* Each name is that of one variable, those of the constants included, and   *)
(* none is what variable_names[i] returns when i has no name.               *)
PlainNames(s) ==
    /\ \A i, j \in DOMAIN NameMap(s) : NameMap(s)[i] = NameMap(s)[j] => i = j
    /\ {"zero", "one"} \subseteq Names(s)
    /\ "" \notin Names(s)

(* The variables unique_witness can compare, and those no witness can vary.  *)
Comparable(s) == C1!GatedIndex(s) \cup {0, 1}
Pinned(s) == {s.real_variable_index[p] : p \in Range(s.public_inps)}

(* The calls whose answer can be taken at its word: a name is that of one    *)
(* variable, every variable that is to differ is in a gate or pinned, and    *)
(* one is left to compare.  Of other calls see AnswersAsDocumented.         *)
IsPosed(s, c) ==
    /\ PlainNames(s)
    /\ c.fn = "unique_witness" =>
          /\ Others(s, c) \subseteq Comparable(s) \cup Pinned(s)
          /\ Others(s, c) \cap Comparable(s) # {}

Posed(q) == IsPosed(q[1], q[2])
Evidence(q) == {pair \in Witnesses(q[1]) \X Witnesses(q[1]) : IsEvidence(q[1], q[2], pair)}

ModelOf(t) == [i \in C1!RealIndex(schema) |-> candidate[<<t, i>>]]
ModelPair == <<ModelOf("circuit1"), ModelOf("circuit2")>>

U == INSTANCE Uniqueness WITH
        Question <- Schema \X Call,
        question <- <<schema, call>>,
        verdict <- IF checked THEN cvc_result ELSE "none",
        evidence <- IF cvc_result = "sat" THEN {ModelPair} ELSE {}

-----------------------------------------------------------------------------
(* The whole chain, from the schema to the solver's answer, answers the     *)
(* question of a call that is posed: "unsat" only if the witness is unique, *)
(* "sat" only with two witnesses that refute it (circuit.cpp:521-611,       *)
(* solver.cpp:10-21).                                                       *)
AnswersTheQuestion == U!Spec

(* What the documentation says of every call: "other witness members will be *)
(* marked as not equal at the same time", "they will have to differ by at    *)
(* least one element" (circuit.cpp:571-572), and of the variables with a     *)
(* listed name "each is equal" (576).  The code leaves out the variables     *)
(* marked optimized (598), asserts nothing if it has nothing to compare      *)
(* (605), and relates one variable of a name (31, 534, 589).                 *)
AnswersAsDocumented ==
    /\ cvc_result = "unsat" => Evidence(<<schema, call>>) = {}
    /\ cvc_result = "sat" => ModelPair \in Evidence(<<schema, call>>)

(* The function returns or throws, whatever names it is given and wherever  *)
(* the constructors stop (circuit.cpp:521-611).                             *)
Ends == <>(step \in {"threw", "built"})
=============================================================================
