------------------------------- MODULE Solver -------------------------------
(***************************************************************************)
(* smt_solver::Solver: the wrapper around cvc5 that a client first fills   *)
(* with assertions, then asks for a verdict, then reads a model from.      *)
(* The wrapper keeps two flags, checked and res, that nothing resets when  *)
(* the client goes on asserting; cvc5 keeps a mode of its own.  A client   *)
(* may call the operations in any order.                                   *)
(*                                                                         *)
(* A formula is a value that Holds(f, v) gives a truth value under a       *)
(* valuation v of the symbolic variables.                                  *)
(***************************************************************************)
EXTENDS Integers, FiniteSets, Sequences, Functions

CONSTANTS
    Formula,            \* Boolean terms a client may assert
    Var,                \* symbolic variables (cvc5 constants)
    Value,              \* values of the symbolic variables
    Holds(_, _),        \* Holds(f, v): valuation v satisfies formula f
    SortOf,             \* SortOf[x] \in {"ff", "int", "bv"}
    NameOf,             \* NameOf[x]: what x.toString() returns
    Key,                \* the caller's names for the terms of a model request
    MaxTerms            \* bound: number of terms in one model request

ASSUME SortAssumption == SortOf \in [Var -> {"ff", "int", "bv"}]
ASSUME NameAssumption == DOMAIN NameOf = Var
ASSUME MaxTermsAssumption == MaxTerms \in Nat
ASSUME HoldsAssumption ==
    \A f \in Formula, v \in [Var -> Value] : Holds(f, v) \in BOOLEAN

VARIABLES
    asserted,       \* cvc5's assertions
    mode,           \* what cvc5 answers to getValue: "assert", "sat", "unsat", "sat_unknown"
    candidate,      \* the valuation getValue reads in modes "sat" and "sat_unknown"
    produceModels,  \* SolverConfiguration::produce_models
    checked,        \* Solver::checked
    res,            \* Solver::res
    cvc_result,     \* Solver::cvc_result; "null" before the first check
    reply           \* what the last call of the client returned or threw

vars == <<asserted, mode, candidate, produceModels, checked, res, cvc_result, reply>>

Valuation == [Var -> Value]
Satisfies(v, A) == \A f \in A : Holds(f, v)
Models(A) == {v \in Valuation : Satisfies(v, A)}
Solvable(A) == Models(A) # {}

NoReply == [call |-> "none"]
Threw(what) == [call |-> "threw", what |-> what]

TermLists == UNION {[1 .. n -> Var] : n \in 0 .. MaxTerms}
TermMaps == UNION {[K -> Var] : K \in SUBSET Key}

Init ==
    /\ asserted = {}
    /\ mode = "assert"
    /\ candidate \in Valuation
    /\ produceModels \in BOOLEAN
    /\ checked = FALSE
    /\ res = FALSE
    /\ cvc_result = "null"
    /\ reply = NoReply

(* Faulty variant of assertFormula: after a check the client starts afresh. *)
assertFormula_Afresh(f) ==
    /\ asserted' = IF mode = "assert" THEN asserted \cup {f} ELSE {f}
    /\ mode' = "assert"
    /\ reply' = NoReply
    /\ UNCHANGED <<candidate, produceModels, checked, res, cvc_result>>

(* cvc5::Solver::assertFormula: the assertion is added and the answer of   *)
(* the last check is withdrawn; the wrapper's flags stay as they are.      *)
assertFormula(f) ==
    /\ asserted' = asserted \cup {f}
    /\ mode' = "assert"
    /\ reply' = NoReply
    /\ UNCHANGED <<candidate, produceModels, checked, res, cvc_result>>

(* cvc5::Solver::checkSat: sound answers, and "unknown" whenever the limit *)
(* of the configuration or the incompleteness of the engine stops it.      *)
checkSat(r) ==
    \/ r = "sat" /\ mode' = "sat" /\ candidate' \in Models(asserted)
    \/ r = "unsat" /\ ~Solvable(asserted) /\ mode' = "unsat" /\ UNCHANGED candidate
    \/ r = "unknown" /\ mode' = "sat_unknown" /\ candidate' \in Valuation

(* Faulty variant of IsSat: everything but unsat.    *)
IsSat_NotUnsat(r) == r # "unsat"

(* cvc5::Result::isSat. *)
IsSat(r) == r = "sat"

(* Faulty variant of check: an unknown answer returns before res is set. *)
check_UnknownReturns ==
    \E r \in {"sat", "unsat", "unknown"} :
        /\ checkSat(r)
        /\ checked' = TRUE
        /\ cvc_result' = r
        /\ res' = IF r = "unknown" THEN res ELSE IsSat(r)
        /\ reply' = [call |-> "check", value |-> IsSat(r)]
        /\ UNCHANGED <<asserted, produceModels>>

check ==
    \E r \in {"sat", "unsat", "unknown"} :
        /\ checkSat(r)
        /\ checked' = TRUE
        /\ cvc_result' = r
        /\ res' = IsSat(r)
        /\ reply' = [call |-> "check", value |-> res']
        /\ UNCHANGED <<asserted, produceModels>>

getResult ==
    /\ reply' = [call |-> "getResult",
                 value |-> IF ~checked THEN "No result, yet"
                           ELSE IF res THEN "SAT" ELSE "UNSAT"]
    /\ UNCHANGED <<asserted, mode, candidate, produceModels, checked, res, cvc_result>>

(* The two tests that open both overloads of Solver::model. *)
Refusal == IF ~checked THEN "Haven't checked yet" ELSE "There's no solution"
Refused == ~checked \/ ~res

(* cvc5 gives values only with models enabled and right after a check that *)
(* did not answer unsat.                                                   *)
CanGetValue == produceModels /\ mode \in {"sat", "sat_unknown"}

(* What the loop over the requested <<key, term>> pairs returns: cvc5's     *)
(* exception, the one for a bit-vector value, or the map built by insert.   *)
Readout(requested, values) ==
    LET terms == {kt[2] : kt \in requested} IN
    IF terms # {} /\ ~CanGetValue THEN Threw("cvc5")
    ELSE IF \E x \in terms : SortOf[x] = "bv" THEN Threw("Expected Integer or FiniteField sorts")
    ELSE [call |-> "model", requested |-> requested, values |-> values]

(* Solver::model(map): values under the keys the caller chose. *)
model_map(terms) ==
    /\ reply' = IF Refused THEN Threw(Refusal)
                ELSE Readout({<<k, terms[k]>> : k \in DOMAIN terms},
                             [k \in DOMAIN terms |-> candidate[terms[k]]])
    /\ UNCHANGED <<asserted, mode, candidate, produceModels, checked, res, cvc_result>>

(* Solver::model(vector): values under the printed names; of two terms with *)
(* the same name the first one's value stays, as insert does not overwrite. *)
FirstNamed(terms, n) ==
    CHOOSE i \in DOMAIN terms :
        NameOf[terms[i]] = n /\ \A j \in 1 .. i - 1 : NameOf[terms[j]] # n

model_vector(terms) ==
    /\ reply' = IF Refused THEN Threw(Refusal)
                ELSE Readout({<<NameOf[x], x>> : x \in Range(terms)},
                             [n \in {NameOf[x] : x \in Range(terms)} |->
                                 candidate[terms[FirstNamed(terms, n)]]])
    /\ UNCHANGED <<asserted, mode, candidate, produceModels, checked, res, cvc_result>>

Next ==
    \/ \E f \in Formula : assertFormula(f)
    \/ check
    \/ getResult
    \/ \E terms \in TermMaps : model_map(terms)
    \/ \E terms \in TermLists : model_vector(terms)

Spec == Init /\ [][Next]_vars

-----------------------------------------------------------------------------
(* Types of the state; the flags model() and getResult() branch on say      *)
(* what the last check answered, "unknown" included (solver.cpp:10-21).     *)
TypeOK ==
    /\ asserted \subseteq Formula
    /\ mode \in {"assert", "sat", "unsat", "sat_unknown"}
    /\ candidate \in Valuation
    /\ produceModels \in BOOLEAN
    /\ cvc_result \in {"null", "sat", "unsat", "unknown"}
    /\ checked = (cvc_result # "null")
    /\ res = (cvc_result = "sat")

(* A model that reaches the client gives every requested term its value in  *)
(* one solution of everything asserted so far, although the flags model()   *)
(* tests survive later assertions; terms that share their key get the value *)
(* of one of them (solver.cpp:33-55, 68-90).                                *)
ModelIsOfCurrentAssertions ==
    (reply.call = "model" /\ reply.requested # {}) =>
        \E v \in Models(asserted) : \A k \in DOMAIN reply.values :
            LET sharing == {kt \in reply.requested : kt[1] = k}
            IN \E kt \in sharing : reply.values[k] = v[kt[2]]

(* An "unsat" verdict is never outdated: however the client goes on, the    *)
(* assertions stay without a solution (solver.cpp:10-21, solver.hpp:99).    *)
UnsatVerdictStays == cvc_result = "unsat" => ~Solvable(asserted)

(* Once a check has said "unsat", res is never TRUE again and no model is   *)
(* handed out, whatever is asserted and checked later and however often the *)
(* solver gives up in between (solver.cpp:10-21, 35-40).                    *)
UnsatIsFinal == [](cvc_result = "unsat" => [](~res /\ reply.call # "model"))

(* What check() promises in words: "@return true if the system is solvable" *)
(* (solver.cpp:8); so its FALSE is to mean that there is no solution.       *)
CheckDecidesSolvability ==
    reply.call = "check" => (reply.value <=> Solvable(asserted))
=============================================================================
