--------------------------- MODULE Solver_proofs ----------------------------
(***************************************************************************)
(* Proofs about Solver, for every set of formulas, variables and values.   *)
(***************************************************************************)
EXTENDS Solver, WellFoundedInduction, TLAPS

(* The modes of cvc5 agree with the flags of the wrapper: a valuation that  *)
(* is read as a model solves the assertions, and a model is handed out only *)
(* while res is set.                                                        *)
ModesAgree ==
    /\ mode = "sat" => candidate \in Models(asserted)
    /\ mode = "sat_unknown" => cvc_result = "unknown"
    /\ reply.call = "model" => res

Inv == TypeOK /\ ModesAgree /\ UnsatVerdictStays /\ ModelIsOfCurrentAssertions

(* More assertions have fewer solutions. *)
LEMMA ModelsShrink ==
    ASSUME NEW A, NEW f
    PROVE  Models(A \cup {f}) \subseteq Models(A)
BY DEF Models, Satisfies

LEMMA InitInv == Init => Inv
<1> SUFFICES ASSUME Init PROVE Inv
    OBVIOUS
<1>1. TypeOK
    BY DEF Init, TypeOK
<1>2. ModesAgree
    BY DEF Init, ModesAgree, NoReply
<1>3. UnsatVerdictStays
    BY DEF Init, UnsatVerdictStays
<1>4. ModelIsOfCurrentAssertions
    BY DEF Init, ModelIsOfCurrentAssertions, NoReply
<1> QED
    BY <1>1, <1>2, <1>3, <1>4 DEF Inv

LEMMA AssertFormulaStep ==
    ASSUME Inv, NEW f \in Formula, assertFormula(f)
    PROVE  Inv'
<1>1. TypeOK'
    BY DEF Inv, TypeOK, assertFormula, Valuation
<1>2. ModesAgree'
    BY DEF Inv, ModesAgree, assertFormula, NoReply
<1>3. UnsatVerdictStays'
    <2>1. Models(asserted') \subseteq Models(asserted)
        BY ModelsShrink DEF assertFormula
    <2> QED
        BY <2>1 DEF Inv, UnsatVerdictStays, Solvable, assertFormula
<1>4. ModelIsOfCurrentAssertions'
    BY DEF assertFormula, ModelIsOfCurrentAssertions, NoReply
<1> QED
    BY <1>1, <1>2, <1>3, <1>4 DEF Inv

LEMMA CheckStep ==
    ASSUME Inv, check
    PROVE  Inv'
<1>1. PICK r \in {"sat", "unsat", "unknown"} :
          /\ checkSat(r)
          /\ checked' = TRUE
          /\ cvc_result' = r
          /\ res' = IsSat(r)
          /\ reply' = [call |-> "check", value |-> res']
          /\ UNCHANGED <<asserted, produceModels>>
    BY DEF check
<1>2. TypeOK'
    BY <1>1 DEF Inv, TypeOK, checkSat, IsSat, Models, Valuation
<1>3. ModesAgree'
    BY <1>1 DEF ModesAgree, checkSat, IsSat, Models, Valuation, Satisfies
<1>4. UnsatVerdictStays'
    BY <1>1 DEF UnsatVerdictStays, checkSat, Solvable, Models, Valuation, Satisfies
<1>5. ModelIsOfCurrentAssertions'
    BY <1>1 DEF ModelIsOfCurrentAssertions
<1> QED
    BY <1>2, <1>3, <1>4, <1>5 DEF Inv

(* The calls that only read leave all but reply alone. *)
LEMMA ReadingStep ==
    ASSUME Inv, ModelIsOfCurrentAssertions', reply'.call = "model" => res,
           UNCHANGED <<asserted, mode, candidate, produceModels, checked, res, cvc_result>>
    PROVE  Inv'
BY DEF Inv, TypeOK, ModesAgree, UnsatVerdictStays, Solvable, Models, Valuation, Satisfies

LEMMA GetResultStep ==
    ASSUME Inv, getResult
    PROVE  Inv'
<1>1. ModelIsOfCurrentAssertions' /\ reply'.call # "model"
    BY DEF getResult, ModelIsOfCurrentAssertions
<1> QED
    BY <1>1, ReadingStep DEF getResult

(* When model() gets past its tests and cvc5's, the valuation it reads       *)
(* solves the assertions.                                                   *)
LEMMA CandidateIsModel ==
    ASSUME Inv, ~Refused, CanGetValue
    PROVE  candidate \in Models(asserted)
BY DEF Inv, TypeOK, ModesAgree, Refused, CanGetValue

(* What both overloads of model() return: nothing read, or under each key   *)
(* the value in candidate of a term requested with that key.                *)
ReadsCandidate ==
    /\ reply'.call = "model" => ~Refused
    /\ (reply'.call = "model" /\ reply'.requested # {}) =>
        /\ CanGetValue
        /\ \A k \in DOMAIN reply'.values : \E kt \in reply'.requested :
              kt[1] = k /\ reply'.values[k] = candidate[kt[2]]

(* Reading candidate keeps the invariant. *)
LEMMA ReadoutSound ==
    ASSUME Inv, ReadsCandidate,
           UNCHANGED <<asserted, mode, candidate, produceModels, checked, res, cvc_result>>
    PROVE  Inv'
<1>1. ASSUME reply'.call = "model", reply'.requested # {}
      PROVE  \E v \in Models(asserted)' : \A k \in DOMAIN reply'.values :
                LET sharing == {kt \in reply'.requested : kt[1] = k}
                IN \E kt \in sharing : reply'.values[k] = v[kt[2]]
    <2>1. candidate \in Models(asserted)
        BY <1>1, CandidateIsModel DEF ReadsCandidate
    <2>2. Models(asserted)' = Models(asserted)
        BY DEF Models, Valuation, Satisfies
    <2> QED
        BY <1>1, <2>1, <2>2 DEF ReadsCandidate
<1>2. ModelIsOfCurrentAssertions'
    BY <1>1 DEF ModelIsOfCurrentAssertions
<1>3. reply'.call = "model" => res
    BY DEF ReadsCandidate, Refused
<1> QED
    BY <1>2, <1>3, ReadingStep

(* A read-out that is a model: the tests were passed. *)
LEMMA ReadoutOf ==
    ASSUME NEW r, NEW requested, NEW values,
           r = (IF Refused THEN Threw(Refusal) ELSE Readout(requested, values)),
           r.call = "model", r.requested # {}
    PROVE  /\ ~Refused
           /\ CanGetValue
           /\ r.requested = requested
           /\ r.values = values
<1>1. ~Refused
    BY DEF Threw
<1>2. r = [call |-> "model", requested |-> requested, values |-> values]
    BY <1>1 DEF Threw, Readout
<1>3. CanGetValue
    <2>1. PICK kt \in requested : TRUE
        BY <1>2
    <2>2. {x[2] : x \in requested} # {}
        BY <2>1
    <2>3. CASE ~CanGetValue
        <3>1. r = Threw("cvc5")
            BY <1>1, <2>2, <2>3 DEF Readout
        <3> QED
            BY <3>1 DEF Threw
    <2> QED
        BY <2>3
<1> QED
    BY <1>1, <1>2, <1>3

LEMMA ModelMapStep ==
    ASSUME Inv, NEW terms \in TermMaps, model_map(terms)
    PROVE  Inv'
<1> DEFINE requested == {<<k, terms[k]>> : k \in DOMAIN terms}
           values == [k \in DOMAIN terms |-> candidate[terms[k]]]
<1>1. ASSUME reply'.call = "model", reply'.requested # {}
      PROVE  /\ ~Refused /\ CanGetValue
             /\ reply'.requested = requested /\ reply'.values = values
    <2>1. reply' = IF Refused THEN Threw(Refusal) ELSE Readout(requested, values)
        BY DEF model_map
    <2> HIDE DEF requested, values
    <2> QED
        BY <1>1, <2>1, ReadoutOf
<1>2. ASSUME NEW k \in DOMAIN values
      PROVE  \E kt \in requested : kt[1] = k /\ values[k] = candidate[kt[2]]
    <2>1. <<k, terms[k]>> \in requested
        BY <1>2
    <2> QED
        BY <1>2, <2>1
<1>3. reply'.call = "model" => ~Refused
    BY DEF model_map, Threw
<1>4. ReadsCandidate
    <2> HIDE DEF requested, values
    <2> QED
        BY <1>1, <1>2, <1>3 DEF ReadsCandidate
<1> QED
    BY <1>4, ReadoutSound DEF model_map

(* The first term with a name has that name. *)
LEMMA FirstNamedHasName ==
    ASSUME NEW n \in Nat, NEW terms \in [1 .. n -> Var], NEW i \in 1 .. n
    PROVE  LET first == FirstNamed(terms, NameOf[terms[i]])
           IN first \in 1 .. n /\ NameOf[terms[first]] = NameOf[terms[i]]
<1> DEFINE name == NameOf[terms[i]]
           named == {j \in 1 .. n : NameOf[terms[j]] = name}
<1>1. PICK m \in named : \A j \in named : m <= j
    <2>1. named \subseteq Nat /\ i \in named
        OBVIOUS
    <2>2. PICK m \in named : \A j \in named : <<j, m>> \notin OpToRel(<, Nat)
        BY <2>1, NatLessThanWellFounded, WFMin, Zenon
    <2>3. \A j \in named : ~ j < m
        BY <2>1, <2>2 DEF OpToRel
    <2> QED
        BY <2>1, <2>3
<1>2. /\ m \in DOMAIN terms
      /\ NameOf[terms[m]] = name
      /\ \A j \in 1 .. m - 1 : NameOf[terms[j]] # name
    BY <1>1
<1> QED
    BY <1>2 DEF FirstNamed

LEMMA ModelVectorStep ==
    ASSUME Inv, NEW terms \in TermLists, model_vector(terms)
    PROVE  Inv'
<1> DEFINE requested == {<<NameOf[x], x>> : x \in Range(terms)}
           values == [n \in {NameOf[x] : x \in Range(terms)} |-> candidate[terms[FirstNamed(terms, n)]]]
<1>1. ASSUME reply'.call = "model", reply'.requested # {}
      PROVE  /\ ~Refused /\ CanGetValue
             /\ reply'.requested = requested /\ reply'.values = values
    <2>1. reply' = IF Refused THEN Threw(Refusal) ELSE Readout(requested, values)
        BY DEF model_vector
    <2> HIDE DEF requested, values
    <2> QED
        BY <1>1, <2>1, ReadoutOf
<1>2. ASSUME NEW k \in DOMAIN values
      PROVE  \E kt \in requested : kt[1] = k /\ values[k] = candidate[kt[2]]
    <2>1. PICK len \in Nat : terms \in [1 .. len -> Var]
        BY MaxTermsAssumption DEF TermLists
    <2>2. PICK i \in 1 .. len : k = NameOf[terms[i]]
        BY <1>2, <2>1 DEF Range
    <2> DEFINE x == terms[FirstNamed(terms, k)]
    <2>3. x \in Range(terms) /\ NameOf[x] = k
        BY <2>1, <2>2, FirstNamedHasName DEF Range
    <2>4. <<NameOf[x], x>> \in requested
        BY <2>3
    <2> QED
        BY <1>2, <2>3, <2>4
<1>3. reply'.call = "model" => ~Refused
    BY DEF model_vector, Threw
<1>4. ReadsCandidate
    <2> HIDE DEF requested, values
    <2> QED
        BY <1>1, <1>2, <1>3 DEF ReadsCandidate
<1> QED
    BY <1>4, ReadoutSound DEF model_vector

LEMMA NextInv ==
    ASSUME Inv, [Next]_vars
    PROVE  Inv'
<1>1. ASSUME NEW f \in Formula, assertFormula(f) PROVE Inv'
    BY <1>1, AssertFormulaStep
<1>2. CASE check
    BY <1>2, CheckStep
<1>3. CASE getResult
    BY <1>3, GetResultStep
<1>4. ASSUME NEW terms \in TermMaps, model_map(terms) PROVE Inv'
    BY <1>4, ModelMapStep
<1>5. ASSUME NEW terms \in TermLists, model_vector(terms) PROVE Inv'
    BY <1>5, ModelVectorStep
<1>6. CASE UNCHANGED vars
    <2>1. ModelIsOfCurrentAssertions'
        BY <1>6 DEF Inv, ModelIsOfCurrentAssertions, Models, Valuation, Satisfies, vars
    <2>2. reply'.call = "model" => res
        BY <1>6 DEF Inv, ModesAgree, vars
    <2> QED
        BY <1>6, <2>1, <2>2, ReadingStep DEF vars
<1> QED
    BY <1>1, <1>2, <1>3, <1>4, <1>5, <1>6 DEF Next

THEOREM Invariance == Spec => []Inv
<1>1. Init => Inv
    BY InitInv
<1>2. Inv /\ [Next]_vars => Inv'
    BY NextInv
<1> QED
    BY <1>1, <1>2, PTL DEF Spec

(* The state stays within its types. *)
THEOREM TypeCorrect == Spec => []TypeOK
<1>1. Inv => TypeOK
    BY DEF Inv
<1> QED
    BY <1>1, Invariance, PTL

(* For every set of formulas, variables and values: a model the client gets *)
(* is of one solution of everything asserted so far (solver.cpp:33-90).     *)
THEOREM ModelsAreCurrent == Spec => []ModelIsOfCurrentAssertions
<1>1. Inv => ModelIsOfCurrentAssertions
    BY DEF Inv
<1> QED
    BY <1>1, Invariance, PTL

(* For every set of formulas, variables and values: what was found          *)
(* unsatisfiable stays so (solver.cpp:10-21).                               *)
THEOREM UnsatStays == Spec => []UnsatVerdictStays
<1>1. Inv => UnsatVerdictStays
    BY DEF Inv
<1> QED
    BY <1>1, Invariance, PTL

(* After an unsat answer the flag the client branches on stays FALSE and no *)
(* model is handed out, for every client and whatever the solver answers    *)
(* later (solver.cpp:10-21).                                                *)
THEOREM UnsatForGood == Spec => UnsatIsFinal
<1> DEFINE Dead == ~Solvable(asserted) /\ ~res /\ reply.call # "model"
<1>1. Inv /\ cvc_result = "unsat" => Dead
    BY DEF Inv, TypeOK, ModesAgree, UnsatVerdictStays
<1>2. ASSUME Inv, Inv', Dead, [Next]_vars
      PROVE  Dead'
    <2>1. ~Solvable(asserted')
        <3>1. CASE \E f \in Formula : assertFormula(f)
            BY <3>1, <1>2, ModelsShrink DEF assertFormula, Solvable
        <3>2. CASE asserted' = asserted
            BY <3>2, <1>2
        <3> QED
            BY <1>2, <3>1, <3>2 DEF Next, vars, check, getResult, model_map, model_vector
    <2>2. ~res'
        <3>1. CASE check
            <4>1. PICK r \in {"sat", "unsat", "unknown"} : checkSat(r) /\ res' = IsSat(r)
                BY <3>1 DEF check
            <4>2. r # "sat"
                BY <1>2, <4>1 DEF checkSat, Solvable
            <4> QED
                BY <4>1, <4>2 DEF IsSat
        <3>2. CASE res' = res
            BY <3>2, <1>2
        <3> QED
            BY <1>2, <3>1, <3>2 DEF Next, vars, assertFormula, getResult, model_map, model_vector
    <2>3. Solvable(asserted)' = Solvable(asserted')
        BY DEF Solvable, Models, Satisfies, Valuation
    <2>4. reply'.call # "model"
        BY <1>2, <2>2 DEF Inv, ModesAgree
    <2> QED
        BY <2>1, <2>2, <2>3, <2>4
<1>3. Dead => ~res /\ reply.call # "model"
    OBVIOUS
<1>4. Spec => []Inv /\ [][Next]_vars
    BY Invariance, PTL DEF Spec
<1> HIDE DEF Dead
<1>5. Inv /\ Inv' /\ Dead /\ [Next]_vars => Dead'
    BY <1>2
<1> QED
    BY <1>1, <1>3, <1>4, <1>5, PTL DEF UnsatIsFinal
=============================================================================
