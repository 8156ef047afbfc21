-------------------------------- MODULE Bools --------------------------------
(***************************************************************************)
(* smt_terms::Bool: formulas a client combines and asserts.  A Bool is the *)
(* set of valuations of which its term is true, and the flag asserted that *)
(* keeps assert_term() from asserting it twice.                            *)
(***************************************************************************)
CONSTANTS
    Valuation,  \* valuations of the unknowns
    Atom,       \* formulas the client starts from, sets of valuations
    Calls       \* the operations it calls

ASSUME AtomAssumption == Atom \subseteq SUBSET Valuation

VARIABLES
    f, g,       \* two Bools of the client
    holds,      \* the valuations that satisfy all assertions of the solver
    call        \* the last operation

vars == <<f, g, holds, call>>

Bool(term) == [term |-> term, asserted |-> FALSE]

Init ==
    /\ f \in {Bool(t) : t \in Atom}
    /\ g \in {Bool(t) : t \in Atom}
    /\ holds = Valuation
    /\ call = "none"

Combined(op, s, t) ==
    CASE op \in {"|", "|=", "batch_or"} -> s \cup t
      [] op \in {"&", "&=", "batch_and"} -> s \cap t
      [] op = "==" -> {w \in Valuation : w \in s <=> w \in t}
      [] op = "!=" -> {w \in Valuation : ~(w \in s <=> w \in t)}
      [] op = "!" -> Valuation \ s

(* Faulty variant of Result: the object is reused, with its flag. *)
Result_Reused(op) == [f EXCEPT !.term = Combined(op, f.term, g.term)]

(* f = f op g: an operator returns a new Bool. *)
Result(op) == Bool(Combined(op, f.term, g.term))

Operator(op) ==
    /\ op \in {"|", "&", "==", "!=", "!", "batch_or", "batch_and"}
    /\ f' = Result(op)
    /\ UNCHANGED <<g, holds>>

(* operator|= and operator&= change the term of a Bool, not its flag. *)
Assign(op) ==
    /\ op \in {"|=", "&="}
    /\ f' = [f EXCEPT !.term = Combined(op, f.term, g.term)]
    /\ UNCHANGED <<g, holds>>

(* assert_term() *)
AssertTerm(op) ==
    /\ op = "assert_term"
    /\ IF f.asserted THEN UNCHANGED <<f, holds>>
       ELSE /\ holds' = holds \cap f.term
            /\ f' = [f EXCEPT !.asserted = TRUE]
    /\ UNCHANGED g

(* g = f, the flag with it, and f taken from the atoms again. *)
Copy(op) ==
    /\ op = "copy"
    /\ g' = f
    /\ \E t \in Atom : f' = Bool(t)
    /\ UNCHANGED holds

Next ==
    \E op \in Calls :
       /\ call' = op
       /\ Operator(op) \/ Assign(op) \/ AssertTerm(op) \/ Copy(op)

Spec == Init /\ [][Next]_vars

-----------------------------------------------------------------------------
TypeOK ==
    /\ {f, g} \subseteq [term : SUBSET Valuation, asserted : BOOLEAN]
    /\ holds \in SUBSET Valuation
    /\ call \in Calls \cup {"none"}

(* A Bool that says it is asserted does hold, whatever was built from it,    *)
(* copied or widened with |= since (bool.hpp:39-45); &= is the exception.    *)
AssertedHolds == \A x \in {f, g} : x.asserted => holds \subseteq x.term
==============================================================================
