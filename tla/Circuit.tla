------------------------------ MODULE Circuit -------------------------------
(***************************************************************************)
(* smt_circuit::Circuit: the constructor that turns a CircuitSchema into   *)
(* symbolic variables and assertions of a solver.  One step per iteration  *)
(* of its loops.                                                           *)
(*                                                                         *)
(* Arithmetic is that of the integers modulo Mod: the field size for       *)
(* FFTerm and FFITerm, 2^bvsize for BVTerm.  A constant reaches the        *)
(* constructor as a string; Meaning gives the number it denotes, Reading   *)
(* the numbers STerm's constructor may make of it (module Literals), none  *)
(* when cvc5 rejects it.  A formula is the record of what the code builds: *)
(* "pin" x == c, "plonk" and "r1cs" the two shapes of a gate, "eq", "ne",  *)
(* "someeq" and "somene" the relations between two circuits.               *)
(***************************************************************************)
EXTENDS Integers, Sequences, FiniteSets, Functions

CONSTANTS
    Mod,        \* modulus of the arithmetic
    Literal,    \* strings that occur as selectors and variable values
    Zero, One,  \* the strings "0" and "1"
    Meaning,    \* Meaning[l]: the number l denotes
    Reading,    \* Reading[l]: the numbers STerm(l) may yield
    Name,       \* names of variables, "zero" and "one" among them
    Schema,     \* the CircuitSchemas the constructor may be given
    tag         \* the circuit's tag

Ring == 0 .. Mod - 1

(* What the exporters of src/barretenberg-verification guarantee: copy       *)
(* constraints are resolved in wires and names (external).                   *)
Index(s) == 0 .. s.num_vars - 1
RealIndex(s) == {s.real_variable_index[i] : i \in Index(s)} \cup {0, 1}

PlonkGate(s) == [q : [1 .. 5 -> Literal], w : [1 .. 3 -> RealIndex(s)]]
LinearForm(s) == Seq(Literal \X RealIndex(s))
R1csGate(s) == [A : LinearForm(s), B : LinearForm(s), C : LinearForm(s)]

WellFormed(s) ==
    /\ s.num_vars \in Nat /\ s.num_vars > 1
    /\ s.variables \in [Index(s) -> Literal]
    /\ s.real_variable_index \in [Index(s) -> Index(s)]
    /\ \A i \in Index(s) :
          s.real_variable_index[s.real_variable_index[i]] = s.real_variable_index[i]
    /\ s.public_inps \in Seq(Index(s))
    /\ DOMAIN s.vars_of_interest \subseteq RealIndex(s)
    /\ \A i \in DOMAIN s.vars_of_interest : s.vars_of_interest[i] \in Name
    /\ s.isPLONK \in BOOLEAN
    /\ IF s.isPLONK THEN s.gates \in Seq(PlonkGate(s)) ELSE s.gates \in Seq(R1csGate(s))

CircuitConstants ==
    /\ Mod \in Nat /\ Mod > 1
    /\ Zero \in Literal /\ One \in Literal
    /\ Meaning \in [Literal -> Ring]
    /\ Reading \in [Literal -> SUBSET Ring]
    /\ Meaning[Zero] = 0 /\ Meaning[One] = 1
    /\ Reading[Zero] # {} /\ Reading[One] # {}
    /\ "zero" \in Name /\ "one" \in Name
    /\ \A s \in Schema : WellFormed(s)

ASSUME ConstantsAssumption == CircuitConstants

VARIABLES
    schema,                 \* the schema, and the arithmetization flag isPLONK with it
    phase,                  \* where the constructor is
    cursor,                 \* the index of the current loop
    variable_names,         \* index -> name
    variable_names_inverse, \* name -> index
    symbolic_vars,          \* the real indices that have a symbolic variable
    optimized,              \* index -> no gate has used the variable yet
    asserted                \* the assertions of the solver

own == <<phase, cursor, variable_names, variable_names_inverse, symbolic_vars, optimized>>
vars == <<schema, own, asserted>>

Phase == {"start", "init", "pins", "gates", "public", "done", "threw"}

Init ==
    /\ schema \in Schema
    /\ phase = "start"
    /\ cursor = 0
    /\ variable_names = <<>>
    /\ variable_names_inverse = <<>>
    /\ symbolic_vars = {}
    /\ optimized = <<>>
    /\ asserted = {}

-----------------------------------------------------------------------------
(* A map after insert({k, x}): a key that is present keeps its value. *)
Inserted(map, k, x) == IF k \in DOMAIN map THEN map ELSE [i \in DOMAIN map \cup {k} |-> IF i = k THEN x ELSE map[i]]
(* A map after map[k] = x. *)
Assigned(map, k, x) == [i \in DOMAIN map \cup {k} |-> IF i = k THEN x ELSE map[i]]

(* The name -> index maps the loop over the unordered variable_names may    *)
(* build: of the indices with one name the first one met stays.             *)
Inverses(names) ==
    {inv \in [Range(names) -> DOMAIN names] : \A x \in Range(names) : names[inv[x]] = x}

(* Circuit::Circuit up to the call of init(), and the first lines of init(). *)
Start ==
    /\ phase = "start"
    /\ variable_names' =
          Inserted(Inserted(schema.vars_of_interest, 0, "zero"), 1, "one")
    /\ \E inv \in Inverses(schema.vars_of_interest) :
          variable_names_inverse' = Inserted(Inserted(inv, "zero", 0), "one", 1)
    /\ optimized' = [i \in {0, 1} |-> FALSE]
    /\ symbolic_vars' = {0, 1}
    /\ cursor' = 2
    /\ phase' = "init"
    /\ UNCHANGED <<schema, asserted>>

(* Faulty variant of RealOf: copy constraints ignored. *)
RealOf_Same(s, i) == i
RealOf(s, i) == s.real_variable_index[i]

(* Faulty variant of LoopBound: the last variable is left out. *)
LoopBound_Short(s) == s.num_vars - 1
LoopBound(s) == s.num_vars

(* One iteration of the loop of init(). *)
InitVariable ==
    /\ phase = "init"
    /\ cursor < LoopBound(schema)
    /\ LET real_idx == RealOf(schema, cursor) IN
          IF real_idx \in symbolic_vars
          THEN UNCHANGED <<symbolic_vars, optimized>>
          ELSE /\ symbolic_vars' = symbolic_vars \cup {real_idx}
               /\ optimized' = Inserted(optimized, real_idx, TRUE)
    /\ cursor' = cursor + 1
    /\ UNCHANGED <<schema, phase, variable_names, variable_names_inverse, asserted>>

InitEnd ==
    /\ phase = "init"
    /\ cursor >= LoopBound(schema)
    /\ phase' = "pins"
    /\ UNCHANGED <<schema, cursor, variable_names, variable_names_inverse,
                   symbolic_vars, optimized, asserted>>

Pin(i, c) == [kind |-> "pin", tag |-> tag, var |-> i, val |-> c]

(* The last lines of init(): symbolic_vars[0] == "0", symbolic_vars[1] == "1". *)
PinConstants ==
    /\ phase = "pins"
    /\ \E c0 \in Reading[Zero], c1 \in Reading[One] :
          asserted' = asserted \cup {Pin(0, c0), Pin(1, c1)}
    /\ phase' = "gates"
    /\ cursor' = 1
    /\ UNCHANGED <<schema, variable_names, variable_names_inverse, symbolic_vars, optimized>>

(* cvc5 rejects a string: the exception leaves the constructor, what was    *)
(* asserted before stays in the solver.                                     *)
Throw ==
    /\ phase' = "threw"
    /\ UNCHANGED <<schema, cursor, variable_names, variable_names_inverse, symbolic_vars, asserted>>

(* Faulty variant of Used: the output wire is not marked. *)
Used_NotOutput(opt, w) == Assigned(Assigned(opt, w[1], FALSE), w[2], FALSE)
(* The wires of a gate are marked as used by a constraint. *)
Used(opt, w) == Assigned(Assigned(Assigned(opt, w[1], FALSE), w[2], FALSE), w[3], FALSE)

(* Faulty variant of Coefficients: the test of q_3 looks at q_2. *)
Coefficients_SkipOut(q) ==
    {c \in [1 .. 5 -> Ring] :
        \A k \in 1 .. 5 : IF q[IF k = 4 THEN 3 ELSE k] = Zero THEN c[k] = 0 ELSE c[k] \in Reading[q[k]]}
(* q_m, q_1, q_2, q_3 and q_c as they enter the gate's term: a selector that *)
(* is the string "0" adds no monomial.                                      *)
Coefficients(q) ==
    {c \in [1 .. 5 -> Ring] :
        \A k \in 1 .. 5 : IF q[k] = Zero THEN c[k] = 0 ELSE c[k] \in Reading[q[k]]}

(* Faulty variant of NextGate: the cursor stays. *)
NextGate_Stay(i) == i
(* What prepare_gates returns. *)
NextGate(i) == i + 1

(* Circuit::prepare_gates, PLONK: zero + q_m w_l w_r + ... + q_c == zero. *)
PreparePlonkGate ==
    /\ phase = "gates"
    /\ schema.isPLONK
    /\ cursor <= Len(schema.gates)
    /\ LET gate == schema.gates[cursor] IN
          /\ optimized' = Used(optimized, gate.w)
          /\ \/ \E c \in Coefficients(gate.q) :
                   /\ asserted' = asserted \cup
                         {[kind |-> "plonk", tag |-> tag, w |-> gate.w, c |-> c]}
                   /\ cursor' = NextGate(cursor)
                   /\ UNCHANGED <<schema, phase, variable_names,
                                  variable_names_inverse, symbolic_vars>>
             \/ Coefficients(gate.q) = {} /\ Throw

(* A linear form with the numbers its coefficients are read as. *)
Linear(lc) ==
    {[j \in DOMAIN lc |-> <<c[j], lc[j][2]>>] :
        c \in {d \in [DOMAIN lc -> Ring] : \A j \in DOMAIN lc : d[j] \in Reading[lc[j][1]]}}

(* Circuit::prepare_gates, R1CS: (zero + A)(zero + B) - (zero + C) == zero. *)
PrepareR1csGate ==
    /\ phase = "gates"
    /\ ~schema.isPLONK
    /\ cursor <= Len(schema.gates)
    /\ UNCHANGED optimized
    /\ LET gate == schema.gates[cursor] IN
          \/ \E a \in Linear(gate.A), b \in Linear(gate.B), c \in Linear(gate.C) :
                /\ asserted' = asserted \cup
                      {[kind |-> "r1cs", tag |-> tag, A |-> a, B |-> b, C |-> c]}
                /\ cursor' = NextGate(cursor)
                /\ UNCHANGED <<schema, phase, variable_names,
                               variable_names_inverse, symbolic_vars>>
          \/ /\ Linear(gate.A) = {} \/ Linear(gate.B) = {} \/ Linear(gate.C) = {}
             /\ Throw

GatesEnd ==
    /\ phase = "gates"
    /\ cursor > Len(schema.gates)
    /\ phase' = "public"
    /\ cursor' = 1
    /\ UNCHANGED <<schema, variable_names, variable_names_inverse,
                   symbolic_vars, optimized, asserted>>

(* One iteration of the loop over the public inputs. *)
PinPublic ==
    /\ phase = "public"
    /\ cursor <= Len(schema.public_inps)
    /\ LET i == schema.public_inps[cursor] IN
          \/ \E c \in Reading[schema.variables[i]] :
                /\ asserted' = asserted \cup {Pin(RealOf(schema, i), c)}
                /\ cursor' = cursor + 1
                /\ UNCHANGED <<schema, phase, variable_names,
                               variable_names_inverse, symbolic_vars, optimized>>
          \/ Reading[schema.variables[i]] = {} /\ Throw /\ UNCHANGED optimized

Finish ==
    /\ phase = "public"
    /\ cursor > Len(schema.public_inps)
    /\ phase' = "done"
    /\ UNCHANGED <<schema, cursor, variable_names, variable_names_inverse,
                   symbolic_vars, optimized, asserted>>

Next ==
    \/ Start
    \/ InitVariable
    \/ InitEnd
    \/ PinConstants
    \/ PreparePlonkGate
    \/ PrepareR1csGate
    \/ GatesEnd
    \/ PinPublic
    \/ Finish

Spec == Init /\ [][Next]_vars

(* The constructor runs on one thread and blocks on nothing. *)
FairSpec == Spec /\ WF_vars(Next)

-----------------------------------------------------------------------------
(* What cvc5 understands of the formulas.  A valuation maps <<tag, index>>  *)
(* to a number.                                                             *)

(* start + f[i] + f[j] + ... *)
Total(start, f) == FoldFunction(LAMBDA x, y : x + y, start, f)

HoldsPlonk(f, v) ==
    LET zero == v[<<f.tag, 0>>]
        l == v[<<f.tag, f.w[1]>>]
        r == v[<<f.tag, f.w[2]>>]
        o == v[<<f.tag, f.w[3]>>]
    IN (zero + l * r * f.c[1] + l * f.c[2] + r * f.c[3] + o * f.c[4] + f.c[5]) % Mod = zero

HoldsR1cs(f, v) ==
    LET zero == v[<<f.tag, 0>>]
        Side(lc) == Total(zero, [j \in DOMAIN lc |-> v[<<f.tag, lc[j][2]>>] * lc[j][1]])
    IN (Side(f.A) * Side(f.B) - Side(f.C)) % Mod = zero

(* The formulas of one circuit. *)
HoldsOwn(f, v) ==
    CASE f.kind = "pin" -> v[<<f.tag, f.var>>] = f.val
      [] f.kind = "plonk" -> HoldsPlonk(f, v)
      [] f.kind = "r1cs" -> HoldsR1cs(f, v)

-----------------------------------------------------------------------------
(* What the schema means, independently of how it is encoded: w gives each  *)
(* real index a number.                                                     *)

PlonkHolds(gate, w) ==
    LET q == [k \in 1 .. 5 |-> Meaning[gate.q[k]]]
        x == [k \in 1 .. 3 |-> w[gate.w[k]]]
    IN (q[1] * x[1] * x[2] + q[2] * x[1] + q[3] * x[2] + q[4] * x[3] + q[5]) % Mod = 0

R1csHolds(gate, w) ==
    LET Side(lc) == Total(0, [j \in DOMAIN lc |-> Meaning[lc[j][1]] * w[lc[j][2]]])
    IN (Side(gate.A) * Side(gate.B) - Side(gate.C)) % Mod = 0

GateHolds(s, gate, w) == IF s.isPLONK THEN PlonkHolds(gate, w) ELSE R1csHolds(gate, w)

(* The gates and the public inputs. *)
Constrained(s, w) ==
    /\ \A i \in DOMAIN s.gates : GateHolds(s, s.gates[i], w)
    /\ \A i \in Range(s.public_inps) :
          w[s.real_variable_index[i]] = Meaning[s.variables[i]]

(* Variables 0 and 1 of the circuit are its constants, wherever copy         *)
(* constraints have put them.                                               *)
ConstantsAre(s, w) == w[s.real_variable_index[0]] = 0 /\ w[s.real_variable_index[1]] = 1

(* The symbolic variables "zero" and "one" are 0 and 1 even where they stand *)
(* for no variable of the circuit.                                          *)
Anchored(w) == w[0] = 0 /\ w[1] = 1

IsWitness(s, w) == Anchored(w) /\ ConstantsAre(s, w) /\ Constrained(s, w)

(* An exporter fixes its constants with gates of their own                  *)
(* (put_constant_variable of barretenberg).  The constructor relies on it    *)
(* when a copy constraint makes another index stand for 0 or 1: it pins      *)
(* symbolic_vars[0] and symbolic_vars[1], which no gate then mentions        *)
(* (external).                                                              *)
ConstantsFixed(s) ==
    \A w \in [RealIndex(s) -> Ring] :
        Anchored(w) /\ Constrained(s, w) => ConstantsAre(s, w)

(* Real indices a gate mentions. *)
LinearWires(lc) == {lc[j][2] : j \in DOMAIN lc}
GateWires(s, gate) ==
    IF s.isPLONK THEN Range(gate.w)
    ELSE LinearWires(gate.A) \cup LinearWires(gate.B) \cup LinearWires(gate.C)
GatedIndex(s) == UNION {GateWires(s, s.gates[i]) : i \in DOMAIN s.gates}

LinearLiterals(lc) == {lc[j][1] : j \in DOMAIN lc}
GateLiterals(s, gate) ==
    IF s.isPLONK THEN Range(gate.q)
    ELSE LinearLiterals(gate.A) \cup LinearLiterals(gate.B) \cup LinearLiterals(gate.C)
LiteralsOf(s) ==
    {Zero, One} \cup (UNION {GateLiterals(s, s.gates[i]) : i \in DOMAIN s.gates})
                \cup {s.variables[i] : i \in Range(s.public_inps)}

(* No string of the schema is read as another number than it denotes. *)
ReadsRight(s) == \A l \in LiteralsOf(s) : Reading[l] \subseteq {Meaning[l]}

FormulaIndex(f) ==
    CASE f.kind = "pin" -> {f.var}
      [] f.kind = "plonk" -> Range(f.w)
      [] f.kind = "r1cs" -> LinearWires(f.A) \cup LinearWires(f.B) \cup LinearWires(f.C)

-----------------------------------------------------------------------------
(* Types of the state. *)
TypeOK ==
    /\ WellFormed(schema)
    /\ phase \in Phase
    /\ cursor \in Nat
    /\ DOMAIN variable_names \subseteq Nat
    /\ \A i \in DOMAIN variable_names : variable_names[i] \in Name
    /\ DOMAIN variable_names_inverse \subseteq Name
    /\ symbolic_vars \subseteq RealIndex(schema)
    /\ \A i \in DOMAIN optimized : optimized[i] \in BOOLEAN
    /\ DOMAIN optimized \subseteq Nat

(* No lookup in symbolic_vars creates a null term: what the assertions      *)
(* mention, what a name leads to and, once init() is over, what any index   *)
(* leads to through real_variable_index has a symbolic variable             *)
(* (circuit.cpp:61-82, 466-473, circuit.hpp:66).                            *)
NoNullTerm ==
    /\ \A f \in asserted : FormulaIndex(f) \subseteq symbolic_vars
    /\ phase \in {"gates", "public", "done"} =>
          /\ Range(variable_names_inverse) \subseteq symbolic_vars
          /\ \A i \in Index(schema) : schema.real_variable_index[i] \in symbolic_vars

(* When a PLONK circuit is built, the variables left marked optimized, which *)
(* unique_witness will not compare, are exactly those no gate uses, the     *)
(* constants excepted (circuit.cpp:39-40, 77, 392-394, 598).                *)
OptimizedMeansUnused ==
    (phase = "done" /\ schema.isPLONK) =>
        {i \in DOMAIN optimized : optimized[i]}
            = RealIndex(schema) \ (GatedIndex(schema) \cup {0, 1})

(* When no string is read as another number and the exporter's gates fix    *)
(* its constants, the assertions of a built circuit have exactly the        *)
(* circuit's witnesses as solutions: gates, constants and public inputs,    *)
(* index 0 and 1 included when they are shared by a copy constraint         *)
(* (circuit.cpp:12-82, 365-458).                                            *)
EncodingExact ==
    (phase = "done" /\ ReadsRight(schema) /\ ConstantsFixed(schema)) =>
        \A v \in [{tag} \X RealIndex(schema) -> Ring] :
            (\A f \in asserted : HoldsOwn(f, v))
                <=> IsWitness(schema, [i \in RealIndex(schema) |-> v[<<tag, i>>]])

(* What the documentation promises of every schema, readable strings or     *)
(* not: "Adds all the gate constraints to the solver." (circuit.cpp:360),   *)
(* with constants that are a "term with predefined constant value"          *)
(* (term.cpp:20).                                                           *)
EncodingExactAsWritten ==
    (phase = "done" /\ ConstantsFixed(schema)) =>
        \A v \in [{tag} \X RealIndex(schema) -> Ring] :
            (\A f \in asserted : HoldsOwn(f, v))
                <=> IsWitness(schema, [i \in RealIndex(schema) |-> v[<<tag, i>>]])

(* The constructor returns or throws (circuit.cpp:46-49: the gate loop       *)
(* advances by what prepare_gates returns).                                  *)
Terminates == <>(phase \in {"done", "threw"})
=============================================================================
