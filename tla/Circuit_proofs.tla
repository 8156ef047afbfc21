--------------------------- MODULE Circuit_proofs ---------------------------
(***************************************************************************)
(* Proofs about the tables of Circuit, for every modulus, every set of     *)
(* strings with any way of reading them, every well-formed schema and every *)
(* tag.                                                                    *)
(*                                                                         *)
(* The invariant has a part for each table the constructor fills: the      *)
(* symbolic variables, the marks in optimized, and the assertions. What    *)
(* the assertions mean is the second half of the module.                   *)
(***************************************************************************)
EXTENDS Circuit, TLAPS

Built == {"pins", "gates", "public", "done", "threw"}

CursorInv ==
    /\ phase = "init" => cursor \in 2 .. schema.num_vars
    /\ phase = "gates" => cursor \in 1 .. Len(schema.gates) + 1
    /\ phase = "public" => cursor \in 1 .. Len(schema.public_inps) + 1

(* Once init() is over, exactly the real indices have symbolic variables.   *)
VariablesInv ==
    /\ phase = "init" =>
          symbolic_vars = {0, 1} \cup {schema.real_variable_index[i] : i \in 2 .. cursor - 1}
    /\ phase \in Built => symbolic_vars = RealIndex(schema)
    /\ Range(variable_names_inverse) \subseteq RealIndex(schema)

(* The wires of the first k gates of a PLONK circuit. *)
WiresOf(s, k) == UNION {Range(s.gates[j].w) : j \in 1 .. k}

(* The marks are those of the variables that no gate up to k uses.          *)
MarkedUpTo(s, k) ==
    /\ DOMAIN optimized = symbolic_vars
    /\ \A i \in symbolic_vars : optimized[i] <=> i \notin {0, 1} \cup WiresOf(s, k)

OptimizedInv ==
    /\ phase \in {"init", "pins"} => MarkedUpTo(schema, 0)
    /\ (phase = "gates" /\ schema.isPLONK) => MarkedUpTo(schema, cursor - 1)
    /\ (phase \in {"public", "done"} /\ schema.isPLONK) => MarkedUpTo(schema, Len(schema.gates))

(* The assertions of this circuit, in a solver that may hold others.        *)
OwnKind == {"pin", "plonk", "r1cs"}
OwnFormulas == {f \in asserted : f.kind \in OwnKind /\ f.tag = tag}

FormulasInv ==
    /\ phase \in {"start", "init"} => OwnFormulas = {}
    /\ \A f \in OwnFormulas :
          /\ FormulaIndex(f) \subseteq RealIndex(schema)
          /\ schema.isPLONK => f.kind # "r1cs"

(* On its own the constructor has the solver to itself. *)
Alone == asserted = OwnFormulas

TablesInv == TypeOK /\ CursorInv /\ VariablesInv /\ OptimizedInv /\ FormulasInv

-----------------------------------------------------------------------------
(* Facts about schemas. *)

LEMMA SchemaTypes ==
    ASSUME NEW s, WellFormed(s)
    PROVE  /\ s.num_vars \in Nat /\ s.num_vars > 1
           /\ s.real_variable_index \in [Index(s) -> Index(s)]
           /\ Index(s) \subseteq Nat
           /\ RealIndex(s) \subseteq Index(s)
           /\ {0, 1} \subseteq RealIndex(s)
           /\ \A i \in Index(s) : s.real_variable_index[i] \in RealIndex(s)
<1>1. /\ s.num_vars \in Nat /\ s.num_vars > 1
      /\ s.real_variable_index \in [Index(s) -> Index(s)]
    BY DEF WellFormed
<1>2. Index(s) \subseteq Nat /\ {0, 1} \subseteq Index(s)
    BY <1>1 DEF Index
<1>3. RealIndex(s) \subseteq Index(s)
    BY <1>1, <1>2 DEF RealIndex
<1>4. {0, 1} \subseteq RealIndex(s)
    BY DEF RealIndex
<1>5. \A i \in Index(s) : s.real_variable_index[i] \in RealIndex(s)
    BY DEF RealIndex
<1> QED
    BY <1>1, <1>2, <1>3, <1>4, <1>5

LEMMA SchemaLengths ==
    ASSUME NEW s, WellFormed(s)
    PROVE  /\ Len(s.gates) \in Nat /\ DOMAIN s.gates = 1 .. Len(s.gates)
           /\ s.public_inps \in Seq(Index(s)) /\ Len(s.public_inps) \in Nat
           /\ DOMAIN s.public_inps = 1 .. Len(s.public_inps)
<1>1. s.gates \in Seq(PlonkGate(s)) \/ s.gates \in Seq(R1csGate(s))
    BY DEF WellFormed
<1>2. s.public_inps \in Seq(Index(s))
    BY DEF WellFormed
<1> QED
    BY <1>1, <1>2

LEMMA PlonkGateTypes ==
    ASSUME NEW s, WellFormed(s), s.isPLONK, NEW i \in 1 .. Len(s.gates)
    PROVE  /\ s.gates[i].q \in [1 .. 5 -> Literal]
           /\ s.gates[i].w \in [1 .. 3 -> RealIndex(s)]
<1>1. s.gates \in Seq(PlonkGate(s))
    BY DEF WellFormed
<1>2. s.gates[i] \in PlonkGate(s)
    BY <1>1
<1> QED
    BY <1>2 DEF PlonkGate

LEMMA R1csGateTypes ==
    ASSUME NEW s, WellFormed(s), ~s.isPLONK, NEW i \in 1 .. Len(s.gates)
    PROVE  /\ s.gates[i].A \in LinearForm(s)
           /\ s.gates[i].B \in LinearForm(s)
           /\ s.gates[i].C \in LinearForm(s)
<1>1. s.gates \in Seq(R1csGate(s))
    BY DEF WellFormed
<1>2. s.gates[i] \in R1csGate(s)
    BY <1>1
<1> QED
    BY <1>2 DEF R1csGate

(* Reading a linear form keeps its wires. *)
LEMMA LinearWiresKept ==
    ASSUME NEW s, NEW lc \in LinearForm(s), NEW t \in Linear(lc)
    PROVE  LinearWires(t) \subseteq RealIndex(s)
<1>1. lc \in [1 .. Len(lc) -> Literal \X RealIndex(s)]
    BY DEF LinearForm
<1>2. PICK c \in [DOMAIN lc -> Ring] : t = [j \in DOMAIN lc |-> <<c[j], lc[j][2]>>]
    BY DEF Linear
<1>3. \A j \in DOMAIN lc : t[j][2] = lc[j][2] /\ lc[j][2] \in RealIndex(s)
    BY <1>1, <1>2
<1> QED
    BY <1>2, <1>3 DEF LinearWires

(* Facts about maps. *)

LEMMA InsertedFacts ==
    ASSUME NEW map, NEW k, NEW x
    PROVE  /\ DOMAIN Inserted(map, k, x) = DOMAIN map \cup {k}
           /\ \A i \in DOMAIN map : Inserted(map, k, x)[i] = map[i]
           /\ k \notin DOMAIN map => Inserted(map, k, x)[k] = x
BY DEF Inserted

LEMMA UsedFacts ==
    ASSUME NEW opt, NEW w
    PROVE  /\ DOMAIN Used(opt, w) = DOMAIN opt \cup {w[1], w[2], w[3]}
           /\ \A i \in DOMAIN Used(opt, w) :
                 Used(opt, w)[i] = IF i \in {w[1], w[2], w[3]} THEN FALSE ELSE opt[i]
BY DEF Used, Assigned

(* Facts about the assertions. *)

LEMMA OwnMore ==
    ASSUME NEW F, asserted' = asserted \cup F, \A f \in F : f.kind \in OwnKind /\ f.tag = tag
    PROVE  OwnFormulas' = OwnFormulas \cup F
BY DEF OwnFormulas

LEMMA OwnOneMore ==
    ASSUME NEW g, asserted' = asserted \cup {g}, g.kind \in OwnKind, g.tag = tag
    PROVE  OwnFormulas' = OwnFormulas \cup {g}
BY DEF OwnFormulas

LEMMA OwnSame ==
    ASSUME asserted' = asserted
    PROVE  OwnFormulas' = OwnFormulas
BY DEF OwnFormulas

(* The constructor asserts formulas of its own circuit and withdraws none.  *)
LEMMA NextAsserts ==
    ASSUME Next
    PROVE  /\ schema' = schema
           /\ asserted \subseteq asserted'
           /\ \A f \in asserted' \ asserted : f.kind \in OwnKind /\ f.tag = tag
<1>1. CASE Start \/ InitVariable \/ InitEnd \/ GatesEnd \/ Finish
    BY <1>1 DEF Start, InitVariable, InitEnd, GatesEnd, Finish
<1>2. CASE PinConstants
    BY <1>2 DEF PinConstants, Pin, OwnKind
<1>3. CASE PreparePlonkGate
    BY <1>3 DEF PreparePlonkGate, Throw, OwnKind
<1>4. CASE PrepareR1csGate
    BY <1>4 DEF PrepareR1csGate, Throw, OwnKind
<1>5. CASE PinPublic
    BY <1>5 DEF PinPublic, Throw, Pin, OwnKind
<1> QED
    BY <1>1, <1>2, <1>3, <1>4, <1>5 DEF Next

LEMMA AloneStays ==
    ASSUME Alone, [Next]_vars
    PROVE  Alone'
<1>1. CASE Next
    <2>1. \A f \in asserted' : f \in asserted \/ (f.kind \in OwnKind /\ f.tag = tag)
        BY <1>1, NextAsserts
    <2> QED
        BY <2>1 DEF Alone, OwnFormulas
<1>2. CASE UNCHANGED vars
    BY <1>2 DEF vars, Alone, OwnFormulas
<1> QED
    BY <1>1, <1>2

-----------------------------------------------------------------------------
LEMMA InitTables == Init => TablesInv
<1> SUFFICES ASSUME Init PROVE TablesInv
    OBVIOUS
<1>1. WellFormed(schema)
    BY ConstantsAssumption DEF CircuitConstants, Init
<1>2. TypeOK
    BY <1>1 DEF TypeOK, Init, Phase
<1>3. CursorInv /\ OptimizedInv /\ FormulasInv
    BY DEF Init, CursorInv, OptimizedInv, FormulasInv, OwnFormulas
<1>4. VariablesInv
    BY DEF Init, VariablesInv, Built, Range
<1> QED
    BY <1>2, <1>3, <1>4 DEF TablesInv

(* The schema stays, and with it what is known of it. *)
LEMMA SchemaStays ==
    ASSUME TablesInv, schema' = schema
    PROVE  WellFormed(schema) /\ WellFormed(schema')
BY DEF TablesInv, TypeOK

LEMMA StartTables ==
    ASSUME TablesInv, Start
    PROVE  TablesInv'
<1>1. WellFormed(schema) /\ schema' = schema
    BY DEF TablesInv, TypeOK, Start
<1>2. PICK inv \in Inverses(schema.vars_of_interest) :
          variable_names_inverse' = Inserted(Inserted(inv, "zero", 0), "one", 1)
    BY DEF Start
<1>3. /\ DOMAIN schema.vars_of_interest \subseteq RealIndex(schema)
      /\ \A i \in DOMAIN schema.vars_of_interest : schema.vars_of_interest[i] \in Name
    BY <1>1 DEF WellFormed
<1>4. /\ DOMAIN inv \subseteq Name
      /\ \A n \in DOMAIN inv : inv[n] \in RealIndex(schema)
    BY <1>3 DEF Inverses, Range
<1>5. {0, 1} \subseteq RealIndex(schema) /\ RealIndex(schema) \subseteq Nat
    BY <1>1, SchemaTypes
<1>6. /\ DOMAIN variable_names_inverse' \subseteq Name
      /\ \A n \in DOMAIN variable_names_inverse' : variable_names_inverse'[n] \in RealIndex(schema)
    BY <1>2, <1>4, <1>5, ConstantsAssumption DEF CircuitConstants, Inserted
<1>7. /\ DOMAIN variable_names' \subseteq Nat
      /\ \A i \in DOMAIN variable_names' : variable_names'[i] \in Name
    BY <1>3, <1>5, ConstantsAssumption DEF CircuitConstants, Start, Inserted
<1>8. /\ symbolic_vars' = {0, 1} /\ phase' = "init" /\ cursor' = 2
      /\ optimized' = [i \in {0, 1} |-> FALSE] /\ asserted' = asserted
    BY DEF Start
<1>9. TypeOK'
    BY <1>1, <1>5, <1>6, <1>7, <1>8 DEF TypeOK, Phase
<1>10. CursorInv'
    BY <1>1, <1>8, SchemaTypes DEF CursorInv
<1>11. VariablesInv'
    BY <1>1, <1>6, <1>8 DEF VariablesInv, Built, Range
<1>12. OptimizedInv'
    BY <1>8 DEF OptimizedInv, MarkedUpTo
<1>13. FormulasInv'
    BY <1>1, <1>8, OwnSame DEF TablesInv, FormulasInv, Start
<1> QED
    BY <1>9, <1>10, <1>11, <1>12, <1>13 DEF TablesInv

LEMMA InitVariableTables ==
    ASSUME TablesInv, InitVariable
    PROVE  TablesInv'
<1> DEFINE r == schema.real_variable_index[cursor]
<1>1. /\ WellFormed(schema) /\ schema' = schema /\ phase = "init" /\ phase' = "init"
      /\ cursor' = cursor + 1 /\ asserted' = asserted
      /\ variable_names' = variable_names
      /\ variable_names_inverse' = variable_names_inverse
    BY DEF TablesInv, TypeOK, InitVariable
<1>2. cursor \in 2 .. schema.num_vars - 1 /\ cursor \in Index(schema) /\ schema.num_vars \in Nat
    BY <1>1, SchemaTypes DEF TablesInv, CursorInv, InitVariable, LoopBound, Index
<1>3. r \in RealIndex(schema) /\ RealIndex(schema) \subseteq Nat
    BY <1>1, <1>2, SchemaTypes
<1>4. /\ symbolic_vars' = symbolic_vars \cup {r}
      /\ \/ r \in symbolic_vars /\ optimized' = optimized
         \/ r \notin symbolic_vars /\ optimized' = Inserted(optimized, r, TRUE)
    BY DEF InitVariable, RealOf
<1>5. /\ DOMAIN optimized = symbolic_vars /\ symbolic_vars \subseteq RealIndex(schema)
      /\ \A i \in symbolic_vars : optimized[i] \in BOOLEAN /\ (optimized[i] <=> i \notin {0, 1})
      /\ {0, 1} \subseteq symbolic_vars
    BY <1>1 DEF TablesInv, TypeOK, OptimizedInv, VariablesInv, MarkedUpTo, WiresOf
<1>6. /\ DOMAIN optimized' = symbolic_vars'
      /\ \A i \in symbolic_vars' : optimized'[i] \in BOOLEAN /\ (optimized'[i] <=> i \notin {0, 1})
    <2>1. CASE r \in symbolic_vars /\ optimized' = optimized
        BY <1>4, <1>5, <2>1
    <2>2. CASE r \notin symbolic_vars /\ optimized' = Inserted(optimized, r, TRUE)
        BY <1>4, <1>5, <2>2 DEF Inserted
    <2> QED
        BY <1>4, <2>1, <2>2
<1>7. TypeOK'
    BY <1>1, <1>2, <1>3, <1>4, <1>5, <1>6 DEF TablesInv, TypeOK
<1>8. CursorInv'
    BY <1>1, <1>2 DEF CursorInv
<1>9. VariablesInv'
    <2>1. symbolic_vars = {0, 1} \cup {schema.real_variable_index[i] : i \in 2 .. cursor - 1}
        BY <1>1 DEF TablesInv, VariablesInv
    <2>2. 2 .. cursor = (2 .. cursor - 1) \cup {cursor}
        BY <1>2
    <2>3. symbolic_vars' = {0, 1} \cup {schema.real_variable_index[i] : i \in 2 .. cursor}
        BY <1>4, <2>1, <2>2
    <2>4. cursor' - 1 = cursor
        BY <1>1, <1>2
    <2> QED
        BY <1>1, <2>3, <2>4 DEF TablesInv, VariablesInv, Built
<1>10. OptimizedInv'
    BY <1>1, <1>6 DEF OptimizedInv, MarkedUpTo, WiresOf
<1>11. FormulasInv'
    BY <1>1, OwnSame DEF TablesInv, FormulasInv
<1> QED
    BY <1>7, <1>8, <1>9, <1>10, <1>11 DEF TablesInv

(* The loop of init() starts at 2, yet it reaches the real indices of 0 and *)
(* 1 as well: a real index is its own real index.                           *)
LEMMA AllReal ==
    ASSUME NEW s, WellFormed(s)
    PROVE  {0, 1} \cup {s.real_variable_index[i] : i \in 2 .. s.num_vars - 1} = RealIndex(s)
<1>1. /\ s.num_vars \in Nat
      /\ \A i \in Index(s) : s.real_variable_index[i] \in Index(s)
    BY SchemaTypes
<1>2. \A i \in Index(s) : s.real_variable_index[s.real_variable_index[i]] = s.real_variable_index[i]
    BY DEF WellFormed
<1>3. \A i \in Index(s) : i \in {0, 1} \/ i \in 2 .. s.num_vars - 1
    BY <1>1 DEF Index
<1>4. \A i \in Index(s) : s.real_variable_index[i] \in {0, 1} \cup {s.real_variable_index[j] : j \in 2 .. s.num_vars - 1}
    BY <1>1, <1>2, <1>3
<1>5. 2 .. s.num_vars - 1 \subseteq Index(s)
    BY <1>1 DEF Index
<1> QED
    BY <1>4, <1>5 DEF RealIndex

LEMMA InitEndTables ==
    ASSUME TablesInv, InitEnd
    PROVE  TablesInv'
<1>1. /\ WellFormed(schema) /\ schema' = schema /\ phase = "init" /\ phase' = "pins"
      /\ cursor' = cursor /\ asserted' = asserted /\ symbolic_vars' = symbolic_vars
      /\ optimized' = optimized /\ variable_names' = variable_names
      /\ variable_names_inverse' = variable_names_inverse
    BY DEF TablesInv, TypeOK, InitEnd
<1>2. cursor = schema.num_vars
    BY <1>1, SchemaTypes DEF TablesInv, CursorInv, InitEnd, LoopBound
<1>3. symbolic_vars = RealIndex(schema)
    BY <1>1, <1>2, AllReal DEF TablesInv, VariablesInv
<1>4. TypeOK' /\ CursorInv' /\ FormulasInv'
    BY <1>1, OwnSame DEF TablesInv, TypeOK, Phase, CursorInv, FormulasInv
<1>5. VariablesInv' /\ OptimizedInv'
    BY <1>1, <1>3 DEF TablesInv, VariablesInv, OptimizedInv, MarkedUpTo
<1> QED
    BY <1>4, <1>5 DEF TablesInv

LEMMA PinConstantsTables ==
    ASSUME TablesInv, PinConstants
    PROVE  TablesInv'
<1>1. /\ WellFormed(schema) /\ schema' = schema /\ phase = "pins" /\ phase' = "gates"
      /\ cursor' = 1 /\ symbolic_vars' = symbolic_vars
      /\ optimized' = optimized /\ variable_names' = variable_names
      /\ variable_names_inverse' = variable_names_inverse
    BY DEF TablesInv, TypeOK, PinConstants
<1>2. TypeOK'
    BY <1>1 DEF TablesInv, TypeOK, Phase
<1>3. CursorInv'
    BY <1>1, SchemaLengths DEF CursorInv
<1>4. VariablesInv' /\ OptimizedInv'
    BY <1>1 DEF TablesInv, VariablesInv, OptimizedInv, MarkedUpTo, Built
<1>5. FormulasInv'
    <2>1. PICK c0, c1 : asserted' = asserted \cup {Pin(0, c0), Pin(1, c1)}
        BY DEF PinConstants
    <2>2. \A c : FormulaIndex(Pin(0, c)) = {0} /\ FormulaIndex(Pin(1, c)) = {1}
        BY DEF FormulaIndex, Pin
    <2>3. {0, 1} \subseteq RealIndex(schema)
        BY <1>1, SchemaTypes
    <2>4. OwnFormulas' = OwnFormulas \cup {Pin(0, c0), Pin(1, c1)}
        <3>1. \A f \in {Pin(0, c0), Pin(1, c1)} : f.kind \in OwnKind /\ f.tag = tag
            BY DEF Pin, OwnKind
        <3> QED
            BY <2>1, <3>1, OwnMore
    <2>5. Pin(0, c0).kind = "pin" /\ Pin(1, c1).kind = "pin"
        BY DEF Pin
    <2> QED
        BY <1>1, <2>2, <2>3, <2>4, <2>5 DEF TablesInv, FormulasInv
<1> QED
    BY <1>2, <1>3, <1>4, <1>5 DEF TablesInv

(* The marks after a gate. *)
LEMMA MarksAfterGate ==
    ASSUME NEW s, WellFormed(s), s.isPLONK, NEW k \in 1 .. Len(s.gates)
    PROVE  WiresOf(s, k) = WiresOf(s, k - 1) \cup {s.gates[k].w[1], s.gates[k].w[2], s.gates[k].w[3]}
<1>1. Len(s.gates) \in Nat /\ s.gates[k].w \in [1 .. 3 -> RealIndex(s)]
    BY SchemaLengths, PlonkGateTypes
<1>2. 1 .. k = (1 .. k - 1) \cup {k}
    BY <1>1
<1>3. Range(s.gates[k].w) = {s.gates[k].w[1], s.gates[k].w[2], s.gates[k].w[3]}
    BY <1>1 DEF Range
<1> QED
    BY <1>2, <1>3 DEF WiresOf

LEMMA PreparePlonkGateTables ==
    ASSUME TablesInv, PreparePlonkGate
    PROVE  TablesInv'
<1> DEFINE gate == schema.gates[cursor]
           W == {gate.w[1], gate.w[2], gate.w[3]}
<1>1. /\ WellFormed(schema) /\ schema' = schema /\ phase = "gates" /\ schema.isPLONK
      /\ symbolic_vars' = symbolic_vars /\ variable_names' = variable_names
      /\ variable_names_inverse' = variable_names_inverse
      /\ optimized' = Used(optimized, gate.w)
    BY DEF TablesInv, TypeOK, PreparePlonkGate, Throw
<1>2. cursor \in 1 .. Len(schema.gates) /\ Len(schema.gates) \in Nat
    BY <1>1, SchemaLengths DEF TablesInv, CursorInv, PreparePlonkGate
<1>3. gate.w \in [1 .. 3 -> RealIndex(schema)] /\ W \subseteq RealIndex(schema)
    BY <1>1, <1>2, PlonkGateTypes
<1>4. /\ symbolic_vars = RealIndex(schema) /\ DOMAIN optimized = symbolic_vars
      /\ \A i \in symbolic_vars : optimized[i] \in BOOLEAN
      /\ \A i \in symbolic_vars : optimized[i] <=> i \notin {0, 1} \cup WiresOf(schema, cursor - 1)
    BY <1>1 DEF TablesInv, TypeOK, VariablesInv, OptimizedInv, MarkedUpTo, Built
<1>5. /\ DOMAIN optimized' = symbolic_vars
      /\ \A i \in symbolic_vars : optimized'[i] = IF i \in W THEN FALSE ELSE optimized[i]
      /\ \A i \in symbolic_vars : optimized'[i] \in BOOLEAN
    <2>1. /\ DOMAIN Used(optimized, gate.w) = DOMAIN optimized \cup W
          /\ \A i \in DOMAIN Used(optimized, gate.w) :
                 Used(optimized, gate.w)[i] = IF i \in W THEN FALSE ELSE optimized[i]
        BY UsedFacts
    <2> HIDE DEF W
    <2>2. DOMAIN optimized \cup W = symbolic_vars
        BY <1>3, <1>4
    <2>3. DOMAIN optimized' = symbolic_vars
        BY <1>1, <2>1, <2>2
    <2>4. \A i \in symbolic_vars : optimized'[i] = IF i \in W THEN FALSE ELSE optimized[i]
        BY <1>1, <2>1, <2>2
    <2>5. \A i \in symbolic_vars : optimized'[i] \in BOOLEAN
        BY <1>4, <2>4
    <2> QED
        BY <2>3, <2>4, <2>5
<1>6. \A i \in symbolic_vars : optimized'[i] <=> i \notin {0, 1} \cup WiresOf(schema, cursor)
    <2>1. WiresOf(schema, cursor) = WiresOf(schema, cursor - 1) \cup W
        BY <1>1, <1>2, MarksAfterGate
    <2> QED
        BY <1>4, <1>5, <2>1
<1>7. TypeOK' /\ VariablesInv' /\ CursorInv' /\ OptimizedInv' /\ FormulasInv'
    <2>1. CASE Throw
        <3>1. /\ phase' = "threw" /\ cursor' = cursor /\ asserted' = asserted
            BY <2>1 DEF Throw
        <3>2. TypeOK'
            BY <1>1, <1>4, <1>5, <3>1, SchemaTypes DEF TablesInv, TypeOK, Phase
        <3>3. VariablesInv' /\ CursorInv' /\ OptimizedInv' /\ FormulasInv'
            BY <1>1, <1>4, <3>1, OwnSame
            DEF TablesInv, VariablesInv, Built, CursorInv, OptimizedInv, FormulasInv
        <3> QED
            BY <3>2, <3>3
    <2>2. ASSUME NEW c \in Coefficients(gate.q),
                 asserted' = asserted \cup {[kind |-> "plonk", tag |-> tag, w |-> gate.w, c |-> c]},
                 cursor' = NextGate(cursor), phase' = phase
          PROVE  TypeOK' /\ VariablesInv' /\ CursorInv' /\ OptimizedInv' /\ FormulasInv'
        <3>1. cursor' = cursor + 1 /\ phase' = "gates"
            BY <1>1, <2>2 DEF NextGate
        <3>2. TypeOK'
            BY <1>1, <1>2, <1>4, <1>5, <3>1, SchemaTypes DEF TablesInv, TypeOK, Phase
        <3>3. VariablesInv' /\ CursorInv'
            BY <1>1, <1>2, <1>4, <3>1 DEF TablesInv, VariablesInv, Built, CursorInv
        <3>4. OptimizedInv'
            <4>1. cursor' - 1 = cursor
                BY <1>2, <3>1
            <4> QED
                BY <1>1, <1>5, <1>6, <3>1, <4>1 DEF OptimizedInv, MarkedUpTo
        <3>5. FormulasInv'
            <4>1. FormulaIndex([kind |-> "plonk", tag |-> tag, w |-> gate.w, c |-> c]) = Range(gate.w)
                BY DEF FormulaIndex
            <4>2. Range(gate.w) \subseteq RealIndex(schema)
                BY <1>3 DEF Range
            <4>3. OwnFormulas' = OwnFormulas \cup {[kind |-> "plonk", tag |-> tag, w |-> gate.w, c |-> c]}
                <5> DEFINE f == [kind |-> "plonk", tag |-> tag, w |-> gate.w, c |-> c]
                <5>1. f.kind \in OwnKind /\ f.tag = tag
                    BY DEF OwnKind
                <5> HIDE DEF f
                <5> QED
                    BY <2>2, <5>1, OwnOneMore DEF f
            <4> QED
                BY <1>1, <3>1, <4>1, <4>2, <4>3 DEF TablesInv, FormulasInv
        <3> QED
            BY <3>2, <3>3, <3>4, <3>5
    <2> QED
        BY <2>1, <2>2 DEF PreparePlonkGate
<1> QED
    BY <1>7 DEF TablesInv

LEMMA PrepareR1csGateTables ==
    ASSUME TablesInv, PrepareR1csGate
    PROVE  TablesInv'
<1> DEFINE gate == schema.gates[cursor]
<1>1. /\ WellFormed(schema) /\ schema' = schema /\ phase = "gates" /\ ~schema.isPLONK
      /\ symbolic_vars' = symbolic_vars /\ variable_names' = variable_names
      /\ variable_names_inverse' = variable_names_inverse /\ optimized' = optimized
    BY DEF TablesInv, TypeOK, PrepareR1csGate, Throw
<1>2. cursor \in 1 .. Len(schema.gates) /\ Len(schema.gates) \in Nat
    BY <1>1, SchemaLengths DEF TablesInv, CursorInv, PrepareR1csGate
<1>3. CASE Throw
    <2>1. phase' = "threw" /\ cursor' = cursor /\ asserted' = asserted
        BY <1>3 DEF Throw
    <2>2. TypeOK' /\ VariablesInv' /\ CursorInv' /\ OptimizedInv' /\ FormulasInv'
        BY <1>1, <2>1, OwnSame
        DEF TablesInv, TypeOK, Phase, VariablesInv, Built, CursorInv, OptimizedInv, FormulasInv
    <2> QED
        BY <2>2 DEF TablesInv
<1>4. ASSUME NEW a \in Linear(gate.A), NEW b \in Linear(gate.B), NEW c \in Linear(gate.C),
             asserted' = asserted \cup {[kind |-> "r1cs", tag |-> tag, A |-> a, B |-> b, C |-> c]},
             cursor' = NextGate(cursor), phase' = phase
      PROVE  TablesInv'
    <2>1. cursor' = cursor + 1 /\ phase' = "gates"
        BY <1>1, <1>4 DEF NextGate
    <2>2. TypeOK'
        BY <1>1, <1>2, <2>1 DEF TablesInv, TypeOK, Phase
    <2>3. VariablesInv' /\ CursorInv' /\ OptimizedInv'
        BY <1>1, <1>2, <2>1 DEF TablesInv, VariablesInv, Built, CursorInv, OptimizedInv
    <2>4. FormulasInv'
        <3>1. gate.A \in LinearForm(schema) /\ gate.B \in LinearForm(schema) /\ gate.C \in LinearForm(schema)
            BY <1>1, <1>2, R1csGateTypes
        <3>2. LinearWires(a) \cup LinearWires(b) \cup LinearWires(c) \subseteq RealIndex(schema)
            BY <3>1, LinearWiresKept
        <3>3. FormulaIndex([kind |-> "r1cs", tag |-> tag, A |-> a, B |-> b, C |-> c])
                  = LinearWires(a) \cup LinearWires(b) \cup LinearWires(c)
            BY DEF FormulaIndex
        <3>4. OwnFormulas' = OwnFormulas \cup {[kind |-> "r1cs", tag |-> tag, A |-> a, B |-> b, C |-> c]}
            <4> DEFINE f == [kind |-> "r1cs", tag |-> tag, A |-> a, B |-> b, C |-> c]
            <4>1. f.kind \in OwnKind /\ f.tag = tag
                BY DEF OwnKind
            <4> HIDE DEF f
            <4> QED
                BY <1>4, <4>1, OwnOneMore DEF f
        <3> QED
            BY <1>1, <2>1, <3>2, <3>3, <3>4 DEF TablesInv, FormulasInv
    <2> QED
        BY <2>2, <2>3, <2>4 DEF TablesInv
<1> QED
    BY <1>3, <1>4 DEF PrepareR1csGate

LEMMA GatesEndTables ==
    ASSUME TablesInv, GatesEnd
    PROVE  TablesInv'
<1>1. /\ WellFormed(schema) /\ schema' = schema /\ phase = "gates" /\ phase' = "public"
      /\ cursor' = 1 /\ asserted' = asserted
      /\ symbolic_vars' = symbolic_vars /\ variable_names' = variable_names
      /\ variable_names_inverse' = variable_names_inverse /\ optimized' = optimized
    BY DEF TablesInv, TypeOK, GatesEnd
<1>2. cursor - 1 = Len(schema.gates)
    BY <1>1, SchemaLengths DEF TablesInv, CursorInv, GatesEnd
<1>3. TypeOK' /\ FormulasInv'
    BY <1>1, OwnSame DEF TablesInv, TypeOK, Phase, FormulasInv
<1>4. CursorInv'
    BY <1>1, SchemaLengths DEF CursorInv
<1>5. VariablesInv' /\ OptimizedInv'
    BY <1>1, <1>2 DEF TablesInv, VariablesInv, Built, OptimizedInv, MarkedUpTo
<1> QED
    BY <1>3, <1>4, <1>5 DEF TablesInv

LEMMA PinPublicTables ==
    ASSUME TablesInv, PinPublic
    PROVE  TablesInv'
<1> DEFINE i == schema.public_inps[cursor]
<1>1. /\ WellFormed(schema) /\ schema' = schema /\ phase = "public"
      /\ symbolic_vars' = symbolic_vars /\ variable_names' = variable_names
      /\ variable_names_inverse' = variable_names_inverse /\ optimized' = optimized
    BY DEF TablesInv, TypeOK, PinPublic, Throw
<1>2. cursor \in 1 .. Len(schema.public_inps) /\ Len(schema.public_inps) \in Nat
    BY <1>1, SchemaLengths DEF TablesInv, CursorInv, PinPublic
<1>3. i \in Index(schema) /\ schema.real_variable_index[i] \in RealIndex(schema)
    <2>1. i \in Index(schema)
        BY <1>1, <1>2, SchemaLengths, SchemaTypes
    <2> QED
        BY <1>1, <2>1, SchemaTypes
<1>4. CASE Throw
    <2>1. phase' = "threw" /\ cursor' = cursor /\ asserted' = asserted
        BY <1>4 DEF Throw
    <2>2. TypeOK' /\ VariablesInv' /\ CursorInv' /\ OptimizedInv' /\ FormulasInv'
        BY <1>1, <2>1, OwnSame
        DEF TablesInv, TypeOK, Phase, VariablesInv, Built, CursorInv, OptimizedInv, FormulasInv
    <2> QED
        BY <2>2 DEF TablesInv
<1>5. ASSUME NEW c, asserted' = asserted \cup {Pin(RealOf(schema, i), c)},
             cursor' = cursor + 1, phase' = phase
      PROVE  TablesInv'
    <2>1. TypeOK'
        BY <1>1, <1>2, <1>5 DEF TablesInv, TypeOK
    <2>2. VariablesInv' /\ CursorInv' /\ OptimizedInv'
        BY <1>1, <1>2, <1>5
        DEF TablesInv, VariablesInv, Built, CursorInv, OptimizedInv, MarkedUpTo
    <2>3. FormulasInv'
        <3>1. FormulaIndex(Pin(RealOf(schema, i), c)) = {schema.real_variable_index[i]}
            BY DEF FormulaIndex, Pin, RealOf
        <3>2. OwnFormulas' = OwnFormulas \cup {Pin(RealOf(schema, i), c)}
            <4>1. Pin(RealOf(schema, i), c).kind \in OwnKind /\ Pin(RealOf(schema, i), c).tag = tag
                BY DEF Pin, OwnKind
            <4> QED
                BY <1>5, <4>1, OwnOneMore
        <3>3. Pin(RealOf(schema, i), c).kind = "pin"
            BY DEF Pin
        <3> QED
            BY <1>1, <1>3, <1>5, <3>1, <3>2, <3>3 DEF TablesInv, FormulasInv
    <2> QED
        BY <2>1, <2>2, <2>3 DEF TablesInv
<1> QED
    BY <1>4, <1>5 DEF PinPublic

LEMMA FinishTables ==
    ASSUME TablesInv, Finish
    PROVE  TablesInv'
<1>1. /\ schema' = schema /\ phase = "public" /\ phase' = "done" /\ cursor' = cursor
      /\ asserted' = asserted /\ symbolic_vars' = symbolic_vars
      /\ variable_names' = variable_names
      /\ variable_names_inverse' = variable_names_inverse /\ optimized' = optimized
    BY DEF Finish
<1>2. TypeOK' /\ FormulasInv' /\ CursorInv'
    BY <1>1, OwnSame DEF TablesInv, TypeOK, Phase, FormulasInv, CursorInv
<1>3. VariablesInv' /\ OptimizedInv'
    BY <1>1 DEF TablesInv, VariablesInv, Built, OptimizedInv, MarkedUpTo
<1> QED
    BY <1>2, <1>3 DEF TablesInv

(* A step of another part of the program, which leaves this circuit alone. *)
LEMMA ElsewhereTables ==
    ASSUME TablesInv, UNCHANGED <<schema, own>>, OwnFormulas' = OwnFormulas
    PROVE  TablesInv'
<1>1. /\ schema' = schema /\ phase' = phase /\ cursor' = cursor
      /\ symbolic_vars' = symbolic_vars /\ variable_names' = variable_names
      /\ variable_names_inverse' = variable_names_inverse /\ optimized' = optimized
    BY DEF own
<1>2. TypeOK' /\ FormulasInv' /\ CursorInv'
    BY <1>1 DEF TablesInv, TypeOK, FormulasInv, CursorInv
<1>3. VariablesInv' /\ OptimizedInv'
    BY <1>1 DEF TablesInv, VariablesInv, OptimizedInv, MarkedUpTo
<1> QED
    BY <1>2, <1>3 DEF TablesInv

LEMMA NextTables ==
    ASSUME TablesInv, Next
    PROVE  TablesInv'
BY StartTables, InitVariableTables, InitEndTables, PinConstantsTables,
   PreparePlonkGateTables, PrepareR1csGateTables, GatesEndTables, PinPublicTables, FinishTables
DEF Next

(* The names of the variables, and one way back from each. *)
NamesInv ==
    phase # "start" =>
        /\ variable_names = Inserted(Inserted(schema.vars_of_interest, 0, "zero"), 1, "one")
        /\ \E inv \in Inverses(schema.vars_of_interest) :
              variable_names_inverse = Inserted(Inserted(inv, "zero", 0), "one", 1)

LEMMA InitNames == Init => NamesInv
BY DEF Init, NamesInv

LEMMA NextNames ==
    ASSUME NamesInv, Next
    PROVE  NamesInv'
<1>1. CASE Start
    BY <1>1 DEF Start, NamesInv
<1>2. CASE InitVariable \/ InitEnd \/ PinConstants \/ PreparePlonkGate \/ PrepareR1csGate
               \/ GatesEnd \/ PinPublic \/ Finish
    <2>1. /\ UNCHANGED <<schema, variable_names, variable_names_inverse>>
          /\ phase # "start"
        BY <1>2 DEF InitVariable, InitEnd, PinConstants, PreparePlonkGate, PrepareR1csGate, GatesEnd,
                    PinPublic, Finish, Throw
    <2> QED
        BY <2>1 DEF NamesInv
<1> QED
    BY <1>1, <1>2 DEF Next

LEMMA ElsewhereNames ==
    ASSUME NamesInv, UNCHANGED <<schema, own>>
    PROVE  NamesInv'
BY DEF NamesInv, own

(* The tables of the constructor are in order in every reachable state.     *)
THEOREM TablesInvariant == Spec => [](TablesInv /\ Alone)
<1>1. Init => Alone
    BY DEF Init, Alone, OwnFormulas
<1>2. TablesInv /\ Alone /\ [Next]_vars => (TablesInv /\ Alone)'
    <2> SUFFICES ASSUME TablesInv, Alone, [Next]_vars PROVE (TablesInv /\ Alone)'
        OBVIOUS
    <2>1. CASE Next
        BY <2>1, NextTables, AloneStays
    <2>2. CASE UNCHANGED vars
        BY <2>2, ElsewhereTables, OwnSame, AloneStays DEF vars
    <2> QED
        BY <2>1, <2>2
<1> QED
    BY InitTables, <1>1, <1>2, PTL DEF Spec

(* The types of the constructor's state (circuit.hpp:35-56).                *)
THEOREM TypeCorrect == Spec => []TypeOK
<1>1. TablesInv => TypeOK
    BY DEF TablesInv
<1> QED
    BY TablesInvariant, <1>1, PTL

(* No lookup in symbolic_vars creates a null term, whatever the copy        *)
(* constraints, the names and the gates (circuit.cpp:61-82, 466-473).       *)
THEOREM NoNullTermEver == Spec => []NoNullTerm
<1>1. TablesInv /\ Alone => NoNullTerm
    <2> SUFFICES ASSUME TablesInv, Alone PROVE NoNullTerm
        OBVIOUS
    <2>1. ASSUME phase \in {"gates", "public", "done"}
          PROVE  /\ Range(variable_names_inverse) \subseteq symbolic_vars
                 /\ \A i \in Index(schema) : schema.real_variable_index[i] \in symbolic_vars
        BY <2>1, SchemaTypes DEF TablesInv, TypeOK, VariablesInv, Built
    <2>2. \A f \in asserted : FormulaIndex(f) \subseteq symbolic_vars
        <3>1. CASE phase \in {"start", "init"}
            BY <3>1 DEF TablesInv, FormulasInv, Alone
        <3>2. CASE phase \in Built
            BY <3>2 DEF TablesInv, FormulasInv, VariablesInv, Alone
        <3> QED
            BY <3>1, <3>2 DEF TablesInv, TypeOK, Phase, Built
    <2> QED
        BY <2>1, <2>2 DEF NoNullTerm
<1> QED
    BY TablesInvariant, <1>1, PTL

(* unique_witness leaves out of its comparison exactly the variables that   *)
(* no gate uses: the marks in optimized are right for every PLONK schema    *)
(* (circuit.cpp:39-40, 77, 392-394, 598).                                   *)
THEOREM OptimizedCorrect == Spec => []OptimizedMeansUnused
<1>1. TablesInv => OptimizedMeansUnused
    <2> SUFFICES ASSUME TablesInv, phase = "done", schema.isPLONK
                 PROVE  {i \in DOMAIN optimized : optimized[i]}
                            = RealIndex(schema) \ (GatedIndex(schema) \cup {0, 1})
        BY DEF OptimizedMeansUnused
    <2>1. WellFormed(schema)
        BY DEF TablesInv, TypeOK
    <2>2. symbolic_vars = RealIndex(schema) /\ MarkedUpTo(schema, Len(schema.gates))
        BY DEF TablesInv, VariablesInv, Built, OptimizedInv
    <2>3. GatedIndex(schema) = WiresOf(schema, Len(schema.gates))
        BY <2>1, SchemaLengths DEF GatedIndex, GateWires, WiresOf
    <2> QED
        BY <2>2, <2>3 DEF MarkedUpTo
<1> QED
    BY TablesInvariant, <1>1, PTL

-----------------------------------------------------------------------------
(* The encoding of a circuit is exact.                                      *)
(*                                                                          *)
(* Encodes(A, s, n, k) says that the assertions A have the solutions of     *)
(* the constants, of the first n gates and of the first k public inputs, as *)
(* long as no string of the schema is read as another number than it        *)
(* denotes; each step of the constructor extends it by what it asserts.     *)

(* A valuation, of the variables of one circuit or of more. *)
IsValuation(s, v) == \A i \in RealIndex(s) : v[<<tag, i>>] \in Ring
View(s, v) == [i \in RealIndex(s) |-> v[<<tag, i>>]]
Satisfied(A, v) == \A f \in A : HoldsOwn(f, v)

ConstantsHold(w) == w[0] = 0 /\ w[1] = 1
GatesHold(s, n, w) == \A i \in 1 .. n : GateHolds(s, s.gates[i], w)
PublicHolds(s, i, w) == w[s.real_variable_index[i]] = Meaning[s.variables[i]]
PublicsHold(s, k, w) == \A j \in 1 .. k : PublicHolds(s, s.public_inps[j], w)

Encodes(A, s, n, k) ==
    \A v :
        IsValuation(s, v) =>
           (Satisfied(A, v)
              <=> ConstantsHold(View(s, v)) /\ GatesHold(s, n, View(s, v)) /\ PublicsHold(s, k, View(s, v)))

EncodingInv ==
    ReadsRight(schema) =>
        /\ phase \in {"start", "init", "pins"} => OwnFormulas = {}
        /\ phase = "gates" => Encodes(OwnFormulas, schema, cursor - 1, 0)
        /\ phase = "public" => Encodes(OwnFormulas, schema, Len(schema.gates), cursor - 1)
        /\ phase = "done" =>
              Encodes(OwnFormulas, schema, Len(schema.gates), Len(schema.public_inps))

-----------------------------------------------------------------------------
(* One more assertion. *)
LEMMA SatisfiedMore ==
    ASSUME NEW A, NEW f, NEW v
    PROVE  Satisfied(A \cup {f}, v) <=> Satisfied(A, v) /\ HoldsOwn(f, v)
BY DEF Satisfied

LEMMA ViewValues ==
    ASSUME NEW s, NEW v, IsValuation(s, v), NEW i \in RealIndex(s)
    PROVE  View(s, v)[i] = v[<<tag, i>>] /\ v[<<tag, i>>] \in Ring
BY DEF IsValuation, View

LEMMA RingIntegers == Ring \subseteq Int /\ 0 \in Ring /\ 1 \in Ring
BY ConstantsAssumption DEF CircuitConstants, Ring

LEMMA PinHolds ==
    ASSUME NEW i, NEW c, NEW v
    PROVE  HoldsOwn(Pin(i, c), v) <=> v[<<tag, i>>] = c
BY DEF HoldsOwn, Pin

(* The strings of gates and public inputs are among those of the schema.    *)
LEMMA LiteralsCovered ==
    ASSUME NEW s
    PROVE  /\ \A n \in DOMAIN s.gates : GateLiterals(s, s.gates[n]) \subseteq LiteralsOf(s)
           /\ \A i \in Range(s.public_inps) : s.variables[i] \in LiteralsOf(s)
<1>1. \A n \in DOMAIN s.gates : GateLiterals(s, s.gates[n]) \subseteq LiteralsOf(s)
    BY DEF LiteralsOf
<1>2. {s.variables[i] : i \in Range(s.public_inps)} \subseteq LiteralsOf(s)
    BY DEF LiteralsOf
<1> QED
    BY <1>1, <1>2

(* The constants, as they are pinned. *)
LEMMA ConstantsEncoded ==
    ASSUME NEW s, WellFormed(s), ReadsRight(s), NEW c0 \in Reading[Zero], NEW c1 \in Reading[One]
    PROVE  Encodes({} \cup {Pin(0, c0), Pin(1, c1)}, s, 0, 0)
<1>1. c0 = 0 /\ c1 = 1
    BY ConstantsAssumption DEF CircuitConstants, ReadsRight, LiteralsOf
<1>2. SUFFICES ASSUME NEW v, IsValuation(s, v)
               PROVE  Satisfied({Pin(0, c0), Pin(1, c1)}, v) <=> ConstantsHold(View(s, v))
    BY DEF Encodes, GatesHold, PublicsHold
<1>3. View(s, v)[0] = v[<<tag, 0>>] /\ View(s, v)[1] = v[<<tag, 1>>]
    <2>1. 0 \in RealIndex(s) /\ 1 \in RealIndex(s)
        BY SchemaTypes
    <2> QED
        BY <1>2, <2>1, ViewValues
<1> QED
    BY <1>1, <1>3, PinHolds DEF Satisfied, ConstantsHold

-----------------------------------------------------------------------------
(* PLONK gates. *)

LEMMA SelectorsRead ==
    ASSUME NEW s, WellFormed(s), ReadsRight(s), s.isPLONK, NEW n \in 1 .. Len(s.gates),
           NEW c \in Coefficients(s.gates[n].q), NEW k \in 1 .. 5
    PROVE  c[k] = Meaning[s.gates[n].q[k]] /\ c[k] \in Ring
<1> DEFINE q == s.gates[n].q
<1>1. q \in [1 .. 5 -> Literal] /\ n \in DOMAIN s.gates
    BY PlonkGateTypes, SchemaLengths
<1>2. q[k] \in GateLiterals(s, s.gates[n])
    BY <1>1 DEF GateLiterals, Range
<1>3. q[k] \in LiteralsOf(s)
    BY <1>1, <1>2 DEF LiteralsOf
<1>4. Reading[q[k]] \subseteq {Meaning[q[k]]}
    BY <1>3 DEF ReadsRight
<1>5. c \in [1 .. 5 -> Ring] /\ IF q[k] = Zero THEN c[k] = 0 ELSE c[k] \in Reading[q[k]]
    BY DEF Coefficients
<1> QED
    BY <1>4, <1>5, ConstantsAssumption DEF CircuitConstants

(* The sum the code builds and the sum the gate means, zero being 0.        *)
LEMMA SameSum ==
    ASSUME NEW l \in Int, NEW r \in Int, NEW o \in Int,
           NEW m \in Int, NEW a \in Int, NEW b \in Int, NEW d \in Int, NEW e \in Int
    PROVE  0 + l * r * m + l * a + r * b + o * d + e = m * l * r + a * l + b * r + d * o + e
<1>1. l * r * m = m * l * r
    OBVIOUS
<1>2. l * a = a * l /\ r * b = b * r /\ o * d = d * o
    OBVIOUS
<1>3. l * r * m \in Int /\ l * a \in Int /\ r * b \in Int /\ o * d \in Int
    OBVIOUS
<1> QED
    BY <1>1, <1>2, <1>3

LEMMA PlonkMeaning ==
    ASSUME NEW gate, NEW w
    PROVE  PlonkHolds(gate, w) <=>
             (Meaning[gate.q[1]] * w[gate.w[1]] * w[gate.w[2]] + Meaning[gate.q[2]] * w[gate.w[1]]
                + Meaning[gate.q[3]] * w[gate.w[2]] + Meaning[gate.q[4]] * w[gate.w[3]]
                + Meaning[gate.q[5]]) % Mod = 0
<1> DEFINE q == [k \in 1 .. 5 |-> Meaning[gate.q[k]]]
           x == [k \in 1 .. 3 |-> w[gate.w[k]]]
<1>1. PlonkHolds(gate, w) <=>
        (q[1] * x[1] * x[2] + q[2] * x[1] + q[3] * x[2] + q[4] * x[3] + q[5]) % Mod = 0
    BY Zenon DEF PlonkHolds
<1>2. /\ q[1] = Meaning[gate.q[1]] /\ q[2] = Meaning[gate.q[2]] /\ q[3] = Meaning[gate.q[3]]
      /\ q[4] = Meaning[gate.q[4]] /\ q[5] = Meaning[gate.q[5]]
      /\ x[1] = w[gate.w[1]] /\ x[2] = w[gate.w[2]] /\ x[3] = w[gate.w[3]]
    OBVIOUS
<1> HIDE DEF q, x
<1> QED
    BY <1>1, <1>2, Zenon

LEMMA PlonkEncoded ==
    ASSUME NEW s, WellFormed(s), ReadsRight(s), s.isPLONK, NEW n \in 1 .. Len(s.gates),
           NEW c \in Coefficients(s.gates[n].q),
           NEW v, IsValuation(s, v), ConstantsHold(View(s, v))
    PROVE  HoldsOwn([kind |-> "plonk", tag |-> tag, w |-> s.gates[n].w, c |-> c], v)
               <=> GateHolds(s, s.gates[n], View(s, v))
<1> DEFINE gate == s.gates[n]
           q == gate.q
           f == [kind |-> "plonk", tag |-> tag, w |-> gate.w, c |-> c]
           l == v[<<tag, gate.w[1]>>]
           r == v[<<tag, gate.w[2]>>]
           o == v[<<tag, gate.w[3]>>]
           W == View(s, v)
<1>1. /\ c[1] = Meaning[q[1]] /\ c[2] = Meaning[q[2]] /\ c[3] = Meaning[q[3]]
      /\ c[4] = Meaning[q[4]] /\ c[5] = Meaning[q[5]]
      /\ c[1] \in Int /\ c[2] \in Int /\ c[3] \in Int /\ c[4] \in Int /\ c[5] \in Int
    <2>1. \A k \in 1 .. 5 : c[k] = Meaning[q[k]] /\ c[k] \in Ring
        BY SelectorsRead
    <2>2. \A k \in 1 .. 5 : c[k] = Meaning[q[k]] /\ c[k] \in Int
        BY <2>1, RingIntegers
    <2> HIDE DEF q
    <2>3. 1 \in 1 .. 5 /\ 2 \in 1 .. 5 /\ 3 \in 1 .. 5 /\ 4 \in 1 .. 5 /\ 5 \in 1 .. 5
        OBVIOUS
    <2> QED
        BY <2>2, <2>3, Zenon
<1>2. /\ l \in Int /\ r \in Int /\ o \in Int
      /\ W[gate.w[1]] = l /\ W[gate.w[2]] = r /\ W[gate.w[3]] = o
    <2>1. gate.w[1] \in RealIndex(s) /\ gate.w[2] \in RealIndex(s) /\ gate.w[3] \in RealIndex(s)
        BY PlonkGateTypes
    <2>2. \A i \in RealIndex(s) : W[i] = v[<<tag, i>>] /\ v[<<tag, i>>] \in Ring
        BY ViewValues
    <2> QED
        BY <2>1, <2>2, RingIntegers
<1>3. v[<<tag, 0>>] = 0
    BY SchemaTypes, ViewValues DEF ConstantsHold
<1>4. HoldsOwn(f, v) <=> HoldsPlonk(f, v)
    BY DEF HoldsOwn
<1>5. HoldsPlonk(f, v) <=> (0 + l * r * c[1] + l * c[2] + r * c[3] + o * c[4] + c[5]) % Mod = 0
    BY <1>3 DEF HoldsPlonk
<1>6. PlonkHolds(gate, W)
          <=> (c[1] * l * r + c[2] * l + c[3] * r + c[4] * o + c[5]) % Mod = 0
    <2> HIDE DEF gate, l, r, o, W
    <2> QED
        BY <1>1, <1>2, PlonkMeaning, Zenon
<1>7. 0 + l * r * c[1] + l * c[2] + r * c[3] + o * c[4] + c[5]
          = c[1] * l * r + c[2] * l + c[3] * r + c[4] * o + c[5]
    <2> HIDE DEF l, r, o, q, W
    <2>1. PICK m \in Int, a \in Int, b \in Int, d \in Int, e \in Int :
              m = c[1] /\ a = c[2] /\ b = c[3] /\ d = c[4] /\ e = c[5]
        BY <1>1
    <2>2. 0 + l * r * m + l * a + r * b + o * d + e = m * l * r + a * l + b * r + d * o + e
        BY <1>2, SameSum
    <2> QED
        BY <2>1, <2>2
<1> QED
    BY <1>4, <1>5, <1>6, <1>7 DEF GateHolds

-----------------------------------------------------------------------------
(* R1CS gates. *)

(* A linear form with valuation v put in: as read, and as meant.            *)
ReadForm(t, v) == [j \in DOMAIN t |-> v[<<tag, t[j][2]>>] * t[j][1]]
MeantForm(s, lc, v) == [j \in DOMAIN lc |-> Meaning[lc[j][1]] * View(s, v)[lc[j][2]]]

LEMMA LinearRead ==
    ASSUME NEW s, ReadsRight(s), NEW lc \in LinearForm(s), LinearLiterals(lc) \subseteq LiteralsOf(s),
           NEW t \in Linear(lc), NEW v, IsValuation(s, v)
    PROVE  ReadForm(t, v) = MeantForm(s, lc, v)
<1>1. lc \in [1 .. Len(lc) -> Literal \X RealIndex(s)]
    BY DEF LinearForm
<1>2. PICK c \in [DOMAIN lc -> Ring] :
          /\ t = [j \in DOMAIN lc |-> <<c[j], lc[j][2]>>]
          /\ \A j \in DOMAIN lc : c[j] \in Reading[lc[j][1]]
    BY DEF Linear
<1>3. \A j \in DOMAIN lc : c[j] = Meaning[lc[j][1]] /\ c[j] \in Int
    <2>1. \A j \in DOMAIN lc : lc[j][1] \in LiteralsOf(s)
        BY DEF LinearLiterals
    <2>2. \A j \in DOMAIN lc : c[j] \in Ring
        BY <1>2
    <2> QED
        BY <1>2, <2>1, <2>2, RingIntegers DEF ReadsRight
<1>4. \A j \in DOMAIN lc :
          View(s, v)[lc[j][2]] = v[<<tag, lc[j][2]>>] /\ v[<<tag, lc[j][2]>>] \in Int
    <2>1. TAKE j \in DOMAIN lc
    <2>2. lc[j][2] \in RealIndex(s)
        BY <1>1, <2>1
    <2>3. View(s, v)[lc[j][2]] = v[<<tag, lc[j][2]>>] /\ v[<<tag, lc[j][2]>>] \in Ring
        BY <2>2, ViewValues
    <2> QED
        BY <2>3, RingIntegers
<1>5. \A x, y \in Int : x * y = y * x
    OBVIOUS
<1>6. \A j \in DOMAIN lc :
          v[<<tag, lc[j][2]>>] * c[j] = Meaning[lc[j][1]] * View(s, v)[lc[j][2]]
    BY <1>3, <1>4, <1>5
<1>7. DOMAIN t = DOMAIN lc /\ \A j \in DOMAIN lc : t[j][1] = c[j] /\ t[j][2] = lc[j][2]
    BY <1>2
<1> QED
    BY <1>6, <1>7 DEF ReadForm, MeantForm

LEMMA R1csEncoded ==
    ASSUME NEW s, WellFormed(s), ReadsRight(s), ~s.isPLONK, NEW n \in 1 .. Len(s.gates),
           NEW a \in Linear(s.gates[n].A), NEW b \in Linear(s.gates[n].B),
           NEW c \in Linear(s.gates[n].C),
           NEW v, IsValuation(s, v), ConstantsHold(View(s, v))
    PROVE  HoldsOwn([kind |-> "r1cs", tag |-> tag, A |-> a, B |-> b, C |-> c], v)
               <=> GateHolds(s, s.gates[n], View(s, v))
<1> DEFINE gate == s.gates[n]
           f == [kind |-> "r1cs", tag |-> tag, A |-> a, B |-> b, C |-> c]
<1>1. LinearLiterals(gate.A) \cup LinearLiterals(gate.B) \cup LinearLiterals(gate.C) \subseteq LiteralsOf(s)
    <2>1. n \in DOMAIN s.gates
        BY SchemaLengths
    <2>2. GateLiterals(s, gate) \subseteq LiteralsOf(s)
        BY <2>1, LiteralsCovered
    <2> QED
        BY <2>2 DEF GateLiterals
<1>2. /\ ReadForm(a, v) = MeantForm(s, gate.A, v)
      /\ ReadForm(b, v) = MeantForm(s, gate.B, v)
      /\ ReadForm(c, v) = MeantForm(s, gate.C, v)
    <2>1. gate.A \in LinearForm(s) /\ gate.B \in LinearForm(s) /\ gate.C \in LinearForm(s)
        BY R1csGateTypes
    <2> QED
        BY <1>1, <2>1, LinearRead
<1>3. v[<<tag, 0>>] = 0
    BY SchemaTypes, ViewValues DEF ConstantsHold
<1>4. HoldsOwn(f, v) <=> HoldsR1cs(f, v)
    BY DEF HoldsOwn
<1>5. HoldsR1cs(f, v)
          <=> (Total(0, ReadForm(a, v)) * Total(0, ReadForm(b, v)) - Total(0, ReadForm(c, v))) % Mod = 0
    BY <1>3 DEF HoldsR1cs, ReadForm
<1>6. R1csHolds(gate, View(s, v))
          <=> (Total(0, MeantForm(s, gate.A, v)) * Total(0, MeantForm(s, gate.B, v))
                   - Total(0, MeantForm(s, gate.C, v))) % Mod = 0
    BY DEF R1csHolds, MeantForm
<1> QED
    BY <1>2, <1>4, <1>5, <1>6 DEF GateHolds

-----------------------------------------------------------------------------
(* One more gate, one more public input. *)

LEMMA GateEncoded ==
    ASSUME NEW s, NEW A, NEW n \in Nat \ {0}, NEW f, Encodes(A, s, n - 1, 0),
           \A v :
               IsValuation(s, v) /\ ConstantsHold(View(s, v)) =>
                   (HoldsOwn(f, v) <=> GateHolds(s, s.gates[n], View(s, v)))
    PROVE  Encodes(A \cup {f}, s, n, 0)
<1> SUFFICES ASSUME NEW v, IsValuation(s, v)
             PROVE  Satisfied(A \cup {f}, v)
                        <=> /\ ConstantsHold(View(s, v)) /\ GatesHold(s, n, View(s, v))
                            /\ PublicsHold(s, 0, View(s, v))
    BY DEF Encodes
<1>1. Satisfied(A \cup {f}, v) <=> Satisfied(A, v) /\ HoldsOwn(f, v)
    BY SatisfiedMore
<1>2. Satisfied(A, v)
          <=> /\ ConstantsHold(View(s, v)) /\ GatesHold(s, n - 1, View(s, v))
              /\ PublicsHold(s, 0, View(s, v))
    BY DEF Encodes
<1>3. 1 .. n = (1 .. n - 1) \cup {n}
    OBVIOUS
<1>4. GatesHold(s, n, View(s, v))
          <=> GatesHold(s, n - 1, View(s, v)) /\ GateHolds(s, s.gates[n], View(s, v))
    BY <1>3 DEF GatesHold
<1> QED
    BY <1>1, <1>2, <1>4

LEMMA PublicEncoded ==
    ASSUME NEW s, WellFormed(s), ReadsRight(s), NEW A, NEW k \in 1 .. Len(s.public_inps),
           Encodes(A, s, Len(s.gates), k - 1),
           NEW c \in Reading[s.variables[s.public_inps[k]]]
    PROVE  Encodes(A \cup {Pin(RealOf(s, s.public_inps[k]), c)}, s, Len(s.gates), k)
<1> DEFINE i == s.public_inps[k]
           f == Pin(RealOf(s, i), c)
<1> SUFFICES ASSUME NEW v, IsValuation(s, v)
             PROVE  Satisfied(A \cup {f}, v)
                        <=> /\ ConstantsHold(View(s, v)) /\ GatesHold(s, Len(s.gates), View(s, v))
                            /\ PublicsHold(s, k, View(s, v))
    BY DEF Encodes
<1>1. Satisfied(A \cup {f}, v) <=> Satisfied(A, v) /\ HoldsOwn(f, v)
    BY SatisfiedMore
<1>2. Satisfied(A, v)
          <=> /\ ConstantsHold(View(s, v)) /\ GatesHold(s, Len(s.gates), View(s, v))
              /\ PublicsHold(s, k - 1, View(s, v))
    BY DEF Encodes
<1>3. k \in Nat \ {0} /\ k \in DOMAIN s.public_inps /\ i \in Index(s)
    BY SchemaLengths
<1>4. c = Meaning[s.variables[i]]
    <2>1. s.variables[i] \in LiteralsOf(s)
        <3>1. i \in Range(s.public_inps)
            BY <1>3 DEF Range
        <3> QED
            BY <3>1, LiteralsCovered
    <2> QED
        BY <2>1 DEF ReadsRight
<1>5. s.real_variable_index[i] \in RealIndex(s)
    BY <1>3, SchemaTypes
<1>6. HoldsOwn(f, v) <=> PublicHolds(s, i, View(s, v))
    <2>1. HoldsOwn(f, v) <=> v[<<tag, s.real_variable_index[i]>>] = c
        BY PinHolds DEF RealOf
    <2>2. View(s, v)[s.real_variable_index[i]] = v[<<tag, s.real_variable_index[i]>>]
        BY <1>5, ViewValues
    <2> QED
        BY <1>4, <2>1, <2>2 DEF PublicHolds
<1>7. 1 .. k = (1 .. k - 1) \cup {k}
    BY <1>3
<1>8. PublicsHold(s, k, View(s, v))
          <=> PublicsHold(s, k - 1, View(s, v)) /\ PublicHolds(s, i, View(s, v))
    BY <1>7 DEF PublicsHold
<1> QED
    BY <1>1, <1>2, <1>6, <1>8

-----------------------------------------------------------------------------
(* The steps of the constructor. *)

LEMMA EncodingInit == Init => EncodingInv
BY DEF Init, EncodingInv, OwnFormulas

LEMMA PinConstantsEncodes ==
    ASSUME TablesInv, EncodingInv, PinConstants
    PROVE  EncodingInv'
<1> SUFFICES ASSUME ReadsRight(schema)
             PROVE  /\ phase' = "gates" /\ schema' = schema
                    /\ Encodes(OwnFormulas', schema, cursor' - 1, 0)
    BY DEF EncodingInv, PinConstants
<1>1. WellFormed(schema) /\ OwnFormulas = {} /\ cursor' = 1 /\ phase' = "gates" /\ schema' = schema
    BY DEF TablesInv, TypeOK, EncodingInv, PinConstants
<1>2. PICK c0 \in Reading[Zero], c1 \in Reading[One] :
          asserted' = asserted \cup {Pin(0, c0), Pin(1, c1)}
    BY DEF PinConstants
<1>3. OwnFormulas' = OwnFormulas \cup {Pin(0, c0), Pin(1, c1)}
    <2>1. \A f \in {Pin(0, c0), Pin(1, c1)} : f.kind \in OwnKind /\ f.tag = tag
        BY DEF Pin, OwnKind
    <2> QED
        BY <1>2, <2>1, OwnMore
<1>4. Encodes(OwnFormulas', schema, 0, 0)
    BY <1>1, <1>3, ConstantsEncoded
<1> QED
    BY <1>1, <1>4

LEMMA PreparePlonkGateEncodes ==
    ASSUME TablesInv, EncodingInv, PreparePlonkGate
    PROVE  EncodingInv'
<1> DEFINE gate == schema.gates[cursor]
<1>1. WellFormed(schema) /\ schema' = schema /\ phase = "gates" /\ schema.isPLONK
    BY DEF TablesInv, TypeOK, PreparePlonkGate, Throw
<1>2. cursor \in 1 .. Len(schema.gates) /\ cursor \in Nat \ {0}
    BY <1>1, SchemaLengths DEF TablesInv, CursorInv, PreparePlonkGate
<1>3. CASE Throw
    BY <1>1, <1>3, OwnSame DEF EncodingInv, Throw
<1>4. ASSUME NEW c \in Coefficients(gate.q),
             asserted' = asserted \cup {[kind |-> "plonk", tag |-> tag, w |-> gate.w, c |-> c]},
             cursor' = NextGate(cursor), phase' = phase, ReadsRight(schema)
      PROVE  phase' = "gates" /\ Encodes(OwnFormulas', schema, cursor' - 1, 0)
    <2> DEFINE f == [kind |-> "plonk", tag |-> tag, w |-> gate.w, c |-> c]
    <2>1. \A v :
              IsValuation(schema, v) /\ ConstantsHold(View(schema, v)) =>
                  (HoldsOwn(f, v) <=> GateHolds(schema, gate, View(schema, v)))
        BY <1>1, <1>2, <1>4, PlonkEncoded
    <2>2. Encodes(OwnFormulas, schema, cursor - 1, 0)
        BY <1>1, <1>4 DEF EncodingInv
    <2>3. Encodes(OwnFormulas \cup {f}, schema, cursor, 0)
        BY <1>2, <2>1, <2>2, GateEncoded
    <2>4. cursor' - 1 = cursor
        BY <1>2, <1>4 DEF NextGate
    <2>5. OwnFormulas' = OwnFormulas \cup {f}
        <3>1. f.kind \in OwnKind /\ f.tag = tag
            BY DEF OwnKind
        <3> HIDE DEF f
        <3> QED
            BY <1>4, <3>1, OwnOneMore DEF f
    <2> QED
        BY <1>1, <1>4, <2>3, <2>4, <2>5
<1> QED
    BY <1>1, <1>3, <1>4 DEF PreparePlonkGate, EncodingInv

LEMMA PrepareR1csGateEncodes ==
    ASSUME TablesInv, EncodingInv, PrepareR1csGate
    PROVE  EncodingInv'
<1> DEFINE gate == schema.gates[cursor]
<1>1. WellFormed(schema) /\ schema' = schema /\ phase = "gates" /\ ~schema.isPLONK
    BY DEF TablesInv, TypeOK, PrepareR1csGate, Throw
<1>2. cursor \in 1 .. Len(schema.gates) /\ cursor \in Nat \ {0}
    BY <1>1, SchemaLengths DEF TablesInv, CursorInv, PrepareR1csGate
<1>3. CASE Throw
    BY <1>1, <1>3, OwnSame DEF EncodingInv, Throw
<1>4. ASSUME NEW a \in Linear(gate.A), NEW b \in Linear(gate.B), NEW c \in Linear(gate.C),
             asserted' = asserted \cup {[kind |-> "r1cs", tag |-> tag, A |-> a, B |-> b, C |-> c]},
             cursor' = NextGate(cursor), phase' = phase, ReadsRight(schema)
      PROVE  phase' = "gates" /\ Encodes(OwnFormulas', schema, cursor' - 1, 0)
    <2> DEFINE f == [kind |-> "r1cs", tag |-> tag, A |-> a, B |-> b, C |-> c]
    <2>1. \A v :
              IsValuation(schema, v) /\ ConstantsHold(View(schema, v)) =>
                  (HoldsOwn(f, v) <=> GateHolds(schema, gate, View(schema, v)))
        BY <1>1, <1>2, <1>4, R1csEncoded
    <2>2. Encodes(OwnFormulas, schema, cursor - 1, 0)
        BY <1>1, <1>4 DEF EncodingInv
    <2>3. Encodes(OwnFormulas \cup {f}, schema, cursor, 0)
        BY <1>2, <2>1, <2>2, GateEncoded
    <2>4. cursor' - 1 = cursor
        BY <1>2, <1>4 DEF NextGate
    <2>5. OwnFormulas' = OwnFormulas \cup {f}
        <3>1. f.kind \in OwnKind /\ f.tag = tag
            BY DEF OwnKind
        <3> HIDE DEF f
        <3> QED
            BY <1>4, <3>1, OwnOneMore DEF f
    <2> QED
        BY <1>1, <1>4, <2>3, <2>4, <2>5
<1> QED
    BY <1>1, <1>3, <1>4 DEF PrepareR1csGate, EncodingInv

LEMMA GatesEndEncodes ==
    ASSUME TablesInv, EncodingInv, GatesEnd
    PROVE  EncodingInv'
<1>1. /\ WellFormed(schema) /\ phase = "gates" /\ phase' = "public" /\ cursor' = 1
      /\ schema' = schema /\ asserted' = asserted
    BY DEF TablesInv, TypeOK, GatesEnd
<1>2. cursor - 1 = Len(schema.gates) /\ cursor' - 1 = 0
    BY <1>1, SchemaLengths DEF TablesInv, CursorInv, GatesEnd
<1> QED
    BY <1>1, <1>2, OwnSame DEF EncodingInv

LEMMA PinPublicEncodes ==
    ASSUME TablesInv, EncodingInv, PinPublic
    PROVE  EncodingInv'
<1> DEFINE i == schema.public_inps[cursor]
<1>1. WellFormed(schema) /\ schema' = schema /\ phase = "public"
    BY DEF TablesInv, TypeOK, PinPublic, Throw
<1>2. cursor \in 1 .. Len(schema.public_inps) /\ cursor \in Nat
    BY <1>1, SchemaLengths DEF TablesInv, CursorInv, PinPublic
<1>3. CASE Throw
    BY <1>1, <1>3, OwnSame DEF EncodingInv, Throw
<1>4. ASSUME NEW c \in Reading[schema.variables[i]],
             asserted' = asserted \cup {Pin(RealOf(schema, i), c)},
             cursor' = cursor + 1, phase' = phase, ReadsRight(schema)
      PROVE  phase' = "public" /\ Encodes(OwnFormulas', schema, Len(schema.gates), cursor' - 1)
    <2>1. Encodes(OwnFormulas, schema, Len(schema.gates), cursor - 1)
        BY <1>1, <1>4 DEF EncodingInv
    <2>2. Encodes(OwnFormulas \cup {Pin(RealOf(schema, i), c)}, schema, Len(schema.gates), cursor)
        BY <1>1, <1>2, <1>4, <2>1, PublicEncoded
    <2>3. cursor' - 1 = cursor
        BY <1>2, <1>4
    <2>4. OwnFormulas' = OwnFormulas \cup {Pin(RealOf(schema, i), c)}
        <3>1. Pin(RealOf(schema, i), c).kind \in OwnKind /\ Pin(RealOf(schema, i), c).tag = tag
            BY DEF Pin, OwnKind
        <3> QED
            BY <1>4, <3>1, OwnOneMore
    <2> QED
        BY <1>1, <1>4, <2>2, <2>3, <2>4
<1> QED
    BY <1>1, <1>3, <1>4 DEF PinPublic, EncodingInv

LEMMA FinishEncodes ==
    ASSUME TablesInv, EncodingInv, Finish
    PROVE  EncodingInv'
<1>1. /\ WellFormed(schema) /\ phase = "public" /\ phase' = "done"
      /\ schema' = schema /\ asserted' = asserted
    BY DEF TablesInv, TypeOK, Finish
<1>2. cursor - 1 = Len(schema.public_inps)
    BY <1>1, SchemaLengths DEF TablesInv, CursorInv, Finish
<1> QED
    BY <1>1, <1>2, OwnSame DEF EncodingInv

LEMMA QuietStepsEncode ==
    ASSUME TablesInv, EncodingInv, Start \/ InitVariable \/ InitEnd
    PROVE  EncodingInv'
<1>1. asserted' = asserted /\ schema' = schema
    BY DEF Start, InitVariable, InitEnd
<1> QED
    BY <1>1, OwnSame DEF EncodingInv, Start, InitVariable, InitEnd

LEMMA NextEncodes ==
    ASSUME TablesInv, EncodingInv, Next
    PROVE  EncodingInv'
BY PinConstantsEncodes, PreparePlonkGateEncodes, PrepareR1csGateEncodes, GatesEndEncodes,
   PinPublicEncodes, FinishEncodes, QuietStepsEncode
DEF Next

(* A step of another part of the program. *)
LEMMA ElsewhereEncodes ==
    ASSUME EncodingInv, UNCHANGED <<schema, own>>, OwnFormulas' = OwnFormulas
    PROVE  EncodingInv'
BY DEF EncodingInv, own

(* The assertions of the constructor mean, at each point of its loops, what *)
(* it has gone through of the schema.                                       *)
THEOREM EncodingInvariant == Spec => []EncodingInv
<1>1. TablesInv /\ EncodingInv /\ [Next]_vars => EncodingInv'
    BY NextEncodes, ElsewhereEncodes, OwnSame DEF vars
<1> QED
    BY EncodingInit, TablesInvariant, <1>1, PTL DEF Spec

(* Gates 1 to n and all public inputs are what a witness has to satisfy; the *)
(* constants of the circuit follow where its gates fix them.                *)
LEMMA WitnessIsEncoded ==
    ASSUME NEW s, WellFormed(s), ConstantsFixed(s), NEW w \in [RealIndex(s) -> Ring]
    PROVE  IsWitness(s, w)
               <=> /\ ConstantsHold(w) /\ GatesHold(s, Len(s.gates), w)
                   /\ PublicsHold(s, Len(s.public_inps), w)
<1>1. DOMAIN s.gates = 1 .. Len(s.gates) /\ DOMAIN s.public_inps = 1 .. Len(s.public_inps)
    BY SchemaLengths
<1>2. (\A i \in Range(s.public_inps) : PublicHolds(s, i, w)) <=> PublicsHold(s, Len(s.public_inps), w)
    BY <1>1 DEF PublicsHold, Range
<1>3. Constrained(s, w) <=> GatesHold(s, Len(s.gates), w) /\ PublicsHold(s, Len(s.public_inps), w)
    BY <1>1, <1>2 DEF Constrained, GatesHold, PublicHolds
<1>4. Anchored(w) /\ Constrained(s, w) => ConstantsAre(s, w)
    BY DEF ConstantsFixed
<1> QED
    BY <1>3, <1>4 DEF IsWitness, ConstantsHold, Anchored

(* When the circuit is built, its assertions have its witnesses as          *)
(* solutions.                                                               *)
LEMMA BuiltIsExact ==
    ASSUME TablesInv, EncodingInv, phase = "done", ReadsRight(schema), ConstantsFixed(schema),
           NEW v, IsValuation(schema, v)
    PROVE  Satisfied(OwnFormulas, v) <=> IsWitness(schema, View(schema, v))
<1>1. WellFormed(schema)
    BY DEF TablesInv, TypeOK
<1>2. Encodes(OwnFormulas, schema, Len(schema.gates), Len(schema.public_inps))
    BY DEF EncodingInv
<1>3. View(schema, v) \in [RealIndex(schema) -> Ring]
    BY <1>1, ViewValues DEF View
<1> QED
    BY <1>1, <1>2, <1>3, WitnessIsEncoded DEF Encodes

(* When no string is read as another number and the gates fix the           *)
(* constants, the assertions of a built circuit have exactly the circuit's  *)
(* witnesses as solutions, for PLONK and R1CS and any copy constraints,     *)
(* those of index 0 and 1 included (circuit.cpp:12-82, 365-458).            *)
THEOREM EncodingIsExact == Spec => []EncodingExact
<1>1. TablesInv /\ Alone /\ EncodingInv => EncodingExact
    <2> SUFFICES ASSUME TablesInv, Alone, EncodingInv, phase = "done", ReadsRight(schema),
                        ConstantsFixed(schema),
                        NEW v \in [{tag} \X RealIndex(schema) -> Ring]
                 PROVE  Satisfied(asserted, v) <=> IsWitness(schema, View(schema, v))
        BY DEF EncodingExact, Satisfied, View
    <2>1. IsValuation(schema, v)
        BY DEF IsValuation
    <2> QED
        BY <2>1, BuiltIsExact DEF Alone
<1> QED
    BY TablesInvariant, EncodingInvariant, <1>1, PTL
=============================================================================
