------------------------ MODULE UniqueWitness_proofs -------------------------
(***************************************************************************)
(* Asking for uniqueness answers the question, for every modulus, every    *)
(* set of PLONK schemas and every call: UniqueWitness implements           *)
(* Uniqueness; and what Printing makes of a negative answer is evidence.   *)
(*                                                                         *)
(* What is known of one constructor (Circuit_proofs) is taken over         *)
(* for each of the two circuits; what they assert is told apart by its tag. *)
(* Asked is what the code's relations mean of a schema with plain names;    *)
(* of a call that is posed it is what evidence has to show.                 *)
(***************************************************************************)
EXTENDS Printing, TLAPS, WellFoundedInduction

P1 == INSTANCE Circuit_proofs WITH tag <- "circuit1", phase <- phase1, cursor <- cursor1,
        variable_names <- names1, variable_names_inverse <- inverse1,
        symbolic_vars <- symbolic1, optimized <- optimized1
P2 == INSTANCE Circuit_proofs WITH tag <- "circuit2", phase <- phase2, cursor <- cursor2,
        variable_names <- names2, variable_names_inverse <- inverse2,
        symbolic_vars <- symbolic2, optimized <- optimized2

-----------------------------------------------------------------------------
(* The two instances of the constructor and what is proved about it speak   *)
(* of the same things.                                                      *)
LEMMA SameSchemas ==
    \A s :
        /\ P1!RealIndex(s) = C1!RealIndex(s) /\ P2!RealIndex(s) = C1!RealIndex(s)
        /\ P1!Index(s) = C1!Index(s) /\ P2!Index(s) = C1!Index(s)
        /\ P1!WellFormed(s) <=> C1!WellFormed(s)
        /\ P2!WellFormed(s) <=> C1!WellFormed(s)
BY DEF P1!RealIndex, P2!RealIndex, C1!RealIndex, P1!Index, P2!Index, C1!Index,
       P1!WellFormed, P2!WellFormed, C1!WellFormed, P1!PlonkGate, P2!PlonkGate, C1!PlonkGate,
       P1!R1csGate, P2!R1csGate, C1!R1csGate, P1!LinearForm, P2!LinearForm, C1!LinearForm

LEMMA Constants == P1!CircuitConstants /\ P2!CircuitConstants /\ Mod \in Nat /\ Mod > 1
BY CircuitAssumption, SameSchemas
DEF C1!CircuitConstants, P1!CircuitConstants, P2!CircuitConstants, C1!Ring, P1!Ring, P2!Ring

LEMMA SameFirst ==
    ASSUME C1!Next, schema.isPLONK
    PROVE  P1!Next
<1>1. CASE C1!Start
    BY <1>1 DEF C1!Start, P1!Next, P1!Start, C1!Inserted, P1!Inserted, C1!Inverses, P1!Inverses,
                C1!Range, P1!Range
<1>2. CASE C1!InitVariable
    BY <1>2 DEF C1!InitVariable, P1!Next, P1!InitVariable, C1!Inserted, P1!Inserted, C1!RealOf, P1!RealOf,
                C1!LoopBound, P1!LoopBound
<1>3. CASE C1!InitEnd
    BY <1>3 DEF C1!InitEnd, P1!Next, P1!InitEnd, C1!LoopBound, P1!LoopBound
<1>4. CASE C1!PinConstants
    BY <1>4 DEF C1!PinConstants, P1!Next, P1!PinConstants, C1!Pin, P1!Pin
<1>5. CASE C1!PreparePlonkGate
    BY <1>5 DEF C1!PreparePlonkGate, P1!Next, P1!PreparePlonkGate, C1!Used, P1!Used, C1!Assigned, P1!Assigned,
                C1!Coefficients, P1!Coefficients, C1!NextGate, P1!NextGate, C1!Throw, P1!Throw, C1!Ring, P1!Ring
<1>6. CASE C1!GatesEnd
    BY <1>6 DEF C1!GatesEnd, P1!Next, P1!GatesEnd
<1>7. CASE C1!PinPublic
    BY <1>7 DEF C1!PinPublic, P1!Next, P1!PinPublic, C1!Pin, P1!Pin, C1!RealOf, P1!RealOf, C1!Throw, P1!Throw
<1>8. CASE C1!Finish
    BY <1>8 DEF C1!Finish, P1!Next, P1!Finish
<1>9. ~C1!PrepareR1csGate
    BY DEF C1!PrepareR1csGate
<1> QED
    BY <1>1, <1>2, <1>3, <1>4, <1>5, <1>6, <1>7, <1>8, <1>9 DEF C1!Next

LEMMA SameSecond ==
    ASSUME C2!Next, schema.isPLONK
    PROVE  P2!Next
<1>1. CASE C2!Start
    BY <1>1 DEF C2!Start, P2!Next, P2!Start, C2!Inserted, P2!Inserted, C2!Inverses, P2!Inverses,
                C2!Range, P2!Range
<1>2. CASE C2!InitVariable
    BY <1>2 DEF C2!InitVariable, P2!Next, P2!InitVariable, C2!Inserted, P2!Inserted, C2!RealOf, P2!RealOf,
                C2!LoopBound, P2!LoopBound
<1>3. CASE C2!InitEnd
    BY <1>3 DEF C2!InitEnd, P2!Next, P2!InitEnd, C2!LoopBound, P2!LoopBound
<1>4. CASE C2!PinConstants
    BY <1>4 DEF C2!PinConstants, P2!Next, P2!PinConstants, C2!Pin, P2!Pin
<1>5. CASE C2!PreparePlonkGate
    BY <1>5 DEF C2!PreparePlonkGate, P2!Next, P2!PreparePlonkGate, C2!Used, P2!Used, C2!Assigned, P2!Assigned,
                C2!Coefficients, P2!Coefficients, C2!NextGate, P2!NextGate, C2!Throw, P2!Throw, C2!Ring, P2!Ring
<1>6. CASE C2!GatesEnd
    BY <1>6 DEF C2!GatesEnd, P2!Next, P2!GatesEnd
<1>7. CASE C2!PinPublic
    BY <1>7 DEF C2!PinPublic, P2!Next, P2!PinPublic, C2!Pin, P2!Pin, C2!RealOf, P2!RealOf, C2!Throw, P2!Throw
<1>8. CASE C2!Finish
    BY <1>8 DEF C2!Finish, P2!Next, P2!Finish
<1>9. ~C2!PrepareR1csGate
    BY DEF C2!PrepareR1csGate
<1> QED
    BY <1>1, <1>2, <1>3, <1>4, <1>5, <1>6, <1>7, <1>8, <1>9 DEF C2!Next

(* Names and maps. *)
LEMMA SameMaps ==
    /\ \A map, k, x : P1!Inserted(map, k, x) = C1!Inserted(map, k, x)
                     /\ P2!Inserted(map, k, x) = C1!Inserted(map, k, x)
    /\ \A map : P1!Inverses(map) = C1!Inverses(map) /\ P2!Inverses(map) = C1!Inverses(map)
BY DEF P1!Inserted, P2!Inserted, C1!Inserted, P1!Inverses, P2!Inverses, C1!Inverses,
       P1!Range, P2!Range, C1!Range

(* What a PLONK schema means. *)
LEMMA SameConstraints ==
    ASSUME NEW s, s.isPLONK, NEW w
    PROVE  /\ P1!Constrained(s, w) <=> C1!Constrained(s, w)
           /\ P2!Constrained(s, w) <=> C1!Constrained(s, w)
           /\ P1!Anchored(w) <=> C1!Anchored(w)
           /\ P2!Anchored(w) <=> C1!Anchored(w)
           /\ P1!ConstantsAre(s, w) <=> C1!ConstantsAre(s, w)
           /\ P2!ConstantsAre(s, w) <=> C1!ConstantsAre(s, w)
<1>1. \A i \in DOMAIN s.gates :
          /\ P1!GateHolds(s, s.gates[i], w) <=> C1!GateHolds(s, s.gates[i], w)
          /\ P2!GateHolds(s, s.gates[i], w) <=> C1!GateHolds(s, s.gates[i], w)
    BY DEF P1!GateHolds, P2!GateHolds, C1!GateHolds, P1!PlonkHolds, P2!PlonkHolds, C1!PlonkHolds
<1>2. /\ P1!Range(s.public_inps) = C1!Range(s.public_inps)
      /\ P2!Range(s.public_inps) = C1!Range(s.public_inps)
    BY DEF P1!Range, P2!Range, C1!Range
<1>3. P1!Constrained(s, w) <=> C1!Constrained(s, w)
    BY <1>1, <1>2, Zenon DEF P1!Constrained, C1!Constrained
<1>4. P2!Constrained(s, w) <=> C1!Constrained(s, w)
    BY <1>1, <1>2, Zenon DEF P2!Constrained, C1!Constrained
<1> QED
    BY <1>3, <1>4
    DEF P1!Anchored, P2!Anchored, C1!Anchored, P1!ConstantsAre, P2!ConstantsAre, C1!ConstantsAre

LEMMA SameWitnesses ==
    ASSUME NEW s, s.isPLONK, NEW w
    PROVE  /\ P1!IsWitness(s, w) <=> C1!IsWitness(s, w)
           /\ P2!IsWitness(s, w) <=> C1!IsWitness(s, w)
BY SameConstraints DEF P1!IsWitness, P2!IsWitness, C1!IsWitness

LEMMA SameConstants ==
    ASSUME NEW s, s.isPLONK
    PROVE  /\ P1!ConstantsFixed(s) <=> C1!ConstantsFixed(s)
           /\ P2!ConstantsFixed(s) <=> C1!ConstantsFixed(s)
<1>1. P1!RealIndex(s) = C1!RealIndex(s) /\ P2!RealIndex(s) = C1!RealIndex(s)
    BY SameSchemas
<1>2. P1!Ring = C1!Ring /\ P2!Ring = C1!Ring
    BY DEF P1!Ring, P2!Ring, C1!Ring
<1>3. \A w : /\ P1!Constrained(s, w) <=> C1!Constrained(s, w)
             /\ P2!Constrained(s, w) <=> C1!Constrained(s, w)
             /\ P1!Anchored(w) <=> C1!Anchored(w)
             /\ P2!Anchored(w) <=> C1!Anchored(w)
             /\ P1!ConstantsAre(s, w) <=> C1!ConstantsAre(s, w)
             /\ P2!ConstantsAre(s, w) <=> C1!ConstantsAre(s, w)
    BY SameConstraints
<1>4. P1!ConstantsFixed(s) <=> C1!ConstantsFixed(s)
    BY <1>1, <1>2, <1>3, Zenon DEF P1!ConstantsFixed, C1!ConstantsFixed
<1>5. P2!ConstantsFixed(s) <=> C1!ConstantsFixed(s)
    BY <1>1, <1>2, <1>3, Zenon DEF P2!ConstantsFixed, C1!ConstantsFixed
<1> QED
    BY <1>4, <1>5

LEMMA SameReading ==
    \A s : /\ P1!ReadsRight(s) <=> C1!ReadsRight(s)
          /\ P2!ReadsRight(s) <=> C1!ReadsRight(s)
BY DEF P1!ReadsRight, P2!ReadsRight, C1!ReadsRight, P1!LiteralsOf, P2!LiteralsOf, C1!LiteralsOf,
       P1!GateLiterals, P2!GateLiterals, C1!GateLiterals, P1!LinearLiterals, P2!LinearLiterals,
       C1!LinearLiterals, P1!Range, P2!Range, C1!Range

(* What the formulas of a PLONK circuit mean. *)
LEMMA SameFormulas ==
    ASSUME NEW f, f.kind \in {"pin", "plonk"}, NEW v
    PROVE  (P1!HoldsOwn(f, v) <=> Holds(f, v)) /\ (P2!HoldsOwn(f, v) <=> Holds(f, v))
<1>1. Holds(f, v) <=> C1!HoldsOwn(f, v)
    BY DEF Holds
<1>2. CASE f.kind = "pin"
    BY <1>1, <1>2 DEF P1!HoldsOwn, P2!HoldsOwn, C1!HoldsOwn
<1>3. CASE f.kind = "plonk"
    BY <1>1, <1>3
    DEF P1!HoldsOwn, P2!HoldsOwn, C1!HoldsOwn, P1!HoldsPlonk, P2!HoldsPlonk, C1!HoldsPlonk
<1> QED
    BY <1>2, <1>3

-----------------------------------------------------------------------------
(* Facts about the arguments. *)

Valuation == [SymVar -> Ring]
View(t, v) == [i \in C1!RealIndex(schema) |-> v[<<t, i>>]]
Views(v) == <<View("circuit1", v), View("circuit2", v)>>

LEMMA SchemaFacts ==
    ASSUME NEW s \in Schema
    PROVE  /\ C1!WellFormed(s) /\ s.isPLONK /\ C1!ReadsRight(s) /\ C1!ConstantsFixed(s)
           /\ {0, 1} \subseteq C1!RealIndex(s)
           /\ C1!RealIndex(s) \subseteq C1!Index(s)
           /\ DOMAIN s.vars_of_interest \subseteq C1!RealIndex(s)
           /\ \A i \in C1!Index(s) : s.real_variable_index[i] \in C1!RealIndex(s)
<1>1. C1!WellFormed(s)
    BY CircuitAssumption DEF C1!CircuitConstants
<1>2. s.isPLONK /\ C1!ReadsRight(s) /\ C1!ConstantsFixed(s)
    BY PlonkAssumption, ReadingAssumption
<1>3. P1!WellFormed(s)
    BY <1>1, SameSchemas
<1>4. /\ {0, 1} \subseteq P1!RealIndex(s)
      /\ P1!RealIndex(s) \subseteq P1!Index(s)
      /\ \A i \in P1!Index(s) : s.real_variable_index[i] \in P1!RealIndex(s)
    BY <1>3, Constants, P1!SchemaTypes
<1>5. DOMAIN s.vars_of_interest \subseteq C1!RealIndex(s)
    BY <1>1 DEF C1!WellFormed
<1> QED
    BY <1>1, <1>2, <1>4, <1>5, SameSchemas

LEMMA CallFacts ==
    ASSUME call \in Call
    PROVE  /\ call.fn \in {"unique_witness", "unique_witness_ext"}
           /\ call.equal \in Seq(Name) /\ call.not_equal \in Seq(Name)
           /\ call.any_equal \in Seq(Name) /\ call.any_not_equal \in Seq(Name)
           /\ Len(call.equal) \in Nat /\ Len(call.not_equal) \in Nat
BY CallAssumption

(* The index a name stands for. *)
Named(s, n) == CHOOSE i \in DOMAIN NameMap(s) : NameMap(s)[i] = n

(* A name of a plain schema stands for one index. *)
LEMMA NamedFacts ==
    ASSUME NEW s \in Schema, PlainNames(s), NEW n \in Names(s)
    PROVE  /\ Named(s, n) \in DOMAIN NameMap(s)
           /\ NameMap(s)[Named(s, n)] = n
           /\ \A i \in DOMAIN NameMap(s) : NameMap(s)[i] = n => i = Named(s, n)
           /\ Named(s, n) \in C1!RealIndex(s)
<1>1. \E i \in DOMAIN NameMap(s) : NameMap(s)[i] = n
    BY DEF Names, Range
<1>2. Named(s, n) \in DOMAIN NameMap(s) /\ NameMap(s)[Named(s, n)] = n
    BY <1>1 DEF Named
<1>3. \A i \in DOMAIN NameMap(s) : NameMap(s)[i] = n => i = Named(s, n)
    BY <1>2 DEF PlainNames
<1>4. DOMAIN NameMap(s) \subseteq C1!RealIndex(s)
    BY SchemaFacts DEF NameMap
<1> QED
    BY <1>2, <1>3, <1>4

LEMMA SameOnName ==
    ASSUME NEW s \in Schema, PlainNames(s), NEW n \in Names(s), NEW pair
    PROVE  SameOn(s, pair, {n}) <=> pair[1][Named(s, n)] = pair[2][Named(s, n)]
<1>1. NamedIn(s, {n}) = {Named(s, n)}
    BY NamedFacts DEF NamedIn
<1> QED
    BY <1>1 DEF SameOn

LEMMA SameOnEach ==
    ASSUME NEW s, NEW names, NEW pair
    PROVE  SameOn(s, pair, names) <=> \A n \in names : SameOn(s, pair, {n})
BY DEF SameOn, NamedIn

(* The tables of names of a circuit: variable_names is NameMap, and any way  *)
(* back the loop over it finds is Named.                                    *)
LEMMA WayBack ==
    ASSUME NEW s \in Schema, PlainNames(s), NEW inv \in C1!Inverses(s.vars_of_interest), NEW inverse,
           inverse = C1!Inserted(C1!Inserted(inv, "zero", 0), "one", 1)
    PROVE  DOMAIN inverse = Names(s) /\ \A n \in Names(s) : inverse[n] = Named(s, n)
<1> DEFINE voi == s.vars_of_interest
           m == NameMap(s)
<1>1. /\ DOMAIN m = DOMAIN voi \cup {0, 1}
      /\ \A i \in DOMAIN voi : m[i] = voi[i]
      /\ 0 \notin DOMAIN voi => m[0] = "zero"
      /\ 1 \notin DOMAIN voi => m[1] = "one"
    BY DEF NameMap
<1>2. /\ DOMAIN inv = {voi[i] : i \in DOMAIN voi}
      /\ \A n \in DOMAIN inv : inv[n] \in DOMAIN voi /\ voi[inv[n]] = n
    BY DEF C1!Inverses, C1!Range
<1>3. /\ DOMAIN inverse = DOMAIN inv \cup {"zero", "one"}
      /\ \A n \in DOMAIN inv : inverse[n] = inv[n]
      /\ "zero" \notin DOMAIN inv => inverse["zero"] = 0
      /\ "one" \notin DOMAIN inv => inverse["one"] = 1
    BY DEF C1!Inserted
<1>4. {"zero", "one"} \subseteq Names(s)
    BY DEF PlainNames
<1>5. Names(s) = {m[i] : i \in DOMAIN m}
    BY DEF Names, Range
<1> HIDE DEF m, voi
<1>6. DOMAIN inverse = Names(s)
    BY <1>1, <1>2, <1>3, <1>4, <1>5
<1>7. ASSUME NEW n \in Names(s) PROVE inverse[n] \in DOMAIN m /\ m[inverse[n]] = n
    <2>1. CASE n \in DOMAIN inv
        BY <1>1, <1>2, <1>3, <2>1
    <2>2. CASE n \notin DOMAIN inv
        <3>1. PICK i \in DOMAIN m : m[i] = n
            BY <1>5, <1>7
        <3>2. i \notin DOMAIN voi
            BY <1>1, <1>2, <2>2, <3>1
        <3> QED
            BY <1>1, <1>3, <2>2, <3>1, <3>2
    <2> QED
        BY <2>1, <2>2
<1> QED
    BY <1>6, <1>7, NamedFacts DEF m

LEMMA NameTable ==
    ASSUME NEW s \in Schema, NEW names,
           names = C1!Inserted(C1!Inserted(s.vars_of_interest, 0, "zero"), 1, "one")
    PROVE  DOMAIN names = DOMAIN NameMap(s) /\ \A i \in DOMAIN names : names[i] = NameMap(s)[i]
BY DEF C1!Inserted, NameMap

-----------------------------------------------------------------------------
(* The invariant. *)

(* What is known of each constructor. *)
CircuitsInv ==
    /\ P1!TablesInv /\ P1!EncodingInv /\ P1!NamesInv
    /\ P2!TablesInv /\ P2!EncodingInv /\ P2!NamesInv

(* The assertions are those of the circuits and the relations between them. *)
RelationKind == {"eq", "ne", "someeq", "somene"}
Relations == {f \in asserted : f.kind \in RelationKind}
Divided == asserted = P1!OwnFormulas \cup P2!OwnFormulas \cup Relations

FlowInv ==
    /\ schema \in Schema
    /\ call \in Call
    /\ step \in {"build", "relate", "built", "threw"}
    /\ step \in {"relate", "built"} => phase1 = "done" /\ phase2 = "done"
    /\ pos \in Nat \ {0}
    /\ checked \in BOOLEAN
    /\ ~checked => cvc_result = "null"

(* The loops over equal and not_equal have come to position p. *)
NamesSeen(p) ==
    /\ p <= Len(call.equal) + Len(call.not_equal) + 1
    /\ call.fn = "unique_witness" => p <= Len(call.equal) + 1
    /\ \A k \in 1 .. Len(call.equal) : k < p => call.equal[k] \in Names(schema)

RelatedUpTo(v, p) ==
    /\ \A k \in 1 .. Len(call.equal) :
          k < p => SameOn(schema, Views(v), {call.equal[k]})
    /\ \A k \in 1 .. Len(call.not_equal) :
          Len(call.equal) + k < p => ~SameOn(schema, Views(v), {call.not_equal[k]})

(* What the relations asserted so far mean. *)
Related(v) == \A f \in Relations : Holds(f, v)

(* The variables unique_witness compares, and what its relations, or those   *)
(* of unique_witness_ext, ask of a pair of witnesses.                       *)
Claimed(s, c) == Comparable(s) \ NamedIn(s, Range(c.equal))
Asked(s, c, pair) ==
    /\ SameOn(s, pair, Range(c.equal))
    /\ IF c.fn = "unique_witness"
       THEN Claimed(s, c) # {} =>
                \E i \in Claimed(s, c) :
                    pair[1][s.real_variable_index[i]] # pair[2][s.real_variable_index[i]]
       ELSE /\ \A n \in Range(c.not_equal) : ~SameOn(s, pair, {n})
            /\ c.any_equal # <<>> => \E n \in Range(c.any_equal) : SameOn(s, pair, {n})
            /\ c.any_not_equal # <<>> => ~SameOn(s, pair, Range(c.any_not_equal))

RelationsInv ==
    /\ step = "build" => Relations = {} /\ pos = 1
    /\ step = "relate" =>
          NamesSeen(pos) /\ \A v \in Valuation : Related(v) <=> RelatedUpTo(v, pos)
    /\ step = "built" =>
          \A v \in Valuation : Related(v) <=> Asked(schema, call, Views(v))

(* What is known of the relations is known where a name is that of one       *)
(* variable.                                                                *)
IInv == CircuitsInv /\ Divided /\ FlowInv /\ (PlainNames(schema) => RelationsInv)

-----------------------------------------------------------------------------
(* The assertions of a circuit. *)

LEMMA OwnIs ==
    /\ P1!OwnFormulas = {f \in asserted : f.kind \in {"pin", "plonk", "r1cs"} /\ f.tag = "circuit1"}
    /\ P2!OwnFormulas = {f \in asserted : f.kind \in {"pin", "plonk", "r1cs"} /\ f.tag = "circuit2"}
BY DEF P1!OwnFormulas, P2!OwnFormulas, P1!OwnKind, P2!OwnKind

(* A built circuit admits its witnesses. *)
LEMMA FirstAdmits ==
    ASSUME CircuitsInv, phase1 = "done", schema \in Schema, NEW v \in Valuation
    PROVE  (\A f \in P1!OwnFormulas : Holds(f, v)) <=> C1!IsWitness(schema, View("circuit1", v))
<1>1. schema.isPLONK /\ P1!ReadsRight(schema) /\ P1!ConstantsFixed(schema)
    BY SchemaFacts, SameReading, SameConstants
<1>2. P1!IsValuation(schema, v)
    BY SameSchemas DEF Valuation, P1!IsValuation, P1!Ring, Ring, SymVar, AllIndex
<1>3. P1!View(schema, v) = View("circuit1", v)
    BY SameSchemas DEF P1!View, View
<1>4. \A f \in P1!OwnFormulas : P1!HoldsOwn(f, v) <=> Holds(f, v)
    <2>1. \A f \in P1!OwnFormulas : f.kind \in {"pin", "plonk"}
        BY <1>1 DEF CircuitsInv, P1!TablesInv, P1!FormulasInv, P1!OwnFormulas, P1!OwnKind
    <2> QED
        BY <2>1, SameFormulas
<1>5. P1!Satisfied(P1!OwnFormulas, v) <=> P1!IsWitness(schema, P1!View(schema, v))
    BY <1>1, <1>2, Constants, P1!BuiltIsExact DEF CircuitsInv
<1>6. P1!Satisfied(P1!OwnFormulas, v) <=> \A f \in P1!OwnFormulas : Holds(f, v)
    BY <1>4 DEF P1!Satisfied
<1>7. P1!IsWitness(schema, View("circuit1", v)) <=> C1!IsWitness(schema, View("circuit1", v))
    BY <1>1, SameWitnesses
<1> QED
    BY <1>3, <1>5, <1>6, <1>7

LEMMA SecondAdmits ==
    ASSUME CircuitsInv, phase2 = "done", schema \in Schema, NEW v \in Valuation
    PROVE  (\A f \in P2!OwnFormulas : Holds(f, v)) <=> C1!IsWitness(schema, View("circuit2", v))
<1>1. schema.isPLONK /\ P2!ReadsRight(schema) /\ P2!ConstantsFixed(schema)
    BY SchemaFacts, SameReading, SameConstants
<1>2. P2!IsValuation(schema, v)
    BY SameSchemas DEF Valuation, P2!IsValuation, P2!Ring, Ring, SymVar, AllIndex
<1>3. P2!View(schema, v) = View("circuit2", v)
    BY SameSchemas DEF P2!View, View
<1>4. \A f \in P2!OwnFormulas : P2!HoldsOwn(f, v) <=> Holds(f, v)
    <2>1. \A f \in P2!OwnFormulas : f.kind \in {"pin", "plonk"}
        BY <1>1 DEF CircuitsInv, P2!TablesInv, P2!FormulasInv, P2!OwnFormulas, P2!OwnKind
    <2> QED
        BY <2>1, SameFormulas
<1>5. P2!Satisfied(P2!OwnFormulas, v) <=> P2!IsWitness(schema, P2!View(schema, v))
    BY <1>1, <1>2, Constants, P2!BuiltIsExact DEF CircuitsInv
<1>6. P2!Satisfied(P2!OwnFormulas, v) <=> \A f \in P2!OwnFormulas : Holds(f, v)
    BY <1>4 DEF P2!Satisfied
<1>7. P2!IsWitness(schema, View("circuit2", v)) <=> C1!IsWitness(schema, View("circuit2", v))
    BY <1>1, SameWitnesses
<1> QED
    BY <1>3, <1>5, <1>6, <1>7

(* What the two tables of names hold once the circuits are built. *)
LEMMA NamesBuilt ==
    ASSUME CircuitsInv, phase1 = "done", phase2 = "done", schema \in Schema, PlainNames(schema)
    PROVE  /\ DOMAIN inverse1 = Names(schema) /\ DOMAIN inverse2 = Names(schema)
           /\ \A n \in Names(schema) :
                 inverse1[n] = Named(schema, n) /\ inverse2[n] = Named(schema, n)
           /\ DOMAIN names1 = DOMAIN NameMap(schema)
           /\ \A i \in DOMAIN names1 : names1[i] = NameMap(schema)[i]
<1>1. /\ names1 = C1!Inserted(C1!Inserted(schema.vars_of_interest, 0, "zero"), 1, "one")
      /\ \E inv \in C1!Inverses(schema.vars_of_interest) :
            inverse1 = C1!Inserted(C1!Inserted(inv, "zero", 0), "one", 1)
    BY SameMaps DEF CircuitsInv, P1!NamesInv
<1>2. \E inv \in C1!Inverses(schema.vars_of_interest) :
          inverse2 = C1!Inserted(C1!Inserted(inv, "zero", 0), "one", 1)
    BY SameMaps DEF CircuitsInv, P2!NamesInv
<1> QED
    BY <1>1, <1>2, WayBack, NameTable

(* What a name leads to is a variable of the circuit, whatever the names.    *)
LEMMA NamesLead ==
    ASSUME CircuitsInv, phase1 = "done", phase2 = "done"
    PROVE  /\ \A n \in DOMAIN inverse1 : inverse1[n] \in C1!RealIndex(schema)
           /\ \A n \in DOMAIN inverse2 : inverse2[n] \in C1!RealIndex(schema)
<1>1. P1!Range(inverse1) \subseteq P1!RealIndex(schema)
    BY DEF CircuitsInv, P1!TablesInv, P1!VariablesInv, P1!Built
<1>2. P2!Range(inverse2) \subseteq P2!RealIndex(schema)
    BY DEF CircuitsInv, P2!TablesInv, P2!VariablesInv, P2!Built
<1> QED
    BY <1>1, <1>2, SameSchemas DEF P1!Range, P2!Range

LEMMA GatedIsReal ==
    ASSUME NEW s \in Schema
    PROVE  C1!GatedIndex(s) \subseteq C1!RealIndex(s)
<1>1. DOMAIN s.gates = 1 .. Len(s.gates)
    BY SchemaFacts, SameSchemas, Constants, P1!SchemaLengths
<1>2. \A n \in 1 .. Len(s.gates) : s.gates[n].w \in [1 .. 3 -> C1!RealIndex(s)]
    BY SchemaFacts, SameSchemas, Constants, P1!PlonkGateTypes
<1> QED
    BY <1>1, <1>2, SchemaFacts DEF C1!GatedIndex, C1!GateWires, C1!Range

(* The variables unique_witness compares are those the claim is about. *)
LEMMA ComparedAreClaimed ==
    ASSUME CircuitsInv, phase1 = "done", phase2 = "done", schema \in Schema, PlainNames(schema),
           \A n \in Range(call.equal) : n \in Names(schema)
    PROVE  Compared = Claimed(schema, call)
<1>1. symbolic1 = C1!RealIndex(schema)
    BY SameSchemas DEF CircuitsInv, P1!TablesInv, P1!VariablesInv, P1!Built
<1>2. \A i \in symbolic1 : ~optimized1[i] <=> i \in C1!GatedIndex(schema) \cup {0, 1}
    <2>1. P1!MarkedUpTo(schema, Len(schema.gates))
        BY SchemaFacts DEF CircuitsInv, P1!TablesInv, P1!OptimizedInv
    <2>2. DOMAIN schema.gates = 1 .. Len(schema.gates)
        BY SchemaFacts, SameSchemas, Constants, P1!SchemaLengths
    <2>3. C1!GatedIndex(schema) = P1!WiresOf(schema, Len(schema.gates))
        BY <2>2, SchemaFacts DEF C1!GatedIndex, C1!GateWires, P1!WiresOf, C1!Range, P1!Range
    <2> QED
        BY <2>1, <2>3 DEF P1!MarkedUpTo
<1>3. C1!GatedIndex(schema) \cup {0, 1} \subseteq C1!RealIndex(schema)
    BY GatedIsReal, SchemaFacts
<1>4. \A i : NameAt(i) \in Range(call.equal) <=> i \in NamedIn(schema, Range(call.equal))
    <2> SUFFICES ASSUME NEW i
                 PROVE  NameAt(i) \in Range(call.equal) <=> i \in NamedIn(schema, Range(call.equal))
        OBVIOUS
    <2>1. /\ DOMAIN names1 = DOMAIN NameMap(schema)
          /\ \A j \in DOMAIN names1 : names1[j] = NameMap(schema)[j]
        BY NamesBuilt
    <2>2. CASE i \in DOMAIN NameMap(schema)
        <3>1. NameAt(i) = NameMap(schema)[i]
            BY <2>1, <2>2 DEF NameAt
        <3> QED
            BY <2>2, <3>1 DEF NamedIn
    <2>3. CASE i \notin DOMAIN NameMap(schema)
        <3>1. NameAt(i) = "" /\ "" \notin Names(schema)
            BY <2>1, <2>3 DEF NameAt, PlainNames
        <3> QED
            BY <2>3, <3>1 DEF NamedIn
    <2> QED
        BY <2>2, <2>3
<1> QED
    BY <1>1, <1>2, <1>3, <1>4 DEF Compared, Claimed, Comparable

-----------------------------------------------------------------------------
(* What the steps leave of the invariant: the circuits. *)

LEMMA InitInv == Init => IInv
<1> SUFFICES ASSUME Init PROVE IInv
    OBVIOUS
<1>1. P1!Init /\ P2!Init
    BY DEF Init, C1!Init, C2!Init, P1!Init, P2!Init
<1>2. CircuitsInv
    BY <1>1, Constants, P1!InitTables, P2!InitTables, P1!EncodingInit, P2!EncodingInit,
       P1!InitNames, P2!InitNames
    DEF CircuitsInv
<1>3. asserted = {} /\ schema \in Schema
    BY DEF Init, C1!Init
<1>4. Divided
    BY <1>3, OwnIs DEF Divided, Relations
<1>5. FlowInv
    <2>1. /\ call \in Call /\ step = "build" /\ pos = 1
          /\ checked = FALSE /\ cvc_result = "null"
        BY DEF Init
    <2>2. pos \in Nat \ {0} /\ step \notin {"relate", "built"}
        BY <2>1
    <2>3. checked \in BOOLEAN /\ (~checked => cvc_result = "null")
        BY <2>1
    <2> QED
        BY <1>3, <2>1, <2>2, <2>3, Zenon DEF FlowInv
<1>6. RelationsInv
    BY <1>3 DEF Init, RelationsInv, Relations
<1> QED
    BY <1>2, <1>4, <1>5, <1>6 DEF IInv

(* Relations belong to no circuit. *)
LEMMA RelationsAdded ==
    ASSUME asserted \subseteq asserted', \A f \in asserted' \ asserted : f.kind \in RelationKind,
           Divided
    PROVE  /\ P1!OwnFormulas' = P1!OwnFormulas /\ P2!OwnFormulas' = P2!OwnFormulas
           /\ Relations' = Relations \cup (asserted' \ asserted)
           /\ Divided'
<1>1. /\ P1!OwnFormulas' = {f \in asserted' : f.kind \in {"pin", "plonk", "r1cs"} /\ f.tag = "circuit1"}
      /\ P2!OwnFormulas' = {f \in asserted' : f.kind \in {"pin", "plonk", "r1cs"} /\ f.tag = "circuit2"}
    BY DEF P1!OwnFormulas, P2!OwnFormulas, P1!OwnKind, P2!OwnKind
<1>2. \A f \in asserted' \ asserted : f.kind \notin {"pin", "plonk", "r1cs"}
    BY DEF RelationKind
<1>3. P1!OwnFormulas' = P1!OwnFormulas /\ P2!OwnFormulas' = P2!OwnFormulas
    BY <1>1, <1>2, OwnIs
<1>4. Relations' = Relations \cup (asserted' \ asserted)
    BY DEF Relations
<1> QED
    BY <1>3, <1>4 DEF Divided

LEMMA CircuitsStay ==
    ASSUME CircuitsInv, UNCHANGED <<schema, c1, c2>>,
           P1!OwnFormulas' = P1!OwnFormulas, P2!OwnFormulas' = P2!OwnFormulas
    PROVE  CircuitsInv'
<1>1. UNCHANGED <<schema, P1!own>> /\ UNCHANGED <<schema, P2!own>>
    BY DEF c1, c2, P1!own, P2!own
<1>2. P1!TablesInv' /\ P1!EncodingInv' /\ P1!NamesInv'
    BY <1>1, Constants, P1!ElsewhereTables, P1!ElsewhereEncodes, P1!ElsewhereNames DEF CircuitsInv
<1>3. P2!TablesInv' /\ P2!EncodingInv' /\ P2!NamesInv'
    BY <1>1, Constants, P2!ElsewhereTables, P2!ElsewhereEncodes, P2!ElsewhereNames DEF CircuitsInv
<1> QED
    BY <1>2, <1>3 DEF CircuitsInv

(* A step of one constructor leaves the other circuit alone. *)
LEMMA FirstBuilds ==
    ASSUME CircuitsInv, Divided, schema \in Schema, C1!Next, UNCHANGED c2
    PROVE  CircuitsInv' /\ Divided' /\ Relations' = Relations /\ schema' = schema
<1>1. P1!Next
    BY SchemaFacts, SameFirst
<1>2. /\ schema' = schema /\ asserted \subseteq asserted'
      /\ \A f \in asserted' \ asserted : f.kind \in {"pin", "plonk", "r1cs"} /\ f.tag = "circuit1"
    BY <1>1, Constants, P1!NextAsserts DEF P1!OwnKind
<1>3. /\ P1!OwnFormulas' = {f \in asserted' : f.kind \in {"pin", "plonk", "r1cs"} /\ f.tag = "circuit1"}
      /\ P2!OwnFormulas' = {f \in asserted' : f.kind \in {"pin", "plonk", "r1cs"} /\ f.tag = "circuit2"}
    BY DEF P1!OwnFormulas, P2!OwnFormulas, P1!OwnKind, P2!OwnKind
<1>4. P2!OwnFormulas' = P2!OwnFormulas
    BY <1>2, <1>3, OwnIs
<1>5. Relations' = Relations
    BY <1>2 DEF Relations, RelationKind
<1>6. P1!TablesInv' /\ P1!EncodingInv' /\ P1!NamesInv'
    BY <1>1, Constants, P1!NextTables, P1!NextEncodes, P1!NextNames DEF CircuitsInv
<1>7. UNCHANGED <<schema, P2!own>>
    BY <1>2 DEF c2, P2!own
<1>8. P2!TablesInv' /\ P2!EncodingInv' /\ P2!NamesInv'
    BY <1>4, <1>7, Constants, P2!ElsewhereTables, P2!ElsewhereEncodes, P2!ElsewhereNames DEF CircuitsInv
<1>9. Divided'
    <2>1. P1!OwnFormulas \subseteq P1!OwnFormulas'
        BY <1>2, <1>3, OwnIs
    <2>2. asserted' \ asserted \subseteq P1!OwnFormulas'
        BY <1>2, <1>3
    <2>3. P1!OwnFormulas' \cup P2!OwnFormulas' \cup Relations' \subseteq asserted'
        BY <1>3 DEF Relations
    <2> QED
        BY <1>4, <1>5, <2>1, <2>2, <2>3 DEF Divided
<1> QED
    BY <1>2, <1>5, <1>6, <1>8, <1>9 DEF CircuitsInv

LEMMA SecondBuilds ==
    ASSUME CircuitsInv, Divided, schema \in Schema, C2!Next, UNCHANGED c1
    PROVE  CircuitsInv' /\ Divided' /\ Relations' = Relations /\ schema' = schema
<1>1. P2!Next
    BY SchemaFacts, SameSecond
<1>2. /\ schema' = schema /\ asserted \subseteq asserted'
      /\ \A f \in asserted' \ asserted : f.kind \in {"pin", "plonk", "r1cs"} /\ f.tag = "circuit2"
    BY <1>1, Constants, P2!NextAsserts DEF P2!OwnKind
<1>3. /\ P2!OwnFormulas' = {f \in asserted' : f.kind \in {"pin", "plonk", "r1cs"} /\ f.tag = "circuit2"}
      /\ P1!OwnFormulas' = {f \in asserted' : f.kind \in {"pin", "plonk", "r1cs"} /\ f.tag = "circuit1"}
    BY DEF P1!OwnFormulas, P2!OwnFormulas, P1!OwnKind, P2!OwnKind
<1>4. P1!OwnFormulas' = P1!OwnFormulas
    BY <1>2, <1>3, OwnIs
<1>5. Relations' = Relations
    BY <1>2 DEF Relations, RelationKind
<1>6. P2!TablesInv' /\ P2!EncodingInv' /\ P2!NamesInv'
    BY <1>1, Constants, P2!NextTables, P2!NextEncodes, P2!NextNames DEF CircuitsInv
<1>7. UNCHANGED <<schema, P1!own>>
    BY <1>2 DEF c1, P1!own
<1>8. P1!TablesInv' /\ P1!EncodingInv' /\ P1!NamesInv'
    BY <1>4, <1>7, Constants, P1!ElsewhereTables, P1!ElsewhereEncodes, P1!ElsewhereNames DEF CircuitsInv
<1>9. Divided'
    <2>1. P2!OwnFormulas \subseteq P2!OwnFormulas'
        BY <1>2, <1>3, OwnIs
    <2>2. asserted' \ asserted \subseteq P2!OwnFormulas'
        BY <1>2, <1>3
    <2>3. P2!OwnFormulas' \cup P1!OwnFormulas' \cup Relations' \subseteq asserted'
        BY <1>3 DEF Relations
    <2> QED
        BY <1>4, <1>5, <2>1, <2>2, <2>3 DEF Divided
<1> QED
    BY <1>2, <1>5, <1>6, <1>8, <1>9 DEF CircuitsInv

-----------------------------------------------------------------------------
(* The steps of the function. *)

LEMMA BuildFirstKeeps ==
    ASSUME IInv, BuildFirst
    PROVE  IInv'
<1>1. CircuitsInv' /\ Divided' /\ Relations' = Relations /\ schema' = schema
    BY FirstBuilds DEF IInv, FlowInv, BuildFirst
<1>2. /\ step = "build" /\ step' \in {"build", "threw"}
      /\ call' = call /\ pos' = pos /\ checked' = checked /\ cvc_result' = cvc_result
    BY DEF BuildFirst, flags
<1>3. FlowInv'
    BY <1>1, <1>2 DEF IInv, FlowInv
<1>4. PlainNames(schema)' => RelationsInv'
    BY <1>1, <1>2 DEF IInv, RelationsInv
<1> QED
    BY <1>1, <1>3, <1>4 DEF IInv

LEMMA BuildSecondKeeps ==
    ASSUME IInv, BuildSecond
    PROVE  IInv'
<1>1. CircuitsInv' /\ Divided' /\ Relations' = Relations /\ schema' = schema
    BY SecondBuilds DEF IInv, FlowInv, BuildSecond
<1>2. /\ step = "build" /\ step' \in {"build", "threw", "relate"}
      /\ step' = "relate" => phase1' = "done" /\ phase2' = "done"
      /\ call' = call /\ pos' = pos /\ checked' = checked /\ cvc_result' = cvc_result
    BY DEF BuildSecond, flags, c1
<1>3. FlowInv'
    BY <1>1, <1>2 DEF IInv, FlowInv
<1>4. PlainNames(schema) => Relations = {} /\ pos = 1
    BY <1>2 DEF IInv, RelationsInv
<1>5. Len(call.equal) \in Nat /\ Len(call.not_equal) \in Nat
    BY CallFacts DEF IInv, FlowInv
<1>6. PlainNames(schema) => NamesSeen(pos)'
    <2>1. NamesSeen(1)
        <3>1. 1 <= Len(call.equal) + Len(call.not_equal) + 1
            <4>1. \A a, b \in Nat : 1 <= a + b + 1
                OBVIOUS
            <4> QED
                BY <1>5, <4>1
        <3>2. 1 <= Len(call.equal) + 1
            BY <1>5
        <3>3. \A k \in 1 .. Len(call.equal) : ~(k < 1)
            BY <1>5
        <3> QED
            BY <3>1, <3>2, <3>3 DEF NamesSeen
    <2> QED
        BY <1>1, <1>2, <1>4, <2>1 DEF NamesSeen
<1>7. PlainNames(schema) => \A v \in Valuation : (Related(v) <=> RelatedUpTo(v, pos))'
    BY <1>1, <1>2, <1>4, <1>5 DEF Related, RelatedUpTo
<1>8. PlainNames(schema)' => RelationsInv'
    BY <1>1, <1>2, <1>4, <1>6, <1>7 DEF RelationsInv
<1> QED
    BY <1>1, <1>3, <1>8 DEF IInv

(* What one relation between the variables of a name means. *)
LEMMA RelationMeans ==
    ASSUME CircuitsInv, phase1 = "done", phase2 = "done", schema \in Schema, PlainNames(schema),
           NEW n, Known(n),
           NEW v
    PROVE  /\ n \in Names(schema)
           /\ Holds(Eq(inverse1[n], inverse2[n]), v) <=> SameOn(schema, Views(v), {n})
           /\ Holds(Ne(inverse1[n], inverse2[n]), v) <=> ~SameOn(schema, Views(v), {n})
<1>1. /\ n \in Names(schema)
      /\ inverse1[n] = Named(schema, n) /\ inverse2[n] = Named(schema, n)
      /\ Named(schema, n) \in C1!RealIndex(schema)
    BY NamesBuilt, NamedFacts DEF Known
<1>2. SameOn(schema, Views(v), {n})
          <=> v[<<"circuit1", Named(schema, n)>>] = v[<<"circuit2", Named(schema, n)>>]
    BY <1>1, SameOnName DEF Views, View
<1>3. Holds(Eq(Named(schema, n), Named(schema, n)), v)
          <=> v[<<"circuit1", Named(schema, n)>>] = v[<<"circuit2", Named(schema, n)>>]
    BY DEF Holds, Eq
<1>4. Holds(Ne(Named(schema, n), Named(schema, n)), v)
          <=> v[<<"circuit1", Named(schema, n)>>] # v[<<"circuit2", Named(schema, n)>>]
    BY DEF Holds, Ne
<1> QED
    BY <1>1, <1>2, <1>3, <1>4

(* A step that throws, or that stops nowhere else in the function. *)
LEMMA ThrowKeeps ==
    ASSUME IInv, step' = "threw", UNCHANGED <<schema, call, pos, c1, c2, checked, cvc_result>>,
           asserted \subseteq asserted', \A f \in asserted' \ asserted : f.kind \in RelationKind
    PROVE  IInv'
<1>1. /\ P1!OwnFormulas' = P1!OwnFormulas /\ P2!OwnFormulas' = P2!OwnFormulas
      /\ Divided'
    BY RelationsAdded DEF IInv
<1>2. CircuitsInv'
    BY <1>1, CircuitsStay DEF IInv
<1>3. FlowInv' /\ RelationsInv'
    BY DEF IInv, FlowInv, RelationsInv
<1> QED
    BY <1>1, <1>2, <1>3 DEF IInv

LEMMA RelateEqualKeeps ==
    ASSUME IInv, RelateEqual
    PROVE  IInv'
<1> DEFINE n == call.equal[pos]
           f == Eq(inverse1[n], inverse2[n])
<1>1. /\ step = "relate" /\ pos <= Len(call.equal) /\ pos \in Nat \ {0}
      /\ schema \in Schema /\ phase1 = "done" /\ phase2 = "done"
      /\ Len(call.equal) \in Nat /\ Len(call.not_equal) \in Nat
      /\ call.fn \in {"unique_witness", "unique_witness_ext"}
    BY CallFacts DEF IInv, FlowInv, RelateEqual
<1>2. CASE ~Known(n)
    <2>1. /\ step' = "threw" /\ asserted' = asserted
          /\ UNCHANGED <<schema, call, pos, c1, c2, checked, cvc_result>>
        BY <1>2 DEF RelateEqual, RelateName, flags
    <2> QED
        BY <2>1, ThrowKeeps
<1>3. CASE Known(n)
    <2>1. /\ asserted' = asserted \cup {f} /\ pos' = pos + 1
          /\ UNCHANGED <<schema, call, step, c1, c2, checked, cvc_result>>
        BY <1>3 DEF RelateEqual, RelateName, S!assertFormula
    <2>2. f.kind \in RelationKind
        BY DEF Eq, RelationKind
    <2> HIDE DEF f
    <2>3. /\ P1!OwnFormulas' = P1!OwnFormulas /\ P2!OwnFormulas' = P2!OwnFormulas
          /\ Relations' = Relations \cup {f} /\ Divided'
        <3>1. asserted \subseteq asserted' /\ \A g \in asserted' \ asserted : g.kind \in RelationKind
            BY <2>1, <2>2
        <3>2. Relations' = Relations \cup {f}
            BY <2>1, <2>2 DEF Relations
        <3> QED
            BY <3>1, <3>2, RelationsAdded DEF IInv
    <2>4. CircuitsInv'
        BY <2>1, <2>3, CircuitsStay DEF IInv
    <2>5. phase1' = phase1 /\ phase2' = phase2
        BY <2>1 DEF c1, c2
    <2>6. FlowInv'
        BY <1>1, <2>1, <2>5 DEF IInv, FlowInv
    <2>7. ASSUME PlainNames(schema) PROVE RelationsInv'
        <3>7. \A v \in Valuation : Holds(f, v) <=> SameOn(schema, Views(v), {n})
            BY <1>1, <1>3, <2>7, RelationMeans DEF IInv, f
        <3>8. n \in Names(schema)
            BY <1>1, <1>3, <2>7, NamesBuilt DEF IInv, Known
        <3>9. NamesSeen(pos)'
            <4>1. NamesSeen(pos + 1)
                <5>1. \A a, b \in Nat : pos <= a => pos + 1 <= a + b + 1 /\ pos + 1 <= a + 1
                    BY <1>1
                <5>2. /\ pos + 1 <= Len(call.equal) + Len(call.not_equal) + 1
                      /\ pos + 1 <= Len(call.equal) + 1
                    BY <1>1, <5>1
                <5>3. \A k \in 1 .. Len(call.equal) : k < pos + 1 => k < pos \/ k = pos
                    BY <1>1
                <5>4. NamesSeen(pos)
                    BY <1>1, <2>7 DEF IInv, RelationsInv
                <5> QED
                    BY <3>8, <5>2, <5>3, <5>4 DEF NamesSeen
            <4> QED
                BY <2>1, <4>1 DEF NamesSeen
        <3>10. ASSUME NEW v \in Valuation PROVE (Related(v) <=> RelatedUpTo(v, pos))'
            <4>1. Related(v) <=> RelatedUpTo(v, pos)
                BY <1>1, <2>7 DEF IInv, RelationsInv
            <4>2. Related(v)' <=> Related(v) /\ Holds(f, v)
                BY <2>3 DEF Related
            <4>3. RelatedUpTo(v, pos + 1) <=> RelatedUpTo(v, pos) /\ SameOn(schema, Views(v), {n})
                <5>1. \A k \in 1 .. Len(call.equal) : k < pos + 1 <=> k < pos \/ k = pos
                    BY <1>1
                <5>2. \A k \in 1 .. Len(call.not_equal) : ~(Len(call.equal) + k < pos + 1)
                    BY <1>1
                <5>3. \A k \in 1 .. Len(call.not_equal) : ~(Len(call.equal) + k < pos)
                    BY <1>1
                <5>4. pos \in 1 .. Len(call.equal)
                    BY <1>1
                <5> QED
                    BY <5>1, <5>2, <5>3, <5>4 DEF RelatedUpTo
            <4>4. RelatedUpTo(v, pos)' <=> RelatedUpTo(v, pos + 1)
                BY <2>1 DEF RelatedUpTo, Views, View
            <4> QED
                BY <3>7, <4>1, <4>2, <4>3, <4>4
        <3>11. RelationsInv'
            BY <1>1, <2>1, <3>9, <3>10 DEF RelationsInv
        <3> QED
            BY <3>11
    <2> QED
        BY <2>1, <2>3, <2>4, <2>6, <2>7 DEF IInv
<1> QED
    BY <1>2, <1>3

LEMMA RelateNotEqualKeeps ==
    ASSUME IInv, RelateNotEqual
    PROVE  IInv'
<1> DEFINE at == pos - Len(call.equal)
           n == call.not_equal[at]
           f == Ne(inverse1[n], inverse2[n])
<1>1. /\ step = "relate" /\ pos \in Nat \ {0}
      /\ pos > Len(call.equal) /\ pos <= Len(call.equal) + Len(call.not_equal)
      /\ schema \in Schema /\ phase1 = "done" /\ phase2 = "done"
      /\ Len(call.equal) \in Nat /\ Len(call.not_equal) \in Nat
      /\ call.fn = "unique_witness_ext"
    BY CallFacts DEF IInv, FlowInv, RelateNotEqual
<1>2. CASE ~Known(n)
    <2>1. /\ step' = "threw" /\ asserted' = asserted
          /\ UNCHANGED <<schema, call, pos, c1, c2, checked, cvc_result>>
        BY <1>2 DEF RelateNotEqual, RelateName, flags
    <2> QED
        BY <2>1, ThrowKeeps
<1>3. CASE Known(n)
    <2>1. /\ asserted' = asserted \cup {f} /\ pos' = pos + 1
          /\ UNCHANGED <<schema, call, step, c1, c2, checked, cvc_result>>
        BY <1>3 DEF RelateNotEqual, RelateName, S!assertFormula
    <2>2. f.kind \in RelationKind
        BY DEF Ne, RelationKind
    <2> HIDE DEF f
    <2>3. /\ P1!OwnFormulas' = P1!OwnFormulas /\ P2!OwnFormulas' = P2!OwnFormulas
          /\ Relations' = Relations \cup {f} /\ Divided'
        <3>1. asserted \subseteq asserted' /\ \A g \in asserted' \ asserted : g.kind \in RelationKind
            BY <2>1, <2>2
        <3>2. Relations' = Relations \cup {f}
            BY <2>1, <2>2 DEF Relations
        <3> QED
            BY <3>1, <3>2, RelationsAdded DEF IInv
    <2>4. CircuitsInv'
        BY <2>1, <2>3, CircuitsStay DEF IInv
    <2>5. phase1' = phase1 /\ phase2' = phase2
        BY <2>1 DEF c1, c2
    <2>6. FlowInv'
        BY <1>1, <2>1, <2>5 DEF IInv, FlowInv
    <2>7. ASSUME PlainNames(schema) PROVE RelationsInv'
        <3>7. \A v \in Valuation : Holds(f, v) <=> ~SameOn(schema, Views(v), {n})
            BY <1>1, <1>3, <2>7, RelationMeans DEF IInv, f
        <3>8. at \in 1 .. Len(call.not_equal) /\ Len(call.equal) + at = pos
            <4>1. \A a, b \in Nat : pos > a /\ pos <= a + b => pos - a \in 1 .. b /\ a + (pos - a) = pos
                BY <1>1
            <4> QED
                BY <1>1, <4>1
        <3>9. NamesSeen(pos)'
            <4>1. NamesSeen(pos + 1)
                <5>1. \A a, b \in Nat : pos <= a + b => pos + 1 <= a + b + 1
                    BY <1>1
                <5>2. pos + 1 <= Len(call.equal) + Len(call.not_equal) + 1
                    BY <1>1, <5>1
                <5>3. \A k \in 1 .. Len(call.equal) : k < pos
                    BY <1>1
                <5>4. NamesSeen(pos)
                    BY <1>1, <2>7 DEF IInv, RelationsInv
                <5> QED
                    BY <1>1, <5>2, <5>3, <5>4 DEF NamesSeen
            <4> QED
                BY <2>1, <4>1 DEF NamesSeen
        <3>10. ASSUME NEW v \in Valuation PROVE (Related(v) <=> RelatedUpTo(v, pos))'
            <4>1. Related(v) <=> RelatedUpTo(v, pos)
                BY <1>1, <2>7 DEF IInv, RelationsInv
            <4>2. Related(v)' <=> Related(v) /\ Holds(f, v)
                BY <2>3 DEF Related
            <4>3. RelatedUpTo(v, pos + 1) <=> RelatedUpTo(v, pos) /\ ~SameOn(schema, Views(v), {n})
                <5>1. \A k \in 1 .. Len(call.not_equal) :
                          Len(call.equal) + k < pos + 1 <=> Len(call.equal) + k < pos \/ k = at
                    BY <1>1
                <5>2. \A k \in 1 .. Len(call.equal) : k < pos /\ k < pos + 1
                    BY <1>1
                <5> HIDE DEF at
                <5> QED
                    BY <3>8, <5>1, <5>2 DEF RelatedUpTo
            <4>4. RelatedUpTo(v, pos)' <=> RelatedUpTo(v, pos + 1)
                BY <2>1 DEF RelatedUpTo, Views, View
            <4> QED
                BY <3>7, <4>1, <4>2, <4>3, <4>4
        <3>11. RelationsInv'
            BY <1>1, <2>1, <3>9, <3>10 DEF RelationsInv
        <3> QED
            BY <3>11
    <2> QED
        BY <2>1, <2>3, <2>4, <2>6, <2>7 DEF IInv
<1> QED
    BY <1>2, <1>3

(* Once the loops are over, everything they were to relate is related.      *)
LEMMA AllRelated ==
    ASSUME IInv, PlainNames(schema), step = "relate", NEW v \in Valuation
    PROVE  /\ (call.fn = "unique_witness" /\ pos > Len(call.equal)) =>
                 (Related(v) <=> SameOn(schema, Views(v), Range(call.equal)))
           /\ pos > Len(call.equal) + Len(call.not_equal) =>
                 (Related(v) <=>
                    /\ SameOn(schema, Views(v), Range(call.equal))
                    /\ \A n \in Range(call.not_equal) : ~SameOn(schema, Views(v), {n}))
           /\ pos > Len(call.equal) => \A n \in Range(call.equal) : n \in Names(schema)
<1>1. /\ Related(v) <=> RelatedUpTo(v, pos)
      /\ NamesSeen(pos)
      /\ pos \in Nat /\ Len(call.equal) \in Nat /\ Len(call.not_equal) \in Nat
    BY CallFacts DEF IInv, FlowInv, RelationsInv
<1>2. /\ Range(call.equal) = {call.equal[k] : k \in 1 .. Len(call.equal)}
      /\ Range(call.not_equal) = {call.not_equal[k] : k \in 1 .. Len(call.not_equal)}
    <2>1. \A s \in Seq(Name) : Range(s) = {s[k] : k \in 1 .. Len(s)}
        BY DEF Range
    <2>2. call \in Call
        BY DEF IInv, FlowInv
    <2>3. call.equal \in Seq(Name) /\ call.not_equal \in Seq(Name)
        BY <2>2, CallFacts
    <2> QED
        BY <2>1, <2>3
<1>3. SameOn(schema, Views(v), Range(call.equal))
          <=> \A k \in 1 .. Len(call.equal) : SameOn(schema, Views(v), {call.equal[k]})
    <2>1. SameOn(schema, Views(v), Range(call.equal))
              <=> \A n \in Range(call.equal) : SameOn(schema, Views(v), {n})
        BY SameOnEach
    <2> QED
        BY <1>2, <2>1
<1>4. ASSUME pos > Len(call.equal)
      PROVE  \A k \in 1 .. Len(call.equal) : k < pos
    BY <1>1, <1>4
<1>5. ASSUME call.fn = "unique_witness"
      PROVE  \A k \in 1 .. Len(call.not_equal) : ~(Len(call.equal) + k < pos)
    <2>1. pos <= Len(call.equal) + 1
        BY <1>1, <1>5 DEF NamesSeen
    <2> QED
        BY <1>1, <2>1
<1>6. ASSUME pos > Len(call.equal) + Len(call.not_equal)
      PROVE  /\ \A k \in 1 .. Len(call.not_equal) : Len(call.equal) + k < pos
             /\ \A k \in 1 .. Len(call.equal) : k < pos
    <2>1. \A a, b \in Nat : pos > a + b =>
              (\A k \in 1 .. b : a + k < pos) /\ (\A k \in 1 .. a : k < pos)
        BY <1>1
    <2> QED
        BY <1>1, <1>6, <2>1
<1>7. (call.fn = "unique_witness" /\ pos > Len(call.equal)) =>
          (Related(v) <=> SameOn(schema, Views(v), Range(call.equal)))
    BY <1>1, <1>3, <1>4, <1>5 DEF RelatedUpTo
<1>8. pos > Len(call.equal) + Len(call.not_equal) =>
          (Related(v) <=>
             /\ SameOn(schema, Views(v), Range(call.equal))
             /\ \A n \in Range(call.not_equal) : ~SameOn(schema, Views(v), {n}))
    BY <1>1, <1>2, <1>3, <1>6 DEF RelatedUpTo
<1>9. pos > Len(call.equal) => \A n \in Range(call.equal) : n \in Names(schema)
    BY <1>1, <1>2, <1>4 DEF NamesSeen
<1> QED
    BY <1>7, <1>8, <1>9

(* The disjunctions; a list without names asserts nothing. *)
LEMMA SomeMeans ==
    ASSUME CircuitsInv, phase1 = "done", phase2 = "done", schema \in Schema, PlainNames(schema),
           NEW names, AllKnown(names),
           NEW v
    PROVE  /\ (\A f \in AssertSome(PairsOf(names), SomeEq) : Holds(f, v))
                 <=> (names # {} => \E n \in names : SameOn(schema, Views(v), {n}))
           /\ (\A f \in AssertSome(PairsOf(names), SomeNe) : Holds(f, v))
                 <=> (names # {} => ~SameOn(schema, Views(v), names))
<1>1. \A n \in names : /\ n \in Names(schema)
                       /\ inverse1[n] = Named(schema, n) /\ inverse2[n] = Named(schema, n)
                       /\ Named(schema, n) \in C1!RealIndex(schema)
    BY NamesBuilt, NamedFacts DEF AllKnown, Known
<1>2. PairsOf(names) = {<<Named(schema, n), Named(schema, n)>> : n \in names}
    BY <1>1 DEF PairsOf, AllKnown
<1>3. \A n \in names : SameOn(schema, Views(v), {n})
          <=> v[<<"circuit1", Named(schema, n)>>] = v[<<"circuit2", Named(schema, n)>>]
    BY <1>1, SameOnName DEF Views, View
<1>4. SameOn(schema, Views(v), names) <=> \A n \in names : SameOn(schema, Views(v), {n})
    BY SameOnEach
<1>5. PairsOf(names) = {} <=> names = {}
    BY <1>2
<1>6. /\ Holds(SomeEq(PairsOf(names)), v)
            <=> \E p \in PairsOf(names) : v[<<"circuit1", p[1]>>] = v[<<"circuit2", p[2]>>]
      /\ Holds(SomeNe(PairsOf(names)), v)
            <=> \E p \in PairsOf(names) : v[<<"circuit1", p[1]>>] # v[<<"circuit2", p[2]>>]
    BY DEF Holds, SomeEq, SomeNe
<1>7. /\ Holds(SomeEq(PairsOf(names)), v) <=> \E n \in names : SameOn(schema, Views(v), {n})
      /\ Holds(SomeNe(PairsOf(names)), v) <=> ~SameOn(schema, Views(v), names)
    <2>1. /\ (\E p \in PairsOf(names) : v[<<"circuit1", p[1]>>] = v[<<"circuit2", p[2]>>])
                <=> \E n \in names : v[<<"circuit1", Named(schema, n)>>] = v[<<"circuit2", Named(schema, n)>>]
          /\ (\E p \in PairsOf(names) : v[<<"circuit1", p[1]>>] # v[<<"circuit2", p[2]>>])
                <=> \E n \in names : v[<<"circuit1", Named(schema, n)>>] # v[<<"circuit2", Named(schema, n)>>]
        <3>1. \A p \in PairsOf(names) : \E n \in names : p[1] = Named(schema, n) /\ p[2] = Named(schema, n)
            BY <1>2
        <3>2. \A n \in names : \E p \in PairsOf(names) : p[1] = Named(schema, n) /\ p[2] = Named(schema, n)
            <4>1. TAKE n \in names
            <4>2. <<Named(schema, n), Named(schema, n)>> \in PairsOf(names)
                BY <1>2
            <4> QED
                BY <4>2
        <3> QED
            BY <3>1, <3>2
    <2> QED
        BY <1>3, <1>4, <1>6, <2>1
<1> QED
    BY <1>5, <1>7 DEF AssertSome

LEMMA NoNames ==
    ASSUME NEW q \in Seq(Name)
    PROVE  q # <<>> <=> Range(q) # {}
<1>1. CASE q = <<>>
    BY <1>1 DEF Range
<1>2. CASE q # <<>>
    <2>1. 1 \in DOMAIN q
        BY <1>2
    <2> QED
        BY <1>2, <2>1 DEF Range
<1> QED
    BY <1>1, <1>2

LEMMA MoreRelated ==
    ASSUME NEW F, asserted' = asserted \cup F, \A f \in F : f.kind \in RelationKind, NEW v
    PROVE  Related(v)' <=> Related(v) /\ \A f \in F : Holds(f, v)
<1>1. Relations' = Relations \cup F
    BY DEF Relations
<1> QED
    BY <1>1 DEF Related

(* The function returns. *)
LEMMA ReturnKeeps ==
    ASSUME IInv, step = "relate", step' = "built",
           UNCHANGED <<schema, call, pos, c1, c2, checked, cvc_result>>,
           asserted \subseteq asserted', \A f \in asserted' \ asserted : f.kind \in RelationKind,
           PlainNames(schema) => \A v \in Valuation : Related(v)' <=> Asked(schema, call, Views(v))
    PROVE  IInv'
<1>1. /\ P1!OwnFormulas' = P1!OwnFormulas /\ P2!OwnFormulas' = P2!OwnFormulas
      /\ Divided'
    BY RelationsAdded DEF IInv
<1>2. CircuitsInv'
    BY <1>1, CircuitsStay DEF IInv
<1>3. FlowInv'
    BY DEF IInv, FlowInv, c1, c2
<1>4. PlainNames(schema) => \A v \in Valuation : (Related(v) <=> Asked(schema, call, Views(v)))'
    <2>1. \A v \in Valuation : Asked(schema, call, Views(v))' <=> Asked(schema, call, Views(v))
        BY DEF Views, View
    <2> QED
        BY <2>1
<1>5. PlainNames(schema)' => RelationsInv'
    BY <1>4 DEF RelationsInv
<1> QED
    BY <1>1, <1>2, <1>3, <1>5 DEF IInv

LEMMA RelateOthersKeeps ==
    ASSUME IInv, RelateOthers
    PROVE  IInv'
<1> DEFINE pairs == {<<C1!RealOf(schema, i), C2!RealOf(schema, i)>> : i \in Compared}
           F == AssertSome(pairs, SomeNe)
           real(i) == schema.real_variable_index[i]
<1>1. /\ step = "relate" /\ step' = "built" /\ call.fn = "unique_witness" /\ pos > Len(call.equal)
      /\ UNCHANGED <<schema, call, pos, c1, c2, checked, cvc_result>>
      /\ asserted' = asserted \cup F
      /\ schema \in Schema /\ phase1 = "done" /\ phase2 = "done"
    BY DEF IInv, FlowInv, RelateOthers, flags
<1>2. \A f \in F : f.kind \in RelationKind
    BY DEF AssertSome, SomeNe, RelationKind
<1>3. pairs = {<<real(i), real(i)>> : i \in Compared}
    BY DEF C1!RealOf, C2!RealOf
<1>4. \A i \in Compared : real(i) \in C1!RealIndex(schema)
    <2>1. Compared \subseteq C1!Index(schema)
        BY <1>1, SchemaFacts, SameSchemas
        DEF Compared, IInv, CircuitsInv, P1!TablesInv, P1!VariablesInv, P1!Built
    <2> QED
        BY <1>1, <2>1, SchemaFacts
<1>5. PlainNames(schema) => Compared = Claimed(schema, call)
    <2> SUFFICES ASSUME PlainNames(schema) PROVE Compared = Claimed(schema, call)
        OBVIOUS
    <2>1. pos > Len(call.equal) => \A n \in Range(call.equal) : n \in Names(schema)
        <3>1. [x \in SymVar |-> 0] \in Valuation
            BY Constants DEF Valuation, Ring
        <3> QED
            BY <1>1, <3>1, AllRelated
    <2> QED
        BY <1>1, <2>1, ComparedAreClaimed DEF IInv
<1>6. ASSUME NEW v \in Valuation, PlainNames(schema)
      PROVE  (\A f \in F : Holds(f, v))
                 <=> (Claimed(schema, call) # {} =>
                        \E i \in Claimed(schema, call) : Views(v)[1][real(i)] # Views(v)[2][real(i)])
    <2>1. \A i \in Compared : /\ Views(v)[1][real(i)] = v[<<"circuit1", real(i)>>]
                              /\ Views(v)[2][real(i)] = v[<<"circuit2", real(i)>>]
        BY <1>4 DEF Views, View
    <2>2. Holds(SomeNe(pairs), v) <=> \E p \in pairs : v[<<"circuit1", p[1]>>] # v[<<"circuit2", p[2]>>]
        BY DEF Holds, SomeNe
    <2> HIDE DEF pairs, real
    <2>3. Holds(SomeNe(pairs), v) <=> \E i \in Compared : Views(v)[1][real(i)] # Views(v)[2][real(i)]
        <3>1. (\E p \in pairs : v[<<"circuit1", p[1]>>] # v[<<"circuit2", p[2]>>])
                  <=> \E i \in Compared : v[<<"circuit1", real(i)>>] # v[<<"circuit2", real(i)>>]
            <4>1. \A p \in pairs : \E i \in Compared : p[1] = real(i) /\ p[2] = real(i)
                BY <1>3
            <4>2. \A i \in Compared : \E p \in pairs : p[1] = real(i) /\ p[2] = real(i)
                <5>1. TAKE i \in Compared
                <5>2. <<real(i), real(i)>> \in pairs
                    BY <1>3
                <5> QED
                    BY <5>2
            <4> QED
                BY <4>1, <4>2
        <3> QED
            BY <2>1, <2>2, <3>1
    <2>4. pairs = {} <=> Compared = {}
        BY <1>3
    <2> QED
        BY <1>5, <1>6, <2>3, <2>4 DEF AssertSome
<1>7. PlainNames(schema) =>
          \A v \in Valuation : Related(v) <=> SameOn(schema, Views(v), Range(call.equal))
    BY <1>1, AllRelated
<1> HIDE DEF F
<1>8. \A v \in Valuation : Related(v)' <=> Related(v) /\ \A f \in F : Holds(f, v)
    BY <1>1, <1>2, MoreRelated
<1>9. PlainNames(schema) => \A v \in Valuation : Related(v)' <=> Asked(schema, call, Views(v))
    BY <1>1, <1>6, <1>7, <1>8 DEF Asked
<1>10. asserted \subseteq asserted' /\ \A f \in asserted' \ asserted : f.kind \in RelationKind
    BY <1>1, <1>2
<1> QED
    BY <1>1, <1>9, <1>10, ReturnKeeps

LEMMA RelateSomeKeeps ==
    ASSUME IInv, RelateSome
    PROVE  IInv'
<1> DEFINE eqs == Range(call.any_equal)
           neqs == Range(call.any_not_equal)
           EqF == AssertSome(PairsOf(eqs), SomeEq)
           NeF == AssertSome(PairsOf(neqs), SomeNe)
<1>1. /\ step = "relate" /\ call.fn = "unique_witness_ext"
      /\ pos > Len(call.equal) + Len(call.not_equal)
      /\ UNCHANGED <<schema, call, pos, c1, c2, checked, cvc_result>>
      /\ schema \in Schema /\ phase1 = "done" /\ phase2 = "done"
    BY DEF IInv, FlowInv, RelateSome, flags
<1>2. /\ \A f \in EqF : f.kind \in RelationKind
      /\ \A f \in NeF : f.kind \in RelationKind
    BY DEF AssertSome, SomeEq, SomeNe, RelationKind
<1>3. \/ /\ AllKnown(eqs) /\ AllKnown(neqs)
         /\ asserted' = asserted \cup EqF \cup NeF /\ step' = "built"
      \/ asserted' = asserted \cup EqF /\ step' = "threw"
      \/ asserted' = asserted /\ step' = "threw"
    BY DEF RelateSome
<1>4. asserted \subseteq asserted' /\ \A f \in asserted' \ asserted : f.kind \in RelationKind
    <2> HIDE DEF EqF, NeF
    <2> QED
        BY <1>2, <1>3
<1>5. CASE step' = "threw"
    BY <1>1, <1>4, <1>5, ThrowKeeps
<1>6. CASE step' # "threw"
    <2>1. AllKnown(eqs) /\ AllKnown(neqs) /\ step' = "built" /\ asserted' = asserted \cup (EqF \cup NeF)
        BY <1>3, <1>6
    <2>2. ASSUME PlainNames(schema), NEW v \in Valuation
          PROVE  Related(v)' <=> Asked(schema, call, Views(v))
        <3>1. Related(v) <=>
                 /\ SameOn(schema, Views(v), Range(call.equal))
                 /\ \A n \in Range(call.not_equal) : ~SameOn(schema, Views(v), {n})
            BY <1>1, <2>2, AllRelated
        <3>2. (\A f \in EqF : Holds(f, v)) <=> (eqs # {} => \E n \in eqs : SameOn(schema, Views(v), {n}))
            BY <1>1, <2>1, <2>2, SomeMeans DEF IInv
        <3>3. (\A f \in NeF : Holds(f, v)) <=> (neqs # {} => ~SameOn(schema, Views(v), neqs))
            BY <1>1, <2>1, <2>2, SomeMeans DEF IInv
        <3>4. (call.any_equal # <<>> <=> eqs # {}) /\ (call.any_not_equal # <<>> <=> neqs # {})
            BY CallFacts, NoNames DEF IInv, FlowInv
        <3>5. Related(v)' <=> Related(v) /\ \A f \in EqF \cup NeF : Holds(f, v)
            <4> HIDE DEF EqF, NeF
            <4>1. \A f \in EqF \cup NeF : f.kind \in RelationKind
                BY <1>2
            <4> QED
                BY <2>1, <4>1, MoreRelated
        <3> HIDE DEF EqF, NeF
        <3>6. (\A f \in EqF \cup NeF : Holds(f, v)) <=> (\A f \in EqF : Holds(f, v)) /\ \A f \in NeF : Holds(f, v)
            OBVIOUS
        <3>7. Asked(schema, call, Views(v)) <=>
                 /\ SameOn(schema, Views(v), Range(call.equal))
                 /\ \A n \in Range(call.not_equal) : ~SameOn(schema, Views(v), {n})
                 /\ call.any_equal # <<>> => \E n \in eqs : SameOn(schema, Views(v), {n})
                 /\ call.any_not_equal # <<>> => ~SameOn(schema, Views(v), neqs)
            BY <1>1 DEF Asked
        <3> QED
            BY <3>1, <3>2, <3>3, <3>4, <3>5, <3>6, <3>7
    <2> QED
        BY <1>1, <1>4, <2>1, <2>2, ReturnKeeps
<1> QED
    BY <1>5, <1>6

(* A step that leaves the function and the assertions as they are.          *)
LEMMA QuietKeeps ==
    ASSUME IInv, UNCHANGED <<schema, call, step, pos, c1, c2, asserted>>,
           checked' \in BOOLEAN, ~checked' => cvc_result' = "null"
    PROVE  IInv'
<1>1. /\ P1!OwnFormulas' = P1!OwnFormulas /\ P2!OwnFormulas' = P2!OwnFormulas
      /\ Divided' /\ Relations' = Relations
    <2>1. asserted \subseteq asserted' /\ asserted' \ asserted = {}
        OBVIOUS
    <2> QED
        BY <2>1, RelationsAdded DEF IInv
<1>2. CircuitsInv'
    BY <1>1, CircuitsStay DEF IInv
<1>3. FlowInv'
    BY DEF IInv, FlowInv, c1, c2
<1>4. PlainNames(schema)' => RelationsInv'
    <2> SUFFICES ASSUME PlainNames(schema) PROVE RelationsInv'
        OBVIOUS
    <2>1. (step = "build" => Relations = {} /\ pos = 1)'
        BY <1>1 DEF IInv, RelationsInv
    <2>2. (step = "relate" =>
              NamesSeen(pos) /\ \A v \in Valuation : Related(v) <=> RelatedUpTo(v, pos))'
        <3>1. NamesSeen(pos)' <=> NamesSeen(pos)
            BY DEF NamesSeen
        <3>2. \A v \in Valuation : RelatedUpTo(v, pos)' <=> RelatedUpTo(v, pos)
            BY DEF RelatedUpTo, Views, View
        <3>3. \A v \in Valuation : Related(v)' <=> Related(v)
            BY <1>1 DEF Related
        <3>4. ASSUME step = "relate"
              PROVE  (\A v \in Valuation : Related(v) <=> RelatedUpTo(v, pos))'
            BY <3>2, <3>3, <3>4 DEF IInv, RelationsInv
        <3>5. step = "relate" => NamesSeen(pos)
            BY DEF IInv, RelationsInv
        <3> QED
            BY <3>1, <3>4, <3>5
    <2>3. (step = "built" =>
              \A v \in Valuation : Related(v) <=> Asked(schema, call, Views(v)))'
        <3>1. \A v \in Valuation : Asked(schema, call, Views(v))' <=> Asked(schema, call, Views(v))
            BY DEF Views, View
        <3>2. \A v \in Valuation : Related(v)' <=> Related(v)
            BY <1>1 DEF Related
        <3>3. ASSUME step = "built"
              PROVE  (\A v \in Valuation : Related(v) <=> Asked(schema, call, Views(v)))'
            BY <3>1, <3>2, <3>3 DEF IInv, RelationsInv
        <3> QED
            BY <3>3
    <2> QED
        BY <2>1, <2>2, <2>3 DEF RelationsInv
<1> QED
    BY <1>1, <1>2, <1>3, <1>4 DEF IInv

LEMMA CheckKeeps ==
    ASSUME IInv, Check
    PROVE  IInv'
<1>1. UNCHANGED <<schema, call, step, pos, c1, c2, asserted>> /\ checked' = TRUE
    BY DEF Check, S!check
<1> QED
    BY <1>1, QuietKeeps

LEMMA NextKeeps == IInv /\ [Next]_vars => IInv'
<1> SUFFICES ASSUME IInv, [Next]_vars PROVE IInv'
    OBVIOUS
<1>1. CASE UNCHANGED vars
    <2>1. UNCHANGED <<schema, call, step, pos, c1, c2, asserted>>
        BY <1>1 DEF vars
    <2>2. checked' = checked /\ cvc_result' = cvc_result
        BY <1>1 DEF vars, flags
    <2> QED
        BY <2>1, <2>2, QuietKeeps DEF IInv, FlowInv
<1> QED
    BY <1>1, BuildFirstKeeps, BuildSecondKeeps, RelateEqualKeeps, RelateNotEqualKeeps, RelateSomeKeeps,
       RelateOthersKeeps, CheckKeeps
    DEF Next, Step

-----------------------------------------------------------------------------
(* The refinement. *)

(* The constants of the circuit and its public inputs are the same in all    *)
(* witnesses: of a call that is posed, what the code compares is all that    *)
(* can differ.                                                              *)
LEMMA AskedIsEvidence ==
    ASSUME NEW s \in Schema, NEW c, IsPosed(s, c),
           NEW pair \in Witnesses(s) \X Witnesses(s)
    PROVE  Asked(s, c, pair) <=> IsEvidence(s, c, pair)
<1> DEFINE real(i) == s.real_variable_index[i]
<1>1. CASE c.fn # "unique_witness"
    BY <1>1 DEF Asked, IsEvidence
<1>2. CASE c.fn = "unique_witness"
    <2>1. \A i \in {0, 1} : pair[1][i] = pair[2][i] /\ pair[1][real(i)] = pair[2][real(i)]
        BY DEF Witnesses, C1!IsWitness, C1!Anchored, C1!ConstantsAre
    <2>2. \A i \in Pinned(s) : pair[1][i] = pair[2][i]
        BY DEF Witnesses, C1!IsWitness, C1!Constrained, Pinned, C1!Range, Range
    <2>3. \A i \in C1!RealIndex(s) \ {0, 1} : real(i) = i
        BY SchemaFacts DEF C1!WellFormed, C1!RealIndex
    <2>4. Others(s, c) \cap Comparable(s) # {} /\ Others(s, c) \subseteq Comparable(s) \cup Pinned(s)
        BY <1>2 DEF IsPosed
    <2>5. Others(s, c) \subseteq C1!RealIndex(s) /\ Others(s, c) \cap Comparable(s) \subseteq Claimed(s, c)
        BY DEF Others, Claimed
    <2>6. Claimed(s, c) \cap C1!RealIndex(s) \subseteq Others(s, c)
        BY DEF Others, Claimed
    <2>7. Claimed(s, c) \subseteq C1!RealIndex(s)
        BY GatedIsReal, SchemaFacts DEF Claimed, Comparable
    <2>8. (\E i \in Others(s, c) : pair[1][i] # pair[2][i])
              <=> \E i \in Claimed(s, c) : pair[1][real(i)] # pair[2][real(i)]
        <3>1. ASSUME NEW i \in Others(s, c), pair[1][i] # pair[2][i]
              PROVE  i \in Claimed(s, c) /\ pair[1][real(i)] # pair[2][real(i)]
            <4>1. i \notin {0, 1} /\ i \notin Pinned(s)
                BY <2>1, <2>2, <3>1
            <4>2. i \in Claimed(s, c)
                BY <2>4, <2>5, <3>1, <4>1
            <4>3. real(i) = i
                BY <2>3, <2>5, <3>1, <4>1
            <4> QED
                BY <3>1, <4>2, <4>3
        <3>2. ASSUME NEW i \in Claimed(s, c), pair[1][real(i)] # pair[2][real(i)]
              PROVE  i \in Others(s, c) /\ pair[1][i] # pair[2][i]
            <4>1. i \notin {0, 1}
                BY <2>1, <3>2
            <4>2. real(i) = i
                BY <2>3, <2>7, <3>2, <4>1
            <4> QED
                BY <2>6, <2>7, <3>2, <4>2
        <3> QED
            BY <3>1, <3>2
    <2>9. Claimed(s, c) # {}
        BY <2>4, <2>5
    <2> QED
        BY <1>2, <2>8, <2>9 DEF Asked, IsEvidence
<1> QED
    BY <1>1, <1>2

(* When the function has returned, the models of the assertions are the     *)
(* pairs that answer the question in the negative, if the call was posed.   *)
LEMMA ModelsAreEvidence ==
    ASSUME IInv, Posed(<<schema, call>>), step = "built", NEW v \in Valuation
    PROVE  (\A f \in asserted : Holds(f, v)) <=> Views(v) \in Evidence(<<schema, call>>)
<1>1. schema \in Schema /\ phase1 = "done" /\ phase2 = "done"
    BY DEF IInv, FlowInv
<1>2. (\A f \in asserted : Holds(f, v))
          <=> /\ C1!IsWitness(schema, View("circuit1", v))
              /\ C1!IsWitness(schema, View("circuit2", v))
              /\ Related(v)
    <2>1. (\A f \in asserted : Holds(f, v))
              <=> /\ \A f \in P1!OwnFormulas : Holds(f, v)
                  /\ \A f \in P2!OwnFormulas : Holds(f, v)
                  /\ Related(v)
        BY DEF IInv, Divided, Related
    <2> QED
        BY <1>1, <2>1, FirstAdmits, SecondAdmits DEF IInv
<1>3. Related(v) <=> Asked(schema, call, Views(v))
    BY DEF IInv, RelationsInv, Posed, IsPosed
<1>4. /\ View("circuit1", v) \in [C1!RealIndex(schema) -> Ring]
      /\ View("circuit2", v) \in [C1!RealIndex(schema) -> Ring]
    BY <1>1 DEF View, Valuation, SymVar, AllIndex
<1>5. Views(v) \in Witnesses(schema) \X Witnesses(schema)
          <=> C1!IsWitness(schema, View("circuit1", v)) /\ C1!IsWitness(schema, View("circuit2", v))
    BY <1>4 DEF Views, Witnesses
<1>6. Views(v) \in Evidence(<<schema, call>>)
          <=> Views(v) \in Witnesses(schema) \X Witnesses(schema) /\ IsEvidence(schema, call, Views(v))
    BY DEF Evidence
<1>7. Views(v) \in Witnesses(schema) \X Witnesses(schema) =>
          (Asked(schema, call, Views(v)) <=> IsEvidence(schema, call, Views(v)))
    BY <1>1, AskedIsEvidence DEF Posed
<1> QED
    BY <1>2, <1>3, <1>5, <1>6, <1>7

(* Every pair of witnesses is the pair of views of some valuation. *)
LEMMA PairIsViewed ==
    ASSUME schema \in Schema, NEW pair \in Witnesses(schema) \X Witnesses(schema)
    PROVE  \E v \in Valuation : Views(v) = pair
<1> DEFINE R == C1!RealIndex(schema)
           v == [x \in SymVar |-> IF x[2] \notin R THEN 0
                                  ELSE IF x[1] = "circuit1" THEN pair[1][x[2]] ELSE pair[2][x[2]]]
<1>1. pair[1] \in [R -> Ring] /\ pair[2] \in [R -> Ring] /\ pair = <<pair[1], pair[2]>>
    BY DEF Witnesses
<1>2. 0 \in Ring
    BY Constants DEF Ring
<1>3. \A i \in R : <<"circuit1", i>> \in SymVar /\ <<"circuit2", i>> \in SymVar
    BY DEF SymVar, AllIndex
<1>4. v \in Valuation
    BY <1>1, <1>2 DEF Valuation
<1>5. \A i \in R : v[<<"circuit1", i>>] = pair[1][i] /\ v[<<"circuit2", i>>] = pair[2][i]
    BY <1>3
<1> HIDE DEF v
<1>6. View("circuit1", v) = pair[1] /\ View("circuit2", v) = pair[2]
    BY <1>1, <1>5 DEF View
<1> QED
    BY <1>1, <1>4, <1>6 DEF Views

LEMMA CheckAnswers ==
    ASSUME IInv, Check
    PROVE  U!Answer
<1>1. /\ schema' = schema /\ call' = call /\ checked' = TRUE /\ asserted' = asserted
      /\ step = "built"
      /\ cvc_result' \in {"sat", "unsat", "unknown"}
    BY DEF Check, S!check
<1>2. ModelPair' = Views(candidate')
    BY <1>1 DEF ModelPair, ModelOf, Views, View
<1>3. CASE cvc_result' = "sat"
    <2>1. candidate' \in Valuation /\ \A f \in asserted : Holds(f, candidate')
        BY <1>3 DEF Check, S!check, S!checkSat, S!Models, S!Satisfies, S!Valuation, Valuation
    <2>2. Posed(<<schema, call>>) => ModelPair' \in Evidence(<<schema, call>>)
        BY <1>1, <1>2, <2>1, ModelsAreEvidence
    <2> QED
        BY <1>1, <1>3, <2>2 DEF U!Answer
<1>4. CASE cvc_result' = "unsat"
    <2>1. \A v \in Valuation : ~\A f \in asserted : Holds(f, v)
        BY <1>4 DEF Check, S!check, S!checkSat, S!Solvable, S!Models, S!Satisfies, S!Valuation, Valuation
    <2>2. Evidence(<<schema, call>>) \subseteq Witnesses(schema) \X Witnesses(schema)
        BY DEF Evidence
    <2>3. Posed(<<schema, call>>) => Evidence(<<schema, call>>) = {}
        BY <1>1, <2>1, <2>2, PairIsViewed, ModelsAreEvidence DEF IInv, FlowInv
    <2> QED
        BY <1>1, <1>4, <2>3 DEF U!Answer
<1>5. CASE cvc_result' = "unknown"
    BY <1>1, <1>5 DEF U!Answer
<1> QED
    BY <1>1, <1>3, <1>4, <1>5

(* The steps of the function happen before the question is answered. *)
LEMMA StepIsQuiet ==
    ASSUME IInv, Step
    PROVE  UNCHANGED U!vars
<1>1. /\ schema' = schema /\ call' = call /\ checked' = checked /\ cvc_result' = cvc_result
      /\ candidate' = candidate
    <2>1. CASE BuildFirst
        BY <2>1, FirstBuilds DEF BuildFirst, flags, IInv, FlowInv
    <2>2. CASE BuildSecond
        BY <2>2, SecondBuilds DEF BuildSecond, flags, IInv, FlowInv
    <2>3. CASE RelateEqual
        BY <2>3 DEF RelateEqual, RelateName, S!assertFormula, flags
    <2>4. CASE RelateNotEqual
        BY <2>4 DEF RelateNotEqual, RelateName, S!assertFormula, flags
    <2>5. CASE RelateSome
        BY <2>5 DEF RelateSome, flags
    <2>6. CASE RelateOthers
        BY <2>6 DEF RelateOthers, flags
    <2> QED
        BY <2>1, <2>2, <2>3, <2>4, <2>5, <2>6 DEF Step
<1> QED
    BY <1>1 DEF U!vars, ModelPair, ModelOf

LEMMA InitAnswers == Init => U!Init
<1> SUFFICES ASSUME Init PROVE U!Init
    OBVIOUS
<1>1. schema \in Schema /\ call \in Call /\ checked = FALSE /\ cvc_result = "null"
    BY DEF Init, C1!Init
<1> QED
    BY <1>1 DEF U!Init

LEMMA NextAnswers == IInv /\ [Next]_vars => [U!Answer]_(U!vars)
<1> SUFFICES ASSUME IInv, [Next]_vars PROVE U!Answer \/ UNCHANGED U!vars
    OBVIOUS
<1>1. CASE Step
    BY <1>1, StepIsQuiet
<1>2. CASE Check
    BY <1>2, CheckAnswers
<1>3. CASE UNCHANGED vars
    BY <1>3 DEF vars, flags, U!vars, ModelPair, ModelOf
<1> QED
    BY <1>1, <1>2, <1>3 DEF Next

(* From the schema to the solver's answer, the whole chain answers the       *)
(* question of a call that is posed, for every modulus, every set of schemas *)
(* whose strings are read as written and whose gates fix the constants, and *)
(* every call (circuit.cpp:521-611, solver.cpp:10-21).                      *)
THEOREM AnswersTheQuestionOfTheCall == Spec => AnswersTheQuestion
BY InitInv, NextKeeps, InitAnswers, NextAnswers, PTL DEF Spec, AnswersTheQuestion, U!Spec

-----------------------------------------------------------------------------
(* What is printed of an answer. *)

(* A nonempty set of natural numbers has a least element. *)
Less == OpToRel(<, Nat)
LEMMA LessWellFounded == IsWellFoundedOn(Less, Nat)
BY NatLessThanWellFounded DEF Less

LEMMA LessIs == \A m, n \in Nat : m < n => <<m, n>> \in Less
BY SMT DEF Less, OpToRel

LEMMA LeastExists ==
    ASSUME NEW T, T \subseteq Nat, T # {}
    PROVE  \E j \in T : \A i \in T : j <= i
<1>1. PICK j \in T : \A i \in T : ~(<<i, j>> \in Less)
    BY LessWellFounded, WFMin
<1>2. \A i \in T : ~(i < j)
    BY <1>1, LessIs
<1> QED
    BY <1>2

(* A model can be read exactly while the flags say so, and it is one. *)
ReadableInv ==
    /\ produceModels = TRUE
    /\ res =>
        /\ checked /\ step = "built" /\ mode = "sat"
        /\ candidate \in Valuation
        /\ \A f \in asserted : Holds(f, candidate)

(* The file, as WriteWitness leaves it. *)
FileIsModel ==
    /\ res
    /\ request \in Request
    /\ DOMAIN file \subseteq C1!Index(schema)
    /\ \A i \in DOMAIN file :
          file[i] = [k \in DOMAIN request.circuits |-> ValueByName(request.circuits[k], i)]

(* What is shown, read by name. *)
ShownIsModel ==
    \A n \in Range(request.special), k \in DOMAIN request.circuits :
        LET i == InverseOf(request.circuits[k])[n]
        IN /\ n \in DOMAIN InverseOf(request.circuits[k])
           /\ shown[n][k] = candidate[<<request.circuits[k], i>>]

PrintedInv ==
    /\ printing \in {"none", "written", "shown", "threw"}
    /\ printing = "none" => file = Untouched
    /\ printing = "threw" => file = Untouched \/ FileIsModel
    /\ printing \in {"written", "shown"} => FileIsModel
    /\ printing = "shown" => ShownIsModel

PInv == IInv /\ ReadableInv /\ PrintedInv


LEMMA PrintInitInv == PrintInit => PInv
<1> SUFFICES ASSUME PrintInit PROVE PInv
    OBVIOUS
<1>1. IInv
    BY InitInv DEF PrintInit
<1>2. ReadableInv
    BY DEF PrintInit, Init, ReadableInv
<1>3. PrintedInv
    BY DEF PrintInit, PrintedInv
<1> QED
    BY <1>1, <1>2, <1>3 DEF PInv

(* The steps of the function leave the verdict of the solver alone.          *)
LEMMA StepKeepsReadable ==
    ASSUME IInv, ReadableInv, Step
    PROVE  ReadableInv'
<1>1. ~res
    <2>1. step # "built"
        BY DEF Step, BuildFirst, BuildSecond, RelateEqual, RelateNotEqual, RelateSome, RelateOthers
    <2> QED
        BY <2>1 DEF ReadableInv
<1>2. produceModels' = produceModels /\ res' = res
    BY DEF Step, BuildFirst, BuildSecond, RelateEqual, RelateNotEqual, RelateName, RelateSome,
           RelateOthers, S!assertFormula, flags
<1> QED
    BY <1>1, <1>2 DEF ReadableInv

LEMMA CheckKeepsReadable ==
    ASSUME ReadableInv, Check
    PROVE  ReadableInv'
<1>1. /\ step' = step /\ step = "built" /\ checked' = TRUE /\ asserted' = asserted
      /\ produceModels' = produceModels
    BY DEF Check, S!check
<1>2. res' => mode' = "sat" /\ candidate' \in S!Models(asserted)
    BY DEF Check, S!check, S!checkSat, S!IsSat
<1>3. \A v \in S!Models(asserted) : v \in Valuation /\ \A f \in asserted : Holds(f, v)
    BY DEF S!Models, S!Satisfies, S!Valuation, Valuation
<1>4. ASSUME res'
      PROVE  candidate' \in Valuation /\ \A f \in asserted' : Holds(f, candidate')
    BY <1>1, <1>2, <1>3, <1>4
<1> QED
    BY <1>1, <1>2, <1>4 DEF ReadableInv

LEMMA NextKeepsReadable ==
    ASSUME IInv, ReadableInv, Next
    PROVE  ReadableInv'
BY StepKeepsReadable, CheckKeepsReadable DEF Next

LEMMA WriteKeeps ==
    ASSUME PInv, WriteWitness
    PROVE  PInv'
<1>1. /\ UNCHANGED vars /\ request' \in Request /\ printing = "none"
    BY DEF WriteWitness
<1>2. IInv'
    BY <1>1, NextKeeps DEF PInv
<1>3. ReadableInv'
    BY <1>1 DEF PInv, ReadableInv, vars, flags
<1>4. PrintedInv'
    <2>1. CASE printing' = "threw" /\ UNCHANGED file
        BY <2>1, <1>1 DEF PInv, PrintedInv
    <2>2. ASSUME NEW rows \in 0 .. schema.num_vars, ~S!Refused, printing' = "written",
                 file' = [i \in 0 .. rows - 1 |->
                            [k \in DOMAIN request'.circuits |-> ValueByName(request'.circuits[k], i)]]
          PROVE  PrintedInv'
        <3>1. \A t, i : ValueByName(t, i)' = ValueByName(t, i)
            BY <1>1 DEF vars, flags, ValueByName, NamedLike, FirstOf, Row
        <3>2. schema' = schema /\ res' = res
            BY <1>1 DEF vars, flags
        <3>3. res
            BY <2>2 DEF S!Refused
        <3>a. 0 .. rows - 1 \subseteq C1!Index(schema)
            <4>1. step = "built" /\ schema \in Schema
                BY <3>3 DEF PInv, IInv, FlowInv, ReadableInv
            <4>2. schema.num_vars \in Nat
                BY <4>1, SchemaFacts DEF C1!WellFormed
            <4> QED
                BY <4>2 DEF C1!Index
        <3>4. DOMAIN file' \subseteq C1!Index(schema)' /\ \A i \in DOMAIN file' :
                file'[i] = [k \in DOMAIN request.circuits |-> ValueByName(request.circuits[k], i)]'
            BY <2>2, <3>a, <3>1, <3>2 DEF C1!Index
        <3>5. FileIsModel'
            BY <1>1, <3>2, <3>3, <3>4 DEF FileIsModel
        <3> QED
            BY <2>2, <3>5 DEF PrintedInv
    <2> QED
        BY <2>1, <2>2 DEF WriteWitness
<1> QED
    BY <1>2, <1>3, <1>4 DEF PInv

(* The values that are shown are those of the candidate: the request names  *)
(* terms only, and the solver is still in the mode that gives values.        *)
LEMMA ShowsModel ==
    ASSUME PInv, printing = "written", NEW terms, DOMAIN terms # {},
           \A nk \in DOMAIN terms : terms[nk] \in SymVar,
           S!model_map(terms)
    PROVE  \A nk \in DOMAIN terms : reply'.values[nk] = candidate[terms[nk]]
<1>1. res /\ checked /\ mode = "sat" /\ produceModels = TRUE
    BY DEF PInv, PrintedInv, FileIsModel, ReadableInv
<1>2. ~S!Refused /\ S!CanGetValue
    BY <1>1 DEF S!Refused, S!CanGetValue
<1> DEFINE requested == {<<nk, terms[nk]>> : nk \in DOMAIN terms}
           values == [nk \in DOMAIN terms |-> candidate[terms[nk]]]
<1>3. reply' = S!Readout(requested, values)
    BY <1>2 DEF S!model_map
<1>4. \A kt \in requested : kt[2] \in SymVar
    OBVIOUS
<1> HIDE DEF requested, values
<1>5. ~\E x \in {kt[2] : kt \in requested} : [y \in SymVar |-> "ff"][x] = "bv"
    BY <1>4
<1>6. reply' = [call |-> "model", requested |-> requested, values |-> values]
    BY <1>2, <1>3, <1>5 DEF S!Readout
<1> QED
    BY <1>6 DEF values

LEMMA ShowKeeps ==
    ASSUME PInv, ShowSpecial
    PROVE  PInv'
<1>1. /\ printing = "written"
      /\ UNCHANGED <<schema, call, step, pos, c1, c2, request, file>>
      /\ UNCHANGED <<asserted, mode, candidate, produceModels, checked, res, cvc_result>>
    BY DEF ShowSpecial
<1>a. schema \in Schema /\ phase1 = "done" /\ phase2 = "done" /\ CircuitsInv
    <2>1. step = "built"
        BY <1>1 DEF PInv, PrintedInv, FileIsModel, ReadableInv
    <2>2. IInv
        BY DEF PInv
    <2> QED
        BY <2>1, <2>2 DEF IInv, FlowInv
<1>2. IInv'
    <2>1. checked' \in BOOLEAN /\ (~checked' => cvc_result' = "null")
        BY <1>1 DEF PInv, IInv, FlowInv
    <2> QED
        BY <1>1, <2>1, QuietKeeps DEF PInv
<1>3. ReadableInv'
    BY <1>1 DEF PInv, ReadableInv
<1>4. FileIsModel'
    <2>1. \A t, i : ValueByName(t, i)' = ValueByName(t, i)
        BY <1>1 DEF ValueByName, NamedLike, FirstOf, Row
    <2> QED
        BY <1>1, <2>1 DEF PInv, PrintedInv, FileIsModel
<1>5. CASE printing' = "threw"
    BY <1>2, <1>3, <1>4, <1>5 DEF PInv, PrintedInv
<1>6. CASE printing' = "shown"
    <2> DEFINE special == Range(request.special)
               tags == request.circuits
               terms == [nk \in special \X DOMAIN tags |-> <<tags[nk[2]], InverseOf(tags[nk[2]])[nk[1]]>>]
    <2>1. /\ \A n \in special, k \in DOMAIN tags : n \in DOMAIN InverseOf(tags[k])
          /\ S!model_map(terms)
          /\ shown' = [n \in special |-> [k \in DOMAIN tags |-> reply'.values[Keys[n][k]]]]
        BY <1>6 DEF ShowSpecial
    <2>2. ASSUME NEW n \in special, NEW k \in DOMAIN tags
          PROVE  shown'[n][k] = candidate[<<tags[k], InverseOf(tags[k])[n]>>]
        <3>1. <<n, k>> \in DOMAIN terms
            OBVIOUS
        <3>2. \A nk \in DOMAIN terms : terms[nk] \in SymVar
            <4>2. \A t \in {"circuit1", "circuit2"} : \A m \in DOMAIN InverseOf(t) :
                      InverseOf(t)[m] \in C1!RealIndex(schema)
                BY <1>a, NamesLead DEF InverseOf
            <4>3. \A j \in DOMAIN tags : tags[j] \in {"circuit1", "circuit2"}
                BY <1>1, RequestAssumption DEF PInv, PrintedInv, FileIsModel
            <4> QED
                BY <1>a, <2>1, <4>2, <4>3 DEF SymVar, AllIndex
        <3>3. reply'.values[<<n, k>>] = candidate[terms[<<n, k>>]]
            <4> HIDE DEF terms
            <4> QED
                BY <1>1, <2>1, <3>1, <3>2, ShowsModel
        <3>4. terms[<<n, k>>] = <<tags[k], InverseOf(tags[k])[n]>>
            BY <3>1
        <3>5. Keys[n][k] = <<n, k>>
            BY DEF Keys
        <3> QED
            BY <2>1, <3>3, <3>4, <3>5
    <2>3. \A t : InverseOf(t)' = InverseOf(t)
        BY <1>1 DEF InverseOf, c1, c2
    <2>4. ShownIsModel'
        BY <1>1, <2>1, <2>2, <2>3 DEF ShownIsModel
    <2> QED
        BY <1>2, <1>3, <1>4, <1>6, <2>4 DEF PInv, PrintedInv
<1> QED
    BY <1>5, <1>6 DEF ShowSpecial

LEMMA PrintNextKeeps == PInv /\ [PrintNext]_<<vars, printer>> => PInv'
<1> SUFFICES ASSUME PInv, [PrintNext]_<<vars, printer>> PROVE PInv'
    OBVIOUS
<1>1. CASE printing = "none" /\ Next /\ UNCHANGED printer
    <2>1. IInv' /\ ReadableInv'
        BY <1>1, NextKeeps, NextKeepsReadable DEF PInv
    <2>2. PrintedInv'
        BY <1>1 DEF PInv, PrintedInv, printer
    <2> QED
        BY <2>1, <2>2 DEF PInv
<1>2. CASE UNCHANGED <<vars, printer>>
    <2>1. UNCHANGED vars /\ UNCHANGED printer
        BY <1>2
    <2>2. IInv'
        BY <2>1, NextKeeps DEF PInv
    <2>3. ReadableInv'
        BY <2>1 DEF PInv, ReadableInv, vars, flags
    <2>4. FileIsModel' <=> FileIsModel
        <3>1. \A t, i : ValueByName(t, i)' = ValueByName(t, i)
            BY <2>1 DEF vars, flags, ValueByName, NamedLike, FirstOf, Row
        <3> QED
            BY <2>1, <3>1 DEF FileIsModel, vars, flags, printer
    <2>5. ShownIsModel' <=> ShownIsModel
        BY <2>1 DEF ShownIsModel, InverseOf, vars, flags, c1, c2, printer
    <2> QED
        BY <2>1, <2>2, <2>3, <2>4, <2>5 DEF PInv, PrintedInv, printer
<1> QED
    BY <1>1, <1>2, WriteKeeps, ShowKeeps DEF PrintNext


(* The name a row prints under is that of one variable: the row has its      *)
(* value.                                                                   *)
LEMMA RowsAreModel ==
    ASSUME PrintedOnce, schema \in Schema, NEW i \in C1!Index(schema), NEW t
    PROVE  ValueByName(t, i) = candidate[<<t, schema.real_variable_index[i]>>]
<1> DEFINE named == {j \in C1!Index(schema) : PrintedName(schema, Row(j)) = PrintedName(schema, Row(i))}
           first == CHOOSE j \in named : \A k \in named : j <= k
<1>1. /\ C1!Index(schema) \subseteq Nat
      /\ \A j \in C1!Index(schema) : Row(j) = schema.real_variable_index[j] /\ Row(j) \in C1!RealIndex(schema)
    BY SchemaFacts DEF Row, C1!RealOf, C1!Index
<1>2. named \subseteq Nat /\ i \in named
    BY <1>1
<1>3. first \in named
    <2> HIDE DEF named
    <2>1. \E j \in named : \A k \in named : j <= k
        BY <1>2, LeastExists
    <2> QED
        BY <2>1
<1>4. Row(first) = Row(i)
    BY <1>1, <1>3 DEF PrintedOnce
<1>5. ValueByName(t, i) = candidate[<<t, Row(first)>>]
    BY DEF ValueByName, NamedLike, FirstOf
<1> QED
    BY <1>1, <1>4, <1>5

(* The file holds evidence against uniqueness, for every modulus, every set  *)
(* of schemas and every request, if the call was posed and no two variables *)
(* print alike (smt_util.cpp:24-49, 83-103).                                *)
THEOREM FileIsEvidence == PrintSpec => []FileShowsEvidence
<1>1. ASSUME PInv PROVE FileShowsEvidence
    <2> SUFFICES ASSUME file # Untouched, PrintedOnce, Posed(<<schema, call>>)
                 PROVE  \E pair \in Evidence(<<schema, call>>) :
                           \A i \in DOMAIN file, k \in DOMAIN request.circuits :
                               file[i][k] = pair[k][schema.real_variable_index[i]]
        BY DEF FileShowsEvidence
    <2>1. FileIsModel
        BY <1>1 DEF PInv, PrintedInv
    <2>2. /\ step = "built" /\ candidate \in Valuation
          /\ \A f \in asserted : Holds(f, candidate)
        BY <1>1, <2>1 DEF PInv, ReadableInv, FileIsModel
    <2>3. Views(candidate) \in Evidence(<<schema, call>>)
        BY <1>1, <2>2, ModelsAreEvidence DEF PInv
    <2>4. schema \in Schema
        BY <1>1 DEF PInv, IInv, FlowInv
    <2>5. ASSUME NEW i \in DOMAIN file, NEW k \in DOMAIN request.circuits
          PROVE  file[i][k] = Views(candidate)[k][schema.real_variable_index[i]]
        <3>1. file[i][k] = candidate[<<request.circuits[k], schema.real_variable_index[i]>>]
            BY <2>1, <2>4, RowsAreModel DEF FileIsModel
        <3>2. schema.real_variable_index[i] \in C1!RealIndex(schema)
            BY <2>1, <2>4, SchemaFacts DEF FileIsModel
        <3>3. k \in {1, 2} /\ request.circuits[k] = IF k = 1 THEN "circuit1" ELSE "circuit2"
            BY <2>1, RequestAssumption DEF FileIsModel
        <3> QED
            BY <3>1, <3>2, <3>3 DEF Views, View
    <2> QED
        BY <2>3, <2>5
<1> QED
    BY PrintInitInv, PrintNextKeeps, <1>1, PTL DEF PrintSpec

(* What is shown agrees with the file, for every modulus, every set of       *)
(* schemas and every request (smt_util.cpp:51-60, 105-113).                 *)
THEOREM ShownIsInTheFile == PrintSpec => []ShownAsInTheFile
<1>1. ASSUME PInv PROVE ShownAsInTheFile
    <2> SUFFICES ASSUME printing = "shown", PrintedOnce,
                        NEW n \in Range(request.special), NEW k \in DOMAIN request.circuits,
                        InverseOf(request.circuits[k])[n] \in DOMAIN file,
                        schema.real_variable_index[InverseOf(request.circuits[k])[n]]
                            = InverseOf(request.circuits[k])[n]
                 PROVE  shown[n][k] = file[InverseOf(request.circuits[k])[n]][k]
        BY DEF ShownAsInTheFile
    <2> DEFINE t == request.circuits[k]
               i == InverseOf(t)[n]
    <2>1. FileIsModel /\ ShownIsModel
        BY <1>1 DEF PInv, PrintedInv
    <2>2. n \in DOMAIN InverseOf(t) /\ shown[n][k] = candidate[<<t, i>>]
        BY <2>1 DEF ShownIsModel
    <2>3. step = "built"
        BY <1>1, <2>1 DEF PInv, ReadableInv, FileIsModel
    <2>4. schema \in Schema /\ phase1 = "done" /\ phase2 = "done" /\ CircuitsInv
        BY <1>1, <2>3 DEF PInv, IInv, FlowInv
    <2>5. i \in C1!Index(schema)
        BY <2>2, <2>4, NamesLead, SchemaFacts DEF InverseOf
    <2>6. file[i][k] = candidate[<<t, schema.real_variable_index[i]>>]
        BY <2>1, <2>4, <2>5, RowsAreModel DEF FileIsModel
    <2> QED
        BY <2>2, <2>6
<1> QED
    BY PrintInitInv, PrintNextKeeps, <1>1, PTL DEF PrintSpec

(* The client that prints is told the truth too: the refinement holds of     *)
(* the composition with the printer.                                        *)
THEOREM PrintingAnswersTheQuestion == PrintSpec => AnswersTheQuestion
<1>1. PrintInit => U!Init
    BY InitAnswers DEF PrintInit
<1>2. PInv /\ [PrintNext]_<<vars, printer>> => [U!Answer]_(U!vars)
    <2> SUFFICES ASSUME PInv, [PrintNext]_<<vars, printer>> PROVE U!Answer \/ UNCHANGED U!vars
        OBVIOUS
    <2>1. CASE Next
        BY <2>1, NextAnswers DEF PInv
    <2>2. CASE UNCHANGED vars
        BY <2>2, NextAnswers DEF PInv
    <2>3. CASE ShowSpecial
        BY <2>3 DEF ShowSpecial, U!vars, ModelPair, ModelOf
    <2> QED
        BY <2>1, <2>2, <2>3 DEF PrintNext, WriteWitness
<1> QED
    BY PrintInitInv, PrintNextKeeps, <1>1, <1>2, PTL DEF PrintSpec, AnswersTheQuestion, U!Spec

==============================================================================
