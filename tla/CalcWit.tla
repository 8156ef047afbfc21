------------------------------ MODULE CalcWit -------------------------------
(***************************************************************************)
(* The driver of a generated witness calculator (calcwit.cpp, main.cpp):   *)
(* the values of a JSON file are assigned one by one to input signals,     *)
(* which are found in a hash table by the hash of their name; the circuit  *)
(* is run when the last of them is set; then the witness is written.  What *)
(* the circuit computes is left to the module that composes the two.       *)
(***************************************************************************)
EXTENDS Integers, Sequences, FiniteSets, Functions, FiniteSetsExt, SequencesExt

CONSTANTS
    Mod,                \* the prime of the field
    SignalNo,           \* get_total_signal_no()
    InputStart,         \* get_main_input_signal_start()
    InputNo,            \* get_main_input_signal_no()
    Key,                \* names in JSON files
    Hash,               \* fnv1a
    Table,              \* contents of the .dat file: input hash maps
    Json,               \* input files: sequences of [key, rows], sorted by key
    witness2SignalList, \* position in the witness -> signal
    DoublePrecision,    \* bits of the mantissa of a double
    MaxDigits,          \* digits of the longest string in the input files
    Foreign,            \* bytes of the heap that are no hash of a name
    Unset               \* content of a signal nothing has been written to

(* A slot of a table is free iff its hash is 0.  The compiler puts every     *)
(* input signal of the circuit into a table of its own size, and no name has *)
(* the hash 0.                                                               *)
Free == 0
TablesFit ==
    \A table \in Table :
        /\ IsFiniteSet(DOMAIN table) /\ DOMAIN table # {}
        /\ DOMAIN table = 0 .. Cardinality(DOMAIN table) - 1
        /\ \A p \in DOMAIN table :
            /\ DOMAIN table[p] = {"hash", "signalid", "signalsize"}
            /\ table[p].hash \in Nat /\ table[p].signalsize \in Nat
            /\ table[p].signalid \in Nat
            /\ table[p].signalid >= InputStart
            /\ table[p].signalid + table[p].signalsize <= InputStart + InputNo
HashesGiven ==
    /\ DOMAIN Hash = Key
    /\ \A key \in Key : Hash[key] \in Nat /\ Hash[key] \notin {Free, Foreign}
ForeignGiven == Foreign \in Nat \ {Free}
SignalsFit ==
    /\ Mod \in Nat /\ Mod > 1
    /\ SignalNo \in Nat /\ InputStart \in Nat \ {0} /\ InputNo \in Nat
    /\ InputStart + InputNo <= SignalNo
    /\ Unset \notin Nat
WitnessListed ==
    \A i \in DOMAIN witness2SignalList : witness2SignalList[i] \in 0 .. SignalNo - 1

VARIABLES
    json, table,    \* the arguments
    beyond,         \* what the heap holds after the table: an indeterminate hash
    step,           \* where the program is
    item, index,    \* positions of the loops of loadJson
    inputSignalAssigned,            \* the input signals marked as assigned
    inputSignalAssignedCounter,     \* input signals still to be set
    signalValues,   \* shared with the circuit
    wtns            \* values in the output file; <<>> also before it is written

calc == <<json, table, beyond, step, item, index, inputSignalAssigned, inputSignalAssignedCounter, wtns>>

Signal == 0 .. SignalNo - 1

-----------------------------------------------------------------------------
(* JSON values.  A string is a prefix and digits (99: no digit), a number an  *)
(* integral count of halves, so that rounding can be told from truth.        *)

(* Faulty variant of Base: octal literals are read as decimal. *)
Base_NoOctal(prefix) == CASE prefix = "0b" -> 2 [] prefix = "0x" -> 16 [] OTHER -> 10
Base(prefix) ==
    CASE prefix = "0b" -> 2 [] prefix = "0o" -> 8 [] prefix = "0x" -> 16 [] OTHER -> 10

check_valid_number(digits, base) == \A i \in DOMAIN digits : digits[i] < base

Numeral(digits, base) ==
    LET n[i \in 0 .. Len(digits)] == IF i = 0 THEN 0 ELSE base * n[i - 1] + digits[i]
    IN n[Len(digits)]

(* Round half to even, as the conversions to and from double do. *)
Rounded(x, unit) ==
    LET below == x \div unit
        rest == 2 * (x % unit)
    IN IF rest < unit \/ (rest = unit /\ below % 2 = 0) THEN below ELSE below + 1

(* val.get<double>() and its decimal text without fraction; for magnitudes    *)
(* below twice the precision of a double.                                     *)
MaxExact == 2 ^ DoublePrecision
ThroughDouble(halves) ==
    IF halves \in -2 * MaxExact .. 2 * MaxExact THEN Rounded(halves, 2) ELSE 2 * Rounded(halves, 4)

Valid(v) == v.type = "number" \/ (v.type = "string" /\ check_valid_number(v.digits, Base(v.prefix)))

(* Fr_str2element: the number modulo the prime. *)
Element(v) ==
    IF v.type = "number" THEN ThroughDouble(v.halves) % Mod
    ELSE Numeral(v.digits, Base(v.prefix)) % Mod

(* json2FrElements: the elements of nested arrays in order, shape forgotten. *)
json2FrElements(rows) == FlattenSeq(rows)

(* Files are sequences of named values; the digits of a string are numbers. *)
IsSequence(s) == Len(s) \in Nat /\ DOMAIN s = 1 .. Len(s)
IsValue(v) ==
    /\ v.type = "number" => v.halves \in Int
    /\ v.type = "string" =>
        /\ v.prefix \in {"none", "0b", "0o", "0x"}
        /\ IsSequence(v.digits) /\ Len(v.digits) <= MaxDigits
        /\ \A i \in DOMAIN v.digits : v.digits[i] \in Nat
FilesGiven ==
    /\ MaxExact \in Nat /\ MaxDigits \in Nat
    /\ \A file \in Json :
        /\ IsSequence(file)
        /\ \A i \in DOMAIN file :
            LET values == json2FrElements(file[i].rows)
            IN /\ file[i].key \in Key
               /\ IsSequence(values)
               /\ \A j \in DOMAIN values : IsValue(values[j])

CalcConstants == TablesFit /\ HashesGiven /\ ForeignGiven /\ SignalsFit /\ WitnessListed /\ FilesGiven

-----------------------------------------------------------------------------
(* The hash table. *)
TableSize == Cardinality(DOMAIN table)

(* Reading one slot past the end of the table is undefined behaviour: the    *)
(* heap holds zeros there, or something that is the hash of no input.        *)
HashAt(p) == IF p = TableSize THEN beyond ELSE table[p].hash

(* Faulty variant of Probe: the walk does not advance. *)
Probe_Stay(p, j) == p
(* The j-th slot after p; the first step is not taken modulo the size. *)
Probe(p, j) == IF j = 1 THEN p + 1 ELSE (p + j) % TableSize

NotFound == -1
(* assert(false) at an empty slot, or after a full turn. *)
getInputSignalHashPosition(h) ==
    LET p == h % TableSize
        stops == {j \in 1 .. TableSize - 1 : HashAt(Probe(p, j)) \in {h, Free}}
    IN IF HashAt(p) = h THEN p
       ELSE IF stops = {} \/ HashAt(Probe(p, Min(stops))) # h THEN NotFound
       ELSE Probe(p, Min(stops))

-----------------------------------------------------------------------------
(* Circom_CalcWit::Circom_CalcWit; the signals are allocated, not written. *)
Init ==
    /\ json \in Json
    /\ table \in Table
    /\ beyond \in {Free, Foreign}
    /\ step = "start"
    /\ item = 1
    /\ index = 1
    /\ inputSignalAssigned = {}
    /\ inputSignalAssignedCounter = InputNo
    /\ signalValues = [s \in Signal |-> IF s = 0 THEN 1 ELSE Unset]
    /\ wtns = <<>>

(* tryRunCircuit(): control goes to the circuit, or on. *)
TryRunCircuit(counter, next) == step' = IF counter = 0 THEN "circuit" ELSE next

(* loadJson: a file without items. *)
LoadEmpty ==
    /\ step = "start"
    /\ Len(json) = 0
    /\ TryRunCircuit(inputSignalAssignedCounter, "items")
    /\ UNCHANGED <<json, table, beyond, item, index, inputSignalAssigned,
                   inputSignalAssignedCounter, signalValues, wtns>>

LoadItems ==
    /\ step = "start"
    /\ Len(json) > 0
    /\ step' = "items"
    /\ UNCHANGED <<json, table, beyond, item, index, inputSignalAssigned,
                   inputSignalAssignedCounter, signalValues, wtns>>

Key_(i) == json[i].key
Values(i) == json2FrElements(json[i].rows)
Position(i) == getInputSignalHashPosition(Hash[Key_(i)])

(* The head of the loop over the items: the values are converted, the size of *)
(* the signal is looked up and compared.  Exceptions are caught by nobody.    *)
NextItem ==
    /\ step = "items"
    /\ item <= Len(json)
    /\ step' = IF \E i \in DOMAIN Values(item) : ~Valid(Values(item)[i]) THEN "threw"
               ELSE IF Position(item) = NotFound THEN "aborted"
               ELSE IF Len(Values(item)) # table[Position(item)].signalsize THEN "threw"
               ELSE "values"
    /\ index' = 1
    /\ UNCHANGED <<json, table, beyond, item, inputSignalAssigned,
                   inputSignalAssignedCounter, signalValues, wtns>>

(* signalid + i, the signal a value goes to. *)
Target(i, j) == table[Position(i)].signalid + j - 1

(* Faulty variant of Rejected: a signal that is assigned already is set again. *)
Rejected_Twice(i, j) ==
    \/ inputSignalAssignedCounter = 0
    \/ j > table[Position(i)].signalsize
(* The assertions of setInputSignal. *)
Rejected(i, j) ==
    \/ inputSignalAssignedCounter = 0
    \/ j > table[Position(i)].signalsize
    \/ Target(i, j) \in inputSignalAssigned

(* ctx->setInputSignal(h, i, v[i]) *)
setInputSignal ==
    /\ step = "values"
    /\ index <= Len(Values(item))
    /\ ~Rejected(item, index)
    /\ signalValues' = [signalValues EXCEPT ![Target(item, index)] = Element(Values(item)[index])]
    /\ inputSignalAssigned' = inputSignalAssigned \cup {Target(item, index)}
    /\ inputSignalAssignedCounter' = inputSignalAssignedCounter - 1
    /\ TryRunCircuit(inputSignalAssignedCounter', "values")
    /\ index' = index + 1
    /\ UNCHANGED <<json, table, beyond, item, wtns>>

AbortInSet ==
    /\ step = "values"
    /\ index <= Len(Values(item))
    /\ Rejected(item, index)
    /\ step' = "aborted"
    /\ UNCHANGED <<json, table, beyond, item, index, inputSignalAssigned,
                   inputSignalAssignedCounter, signalValues, wtns>>

(* Faulty variant of Following: the iterator is not advanced. *)
Following_Stay(i) == i
Following(i) == i + 1

EndOfItem ==
    /\ step = "values"
    /\ index > Len(Values(item))
    /\ step' = "items"
    /\ item' = Following(item)
    /\ UNCHANGED <<json, table, beyond, index, inputSignalAssigned,
                   inputSignalAssignedCounter, signalValues, wtns>>

(* The circuit has returned to tryRunCircuit. *)
Return ==
    /\ step = "circuit"
    /\ step' = IF Len(json) = 0 THEN "items" ELSE "values"
    /\ UNCHANGED <<json, table, beyond, item, index, inputSignalAssigned,
                   inputSignalAssignedCounter, signalValues, wtns>>

(* Faulty variant of Complete: main does not look at the counter. *)
Complete_Always == TRUE
(* getRemaingInputsToBeSet() = 0, or main asserts false. *)
Complete == inputSignalAssignedCounter = 0

(* writeBinWitness: the values, in the order of the witness.  No answer of   *)
(* the system is looked at: a full disk keeps the first of them and the      *)
(* program ends well; where the file cannot be opened it crashes on the null *)
(* pointer, with nothing written, and it may be killed at any time.          *)
writeBinWitness ==
    /\ step = "items"
    /\ item > Len(json)
    /\ IF Complete
       THEN \E n \in {0} \cup DOMAIN witness2SignalList :
              /\ wtns' = [i \in 1 .. n |-> signalValues[witness2SignalList[i]]]
              /\ step' \in {"done", "crashed"}
       ELSE /\ step' = "aborted"
            /\ UNCHANGED wtns
    /\ UNCHANGED <<json, table, beyond, item, index, inputSignalAssigned,
                   inputSignalAssignedCounter, signalValues>>

Load ==
    \/ LoadEmpty
    \/ LoadItems
    \/ NextItem
    \/ setInputSignal
    \/ AbortInSet
    \/ EndOfItem
    \/ writeBinWitness
=============================================================================
