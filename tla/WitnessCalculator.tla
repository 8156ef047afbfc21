------------------------- MODULE WitnessCalculator --------------------------
(***************************************************************************)
(* The generated witness calculator of the circuit sigma as one program:   *)
(* CalcWit loads the inputs and calls the computation of SmallSigma, which *)
(* works on the same signals, and writes a witness.  How the input signals *)
(* are named and grouped is left to the hash map of the .dat file.         *)
(***************************************************************************)
EXTENDS Integers, Sequences, FiniteSets

CONSTANTS
    N, Ra, Rb, Rc, Mod,                         \* see SmallSigma
    Key, Hash, Table, Json, DoublePrecision, MaxDigits, Foreign     \* see CalcWit

ASSUME ShiftAssumption == Rc <= N

VARIABLES
    json, table, beyond, step, item, index, inputSignalAssigned, inputSignalAssignedCounter, wtns,
    signalValues,
    componentMemory, phase, k, released, ran

(* Main signals and the products b * c of the exclusive or are witness; the   *)
(* compiler has removed the others, and products with a shifted-in 0.        *)
WitnessNo == 1 + 2 * N + (N - Rc)
MidStart == 1 + 12 * N
witness2SignalList ==
    [i \in 1 .. WitnessNo |-> IF i <= 2 * N + 1 THEN i - 1 ELSE MidStart + (i - 2 * N - 2)]

C == INSTANCE CalcWit WITH SignalNo <- 13 * N + 1, InputStart <- N + 1, InputNo <- N, Unset <- -1
S == INSTANCE SmallSigma

ASSUME CalcAssumption == C!CalcConstants
ASSUME SigmaAssumption == S!SigmaConstants

(* Powers of the bases of numerals, as far as they are used. *)
ASSUME PowersAssumption ==
    \A base \in {2, 8, 10, 16} :
       /\ base ^ 0 = 1
       /\ \A p \in 0 .. MaxDigits : base ^ p \in Nat \ {0}
       /\ \A p \in 1 .. MaxDigits : base ^ p = base * base ^ (p - 1)

calc == <<json, table, beyond, step, item, index, inputSignalAssigned, inputSignalAssignedCounter, wtns>>
circuit == <<componentMemory, phase, k, released, ran>>
vars == <<calc, signalValues, circuit>>

Init == C!Init /\ S!Init

Load == C!Load /\ UNCHANGED circuit

(* Control is inside run(ctx). *)
Compute == step = "circuit" /\ S!Next /\ UNCHANGED calc

Return == phase = "done" /\ C!Return /\ UNCHANGED circuit

Next == Load \/ Compute \/ Return

Spec == Init /\ [][Next]_vars

(* One thread that waits for nothing. *)
FairSpec == Spec /\ WF_vars(Next)

-----------------------------------------------------------------------------
(* The constraint system of the circuit (constraints.json, from xor3.circom): *)
(* wire 0 is the constant, then come outputs, inputs and products.            *)
Wire(i) == wtns[i + 1]
OutWire(j) == Wire(1 + j)
InWire(j) == Wire(1 + N + j)
MidWire(j) == IF j < N - Rc THEN Wire(1 + 2 * N + j) ELSE 0
ShiftedWire(j) == IF j < N - Rc THEN InWire(j + Rc) ELSE 0
Congruent(x, y) == (x - y) % Mod = 0

SolvesConstraints ==
    /\ Wire(0) = 1
    /\ \A j \in 0 .. N - 1 :
        LET a == InWire((j + Ra) % N)
            b == InWire((j + Rb) % N)
            c == ShiftedWire(j)
        IN /\ j < N - Rc => Congruent(b * c, MidWire(j))
           /\ Congruent(a * (2 * b + 2 * c - 4 * MidWire(j) - 1),
                        b + c - 2 * MidWire(j) - OutWire(j))

(* The number that is written with these digits. *)
NumberOf(digits, base) ==
    CHOOSE n \in 0 .. base ^ Len(digits) - 1 :
        \A i \in DOMAIN digits : digits[i] = (n \div base ^ (Len(digits) - i)) % base

(* What a JSON value denotes: a numeral in the base of its prefix, or an      *)
(* integer that a double holds exactly.                                       *)
BaseMeant(prefix) ==
    IF prefix = "none" THEN 10 ELSE IF prefix = "0o" THEN 8 ELSE IF prefix = "0b" THEN 2 ELSE 16
Plain(v) == v.type = "number" => v.halves % 2 = 0 /\ v.halves \in -2 * C!MaxExact .. 2 * C!MaxExact
Denoted(v) ==
    IF v.type = "number" THEN v.halves \div 2 ELSE NumberOf(v.digits, BaseMeant(v.prefix))

Places == {pl \in (DOMAIN json) \X (1 .. N) : pl[2] <= Len(C!Values(pl[1]))}
Stored(i) == {p \in DOMAIN table : table[p].hash = Hash[json[i].key]}
PlacesOf(s) == {pl \in Places : \E p \in Stored(pl[1]) : table[p].signalid + pl[2] - 1 = s}

(* A file that gives every input signal one valid value, under its name and  *)
(* in its number, and nothing else.                                          *)
Regular ==
    /\ \A i \in DOMAIN json :
        /\ \E p \in Stored(i) : table[p].signalsize = Len(C!Values(i))
        /\ \A j \in DOMAIN C!Values(i) : C!Valid(C!Values(i)[j])
    /\ \A s \in S!InputSignals : Cardinality(PlacesOf(s)) = 1

(* The slot of a name lies before the one its hash points to. *)
Wrapped(i) == \E p \in Stored(i) : p < Hash[json[i].key] % C!TableSize

(* The compiler enters each hash once, at the first free slot from the one    *)
(* it points to.                                                             *)
ASSUME TableAssumption ==
    \A built \in Table : \A p \in DOMAIN built :
        LET h == built[p].hash
        IN h # C!Free =>
            /\ \A q \in DOMAIN built : built[q].hash = h => q = p
            /\ \A q \in h % Cardinality(DOMAIN built) .. p - 1 : built[q].hash # C!Free

-----------------------------------------------------------------------------
(* Types of the driver and of the circuit. *)
TypeOK ==
    /\ step \in {"start", "items", "values", "circuit", "done", "threw", "aborted", "crashed"}
    /\ item \in 1 .. Len(json) + 1
    /\ index \in Nat
    /\ inputSignalAssigned \subseteq S!InputSignals
    /\ inputSignalAssignedCounter = N - Cardinality(inputSignalAssigned)
    /\ S!TypeOK

(* The circuit is run once, and only when every input signal has been set;   *)
(* nothing sets one later (calcwit.cpp:70-96, main.cpp:170-192).             *)
RunsOnAllInputs ==
    phase # "idle" =>
        /\ inputSignalAssigned = S!InputSignals
        /\ \A s \in S!InputSignals : S!IsSet(s)
        /\ ran[0] = 1
InputsFrozen ==
    [][phase # "idle" => \A s \in S!InputSignals : signalValues'[s] = signalValues[s]]_vars

(* The output file holds a witness, and not a part of one. *)
WholeWitness == step \in {"done", "crashed"} /\ DOMAIN wtns = DOMAIN witness2SignalList

(* A witness that is written in whole solves the constraint system of the    *)
(* circuit (main.cpp:202-287, main_c.cpp:297-603 against constraints.json).  *)
WitnessSolvesConstraints == WholeWitness => SolvesConstraints

(* It is a witness for the file: each input signal has exactly one value in  *)
(* it, and that is its value, whatever the base it is written in, unless it  *)
(* is a number a double does not hold (main.cpp:116-200).                    *)
WitnessIsForTheFile ==
    WholeWitness =>
        \A s \in S!InputSignals :
            \E pl \in PlacesOf(s) :
                /\ PlacesOf(s) = {pl}
                /\ LET v == C!Values(pl[1])[pl[2]]
                   IN Plain(v) => Wire(s) = Denoted(v) % Mod

(* A regular file is refused only if a name was moved past the end of the    *)
(* hash table to its beginning: the lookup walks off the end of the table    *)
(* (calcwit.cpp:50-68).                                                      *)
RefusedOnlyAtTheEnd ==
    Regular /\ step \in {"threw", "aborted"} => \E i \in DOMAIN json : Wrapped(i)

(* Inside the circuit: a component is run once, by the copy that sets the    *)
(* last of its inputs (main_c.cpp:478-511, 537-566).                         *)
RunWhenComplete == S!RunWhenComplete

(* No value is computed from a signal nobody wrote, no assertion of the      *)
(* generated code fails (main_c.cpp:375-603).                                *)
NothingReadUnset == S!NothingReadUnset

(* The circuit computes the polynomial of its source and, on bits, the       *)
(* exclusive or of two rotations and a shift (main_c.cpp:84-603).            *)
ComputesSigma == S!ComputesSigma

(* The program ends, whatever the file and the table (main.cpp:163-200).     *)
Ends == <>(step \in {"done", "threw", "aborted", "crashed"} \/ phase = "aborted")
=============================================================================
