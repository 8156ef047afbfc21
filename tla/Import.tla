------------------------------- MODULE Import --------------------------------
(***************************************************************************)
(* From a circom circuit to the schema the verifier reads: the make rules  *)
(* of circom-verification decide which files are remade, tools may fail    *)
(* or die while they write, mapper.py makes the names of the variables and *)
(* the translator puts constraints, names and a witness together.          *)
(***************************************************************************)
EXTENDS Integers, Sequences, FiniteSets, SequencesExt

CONSTANTS
    Circuit     \* versions of the source: [sym, nVars, nOutputs, nPubInputs, constraints]

(* What circom writes.  A line of main_c.sym is [wire, label], wire -1 for a *)
(* signal that has been removed; wire 0 is the constant 1; every other wire  *)
(* has a label.  A constraint is three functions from wires to selectors.    *)
WellFormed(c) ==
    /\ Len(c.sym) \in Nat /\ DOMAIN c.sym = 1 .. Len(c.sym)
    /\ \A l \in DOMAIN c.sym : c.sym[l].wire \in {-1} \cup 1 .. c.nVars - 1
    /\ \A w \in 1 .. c.nVars - 1 : \E l \in DOMAIN c.sym : c.sym[l].wire = w
    /\ {c.nVars, c.nOutputs, c.nPubInputs} \subseteq Nat
    /\ c.nVars > c.nOutputs + c.nPubInputs
    /\ \A j \in DOMAIN c.constraints : \A i \in 1 .. 3 :
        DOMAIN c.constraints[j][i] \subseteq 0 .. c.nVars - 1
ASSUME CircuitAssumption == \A c \in Circuit : WellFormed(c)

VARIABLES
    source,             \* the circuit, as it is now
    uptodate,           \* constraints.json is newer than the circuit's directory
    built,              \* what circom has written: main_c.r1cs, main_c.sym, main_c.wasm
    constraints,        \* constraints.json
    map,                \* map_c.json
    witness,            \* witness.json
    job,                \* tools that make still has to run
    complete,           \* history: make of everything has ended well, nothing ran since
    at,                 \* where the translator is
    schema              \* its output file, with the history of what it was made from

targets == <<built, constraints, map, witness>>
vars == <<source, uptodate, targets, job, complete, at, schema>>

(* A file is missing (or even its directory), whole, or what a tool left that *)
(* died while it wrote.                                                      *)
NoDirectory == [state |-> "nodirectory"]
Missing == [state |-> "missing"]
Partial == [state |-> "partial"]
Whole(c) == [state |-> "whole", content |-> c]
(* Faulty variant of IsWhole: what a tool left is taken for its output. *)
IsWhole_Present(file) == file # Missing
IsWhole(file) == file.state = "whole"

Init ==
    /\ source \in Circuit
    /\ uptodate = FALSE
    /\ built = NoDirectory
    /\ constraints = Missing
    /\ map = Missing
    /\ witness = Missing
    /\ job = <<>>
    /\ complete = FALSE
    /\ at = "idle"
    /\ schema = Missing

-----------------------------------------------------------------------------
(* The developer.  A change of a file the circuit includes from another      *)
(* directory is not seen by make.                                            *)
EditCircuit ==
    /\ source' \in Circuit \ {source}
    /\ uptodate' \in {FALSE, uptodate}
    /\ UNCHANGED <<targets, job, complete, at, schema>>

Idle == job = <<>> /\ at \in {"idle", "done", "threw", "died"}

(* rm -rf of the directory, the schema included. *)
clean ==
    /\ Idle
    /\ built' = NoDirectory
    /\ constraints' = Missing
    /\ map' = Missing
    /\ witness' = Missing
    /\ schema' = Missing
    /\ uptodate' = FALSE
    /\ complete' = FALSE
    /\ UNCHANGED <<source, job, at>>

-----------------------------------------------------------------------------
(* make.  constraints is phony: what depends on it is always remade.         *)
ConstraintTools == IF uptodate THEN <<>> ELSE <<"circom", "rp", "rej">>
(* Faulty variant of MapTools: the map is made if there is none. *)
MapTools_IfMissing == IF map = Missing THEN <<"mapper">> ELSE <<>>
MapTools == <<"mapper">>
WitnessTools == <<"wc", "wej">>

(* The default target, or one of constraints, map and witness. *)
Target == {"default", "constraints", "map", "witness"}
Tools(target) ==
    (IF target = "default" THEN <<"init">> ELSE <<>>) \o ConstraintTools \o
        CASE target = "default" -> MapTools \o WitnessTools
          [] target = "constraints" -> <<>>
          [] target = "map" -> MapTools
          [] target = "witness" -> WitnessTools

make ==
    /\ Idle
    /\ \E target \in Target :
        /\ job' = Tools(target)
        /\ complete' = (target = "default")
    /\ at' = "idle"
    /\ UNCHANGED <<source, uptodate, targets, schema>>

(* The next tool ends well. *)
Ran(tool) == job # <<>> /\ Head(job) = tool /\ job' = Tail(job) /\ UNCHANGED complete

init ==
    /\ Ran("init")
    /\ built' = IF built = NoDirectory THEN Missing ELSE built
    /\ UNCHANGED <<source, uptodate, constraints, map, witness, at, schema>>

(* If circom stops between its outputs it is run again before anything reads *)
(* them: they are one file here.                                             *)
circom ==
    /\ Ran("circom")
    /\ built # NoDirectory
    /\ built' = Whole(source)
    /\ UNCHANGED <<source, uptodate, constraints, map, witness, at, schema>>

(* snarkjs rp > constraints.hr: a file nobody reads. *)
rp == Ran("rp") /\ UNCHANGED <<source, uptodate, targets, at, schema>>

rej ==
    /\ Ran("rej")
    /\ constraints' = built
    /\ uptodate' = TRUE
    /\ UNCHANGED <<source, built, map, witness, at, schema>>

(* mapper.py.  Python's negative index is the last slot of the list; labels  *)
(* of one wire are joined to one name, here a set; slots nothing has been    *)
(* written to are dropped.  A line that has not four fields, for which the   *)
(* script ends well without a map, circom does not write.                    *)

(* Faulty variant of Slots: no slot beyond those of the lines. *)
Slots_Short(sym) == Len(sym)
Slots(sym) == Len(sym) + 1
Slot(sym, wire) == IF wire < 0 THEN Slots(sym) + wire ELSE wire
LabelsAt(sym, slot) ==
    (IF slot = 0 THEN {"one"} ELSE {})
        \cup {sym[l].label : l \in {m \in DOMAIN sym : Slot(sym, sym[m].wire) = slot}}
Filled(sym) == {slot \in 0 .. Slots(sym) - 1 : LabelsAt(sym, slot) # {}}
Nth(slots, n) == CHOOSE s \in slots : Cardinality({t \in slots : t < s}) = n - 1
create_map(sym) == [n \in 1 .. Cardinality(Filled(sym)) |-> LabelsAt(sym, Nth(Filled(sym), n))]

mapper ==
    /\ Ran("mapper")
    /\ map' = built
    /\ UNCHANGED <<source, uptodate, built, constraints, witness, at, schema>>

(* snarkjs wc, which also fails for an input without a witness, and wej. *)
wc == Ran("wc") /\ UNCHANGED <<source, uptodate, targets, at, schema>>
wej ==
    /\ Ran("wej")
    /\ witness' = built
    /\ UNCHANGED <<source, uptodate, built, constraints, map, at, schema>>

(* A tool stops with an error: so does make.  It may have begun to write its *)
(* output, which then counts as made.                                        *)
After(file, writer, died) == IF died /\ Head(job) = writer THEN Partial ELSE file
ToolFails ==
    /\ job # <<>>
    /\ \E died \in BOOLEAN :
        /\ map' = After(map, "mapper", died)
        /\ witness' = After(witness, "wej", died)
        /\ constraints' = After(constraints, "rej", died)
        /\ uptodate' = (uptodate \/ (died /\ Head(job) = "rej"))
    /\ job' = <<>>
    /\ complete' = FALSE
    /\ UNCHANGED <<source, built, at, schema>>

-----------------------------------------------------------------------------
(* The translator; an exception is caught by nobody. *)
Enter(there) == at' = there
Stay == UNCHANGED <<source, uptodate, targets, job, complete>>

(* make translate-circom: constraints.json has to exist, the other files are *)
(* not mentioned.  open() throws for a missing file, the parser for one that *)
(* is not whole.                                                             *)
OpenFiles ==
    /\ Idle
    /\ constraints # Missing
    /\ Enter(IF IsWhole(constraints) /\ IsWhole(map) /\ IsWhole(witness) THEN "names" ELSE "threw")
    /\ UNCHANGED schema
    /\ Stay

nVars == constraints.content.nVars

(* map["map"][i] and witness[i]: beyond the end there is null, no string.    *)
ReadNames ==
    /\ at = "names"
    /\ Enter(IF Len(create_map(map.content.sym)) >= nVars THEN "values" ELSE "threw")
    /\ UNCHANGED schema
    /\ Stay

ReadValues ==
    /\ at = "values"
    /\ Enter(IF witness.content.nVars >= nVars THEN "write" ELSE "threw")
    /\ UNCHANGED schema
    /\ Stay

(* Faulty variant of public_inps: one too few. *)
public_inps_Short(c) == [i \in 1 .. c.nPubInputs - 1 |-> i]
public_inps(c) == [i \in 1 .. c.nPubInputs |-> i]

(* One linear combination: its items in the order of their keys, which are   *)
(* strings; the order itself does not matter here.                           *)
Wires(lc) == SetToSeq(DOMAIN lc)
(* Faulty variant of Selectors: in another order than the wires. *)
Selectors_Reversed(lc) == Reverse([t \in DOMAIN Wires(lc) |-> lc[Wires(lc)[t]]])
Selectors(lc) == [t \in DOMAIN Wires(lc) |-> lc[Wires(lc)[t]]]

(* The output; of the witness it keeps which circuit it is of. *)
Translated ==
    LET c == constraints.content
    IN [public_inps |-> public_inps(c),
        vars_of_interest |-> SubSeq(create_map(map.content.sym), 1, nVars),
        variables |-> witness.content,
        wires |-> [j \in DOMAIN c.constraints |-> [i \in 1 .. 3 |-> Wires(c.constraints[j][i])]],
        selectors |-> [j \in DOMAIN c.constraints |-> [i \in 1 .. 3 |-> Selectors(c.constraints[j][i])]]]

(* argv[4] is read only now; without it std::string(nullptr) throws.  What    *)
(* the stream does is not looked at: if the file cannot be opened, nothing is *)
(* written and the program ends well; if it can, it is empty from now on.     *)
OpenOutput ==
    /\ at = "write"
    /\ \/ UNCHANGED schema /\ Enter("threw")
       \/ UNCHANGED schema /\ Enter("done")
       \/ schema' = Partial /\ Enter("writing")
    /\ Stay

(* The whole text, or what the disk has room for: the program ends well.      *)
WriteSchema ==
    /\ at = "writing"
    /\ schema' \in {Partial, Whole([circuit |-> Translated, of |-> constraints.content,
                                    names |-> map.content, complete |-> complete])}
    /\ Enter("done")
    /\ Stay

(* The process is killed. *)
TranslatorDies ==
    /\ at \in {"names", "values", "write", "writing"}
    /\ Enter("died")
    /\ UNCHANGED schema
    /\ Stay

Next ==
    \/ EditCircuit \/ clean
    \/ make \/ init \/ circom \/ rp \/ rej \/ mapper \/ wc \/ wej \/ ToolFails
    \/ OpenFiles \/ ReadNames \/ ReadValues \/ OpenOutput \/ WriteSchema \/ TranslatorDies

Spec == Init /\ [][Next]_vars

-----------------------------------------------------------------------------
File == {Missing, Partial} \cup {Whole(c) : c \in Circuit}

(* Types of the build and of the translator. *)
TypeOK ==
    /\ source \in Circuit
    /\ built \in {NoDirectory, Missing} \cup {Whole(c) : c \in Circuit}
    /\ {constraints, map, witness} \subseteq File
    /\ uptodate => constraints # Missing
    /\ at \in {"names", "values", "write", "writing"} =>
        {constraints, map, witness} \subseteq File \ {Missing, Partial}
    /\ at \in {"idle", "names", "values", "write", "writing", "done", "threw", "died"}
    /\ job # <<>> => at = "idle"

Written == IsWhole(schema)
Circuit_ == schema.content.circuit

(* After a make of everything that has ended well, the schema is of one     *)
(* build: constraints, names and values belong together, whatever failed or  *)
(* was edited before (circom-verification/Makefile:14-33).                   *)
OneBuildAfterMake ==
    Written /\ schema.content.complete =>
        schema.content.of = schema.content.names /\ schema.content.of = Circuit_.variables

(* After a make of everything that has ended well, whatever failed before,    *)
(* the translator finds all it reads: an exception comes only of an output    *)
(* without a name, or of a broken constraints.json, which an error has left   *)
(* and make takes for made ever after (circom-verification/Makefile:23-33,    *)
(* translator.cpp:3-74).                                                      *)
TranslatesAfterMake ==
    [][at # "threw" /\ at' = "threw" /\ complete => at = "write" \/ constraints = Partial]_vars

(* When constraints and map are of one build, the names of a wire are those  *)
(* of the signals circom has put on it, and removed signals name nothing     *)
(* (mapper.py:5-28, translator.cpp:40-44).                                   *)
LabelsOf(c, w) == {c.sym[l].label : l \in {m \in DOMAIN c.sym : c.sym[m].wire = w}}
NamesOnTheirWires ==
    Written /\ schema.content.of = schema.content.names =>
        \A w \in 0 .. schema.content.of.nVars - 1 :
            Circuit_.vars_of_interest[w + 1] =
                IF w = 0 THEN {"one"} ELSE LabelsOf(schema.content.of, w)

(* The public inputs of a circom circuit come after its outputs; the wires    *)
(* the schema names are those iff there are no outputs or no public inputs   *)
(* (translator.cpp:33-38).                                                   *)
PublicInputsIffNoOutputs ==
    Written =>
        LET c == schema.content.of
        IN Range(Circuit_.public_inps) = c.nOutputs + 1 .. c.nOutputs + c.nPubInputs
            <=> c.nOutputs = 0 \/ c.nPubInputs = 0

(* Every term of every constraint keeps its wire and its selector             *)
(* (translator.cpp:52-69).                                                   *)
ConstraintsKept ==
    Written =>
        \A j \in DOMAIN schema.content.of.constraints : \A i \in 1 .. 3 :
            LET lc == schema.content.of.constraints[j][i]
                wires == Circuit_.wires[j][i]
            IN /\ Len(wires) = Cardinality(DOMAIN lc)
               /\ \A w \in DOMAIN lc : \E t \in DOMAIN wires :
                    wires[t] = w /\ Circuit_.selectors[j][i][t] = lc[w]
=============================================================================
