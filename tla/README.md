# Verification of zk-circuit-verification

The repository verifies arithmetic circuits with an SMT solver: a circuit that a
front end has exported (barretenberg, circom) becomes symbolic terms and
assertions in cvc5, and a client asks whether the system has a solution, most
often in the form "is the witness of this circuit unique?". The verdict is only
as good as the library that builds the question. This project models that
library in TLA+, checks it with TLC on small fields and circuits, and proves
about it with TLAPS what does not depend on their size.

Paths below are relative to the repository; `smt/` stands for
`src/smt-verification-library/`.

## 1. Inventory

| component | state | operations | talks to | modelled in |
|---|---|---|---|---|
| `Solver` (`smt/solver`) | cvc5's assertions; `checked`, `res`, `cvc_result`; configuration | `assertFormula`, `check`, `getResult`, `model` (two overloads), `getValue`, printing | cvc5 below, terms and clients above | `Solver` |
| `STerm` (`smt/terms/term.*`) | a cvc5 term and its type (field, integer, bit vector) | constructors; arithmetic, comparisons that assert at once, bit operations | asserts into `Solver` | `Terms` over `Words`, constants in `Literals`, promise in `RingAlgebra` |
| `Bool` (`smt/terms/bool.*`) | a Boolean term, flag `asserted` | connectives, `batch_or`, `batch_and`, `assert_term` | asserts into `Solver` | `Bools` |
| `Circuit` (`smt/circuit/circuit.*`) | name tables, `symbolic_vars`, `optimized`, `real_variable_index`, selectors and wires | the constructor: `init`, `prepare_gates`, public inputs; lookups by name and index | builds `STerm`s, asserts into `Solver` | `Circuit` |
| `unique_witness`, `unique_witness_ext` | two `Circuit`s over one `Solver` | relate the variables of the two | `Circuit`, `Bool`, `Solver` | `UniqueWitness`, promise in `Uniqueness` |
| `smt_util` | the output file | `default_model`, `default_model_single`, `smt_timer` | `Solver`, `Circuit` | `Printing`; `smt_timer` in `UniqueWitness` |
| `CircuitSchema` | the exported circuit | `open` | read by `Circuit` | constant `Schema` of `Circuit` |
| clients (`xor.cpp`, `verify/*`) | none | build, check, read, print | all of the above | life cycle of `Printing` |
| translator, mapper, make rules (`src/circom-verification`) | files, and which of them make takes for made | `make`, `clean`, `translate-circom`; circom, snarkjs, `mapper.py`, the translator | the schema file | `Import` |
| generated witness calculator of `sigma` (C++) | hash table and countdown of inputs; one array of signals, component memory | `loadJson`, `setInputSignal`, `run`, `writeBinWitness` | files | `WitnessCalculator` = `CalcWit` + `SmallSigma` |
| generated field arithmetic (`fr.*`) | an element in one of four formats | `Fr_*` and `RawFr` | the calculator above | `FieldElements`, promise in `FieldAlgebra` |
| calculators in JavaScript, circom circuits, z3 scripts, scripts around snarkjs | - | - | - | not modelled, see 6 |

What is hard here is not concurrency (everything runs on one thread) but state
that outlives what it describes, and errors in the middle of a sequence of
effects:

* the flags of `Solver` survive new assertions; a check may answer *unknown*;
  cvc5 has a mode of its own that decides whether values can be read;
* the tables of `Circuit` are filled in one order and read in another, through
  copy constraints (`real_variable_index`), with maps whose `operator[]` silently
  creates a missing entry;
* which variables a uniqueness claim is about is decided by marks
  (`optimized`) that the gate loop leaves behind;
* cvc5 may throw in the middle of the gate loop or of the list of relations,
  with part of the assertions made; a printed model may be half written;
* a constant passes through a string, and its constructor overwrites a
  character of it;
* an integer that stands for a field element is reduced in some places and not
  in others, which depends on the type and the shape of the term at hand;
* a division asserts two facts in the shared solver as a side effect;
* a Boolean remembers that it was asserted, not what;
* values are read back under printed names, which two variables may share;
* make compares ages: a tool that dies leaves a file that counts as made, and
  the schema puts together three files that were made at different times;
* the calculator runs the circuit from inside the assignment of an input, and a
  component from inside the copy of one of its inputs, on an array that all
  components share at offsets written as literals.

What makes the components correct:

* `Solver`: a model that reaches the client solves everything asserted so far;
  "unsat" stays true, and after it no check is taken for satisfiable.
* `Circuit`: the assertions of a finished constructor have exactly the
  witnesses of the schema as solutions, if the schema fixes its constants; no lookup leads
  to a null term; a
  variable stays marked as optimized iff no gate uses it; the loop ends.
* `STerm`: an operation computes in its ring or is refused, an assertion keeps
  exactly the valuations of which it is true, a quotient is determined, the
  unknowns of a model are reduced.
* `Bool`: what says that it is asserted holds in the solver.
* `unique_witness`: "unsat" only if there is no pair of witnesses that refutes
  uniqueness, "sat" only with such a pair in the model, if the call is *posed*
  (section 2); what is printed of it is that pair.
* import: the schema is of one circuit, keeps its constraints, puts each name on
  its wire and each public input where it belongs.
* calculator: a witness that is written solves the constraint system and is for
  the file that was read; nothing is computed from what nobody wrote.
* field arithmetic: a call computes on the numbers the elements stand for,
  however they are represented.

## 2. How the modules fit together

```
  Words ---- RingAlgebra (promise of terms)          Uniqueness (promise of a verdict)
    |             ^ ComputesInTheRing                     ^ AnswersTheQuestion
  Terms ----------+                                       |
                                          UniqueWitness --+--- Printing (client: check, print)
  Bools                                   |    |    |
                                    Circuit  Circuit  Solver
  Literals ....> Reading, Meaning  (circuit1)(circuit2)
                 of strings

  Import (make, mapper, translator)       FieldAlgebra (promise of an element)
                                               ^ ComputesInTheField
  WitnessCalculator                       FieldElements
    |          |
  CalcWit   SmallSigma
```

Every `MC*` module EXTENDS the module it instantiates and gives its constants
values; each `*_proofs` module EXTENDS the module it is about. `UniqueWitness_proofs`
is about `Printing` too, which EXTENDS `UniqueWitness`, and instantiates
`Circuit_proofs`; `WitnessCalculator_proofs` also proves what `SmallSigma` does on its
own, as an instance; `Values_proofs` is about the two small modules of `smt/terms`,
`Bools` and `Literals`.
A variable of a module is a member of the class it models, under the source's
name where it has one. What is not under `src/` is modelled from the way it is
used and marked external: cvc5 (`assertFormula`, `checkSat`, `getValue`, `mkTerm`), circom,
snarkjs, make, GMP.

A formula or a term is never a syntax tree here. In `Solver` and `Circuit` it is
what has a truth value under a valuation of the symbolic variables (`Holds`,
`HoldsOwn`); in `Terms` it is a value for every valuation, with its sort, its
type and the shape of its root, the three things the code looks at; in `Bools`
the set of valuations of which it is true. This is what lets the properties
speak about the *meaning* of what is asserted, not its form.

A mutated definition, `Name_Variant`, stands before some definitions under the
comment "Faulty variant of". No specification uses one: it is a plausible bug
in that definition which the property named in `PROJECT.json` must catch.

### `Solver` (`smt/solver/solver.{cpp,hpp}`)

| state | code |
|---|---|
| `checked`, `res`, `cvc_result` | the members of that name |
| `produceModels` | `SolverConfiguration::produce_models` |
| `asserted`, `mode`, `candidate` | cvc5: the assertions, whether values can be read, the valuation read |
| `reply` | what the client's last call returned or threw |

`assertFormula`, `check`, `getResult`, `model_map` and `model_vector` are the
operations; a client calls them in any order. A check may answer *unknown* at
any time; cvc5 then still hands out values (mode `sat_unknown`), those of an
arbitrary valuation. `assertFormula` leaves the wrapper's flags alone, as the
code does, so the safety of `model()` after more assertions rests on the
combination of two tests in two places: that is what
`ModelIsOfCurrentAssertions` checks.

### `Literals` (`smt/terms/term.hpp:115-123`, `term.cpp:33-65`)

How a string becomes a constant: the overwritten second character, the base
that rejects letters, the reduction. A character is the value it has as a digit
(16 for the `x` of a prefix, which is none). Writing the terminator of a string of one
character is undefined behaviour; `Build` lists the outcomes considered. The
module gives `Circuit` its `Reading` (what the code makes of a string) and
`Meaning` (what the string denotes), so that `Circuit` is independent of
characters.

### `Circuit` (`smt/circuit/circuit.cpp:12-82, 365-458`)

One step per loop iteration of the constructor: `Start`, `InitVariable` (with
`InitEnd`), `PinConstants`, `PreparePlonkGate` or `PrepareR1csGate` (with
`GatesEnd`), `PinPublic`, `Finish`. `Throw` is cvc5's exception for a string it
rejects: the object is lost, its assertions stay. The maps are functions;
`Inserted` is `insert` (an existing key stays), `Assigned` is `operator[]`
with an assignment (a missing key is created). `symbolic_vars` is the set of
indices that have a term; what is asserted refers to indices, so a lookup that
would have created a null term is an index outside that set (`NoNullTerm`).
The order in which an unordered map of names is traversed is a choice
(`Inverses`). What exporters guarantee of a schema is `WellFormed`: in
particular wires and names are already real indices.

A witness (`IsWitness`) makes variables 0 and 1 of the circuit the numbers 0 and
1 *through* `real_variable_index`. The constructor pins the symbolic variables 0
and 1, which is not the same when a copy constraint lets another index stand for
one of them: then the circuit is right only because the exporter fixes its
constants with gates of their own (`ConstantsFixed`, external). The instances
have such maps, with the gates and without.

### `UniqueWitness` and `Uniqueness` (`circuit.cpp:521-611`, `smt_util.cpp`, clients)

Two instances of `Circuit` and one of `Solver` share `asserted`. The steps are
those of the two constructors, one iteration per name of `equal` and
`not_equal`, the two disjunctions of `unique_witness_ext` (`RelateSome`, which
may throw between them), the loop over all variables with its `batch_or`
(`RelateOthers`), and the client's `check` (`smt_timer` is the same check with a
clock around it).

`Uniqueness` is the abstract specification: a question, a verdict, and the
evidence a "sat" must come with. `AnswersTheQuestion` is the refinement, with
the question's evidence defined on the *witnesses of the schema*, not on the
assertions. It covers the whole chain, from name tables and copy constraints to
the marks in `optimized` and the answer of cvc5.

The evidence (`IsEvidence`) is what the comments and the README ask for: equality
of *all* variables of a listed name, and for `unique_witness` a difference in one
of *all* the other variables (`Others`), not only in those the code compares. The
code does not give this for every call. `Posed` says for which it does: a name is
that of one variable, no variable has the empty name, and of the other variables
each is in a gate or pinned, and one is comparable. The refinement is about
posed calls. `AnswersAsDocumented` says the same of all calls, which the code does
not keep (run `unique_documented`).

### `Printing` (`smt_util.cpp:16-115`)

EXTENDS `UniqueWitness` by what a client does with "sat": `WriteWitness`
(`model(vector)` for one circuit or both, then the file, row by row) and
`ShowSpecial` (lookups by name, which may throw when the file is already written,
then `model(map)`). The stream is never looked at: the file may get no row, the
first ones, or all, and the client is shown the special variables all the same.
The rows are read back under *printed* names: `PrintedName` gives
an unnamed variable the name `var_<first index>`, which the exporter may have
given to another one; of rows with one name all show the first (`ValueByName`).
`PrintedOnce` is the hypothesis under which the file is right; the instance has
schemas without it.

### `Terms`, `Words` and `RingAlgebra` (`smt/terms/term.{cpp,hpp}`)

A client with two terms `a` and `b` of one type calls any operator, in any
order. One action per operator or family of operators that share their code:
`Combine` (`+ * ^ & |` and their assigning forms), `Negate`, `Subtract`,
`SubtractFrom` (a string on the left), `SubtractAssign`, `BatchCombine`, `Turn`
(rotations and shifts), `Divide`, `DivideAssign`, `Compare`, `CompareBool`
(`(Bool(a) == Bool(b)).assert_term()`), `Bound` (`< <= > >=`) and `Copy`.
Outcomes are `done`, `ignored` (the operation prints a line and returns an
operand, as the code does when a type has no kind for it) and `threw` (a
mismatch of sorts in `mkTerm`, a constant too large for a bit vector, a null
pointer). `holds` is the set of valuations that satisfy the solver's
assertions.

`RingAlgebra` promises arithmetic modulo the size of the ring, whatever the
engine: for FFI terms, which are unreduced integers in cvc5, this is not
obvious, and only true for a client that compares integers where the comparison
reduces them. `Careful` is that client: with `Careful = TRUE` comparisons and
divisions are called with terms that are field elements, bit vectors, or
integers whose comparison is reduced (`Exact`, for `==`, `!=`, `/`: not the
result of a negation or of `batch_*`) or need not be (`Canonical`, for range
constraints and comparisons of Bools: a variable or a constant). With `Careful
= FALSE` it is not true: run `terms_field`.

`Careful` also guards the zero test that precedes a division of a mistyped
dividend (`ThrowAfterHalf`: the divisor is asserted to be other than 0, then
`mkTerm` throws): that assertion compares, too.

### `Bools` (`smt/terms/bool.{cpp,hpp}`)

A client combines two Bools in any order, in place or not, copies and asserts
them. The flag `asserted` is modelled as the code keeps it: new in a result,
copied with a copy, kept by `|=` and `&=`. Which calls a client makes is `Calls`:
without `&=` the flag can be trusted, with it an `assert_term()` may do nothing.

### `Import` (`src/Makefile`, `src/circom-verification/Makefile`, `tools/mapper.py`, `translator/translator.cpp`)

The developer edits the circuit or a file it includes from another directory;
make decides from ages (`uptodate`) which tools to run (`Tools`, in the order of
the recipes); a tool ends well or fails, possibly with its output begun
(`ToolFails`). The translator opens the three files, reads names, values and
constraints, and throws where the code does; then it looks at `argv[4]`, which
may be missing, and opens its output: `OpenOutput` throws, truncates the file, or
fails without a word. `WriteSchema` writes all of the schema or, on a full disk, a
part; `TranslatorDies` may come anywhere in between. Each file is represented by the
version of the circuit it was made from, so "made from one build" is an
equality. `create_map` is `mapper.py`: the list it allocates, filled line by line
with the names of a wire (`Filled`), Python's negative index included (`Nth`).
`Translated` is the translator's output.

### `WitnessCalculator`, `CalcWit`, `SmallSigma` (`constraints/sigma/main_c_cpp/`)

`CalcWit` is the driver (`calcwit.cpp`, `main.cpp`): conversion of a JSON value
(`Numeral`, `ThroughDouble`), lookup in the open-addressing table
(`getInputSignalHashPosition`, with the slot past its end that it reads before
it wraps), `setInputSignal` with its three assertions and the countdown, the
witness file (`writeBinWitness`: all values, or, since `fopen`, `fwrite` and
`fclose` are not checked, only the first ones, or a crash on a file that was not
opened; `WholeWitness` is the good case). `SmallSigma` is `main_c.cpp`: one step per
iteration of its loops,
components as functions on the shared array, `componentMemory` with the counter
that decides who runs a component. `WitnessCalculator` composes the two over one
array `signalValues`; control passes to the circuit inside `setInputSignal`
(`step = "circuit"`) and back (`Return`). Its properties compare the witness
with the constraint system of `constraints.json` and with the input file. The
code has words of 32 bits; `N`, the rotations and the shift are constants.

### `FieldElements` and `FieldAlgebra` (`fr.cpp`, `fr.hpp`, part of `fr.asm`)

A client computes on one element through `Fr_*` (four formats, small or long,
normal or Montgomery) or `RawFr` (Montgomery words only). `FieldAlgebra` is the
arithmetic modulo the prime; `ComputesInTheField` maps a representation to the
number it stands for, for every call, including those GMP fails in. An exponent
is a row of `ScalarBits` bits; `Numeral` is the number a row of digits denotes,
for exponents and for the words read back from a buffer.

The result of an addition or a subtraction may take the place of an operand
(`Place`). The assembly writes the type of the result before it converts the
operands, so an operand that is the result and not yet in Montgomery form is
taken for what it is not (`Spoils`; `SubtractsItself` for a small negative minuend).
Of such a call, "spoilt" in `FieldAlgebra`, no more is promised than an element; of
every other one, in place or apart, the sum or the difference. The inverse
of 0 is any element: GMP leaves the result undefined and `Fr_inv` does not test for
it.

## 3. Runs

| run | instance | what it shows |
|---|---|---|
| `solver` | 3 variables over two values, one of each sort, two with one printed name; 4 formulas that can contradict each other; requests of at most 2 terms | no model is outdated; an unsat verdict stays true; once a check has said unsat, no later step sets `res` or hands out a model, through any assertions, checks and unknown answers |
| `solver_unknown` (violation) | the same | `check()` returns FALSE for a solvable system when cvc5 gives up |
| `circuit` | modulus 3, 5 variables, all lists of at most 2 gates out of 9 PLONK or 4 R1CS shapes, some with `0x00` and two that fix constants, 6 maps of copy constraints, three of which share index 0 or 1, 4 name maps, 3 lists of public inputs | the constructor's tables are right, its assertions have the schema's witnesses as solutions if the schema fixes its constants, it ends |
| `circuit_strings` (violation) | modulus 5, schemas with selectors of two digits | the same is not true of schemas whose strings are misread |
| `unique_witness` | modulus 3, 4 variables, 9 gate lists, 3 maps of copy constraints, 4 name maps, one with a name for two variables and one with `var_2`, 10 calls with known and unknown names, 3 requests to print | for posed calls both functions and the check implement `Uniqueness`; they end; what is in the file is evidence, the screen shows what is in the file |
| `unique_documented` (violation) | the same | for calls that are not posed: "unsat" for a circuit with two witnesses, which differ in a variable of no gate |
| `terms` | modulus 5, bit vectors of width 2, three calls, all operators, constants 0 and 4 | terms compute in their ring, divisions are determined, models reduced, and the unusable operations are the ones listed |
| `terms_field` (violation) | modulus 3, a client that is not careful | `-x == y`, or a sum by `batch_add`, is compared as an integer |
| `witness_calculator` | words of 3 bits, modulus 13, 7 hash tables with collisions, wrap-around and empty signals, 20 files that fit them or not | a witness written whole solves the constraints and is for the file; regular files are refused only where the lookup leaves the table; the program ends |
| `field_elements` | modulus 7, two words of four values | all formats and both interfaces compute in the field, also in place, unless an operand is spoilt; what is printed is the value; the export of a number that has all its words is read back as the same element |
| `import` | three versions of a circuit, with removed and merged signals, with and without outputs and public inputs | after a complete make the schema is of one build, names are on their wires, constraints are kept, and the translator throws only for want of its output's name or on a partial file; which public inputs are right |
| `values` | all numbers below 200, decimal and hexadecimal of 3 digits, modulus 211, both outcomes of the undefined write; two unknown Booleans, no `&=` | exactly which constants keep their value in every outcome; a Bool that says it is asserted holds |

Deadlock is not checked where the system stops: a constructor that has returned
or thrown, an answered question, a program that has ended or was killed by a
division by 0, a client that has made its last call.

**Why the bounds are enough.**

* `Solver`: a verdict is outdated after at least *check, assert, read*; there is
  no bound on the number of calls, and four formulas give solvable, unsolvable
  and narrowing sequences in all orders. Names collide with two variables.
* `values`: of constants, one, two and three digits are all the cases of "the second
  character"; 0 to 199 have all second digits, and `meant < Mod` leaves the
  reduction out of the way. A client does one or the other, constants or Booleans:
  neither knows of the other.
* `Circuit`: all interactions of the tables are between two gates (a mark set by
  one, kept by the other; one that uses a constant, one that fixes it), between a
  gate and a public input, or of two indices that share a variable; modulus 3 distinguishes
  0, 1 and -1. The gate and input
  loops run zero, one and two times. The proofs remove the bound.
* `UniqueWitness`, `Printing`: two variables besides the constants, shared or not
  with each other and with 0, named or not, alike or not, in a gate or not, one of them named
  as another prints; the calls put an unknown name in each list, the requests one
  in the middle. All pairs of valuations are enumerated.
* `Terms`: three calls are enough to build an argument, build another from it and
  compare or divide. An FFI unknown ranges over -1 to Mod, one value outside the
  field on either side. Modulus 5 with width 2 has a constant that does not fit
  the width. At most one division is made, so one unknown `q` is enough. The
  proofs remove the bounds, but for that division.
* `WitnessCalculator`: three bits tell the rotations and the shift apart and leave
  one product out; a table has a name at home, moved by one, moved by two, and
  moved past the end; doubles hold integers of two bits, so that 3 digits round.
  The counters run over whole loops. The proofs remove the bound on words.
* `FieldElements`: a field of 7 in words of 4 has numbers of no, one and two
  words, small and long ones on both sides of 0, sums with and without carry;
  exponents of four bits go beyond the order of the field's units.
* `Import`: two versions are enough for a stale file; the third gives each
  combination of outputs and public inputs that the properties distinguish.

**Fairness.** `Circuit`: weak fairness of the constructor's steps.
`UniqueWitness` and `Printing`: weak fairness of the steps of the function
(`Step`). `WitnessCalculator`: weak fairness of its next step. All run on one
thread that waits for nothing. The client's check is *not* fair: with
`default_solver_config` there is no timeout, and cvc5 may search for as long as
it likes; so `Ends` says that the function returns or throws, not that an answer
follows. `Solver`, `Terms`, `Bools`, `FieldElements` and `Import` have a client
or a developer that may stop at any time: no fairness, no liveness property.

## 4. Disagreements between code and documentation

The violation runs show these, each with the line of the repository that says
otherwise quoted under "findings" in `PROJECT.json`:

1. `solver.cpp:19` (`solver_unknown`): *unknown* is returned like *unsat*, although the
   comment says "true if the system is solvable". A client of `unique_witness` that
   tests `!s.check()` reads a time-out as a proof.
2. `term.hpp:120` (`circuit_strings`): the second character of a constant's string is
   replaced by `0` and the string is read in base 10, so a schema with selectors of
   more than one digit gives another circuit.
3. `circuit.cpp:598` (`unique_documented`): variables in no gate are not compared,
   although the README speaks of "all the other variables". The property has two
   more parts that the code does not keep: with nothing left to compare
   nothing is asserted (605), where the comment (571-572) asks for a difference; and of
   several variables with one name only one is related (31). `Posed` excludes the three.
4. `term.cpp:178` (`terms_field`): an FFI term with one child is compared unreduced, and
   so is what `batch_add` and `batch_mul` return, whose type is the default one
   (`term.hpp:171`).

Met while modelling, kept in the models, without a run of their own:

* `solver.cpp:49`, `81`: `model()` throws for a bit-vector value, whatever else
  was requested (`Readout`).
* `solver.cpp:87`, `smt_util.cpp:43`: of two terms that print alike `model(vector)` keeps
  one value, and the file gives both rows that one (`PrintedOnce`).
* `bool.hpp:41`: after `&=` a Bool that was asserted cannot be asserted again, though the
  README of the library (line 137) lists `&=` next to `|=` without a restriction. The
  theorem about `Bools` has the hypothesis `Widening` for it.
* `translator.cpp:22`: three arguments pass the test of `argc`, and the fourth is read when
  the translation is done; `translator.cpp:14-19`, `main.cpp:205`: an output that cannot
  be opened or is cut short is not noticed, and the programs end with status 0
  (or crash). `TranslatesAfterMake` says which exceptions are left after a complete
  make, `WholeWitness` is a hypothesis about the witness.
* `circom-verification/Makefile:26`: a `constraints.json` that a killed snarkjs has begun
  counts as made ever after (`Partial`). `src/Makefile:20`: what is translated was built
  from any version, after a partial make even from several (`OneBuildAfterMake`
  is about complete ones).
* `fr.asm:1193`, `1351`, `2106`: an addition or a subtraction into one of its operands may
  destroy it before it is read, though the comment (1102) speaks of "elements of any
  kind" and asks nothing of the pointers (`Spoils`, `SubtractsItself`). The generated
  circuit passes results of its own.
* `term.cpp:162`, `111`, `316`, `337`: `/=` builds a string from a null pointer,
  `-=` adds with the kind of field elements for every type, `<<` and `>>` ask
  `mkOp` for an index of a kind that has none. `UnusableOperations`, proved,
  says that of the documented operations on terms of one type exactly these throw
  (`-=` on all but field elements).
* `circuit.cpp:68`: a copy constraint that puts another index in the place of 0 or
  1 leaves that index to the exporter's gates; `zero` and `one` pin variables no
  gate mentions (`ConstantsFixed`).
* `translator.cpp:35`: public inputs are numbered from wire 1, where circom puts
  the outputs (`PublicInputsIffNoOutputs`).
* `term.cpp:202-252`: range constraints compare the integer itself; after a sum
  of FFI terms that is not the field element (`Canonical`). So does
  `Bool(a) == Bool(b)` (`bool.cpp:30`).
* `calcwit.cpp:55`: the lookup reads one slot past the table before it wraps and
  skips slot 0; a name stored there is not found (`RefusedOnlyAtTheEnd`).
* `fr.cpp:300`: `toRprBE` does not pad, and `fromRprBE` reads the whole buffer: a
  number with fewer words comes back with what was in the buffer
  (`FullNumbersReadBack`).

## 5. Proofs

All theorems hold for every value of the constants that satisfies the named
assumptions of the modules; TLC evaluates each of them in some run.

* `Solver`: `SortAssumption`, `NameAssumption`, `MaxTermsAssumption`,
  `HoldsAssumption` (sorts, names and truth values are total).
* `Circuit`: `ConstantsAssumption` (the modulus is above 1, the strings "0" and
  "1" mean 0 and 1, schemas are well formed).
* `UniqueWitness`: the same of its circuits (`CircuitAssumption`), calls are made
  of names (`CallAssumption`), schemas are PLONK (`PlonkAssumption`: both functions
  build their circuits with the default `isPLONK`; an R1CS circuit is covered by
  `EncodingIsExact`), strings are read as written and the schema fixes its
  constants (`ReadingAssumption`; run `circuit_strings` shows what happens
  otherwise). That a call is posed is not assumed: it is part of the refinement.
* `Printing`: `RequestAssumption` (a request names circuits and variables).
* `Terms`: `TermsAssumption`, and of `Words` `WidthAssumption`.
* `Bools`: `AtomAssumption` (and the hypothesis `Widening` of its theorem: no `&=`).
  `Import`: `CircuitAssumption` (what circom writes).
* `Literals`: `BuildAssumption`, `NumbersAssumption` (a number fits the width it is
  printed in).
* `WitnessCalculator`: `SigmaAssumption` (the prime is far above the word size),
  `ShiftAssumption`, `CalcAssumption`: tables have room for what they hold,
  names have hashes, files are sequences of values, digits are numbers
  (`FilesGiven`). Only for the theorem about refusals, `TableAssumption`: the
  compiler enters each hash once, by linear probing.
* `FieldElements`: `FieldAssumption`: the modulus is below the words' range, it has
  inverses (that is, it is prime) and one of the radix, which makes it odd, and
  sums and products of small integers need one correction at most, as 32 bits
  below a prime of 254 do.
* `^` has no meaning for the provers, so wherever a power occurs the modules name
  the two facts about it that define it, as far up as it is used
  (`PowersAssumption` of `Literals`, `Words` and `WitnessCalculator`,
  `WordAssumption` of `FieldElements`).

| module | theorem | argument |
|---|---|---|
| `Solver_proofs` | `TypeCorrect`, `ModelsAreCurrent`, `UnsatStays`, `UnsatForGood` | one inductive invariant |
| `Circuit_proofs` | `TypeCorrect`, `NoNullTermEver`, `OptimizedCorrect`, `EncodingIsExact` | the tables; the meaning of a prefix |
| `UniqueWitness_proofs` | `AnswersTheQuestionOfTheCall` (refinement) | what the relations asserted so far mean, on top of the two circuits |
| | of `Printing`: `FileIsEvidence`, `ShownIsInTheFile`, `PrintingAnswersTheQuestion` (refinement) | what is printed is the candidate, read by name |
| `Terms_proofs` | `TypeCorrect`, `ModelsReduced`, `NeverUsable`, `Computes`, `QuotientsDetermined` | sorts, values, and what does not depend on a quotient |
| `Values_proofs` | `TypeCorrect`, `AssertedIsKnown` (of `Bools`), `Misread` (of `Literals`) | the flag; digits, front to back |
| `Import_proofs` | `TypeCorrect`, `OneBuild`, `PublicInputs`, `KeepsConstraints`, `NamesWires`, `Translates` | the tools still to run; lines and wires |
| `WitnessCalculator_proofs` | of the circuit alone: `CircuitTypeCorrect`, `CircuitRunOnce`, `CircuitReadsNothingUnset`, `CircuitComputes` | the layout and how far each loop is; then values |
| | of the program: `TypeCorrect`, `RunsOnAll`, `NoneIsSetLater`, `RunOnce`, `NoReadUnset`, `Computes`, `SolvesConstraintsOfSource`, `IsForTheFile`, `RefusesOnlyTheWrapped` | the countdown, the values, the places of the file, the walk through the table |
| `FieldElements_proofs` | `TypeCorrect`, `Computes` (refinement), `Prints`, `FullNumbersReturn` | the number an element stands for |

* **Solver.** None of the properties is inductive: nothing in them says why the
  values cvc5 hands out fit the flags. `ModesAgree` does: in mode `sat` the
  candidate solves the assertions, `sat_unknown` only comes with an unknown
  result, and `res` only with "sat". So `model()`, which needs `res` *and* a
  readable mode, reads in mode `sat` only. `UnsatStays` uses that more
  assertions have fewer solutions. `UnsatForGood` is about a whole run: from the
  state of an unsat verdict on, *no solution, `res` not set, no model handed out* is
  kept by every step, a later unknown verdict included.
* **Circuit, tables.** `TablesInv` follows the loops: during `init` the symbolic
  variables are those of the real indices passed so far; after it, all of
  them. `MarkedUpTo(s, k)` says that the marks are those of the variables no
  gate up to `k` uses. `FormulasInv` bounds what assertions mention. At the end
  of the loops they give `OptimizedMeansUnused` and `NoNullTerm`.
* **Circuit, encoding.** `Encodes(A, s, n, k)`: the solutions of `A` are those of
  the constants, the first `n` gates and the first `k` public inputs.
  `EncodingInv` follows the loops with it; each gate step is `PlonkEncoded` or
  `R1csEncoded`, which compare the sum the code builds (it starts with the
  variable `zero`, leaves out selectors "0", and compares with `zero`) with the
  sum the gate means. The solutions make the symbolic variables 0 and 1 the
  constants (`Anchored`); that the variables 0 and 1 *of the circuit* are too is the
  hypothesis `ConstantsFixed`, where a copy constraint has moved them. Sums over linear
  forms are not unfolded: the two functions
  that are summed are shown equal.
* **UniqueWitness.** Two constructors fill one solver, so what is proved of a
  circuit is stated for `OwnFormulas`, the assertions with its tag, and shown to
  survive the steps of anything else (`ElsewhereTables`, `ElsewhereEncodes`); the
  proof takes both over by instantiating `Circuit_proofs` twice. `Divided` says
  that the assertions are those of the two circuits and the relations between
  them. `RelationsInv` says what the relations mean at each position of the loops
  over the names (`RelatedUpTo`), and, when the function has returned, that for a
  posed call they mean `IsEvidence`: that a variable `unique_witness` leaves out is in
  no gate rests on `OptimizedMeansUnused`, that it does not differ then on `Pinned`,
  that a name is
  looked up as the variable it stands for on the tables of names (`WayBack`). Then
  the models of the assertions and the pairs of witnesses that are evidence map to
  each other (`ModelsAreEvidence`, `PairIsViewed`), so cvc5's "sat" hands over a
  pair, and its "unsat" says there is none.
* **Terms.** A range is asserted for an unknown if its *type* says integer; the
  quotient takes the type of the dividend, which `batch_add` may have changed.
  `Inv` says that only the type of a term may be off, never its sort, so a
  dividend of the wrong type is stopped by cvc5 before a quotient exists.
  `Values` adds what a value may be: an element of the ring, or any integer in an
  FFI term, unless its root is a variable or a constant: those are reduced in
  every valuation that satisfies the assertions. With it each action refines the
  action of `RingAlgebra` that computes on residues (`Computes`): the arithmetic
  is that residues of sums and products are sums and products of residues
  (`Congruent`), and that the comparison a careful client makes is that of the
  residues (`ComparedResidue`, `CanonicalResidue`). `QuotientsDetermined` needs
  that the modulus is prime, stated as the existence of inverses (`FieldOf`), and
  that before the first division neither the terms nor the assertions depend on
  the unknown `q` (`Unread`): then a valuation that satisfies the rest can be
  extended by the quotient, in one way. What the bit operations
  make of two sets of positions is a value of the width again (`WordFits`).
* **Bools.** `holds` only shrinks and, without `&=`, the term of a Bool with the
  flag only grows. `Widening` is the hypothesis that the client does not call
  `&=`.
* **Import.** While make runs, the tools that are left decide which file must
  already be of the current build (`SoFar`): `rej` gone means the constraints
  are, and so on; the order of the tools is an invariant of the list, shown for
  concatenations of the four parts. `BuiltWhenRead` says that a tool that reads
  what circom wrote comes after circom, or circom has run in an earlier make.
  That the names of one build are on the right wires (`NamesWires`) is counting:
  `create_map` leaves out slots that stay empty, so the name of wire `w` is that of the
  `w`-th filled slot; the slots of the wires come first and are all filled
  (`NthOfFirst`), and the one of removed signals lies behind them (`LinesSuffice`).
  `Translates` needs of `SoFar` that the files the translator opens are of one build;
  the two ways it has left to throw, no name for the output and a partial file, are
  in its statement.
* **Printing.** `ReadableInv`: the flags of the wrapper that let `default_model` read
  imply mode `sat` and a candidate that solves what is asserted. `PrintedInv` says
  what is in the file at each point (`FileIsModel`) and on the screen
  (`ShownIsModel`): the candidate, row by row. Rows are read by name, so the rest is
  that with different names (`PrintedOnce`) the row of a name has the value of its
  variable, and then the rows in the file, all or the first ones, are those of the
  pair that answers the question (`PairIsViewed`, as above).
* **Literals.** A decimal string determines its number because quotients of
  quotients are quotients: reading the first `i` digits gives `Front(n, base, width, i)`,
  the number without its last digits (`InBaseDenotes`). Overwriting a digit by 0
  makes the number smaller unless the digit was 0, and the smaller number is below
  the modulus too, so it is another one (`DecimalRead`). A hexadecimal string has
  its prefix overwritten and is read in base 10: the number is right if only the last
  digit counts, too small if another one does, and rejected with a letter (`HexRead`).
* **The circuit of the calculator** (`Circuit...` in `WitnessCalculator_proofs`). `IInv`
  says, for each phase, which signals have been written (`Written(sv, a, n)`: the `n`
  signals from `a` on) and what the counters are (`Feeding`, `Combining`, `Copying`);
  `Layout` puts the blocks of the components side by side, so that a write in one
  leaves the others alone. A component is run when its counter is zero, which
  `Feeding` ties to the loop counter: hence once, and on inputs that are all set.
  `VInv` adds values: which part of which block already has the value of which
  input (`Distributed`, `Turned`, `Gathered`, `Mixed`, `Delivered`). An output is
  then the expression `OutOf` of three inputs; `StandsFor` carries the field operations
  it is made of over to the integers, where it is the polynomial of the circom source
  (`Xor3StandsFor`), and on bits the exclusive or (`OnBits`).
* **WitnessCalculator.** The marks in `inputSignalAssigned` are the input signals
  that have a value, and the counter is the number of the others (`Counted`,
  `AllCounted`), so zero means all. `Complete` says that the circuit runs in the
  step that makes it zero; the invariant of the circuit is taken over as it is.
  `ResultInv` adds `VInv`, that signal 0 is 1, and that a witness is the signals its
  list names; a wire of a constraint is such a signal (`WiresAreSignals`), so the
  constraints are the equations between inputs, intermediate products and outputs
  (`Xor3Equation`). `PlacedInv` is about the input file: every value of it that has been
  processed has a signal of its own, which has its number, and at the end all have
  been; digits denote one number, whichever base they are read in (`NumeralDenotes`,
  first digits as in `Literals`). What is said of a witness is said of one written
  whole. Of refusals, the walk through the hash table is
  shown to find an entry that was stored by the same walk before the end of
  the table (`FoundWhereStored`); `NotRefused` carries this through the file, on which
  a regular file has no other way to fail.
* **FieldElements.** `TypeOK` is inductive. `Means(w, u)` says that the words `w` are the
  Montgomery form of `u`. One reduction divides by the radix modulo the prime
  (`Reduction`), which can be undone (`Cancelled`) because the radix has an inverse; the
  constants `R2` and `R3` correct by one factor and by two. `Proper` says that an
  element is consistent, and `Num` which number it stands for, in each of the four formats;
  each operation is then shown to compute on `Num` what the field computes, format by format
  (`AddIs`, `MulIs`, ...), and each step of the client to be that of `FieldAlgebra`. The
  power is a loop over the bits from the top: after `i` of them the
  accumulator is the power whose exponent those bits denote (`RoundPower`). The words
  exported denote the number (`ExportedDenotes`), and if it has all the words nothing
  else is in the buffer when they are read back. A result in the place of an operand
  that needs no conversion is the one computed apart (`UnspoiltAsApart`).

Functions that recurse over digits, bits or words (`Number`, `Numeral`, `rawExp`) are
unfolded once: such a function exists (`LoopExists`), so `CHOOSE` finds one. What
is then claimed of each position is shown for the set of the positions where it holds:
a set that contains 0 and with each number the next one contains all up to a bound
(`CountUp`, by the least one it misses). The induction theorems of the library take an
operator as a parameter, which the provers here cannot instantiate. The modules
that need these lemmas have no parameters in common, and each states its own.

**Only model-checked.** Liveness: `Terminates` of `Circuit`, `Ends` of `UniqueWitness` and of
`WitnessCalculator`; the provers have no rules for fairness. Every other property of a
passing run is stated by a theorem. The three runs that expect a violation have
none, of course.

## 6. Not modelled

* The text of outputs: `print_assertions`, stream operators, timing, the layout
  of printed models.
* `simulate_circuit_eval`, named in the README of the library, and the
  relaxations of sub-circuits: commented out in the source.
* File input of a schema (`CircuitSchema::open`): its content is the constant
  `Schema`, restricted by `WellFormed`. What happens with a file that is not
  well formed, or cannot be read, is left open; so it is for the input file of the
  calculator (`loadJson`: its content is `Json`) and its tables (`loadCircuit`). The
  tables are one pair with the program: a `.dat` file of another build, which the
  program has no means to notice, is left out.
* `mapper.py:15-16`, the early return on a line that has not four fields: circom
  writes four in every line.
* That a complete make is needed before the translation, and that a file included
  from another directory is not seen by make, is in `Import`;
  which combinations of files a *partial* make leaves is not characterised.
* `ThroughDouble` rounds numbers of a JSON file that a double does not hold; for
  which files this happens is no property: `WitnessIsForTheFile` leaves them out.
* `Import` is not composed with `Circuit`: wire 0 of circom is the constant 1,
  index 0 of `Circuit` is the constant 0 and index 1 the constant 1, and the
  client that would read a translated schema (`verify/sigma.cpp`) is written
  against an older interface of the library.
* `make init` also copies a template over `verify/<circuit>.cpp`
  (`circom-verification/Makefile:12`), a file of the developer's; `Import`
  follows the files of the build.
* Fields of two hundred and more bits: the arithmetic is exact, and the proofs
  do not depend on the modulus.
* cvc5 itself: assumed sound (an answer "sat" has a model, "unsat" none).
* The calculators in JavaScript (third-party code around a wasm module); of
  `fr.asm` the comparisons and the bit and Boolean operations, which nothing in
  `main_c.cpp` but loop conditions calls, `Fr_square`, `Fr_toLongNormal`, the
  multiplications by a single word (`mul1`), the copies, and the raw swap
  (165-187), which stores a register it has not loaded and which nothing calls; `getTrace` and
  `generate_position_array`, which nothing calls; the tables of components with
  input or output maps, which `sigma` does not have; a circuit without inputs.
* The circom circuits: they are what is verified. The z3 scripts enumerate the
  solutions of hand-written constraints of one such circuit, with a library of
  their own; nothing of this library takes part. Scripts around snarkjs.

## 7. What could come next

1. **Two divisions** in `Terms`: a quotient as an argument of the next one, with
   one unknown for each.
2. **The map of a schema** from circom to the interface the library has now, once
   the code has one; then `Import` discharges `WellFormed`.
