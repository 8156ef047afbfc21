----------------------------- MODULE SmallSigma -----------------------------
(***************************************************************************)
(* The generated witness computation of the circuit sigma                  *)
(* (constraints/sigma/main_c_cpp/main_c.cpp): a main component feeds two   *)
(* rotations and a shift, these feed a three-way exclusive or, and its     *)
(* output is that of the circuit.  All components share one array of       *)
(* signals; a component is run by whoever sets the last of its inputs.     *)
(***************************************************************************)
EXTENDS Integers

CONSTANTS
    N,          \* bits of a word, 32 in the generated code
    Ra, Rb, Rc, \* the rotations and the shift, 17, 19 and 10
    Mod         \* the prime of the field

(* Loop counters are field elements; they stay far below the prime, so that *)
(* their comparison is that of integers.                                    *)
SigmaConstants ==
    /\ N \in Nat \ {0}
    /\ Ra \in Nat /\ Rb \in Nat /\ Rc \in Nat
    /\ Mod \in Nat
    /\ 2 * (N + Ra) < Mod /\ 2 * (N + Rb) < Mod /\ 2 * (N + Rc) < Mod
    /\ 8 < Mod

VARIABLES
    signalValues,       \* the signals of all components; signal 0 is the constant 1
    componentMemory,    \* one record per component, 0 is the main one
    phase,              \* where SmallSigma_4_run is
    k,                  \* its loop counter, lvar[3]
    released,           \* components whose memory has been released
    ran                 \* history: how often each component has been run

circuit == <<componentMemory, phase, k, released, ran>>
vars == <<signalValues, circuit>>

Signal == 0 .. 13 * N                   \* get_total_signal_no() = 13 * N + 1
Component == 0 .. 4                     \* get_number_of_components()
MainStart == 1
Unset == -1                             \* a signal nothing has been written to

circuitConstants == <<N, Ra, 0, 1, Rb, Rc, 2, 4>>
Constant(i) == circuitConstants[i + 1]

-----------------------------------------------------------------------------
(* Field arithmetic; what is computed from an unset signal counts as unset. *)
Fr_add(a, b) == IF Unset \in {a, b} THEN Unset ELSE (a + b) % Mod
Fr_sub(a, b) == IF Unset \in {a, b} THEN Unset ELSE (a - b) % Mod
Fr_mul(a, b) == IF Unset \in {a, b} THEN Unset ELSE (a * b) % Mod

(* The outputs of a component are the N signals from its start on. *)
Outputs(start) == start .. start + N - 1

(* Faulty variant of RotR_run: the rotation does not wrap around. *)
RotR_run_NoWrap(sv, start, r) ==
    [s \in Signal |-> IF s \in Outputs(start) THEN sv[N + s + r] ELSE sv[s]]
(* RotR_0_run and RotR_1_run differ in the constant they add. *)
RotR_run(sv, start, r) ==
    [s \in Signal |-> IF s \in Outputs(start) THEN sv[start + N + ((s - start + r) % N)] ELSE sv[s]]

(* The comparison uses the constant of the .dat file, the address a literal. *)
ShR_run(sv, start) ==
    [s \in Signal |->
        IF s \notin Outputs(start) THEN sv[s]
        ELSE IF s - start + Constant(5) >= N THEN Constant(2)
        ELSE sv[s + Rc + N]]

(* out = a * (1 - 2b - 2c + 4mid) + b + c - 2mid, on the operands' order.    *)
Xor3Out(a, b, c, mid) ==
    Fr_sub(Fr_add(Fr_add(Fr_mul(a, Fr_add(Fr_sub(Fr_sub(Constant(3), Fr_mul(Constant(6), b)),
                                                 Fr_mul(Constant(6), c)),
                                          Fr_mul(Constant(7), mid))),
                         b),
                  c),
           Fr_mul(Constant(6), mid))

Xor3_run(sv, start) ==
    LET a(j) == sv[start + j + N]
        b(j) == sv[start + j + 2 * N]
        c(j) == sv[start + j + 3 * N]
        mid(j) == Fr_mul(b(j), c(j))
    IN [s \in Signal |->
            IF s \in Outputs(start) THEN Xor3Out(a(s - start), b(s - start), c(s - start), mid(s - start))
            ELSE IF s \in Outputs(start + 4 * N) THEN mid(s - start - 4 * N)
            ELSE sv[s]]

-----------------------------------------------------------------------------
NoComponent ==
    [templateName |-> "none", signalStart |-> 0, inputCounter |-> 0, idFather |-> 0]

Init ==
    /\ componentMemory = [c \in Component |-> NoComponent]
    /\ phase = "idle"
    /\ k = 0
    /\ released = {}
    /\ ran = [c \in Component |-> 0]

(* X_create(soffset, coffset, ctx, name, father) *)
Created(template, start, inputs) ==
    [templateName |-> template, signalStart |-> start, inputCounter |-> inputs, idFather |-> 0]

(* run(ctx), called by tryRunCircuit *)
run ==
    /\ phase = "idle"
    /\ componentMemory' = [componentMemory EXCEPT ![0] = Created("SmallSigma", MainStart, N)]
    /\ ran' = [ran EXCEPT ![0] = @ + 1]
    /\ phase' = "create"
    /\ UNCHANGED <<signalValues, k, released>>

(* Subcomponent i of the main component: rota, rotb, shrc, xor3. *)
Template(i) == <<"RotR", "RotR", "ShR", "Xor3">>[i + 1]
(* Faulty variant of Offset: the inputs of the father are not reserved. *)
Offset_Overlap(i) == 2 * N * i + N
Offset(i) == 2 * N * (i + 1)
Inputs(i) == IF i = 3 THEN 3 * N ELSE N

(* One of the four blocks that create a subcomponent; aux_cmp_num is i + 1. *)
CreateSubcomponent ==
    /\ phase = "create"
    /\ componentMemory' =
        [componentMemory EXCEPT ![k + 1] = Created(Template(k), MainStart + Offset(k), Inputs(k))]
    /\ phase' = IF k = 3 THEN "feed" ELSE phase
    /\ k' = IF k = 3 THEN 0 ELSE k + 1
    /\ UNCHANGED <<signalValues, released, ran>>

Start(i) == componentMemory[i + 1].signalStart
InputCounter(i) == componentMemory[i + 1].inputCounter

(* The end of a while loop over k. *)
Loop(next) ==
    /\ phase' = IF k + 1 < N THEN phase ELSE next
    /\ k' = IF k + 1 < N THEN k + 1 ELSE 0

RunSubcomponent(i, sv) ==
    IF i = 0 THEN RotR_run(sv, Start(0), Constant(1))
    ELSE IF i = 1 THEN RotR_run(sv, Start(1), Constant(4))
    ELSE IF i = 2 THEN ShR_run(sv, Start(2))
    ELSE Xor3_run(sv, Start(3))

(* Faulty variant of IsLast: the counter is tested before it is decremented. *)
IsLast_Before(i, set) == InputCounter(i) = 0
(* "run sub component if needed": inputCounter -= set has made it zero. *)
IsLast(i, set) == InputCounter(i) - set = 0
RunIfNeeded(i, set, sv) == IF IsLast(i, set) THEN RunSubcomponent(i, sv) ELSE sv

(* One iteration of the loop at "line circom 34": in[k] goes to the rotations *)
(* and the shift.                                                             *)
FeedInputs ==
    /\ phase = "feed"
    /\ LET x == signalValues[MainStart + k + N]
           fed == [signalValues EXCEPT ![Start(0) + k + N] = x,
                                       ![Start(1) + k + N] = x,
                                       ![Start(2) + k + N] = x]
       IN signalValues' = RunIfNeeded(2, 1, RunIfNeeded(1, 1, RunIfNeeded(0, 1, fed)))
    /\ componentMemory' = [c \in Component |->
            IF c \in 1 .. 3 THEN [componentMemory[c] EXCEPT !.inputCounter = @ - 1]
            ELSE componentMemory[c]]
    /\ ran' = [c \in Component |-> IF c \in 1 .. 3 /\ IsLast(c - 1, 1) THEN ran[c] + 1 ELSE ran[c]]
    /\ Loop("combine")
    /\ UNCHANGED released

(* assert(inputCounter > 0) after the first and the second of three inputs. *)
NoNeedToRun(i) == InputCounter(i) - 1 > 0 /\ InputCounter(i) - 2 > 0

(* Faulty variant of Operand: the exclusive or gets rotb twice. *)
Operand_Twice(i, j) == Start(IF i = 2 THEN 1 ELSE i) + j
(* Output j of subcomponent i. *)
Operand(i, j) == Start(i) + j

(* One iteration of the loop at "line circom 41". *)
FeedXor3 ==
    /\ phase = "combine"
    /\ LET fed == [signalValues EXCEPT ![Start(3) + k + N] = signalValues[Operand(0, k)],
                                       ![Start(3) + k + 2 * N] = signalValues[Operand(1, k)],
                                       ![Start(3) + k + 3 * N] = signalValues[Operand(2, k)]]
       IN signalValues' = RunIfNeeded(3, 3, fed)
    /\ componentMemory' = [componentMemory EXCEPT ![4].inputCounter = @ - 3]
    /\ ran' = [ran EXCEPT ![4] = IF IsLast(3, 3) THEN @ + 1 ELSE @]
    /\ IF NoNeedToRun(3) THEN Loop("output") ELSE phase' = "aborted" /\ k' = k
    /\ UNCHANGED released

(* One iteration of the loop at "line circom 47". *)
CopyOutput ==
    /\ phase = "output"
    /\ signalValues' = [signalValues EXCEPT ![MainStart + k] = signalValues[Start(3) + k]]
    /\ Loop("release")
    /\ UNCHANGED <<componentMemory, released, ran>>

(* release_memory_component of every subcomponent; component 0 is kept. *)
Release ==
    /\ phase = "release"
    /\ released' = released \cup {c \in 1 .. 4 : componentMemory[c].templateName # "none"}
    /\ phase' = "done"
    /\ UNCHANGED <<signalValues, componentMemory, k, ran>>

Next == run \/ CreateSubcomponent \/ FeedInputs \/ FeedXor3 \/ CopyOutput \/ Release

(* When the circuit is run, its inputs have been set. *)
InputSignals == MainStart + N .. MainStart + 2 * N - 1
Spec ==
    /\ Init
    /\ signalValues \in [Signal -> 0 .. Mod - 1 \cup {Unset}]
    /\ \A s \in InputSignals : signalValues[s] # Unset
    /\ [][Next]_vars

-----------------------------------------------------------------------------
(* Types of the witness computation. *)
TypeOK ==
    /\ signalValues \in [Signal -> 0 .. Mod - 1 \cup {Unset}]
    /\ componentMemory \in
        [Component -> [templateName : {"none", "SmallSigma", "RotR", "ShR", "Xor3"},
                       signalStart : Signal, inputCounter : 0 .. 3 * N, idFather : {0}]]
    /\ phase \in {"idle", "create", "feed", "combine", "output", "release", "done", "aborted"}
    /\ k \in Nat /\ k < N + 4
    /\ released \in SUBSET (1 .. 4)
    /\ ran \in [Component -> Nat]

IsSet(s) == signalValues[s] # Unset

(* A subcomponent is run exactly once, by the copy that sets the last of its *)
(* inputs, and never before (main_c.cpp:478-511, 537-566: the counters of    *)
(* two loops and the assertions between them).                               *)
RunWhenComplete ==
    \A i \in 0 .. 3 :
        /\ ran[i + 1] <= 1
        /\ ran[i + 1] = 1 =>
            \A j \in 0 .. Inputs(i) - 1 : IsSet(Start(i) + N + j)
        /\ phase \in {"output", "release", "done"} => ran[i + 1] = 1

(* No value is read from a signal before it is written: everything the      *)
(* computation leaves behind is set, and the assertions of the generated    *)
(* code hold (main_c.cpp:539, 551).                                         *)
NothingReadUnset ==
    /\ phase # "aborted"
    /\ phase = "done" => \A s \in Signal \ {0} : IsSet(s)

(* The circuit computes RotR(in, Ra) xor RotR(in, Rb) xor ShR(in, Rc), as    *)
(* the polynomial of xor3.circom and, bit by bit, as exclusive or.           *)
In(j) == signalValues[MainStart + N + j]
Shifted(j) == IF j + Rc < N THEN In(j + Rc) ELSE 0
Xor(x, y) == (x + y) % 2
ComputesSigma ==
    phase = "done" =>
        \A j \in 0 .. N - 1 :
            LET a == In((j + Ra) % N)  b == In((j + Rb) % N)  c == Shifted(j)
            IN /\ signalValues[MainStart + j] =
                    (a + b + c - 2 * a * b - 2 * a * c - 2 * b * c + 4 * a * b * c) % Mod
               /\ {a, b, c} \subseteq {0, 1} => signalValues[MainStart + j] = Xor(Xor(a, b), c)
=============================================================================
