----------------------- MODULE WitnessCalculator_proofs -----------------------
(* Proofs about the witness calculator as one program: the driver and the   *)
(* circuit it runs, for every set of files and hash tables of the assumed   *)
(* form.                                                                    *)
EXTENDS WitnessCalculator, FiniteSetTheorems, WellFoundedInduction, TLAPS

-----------------------------------------------------------------------------
(* The circuit, for words of any number of bits, all rotations and shifts,   *)
(* and every prime far enough above them, whatever feeds it.                 *)
Value == 0 .. Mod - 1 \cup {S!Unset}
Signals == [S!Signal -> Value]

(* The n signals from a on have been written. *)
Written(sv, a, n) == \A s \in a .. a + n - 1 : sv[s] # S!Unset

-----------------------------------------------------------------------------
(* The functions of the components: types, what they write and what they    *)
(* leave alone.                                                              *)
LEMMA Remainder ==
    ASSUME NEW x \in Int, NEW n \in Nat \ {0}
    PROVE  x % n \in 0 .. n - 1
OBVIOUS

LEMMA ConstantValues ==
    /\ S!Constant(1) = Ra /\ S!Constant(4) = Rb /\ S!Constant(5) = Rc
    /\ S!Constant(2) = 0 /\ S!Constant(3) = 1 /\ S!Constant(6) = 2 /\ S!Constant(7) = 4
BY DEF S!Constant, S!circuitConstants

LEMMA FieldOperations ==
    ASSUME S!SigmaConstants, NEW a \in Value, NEW b \in Value
    PROVE  /\ S!Fr_add(a, b) \in Value /\ S!Fr_sub(a, b) \in Value /\ S!Fr_mul(a, b) \in Value
           /\ a # S!Unset /\ b # S!Unset =>
                S!Fr_add(a, b) # S!Unset /\ S!Fr_sub(a, b) # S!Unset /\ S!Fr_mul(a, b) # S!Unset
<1>1. Mod \in Nat \ {0}
  BY DEF S!SigmaConstants
<1>2. CASE a = S!Unset \/ b = S!Unset
  BY <1>2 DEF S!Fr_add, S!Fr_sub, S!Fr_mul, Value
<1>3. CASE a # S!Unset /\ b # S!Unset
  <2>1. a \in Int /\ b \in Int /\ a + b \in Int /\ a - b \in Int
    BY <1>1, <1>3 DEF Value, S!Unset
  <2>2. a * b \in Int
    BY <2>1
  <2>3. (a + b) % Mod \in 0 .. Mod - 1 /\ (a - b) % Mod \in 0 .. Mod - 1 /\ (a * b) % Mod \in 0 .. Mod - 1
    BY <1>1, <2>1, <2>2, Remainder
  <2>4. \A x \in 0 .. Mod - 1 : x # S!Unset
    BY <1>1 DEF S!Unset
  <2>. QED
    BY <1>3, <2>3, <2>4 DEF S!Fr_add, S!Fr_sub, S!Fr_mul, Value
<1>. QED
  BY <1>2, <1>3

LEMMA RotRWrites ==
    ASSUME S!SigmaConstants, NEW sv \in Signals, NEW start \in Nat, start >= 1, start + 2 * N <= 13 * N + 1,
           NEW r \in Nat
    PROVE  LET new == S!RotR_run(sv, start, r)
           IN /\ new \in Signals
              /\ \A s \in S!Signal \ S!Outputs(start) : new[s] = sv[s]
              /\ Written(sv, start + N, N) => Written(new, start, N)
<1>. N \in Nat \ {0}
  BY DEF S!SigmaConstants
<1>1. ASSUME NEW s \in S!Outputs(start)
      PROVE  /\ start + N + ((s - start + r) % N) \in S!Signal
             /\ start + N + ((s - start + r) % N) \in start + N .. start + N + N - 1
             /\ s \in S!Signal
  <2>1. (s - start + r) % N \in 0 .. N - 1
    BY Remainder DEF S!Outputs
  <2>. QED
    BY <2>1 DEF S!Signal, S!Outputs
<1>. QED
  BY <1>1 DEF S!RotR_run, Signals, Written, S!Outputs

LEMMA ShRWrites ==
    ASSUME S!SigmaConstants, NEW sv \in Signals, NEW start \in Nat, start >= 1, start + 2 * N <= 13 * N + 1
    PROVE  LET new == S!ShR_run(sv, start)
           IN /\ new \in Signals
              /\ \A s \in S!Signal \ S!Outputs(start) : new[s] = sv[s]
              /\ Written(sv, start + N, N) => Written(new, start, N)
<1>. N \in Nat \ {0} /\ Rc \in Nat /\ Mod \in Nat /\ 8 < Mod
  BY DEF S!SigmaConstants
<1>1. S!Constant(2) \in Value /\ S!Constant(2) # S!Unset
  BY ConstantValues DEF Value, S!Unset
<1>2. ASSUME NEW s \in S!Outputs(start), ~(s - start + S!Constant(5) >= N)
      PROVE  s + Rc + N \in S!Signal /\ s + Rc + N \in start + N .. start + N + N - 1
  BY <1>2, ConstantValues DEF S!Signal, S!Outputs
<1>3. S!Outputs(start) \subseteq S!Signal
  BY DEF S!Outputs, S!Signal
<1>. QED
  BY <1>1, <1>2, <1>3 DEF S!ShR_run, Signals, Written, S!Outputs

LEMMA Xor3Values ==
    ASSUME S!SigmaConstants, NEW a \in Value, NEW b \in Value, NEW c \in Value, NEW mid \in Value
    PROVE  /\ S!Xor3Out(a, b, c, mid) \in Value
           /\ a # S!Unset /\ b # S!Unset /\ c # S!Unset /\ mid # S!Unset => S!Xor3Out(a, b, c, mid) # S!Unset
<1>. Mod \in Nat /\ 8 < Mod
  BY DEF S!SigmaConstants
<1>1. \A i \in {3, 6, 7} : S!Constant(i) \in Value /\ S!Constant(i) # S!Unset
  BY ConstantValues DEF Value, S!Unset
<1>. DEFINE p1 == S!Fr_mul(S!Constant(6), b)
            p2 == S!Fr_mul(S!Constant(6), c)
            p3 == S!Fr_mul(S!Constant(7), mid)
            p4 == S!Fr_sub(S!Constant(3), p1)
            p5 == S!Fr_sub(p4, p2)
            p6 == S!Fr_add(p5, p3)
            p7 == S!Fr_mul(a, p6)
            p8 == S!Fr_add(p7, b)
            p9 == S!Fr_add(p8, c)
            p10 == S!Fr_mul(S!Constant(6), mid)
            all == a # S!Unset /\ b # S!Unset /\ c # S!Unset /\ mid # S!Unset
<1>2. S!Xor3Out(a, b, c, mid) = S!Fr_sub(p9, p10)
  BY DEF S!Xor3Out
<1>3. /\ p1 \in Value /\ p2 \in Value /\ p3 \in Value /\ p10 \in Value
      /\ all => p1 # S!Unset /\ p2 # S!Unset /\ p3 # S!Unset /\ p10 # S!Unset
  BY <1>1, FieldOperations
<1>. HIDE DEF p1, p2, p3, p10
<1>4. p4 \in Value /\ (all => p4 # S!Unset)
  BY <1>1, <1>3, FieldOperations
<1>. HIDE DEF p4
<1>5. p5 \in Value /\ (all => p5 # S!Unset)
  BY <1>3, <1>4, FieldOperations
<1>. HIDE DEF p5
<1>6. p6 \in Value /\ (all => p6 # S!Unset)
  BY <1>3, <1>5, FieldOperations
<1>. HIDE DEF p6
<1>7. p7 \in Value /\ (all => p7 # S!Unset)
  BY <1>6, FieldOperations
<1>. HIDE DEF p7
<1>8. p8 \in Value /\ (all => p8 # S!Unset)
  BY <1>7, FieldOperations
<1>. HIDE DEF p8
<1>9. p9 \in Value /\ (all => p9 # S!Unset)
  BY <1>8, FieldOperations
<1>. HIDE DEF p9
<1>10. S!Fr_sub(p9, p10) \in Value /\ (all => S!Fr_sub(p9, p10) # S!Unset)
  BY <1>3, <1>9, FieldOperations
<1>. QED
  BY <1>2, <1>10

LEMMA Xor3Writes ==
    ASSUME S!SigmaConstants, NEW sv \in Signals, NEW start \in Nat, start >= 1, start + 5 * N <= 13 * N + 1
    PROVE  LET new == S!Xor3_run(sv, start)
           IN /\ new \in Signals
              /\ \A s \in S!Signal \ (S!Outputs(start) \cup S!Outputs(start + 4 * N)) : new[s] = sv[s]
              /\ Written(sv, start + N, 3 * N) => Written(new, start, N) /\ Written(new, start + 4 * N, N)
<1>. N \in Nat \ {0}
  BY DEF S!SigmaConstants
<1>. DEFINE a(j) == sv[start + j + N]
            b(j) == sv[start + j + 2 * N]
            c(j) == sv[start + j + 3 * N]
            mid(j) == S!Fr_mul(b(j), c(j))
            out(j) == S!Xor3Out(a(j), b(j), c(j), mid(j))
            new == S!Xor3_run(sv, start)
<1>1. ASSUME NEW j \in 0 .. N - 1
      PROVE  /\ start + j + N \in S!Signal /\ start + j + 2 * N \in S!Signal /\ start + j + 3 * N \in S!Signal
             /\ start + j + N \in start + N .. start + N + 3 * N - 1
             /\ start + j + 2 * N \in start + N .. start + N + 3 * N - 1
             /\ start + j + 3 * N \in start + N .. start + N + 3 * N - 1
  BY DEF S!Signal
<1>2. ASSUME NEW j \in 0 .. N - 1
      PROVE  /\ a(j) \in Value /\ b(j) \in Value /\ c(j) \in Value
             /\ Written(sv, start + N, 3 * N) => a(j) # S!Unset /\ b(j) # S!Unset /\ c(j) # S!Unset
  BY <1>1 DEF Signals, Written
<1>3. ASSUME NEW j \in 0 .. N - 1
      PROVE  mid(j) \in Value /\ (Written(sv, start + N, 3 * N) => mid(j) # S!Unset)
  BY <1>2, FieldOperations
<1>4. ASSUME NEW j \in 0 .. N - 1
      PROVE  out(j) \in Value /\ (Written(sv, start + N, 3 * N) => out(j) # S!Unset)
  <2>. HIDE DEF a, b, c, mid
  <2>. QED
    BY <1>2, <1>3, Xor3Values
<1>5. new = [s \in S!Signal |-> IF s \in S!Outputs(start) THEN out(s - start)
                              ELSE IF s \in S!Outputs(start + 4 * N) THEN mid(s - start - 4 * N)
                              ELSE sv[s]]
  BY DEF S!Xor3_run
<1>6. /\ \A s \in S!Outputs(start) : s - start \in 0 .. N - 1 /\ s \in S!Signal
      /\ \A s \in S!Outputs(start + 4 * N) :
            s - start - 4 * N \in 0 .. N - 1 /\ s \in S!Signal /\ s \notin S!Outputs(start)
  BY DEF S!Outputs, S!Signal
<1>. HIDE DEF new, out, mid
<1>7. new \in Signals
  BY <1>3, <1>4, <1>5, <1>6 DEF Signals
<1>8. \A s \in S!Signal \ (S!Outputs(start) \cup S!Outputs(start + 4 * N)) : new[s] = sv[s]
  BY <1>5
<1>9. Written(sv, start + N, 3 * N) => Written(new, start, N) /\ Written(new, start + 4 * N, N)
  BY <1>3, <1>4, <1>5, <1>6 DEF Written, S!Outputs
<1>. QED
  BY <1>7, <1>8, <1>9 DEF new

-----------------------------------------------------------------------------
(* The state between two steps, phase by phase.                              *)
AfterFeed == phase \in {"combine", "output", "release", "done"}
AfterCombine == phase \in {"output", "release", "done"}
AfterOutput == phase \in {"release", "done"}

Phases ==
    /\ phase \in {"idle", "create", "feed", "combine", "output", "release", "done"}
    /\ k \in Nat
    /\ phase \in {"feed", "combine", "output"} => k < N
    /\ phase = "create" => k < 4
    /\ phase \in {"idle", "release", "done"} => k = 0

(* How far a loop has come that begins in one phase. *)
Progress(at, after, n) == IF phase = at THEN k ELSE IF after THEN n ELSE 0

First(i) == S!MainStart + S!Offset(i)
Made(i) == phase \notin {"idle", "create"} \/ (phase = "create" /\ i < k)
Fed(i) == IF i = 3 THEN 3 * Progress("combine", AfterCombine, N) ELSE Progress("feed", AfterFeed, N)

(* A component knows where its signals are and how many inputs it waits for. *)
Layout ==
    \A i \in 0 .. 3 : Made(i) => S!Start(i) = First(i) /\ S!InputCounter(i) = S!Inputs(i) - Fed(i)
Memory ==
    componentMemory \in
        [S!Component -> [templateName : {"none", "SmallSigma", "RotR", "ShR", "Xor3"},
                       signalStart : S!Signal, inputCounter : 0 .. 3 * N, idFather : {0}]]

Runs ==
    /\ ran \in [S!Component -> Nat]
    /\ ran[0] = IF phase = "idle" THEN 0 ELSE 1
    /\ \A i \in 0 .. 2 : ran[i + 1] = IF AfterFeed THEN 1 ELSE 0
    /\ ran[4] = IF AfterCombine THEN 1 ELSE 0

(* Which signals have been written. *)
Feeding ==
    /\ phase # "idle" => Written(signalValues, S!MainStart + N, N)
    /\ \A i \in 0 .. 2 :
        /\ Written(signalValues, First(i) + N, Progress("feed", AfterFeed, N))
        /\ AfterFeed => Written(signalValues, First(i), N)
Combining ==
    /\ \A m \in 1 .. 3 : Written(signalValues, First(3) + m * N, Progress("combine", AfterCombine, N))
    /\ AfterCombine => Written(signalValues, First(3), N) /\ Written(signalValues, First(3) + 4 * N, N)
Copying == Written(signalValues, S!MainStart, Progress("output", AfterOutput, N))

IInv ==
    /\ signalValues \in Signals
    /\ released \in SUBSET (1 .. 4)
    /\ Phases /\ Memory /\ Layout /\ Runs /\ Feeding /\ Combining /\ Copying

LEMMA LayoutFacts ==
    ASSUME S!SigmaConstants
    PROVE  /\ N \in Nat \ {0} /\ S!MainStart = 1 /\ S!Signal = 0 .. 13 * N
           /\ First(0) = 2 * N + 1 /\ First(1) = 4 * N + 1 /\ First(2) = 6 * N + 1 /\ First(3) = 8 * N + 1
           /\ S!Inputs(0) = N /\ S!Inputs(1) = N /\ S!Inputs(2) = N /\ S!Inputs(3) = 3 * N
BY DEF S!SigmaConstants, S!MainStart, S!Signal, First, S!Offset, S!Inputs

(* What has been written stays written. *)
Grows(sv, new) == \A s \in S!Signal : sv[s] # S!Unset => new[s] # S!Unset
LEMMA GrowsWritten ==
    ASSUME NEW sv, NEW new, Grows(sv, new), NEW a \in Nat, NEW n \in Nat, a + n <= 13 * N + 1,
           N \in Nat, Written(sv, a, n)
    PROVE  Written(new, a, n)
BY DEF Grows, Written, S!Signal

(* A component writes its outputs only. *)
LEMMA ElsewhereWritten ==
    ASSUME N \in Nat, NEW sv, NEW new, NEW start \in Nat,
           \A s \in S!Signal \ S!Outputs(start) : new[s] = sv[s],
           NEW a \in Nat, a + N <= 13 * N + 1, a + N <= start \/ start + N <= a,
           Written(sv, a, N)
    PROVE  Written(new, a, N)
<1> SUFFICES ASSUME NEW s \in a .. a + N - 1 PROVE new[s] # S!Unset
  BY DEF Written
<1>1. s \in S!Signal \ S!Outputs(start)
  BY DEF S!Signal, S!Outputs
<1>. QED
  BY <1>1 DEF Written

LEMMA NextWritten ==
    ASSUME NEW sv, NEW a \in Nat, NEW n \in Nat, Written(sv, a, n), sv[a + n] # S!Unset
    PROVE  Written(sv, a, n + 1)
<1>. \A s \in a .. a + (n + 1) - 1 : s \in a .. a + n - 1 \/ s = a + n
  OBVIOUS
<1>. QED
  BY DEF Written

LEMMA FeedStep ==
    ASSUME S!SigmaConstants, IInv, S!FeedInputs
    PROVE  /\ signalValues' \in Signals
           /\ Grows(signalValues, signalValues')
           /\ \A s \in 0 .. 2 * N : signalValues'[s] = signalValues[s]
           /\ \A i \in 0 .. 2 : Written(signalValues', First(i) + N, k + 1)
           /\ k + 1 = N => \A i \in 0 .. 2 : Written(signalValues', First(i), N)
<1>. /\ N \in Nat \ {0} /\ S!MainStart = 1 /\ S!Signal = 0 .. 13 * N
     /\ First(0) = 2 * N + 1 /\ First(1) = 4 * N + 1 /\ First(2) = 6 * N + 1 /\ First(3) = 8 * N + 1
  BY LayoutFacts
<1>1. phase = "feed" /\ k \in 0 .. N - 1 /\ signalValues \in Signals
  BY DEF S!FeedInputs, IInv, Phases
<1>2. ASSUME NEW i \in 0 .. 2
      PROVE  S!Start(i) = First(i) /\ S!InputCounter(i) = N - k /\ Written(signalValues, First(i) + N, k)
  BY <1>1 DEF IInv, Layout, Made, Fed, Progress, AfterFeed, S!Inputs, Feeding
<1>. DEFINE x == signalValues[S!MainStart + k + N]
            fed == [signalValues EXCEPT ![First(0) + k + N] = x,
                                        ![First(1) + k + N] = x,
                                        ![First(2) + k + N] = x]
<1>3. x \in Value /\ x # S!Unset
  <2>. S!MainStart + k + N \in S!MainStart + N .. S!MainStart + N + N - 1 /\ S!MainStart + k + N \in S!Signal
    BY <1>1
  <2>. QED
    BY <1>1 DEF IInv, Feeding, Written, Signals
<1>4. signalValues' = S!RunIfNeeded(2, 1, S!RunIfNeeded(1, 1, S!RunIfNeeded(0, 1, fed)))
  <2>. S!Start(0) = First(0) /\ S!Start(1) = First(1) /\ S!Start(2) = First(2)
    BY <1>2
  <2>. QED
    BY DEF S!FeedInputs
<1>. HIDE DEF x
<1>5. First(0) + k + N \in S!Signal /\ First(1) + k + N \in S!Signal /\ First(2) + k + N \in S!Signal
  BY <1>1
<1>6. fed \in Signals /\ DOMAIN signalValues = S!Signal
  BY <1>1, <1>3, <1>5 DEF Signals
<1>7. /\ fed[First(0) + k + N] = x /\ fed[First(1) + k + N] = x /\ fed[First(2) + k + N] = x
      /\ \A s \in S!Signal \ {First(0) + k + N, First(1) + k + N, First(2) + k + N} : fed[s] = signalValues[s]
  BY <1>1, <1>5, <1>6
<1>. HIDE DEF fed
<1>8. Grows(signalValues, fed) /\ \A s \in 0 .. 2 * N : fed[s] = signalValues[s]
  <2>1. Grows(signalValues, fed)
    BY <1>3, <1>7 DEF Grows
  <2>2. ASSUME NEW s \in 0 .. 2 * N PROVE fed[s] = signalValues[s]
    <3>. s \in S!Signal /\ s \notin {First(0) + k + N, First(1) + k + N, First(2) + k + N}
      BY <1>1
    <3>. QED
      BY <1>7
  <2>. QED
    BY <2>1, <2>2
<1>9. ASSUME NEW i \in 0 .. 2 PROVE Written(fed, First(i) + N, k + 1)
  <2>1. First(i) + N \in Nat /\ First(i) + N + k <= 13 * N + 1 /\ k \in Nat /\ N \in Nat
    BY <1>1
  <2>. DEFINE a == First(i) + N
  <2>2. Written(fed, a, k)
    <3>. Written(signalValues, a, k)
      BY <1>2
    <3>. a \in Nat /\ a + k <= 13 * N + 1
      BY <2>1
    <3>. HIDE DEF a
    <3>. QED
      BY <1>8, <2>1, GrowsWritten
  <2>3. fed[First(i) + N + k] # S!Unset
    <3>. First(i) + k + N = First(i) + N + k
      BY <1>1
    <3>. QED
      BY <1>3, <1>7
  <2>. QED
    BY <1>1, <2>1, <2>2, <2>3, NextWritten
<1>10. CASE k + 1 # N
  <2>. \A i \in 0 .. 2 : ~S!IsLast(i, 1)
    BY <1>1, <1>2, <1>10 DEF S!IsLast
  <2>. signalValues' = fed
    BY <1>4 DEF S!RunIfNeeded
  <2>. QED
    BY <1>6, <1>8, <1>9, <1>10
<1>11. CASE k + 1 = N
  <2>. DEFINE sv0 == S!RotR_run(fed, First(0), S!Constant(1))
              sv1 == S!RotR_run(sv0, First(1), S!Constant(4))
              sv2 == S!ShR_run(sv1, First(2))
  <2>1. \A i \in 0 .. 2 : S!IsLast(i, 1)
    BY <1>1, <1>2, <1>11 DEF S!IsLast
  <2>2. signalValues' = sv2
    BY <1>2, <1>4, <2>1 DEF S!RunIfNeeded, S!RunSubcomponent
  <2>3. S!Constant(1) \in Nat /\ S!Constant(4) \in Nat
    BY ConstantValues DEF S!SigmaConstants
  <2>4. /\ Written(fed, First(0) + N, N) /\ Written(fed, First(1) + N, N) /\ Written(fed, First(2) + N, N)
    BY <1>9, <1>11
  <2>5. /\ sv0 \in Signals
        /\ \A s \in S!Signal \ S!Outputs(First(0)) : sv0[s] = fed[s]
        /\ Written(sv0, First(0), N)
    <3>. DEFINE start == First(0)
    <3>. start \in Nat /\ start >= 1 /\ start + 2 * N <= 13 * N + 1
      OBVIOUS
    <3>. Written(fed, start + N, N)
      BY <2>4
    <3>. HIDE DEF start
    <3>1. S!RotR_run(fed, start, S!Constant(1)) \in Signals
          /\ (\A s \in S!Signal \ S!Outputs(start) : S!RotR_run(fed, start, S!Constant(1))[s] = fed[s])
          /\ Written(S!RotR_run(fed, start, S!Constant(1)), start, N)
      BY <1>6, <2>3, RotRWrites
    <3>. QED
      BY <3>1 DEF start
  <2>. HIDE DEF sv0
  <2>6. Written(sv0, First(1) + N, N) /\ Written(sv0, First(2) + N, N)
    <3>1. ASSUME NEW i \in {1, 2} PROVE Written(sv0, First(i) + N, N)
      <4>. DEFINE a == First(i) + N  start == First(0)
      <4>. /\ a \in Nat /\ a + N <= 13 * N + 1
           /\ start \in Nat /\ start + N <= a
        OBVIOUS
      <4>. Written(fed, a, N) /\ \A s \in S!Signal \ S!Outputs(start) : sv0[s] = fed[s]
        BY <2>4, <2>5
      <4>. HIDE DEF a, start
      <4>1. Written(sv0, a, N)
        BY ElsewhereWritten
      <4>. QED
        BY <4>1 DEF a
    <3>. QED
      BY <3>1
  <2>7. /\ sv1 \in Signals
        /\ \A s \in S!Signal \ S!Outputs(First(1)) : sv1[s] = sv0[s]
        /\ Written(sv1, First(1), N)
    <3>. DEFINE start == First(1)
    <3>. start \in Nat /\ start >= 1 /\ start + 2 * N <= 13 * N + 1
      OBVIOUS
    <3>. Written(sv0, start + N, N)
      BY <2>6
    <3>. HIDE DEF start
    <3>1. S!RotR_run(sv0, start, S!Constant(4)) \in Signals
          /\ (\A s \in S!Signal \ S!Outputs(start) : S!RotR_run(sv0, start, S!Constant(4))[s] = sv0[s])
          /\ Written(S!RotR_run(sv0, start, S!Constant(4)), start, N)
      BY <2>3, <2>5, RotRWrites
    <3>. QED
      BY <3>1 DEF start
  <2>. HIDE DEF sv1
  <2>8. Written(sv1, First(2) + N, N) /\ Written(sv1, First(0), N)
    <3>1. ASSUME NEW a \in {First(2) + N, First(0)} PROVE Written(sv1, a, N)
      <4>. DEFINE start == First(1)
      <4>. /\ a \in Nat /\ a + N <= 13 * N + 1
           /\ start \in Nat /\ (start + N <= a \/ a + N <= start)
        OBVIOUS
      <4>. Written(sv0, a, N) /\ \A s \in S!Signal \ S!Outputs(start) : sv1[s] = sv0[s]
        BY <2>5, <2>6, <2>7
      <4>. HIDE DEF start
      <4>. QED
        BY ElsewhereWritten
    <3>. QED
      BY <3>1
  <2>9. /\ sv2 \in Signals
        /\ \A s \in S!Signal \ S!Outputs(First(2)) : sv2[s] = sv1[s]
        /\ Written(sv2, First(2), N)
    <3>. DEFINE start == First(2)
    <3>. start \in Nat /\ start >= 1 /\ start + 2 * N <= 13 * N + 1
      OBVIOUS
    <3>. Written(sv1, start + N, N)
      BY <2>8
    <3>. HIDE DEF start
    <3>1. /\ S!ShR_run(sv1, start) \in Signals
          /\ \A s \in S!Signal \ S!Outputs(start) : S!ShR_run(sv1, start)[s] = sv1[s]
          /\ Written(S!ShR_run(sv1, start), start, N)
      BY <2>7, ShRWrites
    <3>. QED
      BY <3>1 DEF start
  <2>. HIDE DEF sv2
  <2>10. Written(sv2, First(0), N) /\ Written(sv2, First(1), N)
    <3>1. ASSUME NEW a \in {First(0), First(1)} PROVE Written(sv2, a, N)
      <4>. DEFINE start == First(2)
      <4>. a \in Nat /\ a + N <= 13 * N + 1 /\ start \in Nat /\ a + N <= start
        OBVIOUS
      <4>. Written(sv1, a, N) /\ \A s \in S!Signal \ S!Outputs(start) : sv2[s] = sv1[s]
        BY <2>7, <2>8, <2>9
      <4>. HIDE DEF start
      <4>. QED
        BY ElsewhereWritten
    <3>. QED
      BY <3>1
  <2>11. ASSUME NEW s \in S!Signal, s \notin S!Outputs(First(0)), s \notin S!Outputs(First(1)), s \notin S!Outputs(First(2))
         PROVE  sv2[s] = fed[s]
    BY <2>5, <2>7, <2>9, <2>11
  <2>12. Grows(fed, sv2)
    <3> SUFFICES ASSUME NEW s \in S!Signal, fed[s] # S!Unset PROVE sv2[s] # S!Unset
      BY DEF Grows
    <3>1. ASSUME NEW i \in 0 .. 2, s \in S!Outputs(First(i)) PROVE sv2[s] # S!Unset
      <4>. Written(sv2, First(i), N)
        BY <2>9, <2>10
      <4>. QED
        BY <3>1 DEF Written, S!Outputs
    <3>. QED
      BY <2>11, <3>1
  <2>13. \A s \in 0 .. 2 * N : sv2[s] = fed[s]
    BY <2>11 DEF S!Outputs
  <2>14. ASSUME NEW i \in 0 .. 2 PROVE Written(sv2, First(i) + N, k + 1)
    <3>. DEFINE a == First(i) + N  n == k + 1
    <3>. a \in Nat /\ n \in Nat /\ a + n <= 13 * N + 1
      BY <1>1
    <3>. Written(fed, a, n)
      BY <1>9
    <3>. HIDE DEF a, n
    <3>1. Written(sv2, a, n)
      BY <2>12, GrowsWritten
    <3>. QED
      BY <3>1 DEF a, n
  <2>15. Grows(signalValues, sv2)
    BY <1>8, <2>12 DEF Grows
  <2>. QED
    BY <1>8, <2>2, <2>9, <2>10, <2>13, <2>14, <2>15
<1>. QED
  BY <1>10, <1>11

LEMMA CombineStep ==
    ASSUME S!SigmaConstants, IInv, S!FeedXor3
    PROVE  /\ signalValues' \in Signals
           /\ Grows(signalValues, signalValues')
           /\ \A s \in 0 .. 2 * N : signalValues'[s] = signalValues[s]
           /\ \A m \in 1 .. 3 : Written(signalValues', First(3) + m * N, k + 1)
           /\ k + 1 = N => Written(signalValues', First(3), N) /\ Written(signalValues', First(3) + 4 * N, N)
<1>. /\ N \in Nat \ {0} /\ S!MainStart = 1 /\ S!Signal = 0 .. 13 * N
     /\ First(0) = 2 * N + 1 /\ First(1) = 4 * N + 1 /\ First(2) = 6 * N + 1 /\ First(3) = 8 * N + 1
     /\ S!Inputs(3) = 3 * N
  BY LayoutFacts
<1>1. phase = "combine" /\ k \in 0 .. N - 1 /\ signalValues \in Signals
  BY DEF S!FeedXor3, IInv, Phases
<1>2. \A i \in 0 .. 3 : S!Start(i) = First(i)
  BY <1>1 DEF IInv, Layout, Made
<1>3. S!InputCounter(3) = 3 * N - 3 * k
  BY <1>1 DEF IInv, Layout, Made, Fed, Progress, AfterCombine
<1>. DEFINE x == signalValues[First(0) + k]
            y == signalValues[First(1) + k]
            z == signalValues[First(2) + k]
            fed == [signalValues EXCEPT ![First(3) + k + N] = x,
                                        ![First(3) + k + 2 * N] = y,
                                        ![First(3) + k + 3 * N] = z]
<1>4. x \in Value /\ x # S!Unset /\ y \in Value /\ y # S!Unset /\ z \in Value /\ z # S!Unset
  <2>1. Written(signalValues, First(0), N) /\ Written(signalValues, First(1), N) /\ Written(signalValues, First(2), N)
    BY <1>1 DEF IInv, Feeding, AfterFeed
  <2>2. First(0) + k \in S!Signal /\ First(1) + k \in S!Signal /\ First(2) + k \in S!Signal
    BY <1>1
  <2>3. /\ First(0) + k \in First(0) .. First(0) + N - 1
        /\ First(1) + k \in First(1) .. First(1) + N - 1
        /\ First(2) + k \in First(2) .. First(2) + N - 1
    BY <1>1
  <2>4. x # S!Unset /\ y # S!Unset /\ z # S!Unset
    BY <2>1, <2>3 DEF Written
  <2>. QED
    BY <1>1, <2>2, <2>4 DEF Signals
<1>5. signalValues' = S!RunIfNeeded(3, 3, fed)
  <2>. /\ S!Start(0) = First(0) /\ S!Start(1) = First(1) /\ S!Start(2) = First(2) /\ S!Start(3) = First(3)
    BY <1>2
  <2>. QED
    BY DEF S!FeedXor3, S!Operand
<1>. HIDE DEF x, y, z
<1>6. First(3) + k + N \in S!Signal /\ First(3) + k + 2 * N \in S!Signal /\ First(3) + k + 3 * N \in S!Signal
  BY <1>1
<1>7. fed \in Signals /\ DOMAIN signalValues = S!Signal
  BY <1>1, <1>4, <1>6 DEF Signals
<1>8. /\ fed[First(3) + k + N] = x /\ fed[First(3) + k + 2 * N] = y /\ fed[First(3) + k + 3 * N] = z
      /\ \A s \in S!Signal \ {First(3) + k + N, First(3) + k + 2 * N, First(3) + k + 3 * N} :
            fed[s] = signalValues[s]
  <2>. /\ First(3) + k + N # First(3) + k + 2 * N
       /\ First(3) + k + N # First(3) + k + 3 * N
       /\ First(3) + k + 2 * N # First(3) + k + 3 * N
    BY <1>1
  <2>. HIDE DEF x, y, z
  <2>. QED
    BY <1>6, <1>7
<1>. HIDE DEF fed
<1>9. Grows(signalValues, fed)
  BY <1>4, <1>8 DEF Grows
<1>10. ASSUME NEW s \in 0 .. 2 * N PROVE fed[s] = signalValues[s]
  <2>. s \in S!Signal /\ s \notin {First(3) + k + N, First(3) + k + 2 * N, First(3) + k + 3 * N}
    BY <1>1
  <2>. QED
    BY <1>8
<1>11. ASSUME NEW m \in 1 .. 3 PROVE Written(fed, First(3) + m * N, k + 1)
  <2>. DEFINE a == First(3) + m * N
  <2>1. a \in Nat /\ a + k + 1 <= 13 * N + 1 /\ k \in Nat /\ fed[a + k] # S!Unset
    <3>1. CASE m = 1
      <4>1. a + k = First(3) + k + N /\ a \in Nat /\ a + k + 1 <= 13 * N + 1 /\ k \in Nat
        BY <1>1, <3>1
      <4>. QED
        BY <1>4, <1>8, <4>1
    <3>2. CASE m = 2
      <4>1. a + k = First(3) + k + 2 * N /\ a \in Nat /\ a + k + 1 <= 13 * N + 1 /\ k \in Nat
        BY <1>1, <3>2
      <4>. QED
        BY <1>4, <1>8, <4>1
    <3>3. CASE m = 3
      <4>1. a + k = First(3) + k + 3 * N /\ a \in Nat /\ a + k + 1 <= 13 * N + 1 /\ k \in Nat
        BY <1>1, <3>3
      <4>. QED
        BY <1>4, <1>8, <4>1
    <3>. QED
      BY <3>1, <3>2, <3>3
  <2>2. Written(signalValues, a, k)
    BY <1>1 DEF IInv, Combining, Progress
  <2>. HIDE DEF a
  <2>3. Written(fed, a, k)
    <3>. a + k <= 13 * N + 1 /\ N \in Nat
      BY <2>1
    <3>. QED
      BY <1>9, <2>1, <2>2, GrowsWritten
  <2>4. Written(fed, a, k + 1)
    BY <2>1, <2>3, NextWritten
  <2>. QED
    BY <2>4 DEF a
<1>12. CASE k + 1 # N
  <2>. ~S!IsLast(3, 3)
    BY <1>1, <1>3, <1>12 DEF S!IsLast
  <2>. signalValues' = fed
    BY <1>5 DEF S!RunIfNeeded
  <2>. QED
    BY <1>7, <1>9, <1>10, <1>11, <1>12
<1>13. CASE k + 1 = N
  <2>. DEFINE start == First(3)
              new == S!Xor3_run(fed, start)
  <2>1. signalValues' = new
    <3>. S!IsLast(3, 3)
      BY <1>1, <1>3, <1>13 DEF S!IsLast
    <3>. S!Start(3) = First(3)
      BY <1>2
    <3>. QED
      BY <1>5 DEF S!RunIfNeeded, S!RunSubcomponent
  <2>2. start \in Nat /\ start >= 1 /\ start + 5 * N <= 13 * N + 1
    OBVIOUS
  <2>3. Written(fed, start + N, 3 * N)
    <3>1. Written(fed, start + 1 * N, N) /\ Written(fed, start + 2 * N, N) /\ Written(fed, start + 3 * N, N)
      BY <1>11, <1>13
    <3>. HIDE DEF start
    <3>2. \A s \in start + N .. start + N + 3 * N - 1 :
            \/ s \in start + 1 * N .. start + 1 * N + N - 1
            \/ s \in start + 2 * N .. start + 2 * N + N - 1
            \/ s \in start + 3 * N .. start + 3 * N + N - 1
      BY <2>2
    <3>. QED
      BY <3>1, <3>2 DEF Written
  <2>. HIDE DEF start
  <2>4. /\ new \in Signals
        /\ \A s \in S!Signal \ (S!Outputs(start) \cup S!Outputs(start + 4 * N)) : new[s] = fed[s]
        /\ Written(new, start, N) /\ Written(new, start + 4 * N, N)
    BY <1>7, <2>2, <2>3, Xor3Writes
  <2>. HIDE DEF new
  <2>5. Grows(fed, new)
    BY <2>4 DEF Grows, Written, S!Outputs
  <2>6. Grows(signalValues, new)
    BY <1>9, <2>5 DEF Grows
  <2>7. ASSUME NEW s \in 0 .. 2 * N PROVE new[s] = signalValues[s]
    <3>. s \in S!Signal /\ s \notin S!Outputs(start) \cup S!Outputs(start + 4 * N)
      BY DEF start, S!Outputs
    <3>. QED
      BY <1>10, <2>4
  <2>8. ASSUME NEW m \in 1 .. 3 PROVE Written(new, First(3) + m * N, k + 1)
    <3>. DEFINE a == First(3) + m * N  n == k + 1
    <3>. a \in Nat /\ n \in Nat /\ a + n <= 13 * N + 1
      <4>. m * N \in Nat /\ m * N <= 3 * N
        <5>. m = 1 \/ m = 2 \/ m = 3
          OBVIOUS
        <5>. QED
          OBVIOUS
      <4>. QED
        BY <1>1
    <3>. Written(fed, a, n)
      BY <1>11
    <3>. HIDE DEF a, n
    <3>1. Written(new, a, n)
      BY <2>5, GrowsWritten
    <3>. QED
      BY <3>1 DEF a, n
  <2>. QED
    BY <2>1, <2>4, <2>6, <2>7, <2>8 DEF start
<1>. QED
  BY <1>12, <1>13

LEMMA CopyStep ==
    ASSUME S!SigmaConstants, IInv, S!CopyOutput
    PROVE  /\ signalValues' \in Signals
           /\ Grows(signalValues, signalValues')
           /\ \A s \in N + 1 .. 2 * N : signalValues'[s] = signalValues[s]
           /\ Written(signalValues', S!MainStart, k + 1)
<1>. /\ N \in Nat \ {0} /\ S!MainStart = 1 /\ S!Signal = 0 .. 13 * N /\ First(3) = 8 * N + 1
  BY LayoutFacts
<1>1. phase = "output" /\ k \in 0 .. N - 1 /\ signalValues \in Signals /\ S!Start(3) = First(3)
  BY DEF S!CopyOutput, IInv, Phases, Layout, Made
<1>. DEFINE x == signalValues[First(3) + k]
<1>2. x \in Value /\ x # S!Unset
  <2>. Written(signalValues, First(3), N) /\ First(3) + k \in S!Signal
    BY <1>1 DEF IInv, Combining, AfterCombine
  <2>. QED
    BY <1>1 DEF Written, Signals
<1>3. signalValues' = [signalValues EXCEPT ![S!MainStart + k] = x]
  BY <1>1 DEF S!CopyOutput
<1>. HIDE DEF x
<1>4. S!MainStart + k \in S!Signal /\ S!MainStart + k \notin N + 1 .. 2 * N
  BY <1>1
<1>5. signalValues' \in Signals /\ Grows(signalValues, signalValues')
  BY <1>1, <1>2, <1>3, <1>4 DEF Signals, Grows
<1>6. \A s \in N + 1 .. 2 * N : signalValues'[s] = signalValues[s]
  BY <1>1, <1>3, <1>4 DEF Signals
<1>7. Written(signalValues', S!MainStart, k + 1)
  <2>1. Written(signalValues, S!MainStart, k)
    BY <1>1 DEF IInv, Copying, Progress
  <2>2. S!MainStart \in Nat /\ k \in Nat /\ S!MainStart + k <= 13 * N + 1
    BY <1>1
  <2>3. Written(signalValues', S!MainStart, k)
    BY <1>5, <2>1, <2>2, GrowsWritten
  <2>4. signalValues'[S!MainStart + k] # S!Unset
    BY <1>1, <1>2, <1>3, <1>4 DEF Signals
  <2>. QED
    BY <2>2, <2>3, <2>4, NextWritten
<1>. QED
  BY <1>5, <1>6, <1>7

-----------------------------------------------------------------------------
InputsWritten == Written(signalValues, S!MainStart + N, N)

LEMMA WrittenNone ==
    ASSUME NEW sv, NEW a \in Nat
    PROVE  Written(sv, a, 0)
BY DEF Written

LEMMA InitIInv ==
    ASSUME S!SigmaConstants, S!Init, signalValues \in Signals
    PROVE  IInv
<1>. /\ N \in Nat \ {0} /\ S!MainStart = 1 /\ S!Signal = 0 .. 13 * N
     /\ First(0) = 2 * N + 1 /\ First(1) = 4 * N + 1 /\ First(2) = 6 * N + 1 /\ First(3) = 8 * N + 1
  BY LayoutFacts
<1>1. phase = "idle" /\ k = 0 /\ released = {} /\ ~AfterFeed /\ ~AfterCombine /\ ~AfterOutput
  BY DEF S!Init, AfterFeed, AfterCombine, AfterOutput
<1>2. Phases /\ Layout
  BY <1>1 DEF Phases, Layout, Made
<1>3. Memory
  BY DEF S!Init, Memory, S!NoComponent
<1>4. Runs
  BY <1>1 DEF S!Init, Runs, S!Component
<1>5. \A a \in Nat : Written(signalValues, a, 0)
  BY WrittenNone
<1>6. Feeding
  <2>. \A i \in 0 .. 2 : First(i) + N \in Nat
    OBVIOUS
  <2>. QED
    BY <1>1, <1>5 DEF Feeding, Progress
<1>7. Combining
  <2>. \A m \in 1 .. 3 : First(3) + m * N \in Nat
    OBVIOUS
  <2>. QED
    BY <1>1, <1>5 DEF Combining, Progress
<1>8. Copying
  BY <1>1, <1>5 DEF Copying, Progress
<1>. QED
  BY <1>1, <1>2, <1>3, <1>4, <1>6, <1>7, <1>8 DEF IInv

(* What has been written so far, one phase further on. *)
LEMMA GrowsInputs ==
    ASSUME S!SigmaConstants, IInv, Grows(signalValues, signalValues')
    PROVE  /\ phase # "idle" => Written(signalValues', S!MainStart + N, N)
           /\ AfterFeed => \A i \in 0 .. 2 :
                Written(signalValues', First(i) + N, N) /\ Written(signalValues', First(i), N)
           /\ AfterCombine =>
                /\ \A m \in 1 .. 3 : Written(signalValues', First(3) + m * N, N)
                /\ Written(signalValues', First(3), N) /\ Written(signalValues', First(3) + 4 * N, N)
<1>. /\ N \in Nat \ {0} /\ S!MainStart = 1
     /\ First(0) = 2 * N + 1 /\ First(1) = 4 * N + 1 /\ First(2) = 6 * N + 1 /\ First(3) = 8 * N + 1
  BY LayoutFacts
<1>1. \A a, n \in Nat : a + n <= 13 * N + 1 /\ Written(signalValues, a, n) => Written(signalValues', a, n)
  BY GrowsWritten
<1>2. phase # "idle" => Written(signalValues', S!MainStart + N, N)
  BY <1>1 DEF IInv, Feeding
<1>3. ASSUME AfterFeed, NEW i \in 0 .. 2
      PROVE  Written(signalValues', First(i) + N, N) /\ Written(signalValues', First(i), N)
  <2>1. Written(signalValues, First(i) + N, N) /\ Written(signalValues, First(i), N)
    <3>. phase # "feed"
      BY <1>3 DEF AfterFeed
    <3>. QED
      BY <1>3 DEF IInv, Feeding, Progress
  <2>2. First(i) \in Nat /\ First(i) + N \in Nat /\ First(i) + N + N <= 13 * N + 1
    OBVIOUS
  <2>. QED
    BY <1>1, <2>1, <2>2
<1>4. ASSUME AfterCombine, NEW m \in 1 .. 3
      PROVE  Written(signalValues', First(3) + m * N, N)
  <2>1. Written(signalValues, First(3) + m * N, N)
    <3>. phase # "combine"
      BY <1>4 DEF AfterCombine
    <3>. QED
      BY <1>4 DEF IInv, Combining, Progress
  <2>2. First(3) + m * N \in Nat /\ First(3) + m * N + N <= 13 * N + 1
    <3>. m = 1 \/ m = 2 \/ m = 3
      OBVIOUS
    <3>. QED
      OBVIOUS
  <2>. QED
    BY <1>1, <2>1, <2>2
<1>5. ASSUME AfterCombine
      PROVE  Written(signalValues', First(3), N) /\ Written(signalValues', First(3) + 4 * N, N)
  BY <1>1, <1>5 DEF IInv, Combining
<1>. QED
  BY <1>2, <1>3, <1>4, <1>5

LEMMA MultipleNat ==
    ASSUME N \in Nat, NEW x \in Nat, NEW m \in 1 .. 3 PROVE x + m * N \in Nat
<1>1. CASE m = 1
  BY <1>1
<1>2. CASE m = 2
  BY <1>2
<1>3. CASE m = 3
  BY <1>3
<1>. QED
  BY <1>1, <1>2, <1>3

LEMMA NextIInv ==
    ASSUME S!SigmaConstants, IInv, S!Next, InputsWritten
    PROVE  IInv'
<1>. /\ N \in Nat \ {0} /\ S!MainStart = 1 /\ S!Signal = 0 .. 13 * N
     /\ First(0) = 2 * N + 1 /\ First(1) = 4 * N + 1 /\ First(2) = 6 * N + 1 /\ First(3) = 8 * N + 1
     /\ S!Inputs(0) = N /\ S!Inputs(1) = N /\ S!Inputs(2) = N /\ S!Inputs(3) = 3 * N
  BY LayoutFacts
<1>1. \A sv : \A a \in Nat : Written(sv, a, 0)
  BY WrittenNone
<1>2. (\A i \in 0 .. 3 : First(i) \in Nat /\ First(i) + N \in Nat)
        /\ \A m \in 1 .. 3 : First(3) + m * N \in Nat
  <2>1. ASSUME NEW i \in 0 .. 3 PROVE First(i) \in Nat
    <3>. i = 0 \/ i = 1 \/ i = 2 \/ i = 3
      OBVIOUS
    <3>. QED
      OBVIOUS
  <2>2. ASSUME NEW m \in 1 .. 3 PROVE First(3) + m * N \in Nat
    <3>. DEFINE x == First(3)
    <3>1. x \in Nat
      BY <2>1
    <3>. HIDE DEF x
    <3>2. x + m * N \in Nat
      BY <3>1, MultipleNat
    <3>. QED
      BY <3>2 DEF x
  <2>3. ASSUME NEW i \in 0 .. 3 PROVE First(i) + N \in Nat
    BY <2>1
  <2>. QED
    BY <2>1, <2>2, <2>3, Zenon
<1>3. CASE S!run
  <2>1. /\ phase' = "create" /\ k' = 0 /\ ~AfterFeed' /\ ~AfterCombine' /\ ~AfterOutput'
        /\ signalValues' = signalValues /\ released' = released
        /\ phase = "idle" /\ ~AfterFeed /\ ~AfterCombine
    BY <1>3 DEF S!run, IInv, Phases, AfterFeed, AfterCombine, AfterOutput
  <2>2. Phases'
    BY <2>1 DEF Phases
  <2>3. Memory'
    <3>. DEFINE new == S!Created("SmallSigma", S!MainStart, N)
    <3>1. new \in [templateName : {"none", "SmallSigma", "RotR", "ShR", "Xor3"},
                    signalStart : S!Signal, inputCounter : 0 .. 3 * N, idFather : {0}]
      BY DEF S!Created
    <3>2. componentMemory' = [componentMemory EXCEPT ![0] = new]
      BY <1>3 DEF S!run
    <3>. HIDE DEF new
    <3>. QED
      BY <3>1, <3>2 DEF IInv, Memory
  <2>4. Layout'
    BY <2>1 DEF Layout, Made
  <2>5. Runs'
    BY <1>3, <2>1 DEF S!run, IInv, Runs, S!Component
  <2>6. Feeding' /\ Combining' /\ Copying'
    <3>1. /\ Progress("feed", AfterFeed, N)' = 0 /\ Progress("combine", AfterCombine, N)' = 0
          /\ Progress("output", AfterOutput, N)' = 0
      BY <2>1 DEF Progress
    <3>2. Feeding'
      <4>1. Written(signalValues', S!MainStart + N, N)
        BY <2>1 DEF InputsWritten
      <4>2. ASSUME NEW i \in 0 .. 2 PROVE Written(signalValues', First(i) + N, 0)
        <5>. DEFINE a == First(i) + N
        <5>. a \in Nat
          OBVIOUS
        <5>. HIDE DEF a
        <5>1. Written(signalValues', a, 0)
          BY WrittenNone
        <5>. QED
          BY <5>1 DEF a
      <4>. QED
        BY <2>1, <3>1, <4>1, <4>2 DEF Feeding
    <3>3. Combining'
      BY <1>1, <1>2, <2>1, <3>1 DEF Combining
    <3>4. Copying'
      BY <1>1, <2>1, <3>1 DEF Copying
    <3>. QED
      BY <3>2, <3>3, <3>4
  <2>. QED
    BY <2>1, <2>2, <2>3, <2>4, <2>5, <2>6 DEF IInv
<1>4. CASE S!CreateSubcomponent
  <2>1. /\ phase = "create" /\ k \in 0 .. 3 /\ ~AfterFeed /\ ~AfterCombine /\ ~AfterOutput
        /\ signalValues' = signalValues /\ released' = released /\ ran' = ran
    BY <1>4 DEF S!CreateSubcomponent, IInv, Phases, AfterFeed, AfterCombine, AfterOutput
  <2>2. /\ k # 3 => phase' = "create" /\ k' = k + 1
        /\ k = 3 => phase' = "feed" /\ k' = 0
    BY <1>4, <2>1 DEF S!CreateSubcomponent
  <2>3. ~AfterFeed' /\ ~AfterCombine' /\ ~AfterOutput' /\ phase' # "idle"
    BY <2>1, <2>2 DEF AfterFeed, AfterCombine, AfterOutput
  <2>4. Phases'
    BY <2>1, <2>2 DEF Phases
  <2>. DEFINE new == S!Created(S!Template(k), S!MainStart + S!Offset(k), S!Inputs(k))
  <2>5. new \in [templateName : {"none", "SmallSigma", "RotR", "ShR", "Xor3"},
                  signalStart : S!Signal, inputCounter : 0 .. 3 * N, idFather : {0}]
    <3>1. S!Template(k) \in {"RotR", "ShR", "Xor3"}
      BY <2>1 DEF S!Template
    <3>2. First(k) \in S!Signal /\ S!Inputs(k) \in 0 .. 3 * N
      BY <2>1
    <3>. QED
      BY <3>1, <3>2 DEF S!Created, First
  <2>6. new.signalStart = First(k) /\ new.inputCounter = S!Inputs(k)
    BY DEF S!Created, First
  <2>7. componentMemory' = [componentMemory EXCEPT ![k + 1] = new]
    BY <1>4 DEF S!CreateSubcomponent
  <2>. HIDE DEF new
  <2>8. Memory'
    BY <2>1, <2>5, <2>7 DEF IInv, Memory
  <2>9. Layout'
    <3>1. ASSUME NEW i \in 0 .. 3 PROVE S!Inputs(i) - Fed(i)' = S!Inputs(i)
      <4>. Fed(i)' = 0
        BY <2>2, <2>3 DEF Fed, Progress
      <4>. S!Inputs(i) \in Nat
        BY DEF S!Inputs
      <4>. QED
        OBVIOUS
    <3> SUFFICES ASSUME NEW i \in 0 .. 3, Made(i)'
                 PROVE  S!Start(i)' = First(i) /\ S!InputCounter(i)' = S!Inputs(i)
      BY <3>1 DEF Layout
    <3>2. CASE i = k
      BY <2>1, <2>6, <2>7, <3>2 DEF IInv, Memory, S!Component, S!Start, S!InputCounter
    <3>3. CASE i # k
      <4>1. Made(i)
        BY <2>1, <2>2, <3>3 DEF Made
      <4>2. S!Start(i) = First(i) /\ S!InputCounter(i) = S!Inputs(i)
        <5>. S!Inputs(i) - Fed(i) = S!Inputs(i)
          BY <2>1 DEF S!Inputs, Fed, Progress
        <5>. QED
          BY <4>1 DEF IInv, Layout
      <4>3. componentMemory'[i + 1] = componentMemory[i + 1]
        <5>. i + 1 # k + 1 /\ i + 1 \in S!Component
          BY <2>1, <3>3 DEF S!Component
        <5>. QED
          BY <2>7 DEF IInv, Memory
      <4>. QED
        BY <4>2, <4>3 DEF S!Start, S!InputCounter
    <3>. QED
      BY <3>2, <3>3
  <2>10. Runs'
    BY <2>1, <2>3 DEF IInv, Runs
  <2>11. Feeding' /\ Combining' /\ Copying'
    <3>1. /\ Progress("feed", AfterFeed, N)' = 0 /\ Progress("combine", AfterCombine, N)' = 0
          /\ Progress("output", AfterOutput, N)' = 0
      BY <2>1, <2>2, <2>3 DEF Progress
    <3>2. Feeding'
      <4>1. Written(signalValues', S!MainStart + N, N)
        BY <2>1 DEF InputsWritten
      <4>2. ASSUME NEW i \in 0 .. 2 PROVE Written(signalValues', First(i) + N, 0)
        <5>. DEFINE a == First(i) + N
        <5>. a \in Nat
          OBVIOUS
        <5>. HIDE DEF a
        <5>1. Written(signalValues', a, 0)
          BY WrittenNone
        <5>. QED
          BY <5>1 DEF a
      <4>. QED
        BY <2>1, <2>3, <3>1, <4>1, <4>2 DEF Feeding
    <3>3. Combining'
      BY <1>1, <1>2, <2>1, <2>3, <3>1 DEF Combining
    <3>4. Copying'
      BY <1>1, <2>1, <3>1 DEF Copying
    <3>. QED
      BY <3>2, <3>3, <3>4
  <2>. QED
    BY <2>1, <2>4, <2>8, <2>9, <2>10, <2>11 DEF IInv
<1>5. CASE S!FeedInputs
  <2>1. /\ phase = "feed" /\ k \in 0 .. N - 1 /\ ~AfterFeed /\ ~AfterCombine /\ ~AfterOutput
        /\ released' = released
    BY <1>5 DEF S!FeedInputs, IInv, Phases, AfterFeed, AfterCombine, AfterOutput
  <2>2. /\ k + 1 # N => phase' = "feed" /\ k' = k + 1 /\ ~AfterFeed' /\ k + 1 < N
        /\ k + 1 = N => phase' = "combine" /\ k' = 0 /\ AfterFeed'
        /\ ~AfterCombine' /\ ~AfterOutput' /\ phase' # "idle"
    BY <1>5, <2>1 DEF S!FeedInputs, S!Loop, AfterFeed, AfterCombine, AfterOutput
  <2>3. /\ Progress("feed", AfterFeed, N)' = k + 1 /\ Progress("combine", AfterCombine, N)' = 0
        /\ Progress("output", AfterOutput, N)' = 0
    BY <2>1, <2>2 DEF Progress
  <2>4. Phases'
    BY <2>1, <2>2 DEF Phases
  <2>5. \A i \in 0 .. 2 : S!Start(i) = First(i) /\ S!InputCounter(i) = N - k
    BY <2>1 DEF IInv, Layout, Made, Fed, Progress
  <2>6. S!Start(3) = First(3) /\ S!InputCounter(3) = 3 * N
    BY <2>1 DEF IInv, Layout, Made, Fed, Progress
  <2>7. componentMemory' = [c \in S!Component |->
            IF c \in 1 .. 3 THEN [componentMemory[c] EXCEPT !.inputCounter = @ - 1] ELSE componentMemory[c]]
    BY <1>5 DEF S!FeedInputs
  <2>8. Memory'
    <3>1. \A c \in 1 .. 3 : componentMemory[c].inputCounter - 1 \in 0 .. 3 * N
      <4>1. \A i \in 0 .. 2 : componentMemory[i + 1].inputCounter - 1 \in 0 .. 3 * N
        BY <2>1, <2>5 DEF S!InputCounter
      <4>2. \A c \in 1 .. 3 : c - 1 \in 0 .. 2 /\ (c - 1) + 1 = c
        OBVIOUS
      <4>. QED
        BY <4>1, <4>2
    <3>. QED
      BY <2>7, <3>1 DEF IInv, Memory, S!Component
  <2>9. Layout'
    <3>1. ASSUME NEW i \in 0 .. 2 PROVE S!Start(i)' = First(i) /\ S!InputCounter(i)' = N - (k + 1)
      <4>. i + 1 \in 1 .. 3 /\ i + 1 \in S!Component
        BY DEF S!Component
      <4>1. componentMemory'[i + 1] = [componentMemory[i + 1] EXCEPT !.inputCounter = @ - 1]
        BY <2>7
      <4>2. componentMemory[i + 1] \in [templateName : {"none", "SmallSigma", "RotR", "ShR", "Xor3"},
                signalStart : S!Signal, inputCounter : 0 .. 3 * N, idFather : {0}]
        BY DEF IInv, Memory
      <4>3. /\ componentMemory'[i + 1].signalStart = componentMemory[i + 1].signalStart
            /\ componentMemory'[i + 1].inputCounter = componentMemory[i + 1].inputCounter - 1
        BY <4>1, <4>2
      <4>. QED
        BY <2>1, <2>5, <4>3 DEF S!Start, S!InputCounter
    <3>2. S!Start(3)' = First(3) /\ S!InputCounter(3)' = 3 * N
      BY <2>6, <2>7 DEF S!Start, S!InputCounter, S!Component
    <3>. QED
      BY <2>3, <3>1, <3>2 DEF Layout, Fed
  <2>10. Runs'
    <3>1. \A i \in 0 .. 2 : S!IsLast(i, 1) <=> k + 1 = N
      BY <2>1, <2>5 DEF S!IsLast
    <3>2. ran' = [c \in S!Component |-> IF c \in 1 .. 3 /\ S!IsLast(c - 1, 1) THEN ran[c] + 1 ELSE ran[c]]
      BY <1>5 DEF S!FeedInputs
    <3>3. ran \in [S!Component -> Nat] /\ ran[0] = 1 /\ ran[4] = 0 /\ \A i \in 0 .. 2 : ran[i + 1] = 0
      BY <2>1 DEF IInv, Runs
    <3>4. ran' \in [S!Component -> Nat] /\ ran'[0] = 1 /\ ran'[4] = 0
      BY <3>2, <3>3 DEF S!Component
    <3>5. ASSUME NEW i \in 0 .. 2 PROVE ran'[i + 1] = IF k + 1 = N THEN 1 ELSE 0
      <4>. i + 1 \in 1 .. 3 /\ i + 1 \in S!Component /\ (i + 1) - 1 = i
        BY DEF S!Component
      <4>. QED
        BY <3>1, <3>2, <3>3
    <3>. QED
      BY <2>2, <3>4, <3>5 DEF Runs
  <2>11. Feeding' /\ Combining' /\ Copying'
    <3>1. /\ signalValues' \in Signals /\ Grows(signalValues, signalValues')
          /\ \A i \in 0 .. 2 : Written(signalValues', First(i) + N, k + 1)
          /\ k + 1 = N => \A i \in 0 .. 2 : Written(signalValues', First(i), N)
      BY <1>5, FeedStep
    <3>2. Written(signalValues', S!MainStart + N, N)
      BY <2>1, <3>1, GrowsInputs
    <3>3. AfterFeed' => k + 1 = N
      BY <2>2
    <3>. QED
      BY <1>1, <1>2, <2>2, <2>3, <3>1, <3>2, <3>3 DEF Feeding, Combining, Copying
  <2>12. signalValues' \in Signals
    BY <1>5, FeedStep
  <2>. QED
    BY <2>1, <2>4, <2>8, <2>9, <2>10, <2>11, <2>12 DEF IInv
<1>6. CASE S!FeedXor3
  <2>1. /\ phase = "combine" /\ k \in 0 .. N - 1 /\ AfterFeed /\ ~AfterCombine /\ ~AfterOutput
        /\ released' = released
    BY <1>6 DEF S!FeedXor3, IInv, Phases, AfterFeed, AfterCombine, AfterOutput
  <2>2. \A i \in 0 .. 2 : S!Start(i) = First(i) /\ S!InputCounter(i) = 0
    BY <2>1 DEF IInv, Layout, Made, Fed, Progress
  <2>3. S!Start(3) = First(3) /\ S!InputCounter(3) = 3 * N - 3 * k
    BY <2>1 DEF IInv, Layout, Made, Fed, Progress
  <2>4. S!NoNeedToRun(3)
    BY <2>1, <2>3 DEF S!NoNeedToRun
  <2>5. /\ k + 1 # N => phase' = "combine" /\ k' = k + 1 /\ ~AfterCombine' /\ k + 1 < N
        /\ k + 1 = N => phase' = "output" /\ k' = 0 /\ AfterCombine'
        /\ AfterFeed' /\ ~AfterOutput' /\ phase' # "idle" /\ phase' # "feed"
    <3>1. /\ phase' = IF k + 1 < N THEN phase ELSE "output"
          /\ k' = IF k + 1 < N THEN k + 1 ELSE 0
      BY <1>6, <2>4 DEF S!FeedXor3, S!Loop
    <3>2. k + 1 # N <=> k + 1 < N
      BY <2>1
    <3>. QED
      BY <2>1, <3>1, <3>2 DEF AfterFeed, AfterCombine, AfterOutput
  <2>6. /\ Progress("feed", AfterFeed, N)' = N /\ Progress("combine", AfterCombine, N)' = k + 1
        /\ Progress("output", AfterOutput, N)' = 0
    BY <2>1, <2>5 DEF Progress
  <2>7. Phases'
    BY <2>1, <2>5 DEF Phases
  <2>8. componentMemory' = [componentMemory EXCEPT ![4].inputCounter = @ - 3]
    BY <1>6 DEF S!FeedXor3
  <2>9. Memory'
    <3>. componentMemory[4].inputCounter - 3 \in 0 .. 3 * N
      BY <2>1, <2>3 DEF S!InputCounter
    <3>. DEFINE cell == [componentMemory[4] EXCEPT !.inputCounter = @ - 3]
    <3>1. componentMemory[4] \in [templateName : {"none", "SmallSigma", "RotR", "ShR", "Xor3"},
                  signalStart : S!Signal, inputCounter : 0 .. 3 * N, idFather : {0}]
      BY DEF IInv, Memory, S!Component
    <3>2. cell \in [templateName : {"none", "SmallSigma", "RotR", "ShR", "Xor3"},
                    signalStart : S!Signal, inputCounter : 0 .. 3 * N, idFather : {0}]
      BY <3>1
    <3>3. componentMemory' = [componentMemory EXCEPT ![4] = cell]
      BY <2>8
    <3>. HIDE DEF cell
    <3>. QED
      BY <3>2, <3>3 DEF IInv, Memory
  <2>10. Layout'
    <3>1. ASSUME NEW i \in 0 .. 2 PROVE S!Start(i)' = First(i) /\ S!InputCounter(i)' = 0
      <4>. i + 1 # 4 /\ i + 1 \in S!Component
        BY DEF S!Component
      <4>1. componentMemory'[i + 1] = componentMemory[i + 1]
        BY <2>8 DEF IInv, Memory
      <4>. QED
        BY <2>2, <4>1 DEF S!Start, S!InputCounter
    <3>2. S!Start(3)' = First(3) /\ S!InputCounter(3)' = 3 * N - 3 * (k + 1)
      <4>1. componentMemory'[4] = [componentMemory[4] EXCEPT !.inputCounter = @ - 3]
        BY <2>8 DEF IInv, Memory, S!Component
      <4>2. componentMemory[4] \in [templateName : {"none", "SmallSigma", "RotR", "ShR", "Xor3"},
                signalStart : S!Signal, inputCounter : 0 .. 3 * N, idFather : {0}]
        BY DEF IInv, Memory, S!Component
      <4>3. /\ componentMemory'[4].signalStart = componentMemory[4].signalStart
            /\ componentMemory'[4].inputCounter = componentMemory[4].inputCounter - 3
        BY <4>1, <4>2
      <4>. QED
        BY <2>1, <2>3, <4>3 DEF S!Start, S!InputCounter
    <3>. QED
      BY <2>6, <3>1, <3>2 DEF Layout, Fed
  <2>11. Runs'
    <3>1. S!IsLast(3, 3) <=> k + 1 = N
      BY <2>1, <2>3 DEF S!IsLast
    <3>2. ran' = [ran EXCEPT ![4] = IF S!IsLast(3, 3) THEN @ + 1 ELSE @]
      BY <1>6 DEF S!FeedXor3
    <3>3. ran \in [S!Component -> Nat] /\ ran[0] = 1 /\ ran[4] = 0 /\ \A i \in 0 .. 2 : ran[i + 1] = 1
      BY <2>1 DEF IInv, Runs
    <3>4. /\ ran' \in [S!Component -> Nat] /\ ran'[0] = 1 /\ ran'[4] = IF k + 1 = N THEN 1 ELSE 0
          /\ \A i \in 0 .. 2 : ran'[i + 1] = 1
      BY <3>1, <3>2, <3>3 DEF S!Component
    <3>. QED
      BY <2>5, <3>4 DEF Runs
  <2>12. /\ signalValues' \in Signals /\ Grows(signalValues, signalValues')
         /\ \A m \in 1 .. 3 : Written(signalValues', First(3) + m * N, k + 1)
         /\ k + 1 = N => Written(signalValues', First(3), N) /\ Written(signalValues', First(3) + 4 * N, N)
    BY <1>6, CombineStep
  <2>13. Feeding' /\ Combining' /\ Copying'
    <3>1. Written(signalValues', S!MainStart + N, N)
      BY <2>1, <2>12, GrowsInputs
    <3>2. \A i \in 0 .. 2 : Written(signalValues', First(i) + N, N) /\ Written(signalValues', First(i), N)
      BY <2>1, <2>12, GrowsInputs
    <3>3. AfterCombine' => k + 1 = N
      BY <2>5
    <3>. QED
      BY <1>1, <2>5, <2>6, <2>12, <3>1, <3>2, <3>3 DEF Feeding, Combining, Copying
  <2>. QED
    BY <2>1, <2>7, <2>9, <2>10, <2>11, <2>12, <2>13 DEF IInv
<1>7. CASE S!CopyOutput
  <2>1. /\ phase = "output" /\ k \in 0 .. N - 1 /\ AfterFeed /\ AfterCombine /\ ~AfterOutput
        /\ released' = released /\ componentMemory' = componentMemory /\ ran' = ran
    BY <1>7 DEF S!CopyOutput, IInv, Phases, AfterFeed, AfterCombine, AfterOutput
  <2>2. /\ k + 1 # N => phase' = "output" /\ k' = k + 1 /\ ~AfterOutput' /\ k + 1 < N
        /\ k + 1 = N => phase' = "release" /\ k' = 0 /\ AfterOutput'
        /\ AfterFeed' /\ AfterCombine'
    <3>1. /\ phase' = IF k + 1 < N THEN phase ELSE "release"
          /\ k' = IF k + 1 < N THEN k + 1 ELSE 0
      BY <1>7 DEF S!CopyOutput, S!Loop
    <3>2. k + 1 # N <=> k + 1 < N
      BY <2>1
    <3>. QED
      BY <2>1, <3>1, <3>2 DEF AfterFeed, AfterCombine, AfterOutput
  <2>3. /\ Progress("feed", AfterFeed, N)' = N /\ Progress("combine", AfterCombine, N)' = N
        /\ Progress("output", AfterOutput, N)' = k + 1
    BY <2>1, <2>2 DEF Progress
  <2>4. /\ Progress("feed", AfterFeed, N) = N /\ Progress("combine", AfterCombine, N) = N
    BY <2>1 DEF Progress
  <2>5. Phases'
    BY <2>1, <2>2 DEF Phases
  <2>6. Memory' /\ Runs'
    BY <2>1, <2>2 DEF IInv, Memory, Runs
  <2>7. Layout'
    <3>1. ASSUME NEW i \in 0 .. 3 PROVE Made(i) /\ Fed(i)' = Fed(i)
      BY <2>1, <2>3, <2>4 DEF Made, Fed
    <3>2. ASSUME NEW i \in 0 .. 3 PROVE S!Start(i)' = S!Start(i) /\ S!InputCounter(i)' = S!InputCounter(i)
      BY <2>1 DEF S!Start, S!InputCounter
    <3>. QED
      BY <3>1, <3>2 DEF IInv, Layout
  <2>8. signalValues' \in Signals /\ Grows(signalValues, signalValues') /\ Written(signalValues', S!MainStart, k + 1)
    BY <1>7, CopyStep
  <2>9. Feeding' /\ Combining' /\ Copying'
    <3>1. Written(signalValues', S!MainStart + N, N)
      BY <2>1, <2>8, GrowsInputs
    <3>2. \A i \in 0 .. 2 : Written(signalValues', First(i) + N, N) /\ Written(signalValues', First(i), N)
      BY <2>1, <2>8, GrowsInputs
    <3>3. /\ \A m \in 1 .. 3 : Written(signalValues', First(3) + m * N, N)
          /\ Written(signalValues', First(3), N) /\ Written(signalValues', First(3) + 4 * N, N)
      BY <2>1, <2>8, GrowsInputs
    <3>. QED
      BY <2>3, <2>8, <3>1, <3>2, <3>3 DEF Feeding, Combining, Copying
  <2>. QED
    BY <2>1, <2>5, <2>6, <2>7, <2>8, <2>9 DEF IInv
<1>8. CASE S!Release
  <2>1. /\ phase = "release" /\ phase' = "done" /\ k' = k /\ k = 0
        /\ AfterFeed /\ AfterCombine /\ AfterOutput /\ AfterFeed' /\ AfterCombine' /\ AfterOutput'
        /\ componentMemory' = componentMemory /\ ran' = ran /\ signalValues' = signalValues
    BY <1>8 DEF S!Release, IInv, Phases, AfterFeed, AfterCombine, AfterOutput
  <2>2. released' \in SUBSET (1 .. 4)
    BY <1>8 DEF S!Release, IInv
  <2>3. /\ Progress("feed", AfterFeed, N)' = N /\ Progress("combine", AfterCombine, N)' = N
        /\ Progress("output", AfterOutput, N)' = N
        /\ Progress("feed", AfterFeed, N) = N /\ Progress("combine", AfterCombine, N) = N
        /\ Progress("output", AfterOutput, N) = N
    BY <2>1 DEF Progress
  <2>4. Phases' /\ Memory' /\ Runs'
    BY <2>1 DEF IInv, Phases, Memory, Runs
  <2>5. Layout'
    <3>1. ASSUME NEW i \in 0 .. 3 PROVE Made(i) /\ Fed(i)' = Fed(i)
      BY <2>1, <2>3 DEF Made, Fed
    <3>2. ASSUME NEW i \in 0 .. 3 PROVE S!Start(i)' = S!Start(i) /\ S!InputCounter(i)' = S!InputCounter(i)
      BY <2>1 DEF S!Start, S!InputCounter
    <3>. QED
      BY <3>1, <3>2 DEF IInv, Layout
  <2>6. Feeding' /\ Combining' /\ Copying'
    BY <2>1, <2>3 DEF IInv, Feeding, Combining, Copying
  <2>. QED
    BY <2>1, <2>2, <2>4, <2>5, <2>6 DEF IInv
<1>. QED
  BY <1>3, <1>4, <1>5, <1>6, <1>7, <1>8 DEF S!Next

LEMMA SameIInv ==
    ASSUME IInv, UNCHANGED S!vars
    PROVE  IInv'
BY DEF S!vars, S!circuit, IInv, Phases, Memory, Layout, Runs, Feeding, Combining, Copying,
    Made, Fed, Progress, AfterFeed, AfterCombine, AfterOutput, S!Start, S!InputCounter

(* Before the circuit runs, its signals may be set. *)
LEMMA IdleIInv ==
    ASSUME S!SigmaConstants, IInv, phase = "idle", UNCHANGED S!circuit, signalValues' \in Signals
    PROVE  IInv'
<1>. /\ N \in Nat \ {0} /\ S!MainStart = 1
     /\ First(0) = 2 * N + 1 /\ First(1) = 4 * N + 1 /\ First(2) = 6 * N + 1 /\ First(3) = 8 * N + 1
  BY LayoutFacts
<1>1. /\ UNCHANGED <<componentMemory, phase, k, released, ran>>
      /\ ~AfterFeed' /\ ~AfterCombine' /\ ~AfterOutput' /\ ~AfterFeed /\ ~AfterCombine
  BY DEF S!circuit, AfterFeed, AfterCombine, AfterOutput
<1>2. Phases' /\ Memory' /\ Runs'
  BY <1>1 DEF IInv, Phases, Memory, Runs
<1>3. Layout'
  BY <1>1 DEF Layout, Made
<1>4. /\ Progress("feed", AfterFeed, N)' = 0 /\ Progress("combine", AfterCombine, N)' = 0
      /\ Progress("output", AfterOutput, N)' = 0
  BY <1>1 DEF Progress
<1>5. \A a \in Nat : Written(signalValues', a, 0)
  BY WrittenNone
<1>6. Feeding'
  <2>. \A i \in 0 .. 2 : First(i) + N \in Nat
    OBVIOUS
  <2>. QED
    BY <1>1, <1>4, <1>5 DEF Feeding
<1>7. Combining'
  <2>. \A m \in 1 .. 3 : First(3) + m * N \in Nat
    OBVIOUS
  <2>. QED
    BY <1>1, <1>4, <1>5 DEF Combining
<1>8. Copying'
  BY <1>4, <1>5 DEF Copying
<1>. QED
  BY <1>1, <1>2, <1>3, <1>6, <1>7, <1>8 DEF IInv

(* Nothing sets an input signal while the circuit runs. *)
LEMMA InputsKept ==
    ASSUME S!SigmaConstants, IInv, S!Next
    PROVE  \A s \in S!InputSignals : signalValues'[s] = signalValues[s]
<1>. N \in Nat \ {0} /\ S!MainStart = 1
  BY LayoutFacts
<1>1. S!InputSignals = N + 1 .. 2 * N
  BY DEF S!InputSignals
<1>2. CASE S!FeedInputs
  BY <1>1, <1>2, FeedStep
<1>3. CASE S!FeedXor3
  BY <1>1, <1>3, CombineStep
<1>4. CASE S!CopyOutput
  BY <1>1, <1>4, CopyStep
<1>5. CASE S!run \/ S!CreateSubcomponent \/ S!Release
  BY <1>5 DEF S!run, S!CreateSubcomponent, S!Release
<1>. QED
  BY <1>2, <1>3, <1>4, <1>5 DEF S!Next

LEMMA InputsAreSet ==
    ASSUME S!SigmaConstants
    PROVE  InputsWritten <=> \A s \in S!InputSignals : signalValues[s] # S!Unset
<1>. N \in Nat \ {0} /\ S!MainStart = 1
  BY LayoutFacts
<1>1. S!InputSignals = S!MainStart + N .. S!MainStart + N + N - 1
  BY DEF S!InputSignals
<1>. QED
  BY <1>1 DEF InputsWritten, Written

LEMMA CircuitInvariant == S!SigmaConstants => (S!Spec => [](IInv /\ InputsWritten))
<1> SUFFICES ASSUME S!SigmaConstants PROVE S!Spec => [](IInv /\ InputsWritten)
  OBVIOUS
<1>1. ASSUME S!Init, signalValues \in [S!Signal -> 0 .. Mod - 1 \cup {S!Unset}],
             \A s \in S!InputSignals : signalValues[s] # S!Unset
      PROVE  IInv /\ InputsWritten
  BY <1>1, InitIInv, InputsAreSet DEF Signals, Value
<1>2. ASSUME IInv, InputsWritten, [S!Next]_(S!vars) PROVE IInv' /\ InputsWritten'
  <2>1. CASE S!Next
    <3>1. IInv'
      BY <1>2, <2>1, NextIInv
    <3>2. InputsWritten'
      <4>. \A s \in S!InputSignals : signalValues'[s] = signalValues[s]
        BY <1>2, <2>1, InputsKept
      <4>. \A s \in S!InputSignals : signalValues[s] # S!Unset
        BY <1>2, InputsAreSet
      <4>. S!InputSignals = S!MainStart + N .. S!MainStart + N + N - 1
        BY LayoutFacts DEF S!InputSignals
      <4>. QED
        BY DEF InputsWritten, Written
    <3>. QED
      BY <3>1, <3>2
  <2>2. CASE UNCHANGED S!vars
    <3>1. IInv'
      BY <1>2, <2>2, SameIInv
    <3>2. InputsWritten'
      BY <1>2, <2>2 DEF S!vars, InputsWritten
    <3>. QED
      BY <3>1, <3>2
  <2>. QED
    BY <1>2, <2>1, <2>2
<1>. QED
  BY <1>1, <1>2, PTL DEF S!Spec

-----------------------------------------------------------------------------
LEMMA TypesInvariant ==
    ASSUME S!SigmaConstants, IInv
    PROVE  S!TypeOK
<1>. N \in Nat \ {0}
  BY LayoutFacts
<1>. k < N + 4
  BY DEF IInv, Phases
<1>. QED
  BY DEF IInv, S!TypeOK, Phases, Memory, Runs, Signals, Value

LEMMA RunsInvariant ==
    ASSUME S!SigmaConstants, IInv
    PROVE  S!RunWhenComplete
<1>. /\ N \in Nat \ {0} /\ S!MainStart = 1 /\ S!Signal = 0 .. 13 * N
     /\ First(0) = 2 * N + 1 /\ First(1) = 4 * N + 1 /\ First(2) = 6 * N + 1 /\ First(3) = 8 * N + 1
     /\ S!Inputs(0) = N /\ S!Inputs(1) = N /\ S!Inputs(2) = N /\ S!Inputs(3) = 3 * N
  BY LayoutFacts
<1>1. ASSUME NEW i \in 0 .. 2
      PROVE  /\ ran[i + 1] <= 1
             /\ ran[i + 1] = 1 => \A j \in 0 .. S!Inputs(i) - 1 : S!IsSet(S!Start(i) + N + j)
             /\ phase \in {"output", "release", "done"} => ran[i + 1] = 1
  <2>1. ran[i + 1] = IF AfterFeed THEN 1 ELSE 0
    BY DEF IInv, Runs
  <2>2. ASSUME AfterFeed, NEW j \in 0 .. N - 1 PROVE S!IsSet(S!Start(i) + N + j)
    <3>1. S!Start(i) = First(i)
      BY <2>2 DEF IInv, Layout, Made, AfterFeed
    <3>2. Written(signalValues, First(i) + N, N)
      <4>. phase # "feed"
        BY <2>2 DEF AfterFeed
      <4>. QED
        BY <2>2 DEF IInv, Feeding, Progress
    <3>3. First(i) + N + j \in First(i) + N .. First(i) + N + N - 1
      OBVIOUS
    <3>. QED
      BY <3>1, <3>2, <3>3 DEF Written, S!IsSet
  <2>3. S!Inputs(i) = N
    OBVIOUS
  <2>. QED
    BY <2>1, <2>2, <2>3 DEF AfterFeed
<1>2. /\ ran[4] <= 1
      /\ ran[4] = 1 => \A j \in 0 .. S!Inputs(3) - 1 : S!IsSet(S!Start(3) + N + j)
      /\ phase \in {"output", "release", "done"} => ran[4] = 1
  <2>1. ran[4] = IF AfterCombine THEN 1 ELSE 0
    BY DEF IInv, Runs
  <2>2. ASSUME AfterCombine, NEW j \in 0 .. 3 * N - 1 PROVE S!IsSet(S!Start(3) + N + j)
    <3>1. S!Start(3) = First(3)
      BY <2>2 DEF IInv, Layout, Made, AfterCombine
    <3>2. \A m \in 1 .. 3 : Written(signalValues, First(3) + m * N, N)
      <4>. phase # "combine"
        BY <2>2 DEF AfterCombine
      <4>. QED
        BY <2>2 DEF IInv, Combining, Progress
    <3>3. /\ Written(signalValues, First(3) + 1 * N, N) /\ Written(signalValues, First(3) + 2 * N, N)
          /\ Written(signalValues, First(3) + 3 * N, N)
      BY <3>2
    <3>4. \/ First(3) + N + j \in First(3) + 1 * N .. First(3) + 1 * N + N - 1
          \/ First(3) + N + j \in First(3) + 2 * N .. First(3) + 2 * N + N - 1
          \/ First(3) + N + j \in First(3) + 3 * N .. First(3) + 3 * N + N - 1
      OBVIOUS
    <3>. QED
      BY <3>1, <3>3, <3>4 DEF Written, S!IsSet
  <2>. QED
    BY <2>1, <2>2 DEF AfterCombine
<1>. QED
  BY <1>1, <1>2 DEF S!RunWhenComplete

LEMMA WrittenInvariant ==
    ASSUME S!SigmaConstants, IInv
    PROVE  S!NothingReadUnset
<1>. /\ N \in Nat \ {0} /\ S!MainStart = 1 /\ S!Signal = 0 .. 13 * N
     /\ First(0) = 2 * N + 1 /\ First(1) = 4 * N + 1 /\ First(2) = 6 * N + 1 /\ First(3) = 8 * N + 1
  BY LayoutFacts
<1>1. phase # "aborted"
  BY DEF IInv, Phases
<1>2. ASSUME phase = "done", NEW s \in S!Signal \ {0} PROVE S!IsSet(s)
  <2>1. /\ Written(signalValues, 1, N) /\ Written(signalValues, N + 1, N)
        /\ \A i \in 0 .. 2 : Written(signalValues, First(i), N) /\ Written(signalValues, First(i) + N, N)
        /\ \A m \in 1 .. 3 : Written(signalValues, First(3) + m * N, N)
        /\ Written(signalValues, First(3), N) /\ Written(signalValues, First(3) + 4 * N, N)
    BY <1>2 DEF IInv, Copying, Feeding, Combining, Progress, AfterFeed, AfterCombine, AfterOutput
  <2>2. /\ Written(signalValues, 1, N) /\ Written(signalValues, N + 1, N)
        /\ Written(signalValues, 2 * N + 1, N) /\ Written(signalValues, 3 * N + 1, N)
        /\ Written(signalValues, 4 * N + 1, N) /\ Written(signalValues, 5 * N + 1, N)
        /\ Written(signalValues, 6 * N + 1, N) /\ Written(signalValues, 7 * N + 1, N)
    <3>. /\ First(0) + N = 3 * N + 1 /\ First(1) + N = 5 * N + 1 /\ First(2) + N = 7 * N + 1
      OBVIOUS
    <3>. QED
      BY <2>1
  <2>3. /\ Written(signalValues, 8 * N + 1, N) /\ Written(signalValues, 9 * N + 1, N)
        /\ Written(signalValues, 10 * N + 1, N) /\ Written(signalValues, 11 * N + 1, N)
        /\ Written(signalValues, 12 * N + 1, N)
    <3>1. /\ First(3) + 1 * N = 9 * N + 1 /\ First(3) + 2 * N = 10 * N + 1
          /\ First(3) + 3 * N = 11 * N + 1 /\ First(3) + 4 * N = 12 * N + 1
      OBVIOUS
    <3>2. /\ Written(signalValues, First(3) + 1 * N, N) /\ Written(signalValues, First(3) + 2 * N, N)
          /\ Written(signalValues, First(3) + 3 * N, N)
      BY <2>1
    <3>. QED
      BY <2>1, <3>1, <3>2
  <2>. QED
    BY <2>2, <2>3 DEF Written, S!IsSet
<1>. QED
  BY <1>1, <1>2 DEF S!NothingReadUnset

-----------------------------------------------------------------------------
(* Which values the signals have, as functions of the inputs of the circuit. *)
Turn(j, r) == (j + r) % N
RotatedIn(sv, r, j) == sv[S!MainStart + N + Turn(j, r)]
ShiftedIn(sv, j) == IF j + Rc < N THEN sv[S!MainStart + N + (j + Rc)] ELSE 0
MidOf(sv, j) == S!Fr_mul(RotatedIn(sv, Rb, j), ShiftedIn(sv, j))
OutOf(sv, j) == S!Xor3Out(RotatedIn(sv, Ra, j), RotatedIn(sv, Rb, j), ShiftedIn(sv, j), MidOf(sv, j))

Distributed(sv, n) ==
    \A i \in 0 .. 2 : \A j \in 0 .. n - 1 : sv[First(i) + N + j] = sv[S!MainStart + N + j]
Turned(sv) ==
    \A j \in 0 .. N - 1 :
        /\ sv[First(0) + j] = RotatedIn(sv, Ra, j)
        /\ sv[First(1) + j] = RotatedIn(sv, Rb, j)
        /\ sv[First(2) + j] = ShiftedIn(sv, j)
Gathered(sv, n) ==
    \A j \in 0 .. n - 1 :
        /\ sv[First(3) + N + j] = RotatedIn(sv, Ra, j)
        /\ sv[First(3) + 2 * N + j] = RotatedIn(sv, Rb, j)
        /\ sv[First(3) + 3 * N + j] = ShiftedIn(sv, j)
Mixed(sv) ==
    \A j \in 0 .. N - 1 :
        sv[First(3) + j] = OutOf(sv, j) /\ sv[First(3) + 4 * N + j] = MidOf(sv, j)
Delivered(sv, n) == \A j \in 0 .. n - 1 : sv[S!MainStart + j] = OutOf(sv, j)

(* Which of these hold where the computation is. *)
VInv ==
    /\ phase = "feed" => Distributed(signalValues, k)
    /\ phase = "combine" => Turned(signalValues) /\ Gathered(signalValues, k)
    /\ phase = "output" => Mixed(signalValues) /\ Delivered(signalValues, k)
    /\ phase \in {"release", "done"} => Mixed(signalValues) /\ Delivered(signalValues, N)

(* The places a signal of a word is read from. *)
LEMMA InWord ==
    ASSUME S!SigmaConstants, NEW j \in 0 .. N - 1
    PROVE  /\ Turn(j, Ra) \in 0 .. N - 1 /\ Turn(j, Rb) \in 0 .. N - 1
           /\ j + Rc < N => j + Rc \in 0 .. N - 1
<1>. N \in Nat \ {0} /\ Ra \in Nat /\ Rb \in Nat /\ Rc \in Nat
  BY DEF S!SigmaConstants
<1>1. j + Ra \in Int /\ j + Rb \in Int
  OBVIOUS
<1>2. Turn(j, Ra) \in 0 .. N - 1 /\ Turn(j, Rb) \in 0 .. N - 1
  BY <1>1, Remainder DEF Turn
<1>. QED
  BY <1>2

(* What is expected depends on the inputs only. *)
LEMMA SameExpected ==
    ASSUME S!SigmaConstants, NEW sv, NEW new, \A s \in N + 1 .. 2 * N : new[s] = sv[s],
           NEW j \in 0 .. N - 1
    PROVE  /\ RotatedIn(new, Ra, j) = RotatedIn(sv, Ra, j)
           /\ RotatedIn(new, Rb, j) = RotatedIn(sv, Rb, j)
           /\ ShiftedIn(new, j) = ShiftedIn(sv, j)
           /\ MidOf(new, j) = MidOf(sv, j) /\ OutOf(new, j) = OutOf(sv, j)
<1>. N \in Nat \ {0} /\ S!MainStart = 1 /\ Ra \in Nat /\ Rb \in Nat /\ Rc \in Nat
  BY LayoutFacts DEF S!SigmaConstants
<1>1. \A i \in 0 .. N - 1 : new[S!MainStart + N + i] = sv[S!MainStart + N + i]
  OBVIOUS
<1>2. /\ RotatedIn(new, Ra, j) = RotatedIn(sv, Ra, j)
      /\ RotatedIn(new, Rb, j) = RotatedIn(sv, Rb, j)
  BY <1>1, InWord DEF RotatedIn
<1>3. ShiftedIn(new, j) = ShiftedIn(sv, j)
  BY <1>1, InWord DEF ShiftedIn
<1>4. MidOf(new, j) = MidOf(sv, j)
  BY <1>2, <1>3 DEF MidOf
<1>. QED
  BY <1>2, <1>3, <1>4 DEF OutOf

(* A component that has its inputs computes its function. *)
LEMMA RotRTurns ==
    ASSUME S!SigmaConstants, NEW sv, NEW start \in Nat, start >= 1, start + 2 * N <= 13 * N + 1, NEW r \in Nat
    PROVE  /\ \A j \in 0 .. N - 1 : S!RotR_run(sv, start, r)[start + j] = sv[start + N + Turn(j, r)]
           /\ \A s \in S!Signal \ S!Outputs(start) : S!RotR_run(sv, start, r)[s] = sv[s]
<1>. N \in Nat \ {0}
  BY DEF S!SigmaConstants
<1>1. ASSUME NEW j \in 0 .. N - 1
      PROVE  start + j \in S!Outputs(start) /\ start + j \in S!Signal /\ start + j - start = j
  BY DEF S!Outputs, S!Signal
<1>2. ASSUME NEW j \in 0 .. N - 1
      PROVE  S!RotR_run(sv, start, r)[start + j] = sv[start + N + Turn(j, r)]
  <2>1. S!RotR_run(sv, start, r)[start + j] = sv[start + N + ((start + j - start + r) % N)]
    BY <1>1 DEF S!RotR_run
  <2>. QED
    BY <1>1, <2>1 DEF Turn
<1>. QED
  BY <1>2 DEF S!RotR_run

LEMMA ShRTurns ==
    ASSUME S!SigmaConstants, NEW sv, NEW start \in Nat, start >= 1, start + 2 * N <= 13 * N + 1
    PROVE  /\ \A j \in 0 .. N - 1 :
                S!ShR_run(sv, start)[start + j] = IF j + Rc < N THEN sv[start + N + (j + Rc)] ELSE 0
           /\ \A s \in S!Signal \ S!Outputs(start) : S!ShR_run(sv, start)[s] = sv[s]
<1>. N \in Nat \ {0} /\ Rc \in Nat
  BY DEF S!SigmaConstants
<1>1. ASSUME NEW j \in 0 .. N - 1
      PROVE  start + j \in S!Outputs(start) /\ start + j \in S!Signal
  BY DEF S!Outputs, S!Signal
<1>2. ASSUME NEW j \in 0 .. N - 1
      PROVE  S!ShR_run(sv, start)[start + j] = IF j + Rc < N THEN sv[start + N + (j + Rc)] ELSE 0
  <2>1. S!ShR_run(sv, start)[start + j] =
            IF start + j - start + Rc >= N THEN 0 ELSE sv[start + j + Rc + N]
    BY <1>1, ConstantValues DEF S!ShR_run
  <2>2. start + j - start + Rc >= N <=> ~(j + Rc < N)
    OBVIOUS
  <2>3. start + j + Rc + N = start + N + (j + Rc)
    OBVIOUS
  <2>. QED
    BY <2>1, <2>2, <2>3
<1>. QED
  BY <1>2 DEF S!ShR_run

LEMMA Xor3Mixes ==
    ASSUME S!SigmaConstants, NEW sv, NEW start \in Nat, start >= 1, start + 5 * N <= 13 * N + 1
    PROVE  /\ \A j \in 0 .. N - 1 :
                LET a == sv[start + N + j]
                    b == sv[start + 2 * N + j]
                    c == sv[start + 3 * N + j]
                IN /\ S!Xor3_run(sv, start)[start + j] = S!Xor3Out(a, b, c, S!Fr_mul(b, c))
                   /\ S!Xor3_run(sv, start)[start + 4 * N + j] = S!Fr_mul(b, c)
           /\ \A s \in S!Signal \ (S!Outputs(start) \cup S!Outputs(start + 4 * N)) : S!Xor3_run(sv, start)[s] = sv[s]
<1>. N \in Nat \ {0}
  BY DEF S!SigmaConstants
<1>1. ASSUME NEW j \in 0 .. N - 1
      PROVE  /\ start + j \in S!Outputs(start) /\ start + j \in S!Signal /\ start + j - start = j
             /\ start + 4 * N + j \in S!Outputs(start + 4 * N) /\ start + 4 * N + j \in S!Signal
             /\ start + 4 * N + j \notin S!Outputs(start) /\ start + 4 * N + j - start - 4 * N = j
             /\ start + j + N = start + N + j /\ start + j + 2 * N = start + 2 * N + j
             /\ start + j + 3 * N = start + 3 * N + j
  BY DEF S!Outputs, S!Signal
<1>2. ASSUME NEW j \in 0 .. N - 1
      PROVE  LET a == sv[start + N + j]
                 b == sv[start + 2 * N + j]
                 c == sv[start + 3 * N + j]
             IN /\ S!Xor3_run(sv, start)[start + j] = S!Xor3Out(a, b, c, S!Fr_mul(b, c))
                /\ S!Xor3_run(sv, start)[start + 4 * N + j] = S!Fr_mul(b, c)
  <2>1. S!Xor3_run(sv, start)[start + j] =
            S!Xor3Out(sv[start + j + N], sv[start + j + 2 * N], sv[start + j + 3 * N],
                    S!Fr_mul(sv[start + j + 2 * N], sv[start + j + 3 * N]))
    BY <1>1 DEF S!Xor3_run
  <2>. DEFINE s == start + 4 * N + j
  <2>3. s \in S!Signal /\ s \notin S!Outputs(start) /\ s \in S!Outputs(start + 4 * N)
    BY <1>1
  <2>4. S!Xor3_run(sv, start)[s] =
            S!Fr_mul(sv[start + (s - start - 4 * N) + 2 * N], sv[start + (s - start - 4 * N) + 3 * N])
    <3>. HIDE DEF s
    <3>. QED
      BY <2>3 DEF S!Xor3_run
  <2>5. s - start - 4 * N = j
    BY <1>1
  <2>2. S!Xor3_run(sv, start)[start + 4 * N + j] = S!Fr_mul(sv[start + j + 2 * N], sv[start + j + 3 * N])
    BY <2>4, <2>5, Zenon
  <2>. QED
    BY <1>1, <2>1, <2>2
<1>. QED
  BY <1>2 DEF S!Xor3_run

LEMMA FeedValues ==
    ASSUME S!SigmaConstants, IInv, S!FeedInputs, Distributed(signalValues, k)
    PROVE  /\ Distributed(signalValues', k + 1)
           /\ k + 1 = N => Turned(signalValues')
<1>. /\ N \in Nat \ {0} /\ S!MainStart = 1 /\ S!Signal = 0 .. 13 * N
     /\ First(0) = 2 * N + 1 /\ First(1) = 4 * N + 1 /\ First(2) = 6 * N + 1 /\ First(3) = 8 * N + 1
  BY LayoutFacts
<1>1. phase = "feed" /\ k \in 0 .. N - 1 /\ signalValues \in Signals
  BY DEF S!FeedInputs, IInv, Phases
<1>2. ASSUME NEW i \in 0 .. 2 PROVE S!Start(i) = First(i) /\ S!InputCounter(i) = N - k
  BY <1>1 DEF IInv, Layout, Made, Fed, Progress, AfterFeed, S!Inputs
<1>3. /\ \A s \in 0 .. 2 * N : signalValues'[s] = signalValues[s]
      /\ signalValues' \in Signals
  BY FeedStep
<1>. DEFINE x == signalValues[S!MainStart + k + N]
            fed == [signalValues EXCEPT ![First(0) + k + N] = x,
                                        ![First(1) + k + N] = x,
                                        ![First(2) + k + N] = x]
<1>4. signalValues' = S!RunIfNeeded(2, 1, S!RunIfNeeded(1, 1, S!RunIfNeeded(0, 1, fed)))
  <2>. S!Start(0) = First(0) /\ S!Start(1) = First(1) /\ S!Start(2) = First(2)
    BY <1>2
  <2>. QED
    BY DEF S!FeedInputs
<1>. HIDE DEF x
<1>5. First(0) + k + N \in S!Signal /\ First(1) + k + N \in S!Signal /\ First(2) + k + N \in S!Signal
  BY <1>1
<1>6. /\ fed[First(0) + k + N] = x /\ fed[First(1) + k + N] = x /\ fed[First(2) + k + N] = x
      /\ \A s \in S!Signal \ {First(0) + k + N, First(1) + k + N, First(2) + k + N} : fed[s] = signalValues[s]
  BY <1>1, <1>5 DEF Signals
<1>. HIDE DEF fed
<1>7. ASSUME NEW i \in 0 .. 2, NEW j \in 0 .. k
      PROVE  fed[First(i) + N + j] = signalValues[S!MainStart + N + j]
  <2>1. CASE j = k
    <3>1. First(i) + N + j = First(i) + k + N /\ S!MainStart + N + j = S!MainStart + k + N
      BY <1>1, <2>1
    <3>2. i = 0 \/ i = 1 \/ i = 2
      OBVIOUS
    <3>3. fed[First(i) + k + N] = x
      <4>1. CASE i = 0
        BY <1>6, <4>1
      <4>2. CASE i = 1
        BY <1>6, <4>2
      <4>3. CASE i = 2
        BY <1>6, <4>3
      <4>. QED
        BY <3>2, <4>1, <4>2, <4>3
    <3>4. x = signalValues[S!MainStart + N + j]
      BY <3>1 DEF x
    <3>. QED
      BY <3>1, <3>3, <3>4, Zenon
  <2>2. CASE j # k
    <3>1. /\ First(i) + N + j \in S!Signal
          /\ First(i) + N + j \notin {First(0) + k + N, First(1) + k + N, First(2) + k + N}
      <4>. k \in Nat /\ k < N /\ j \in Nat /\ j < k
        BY <1>1, <2>2
      <4>1. i = 0 \/ i = 1 \/ i = 2
        OBVIOUS
      <4>2. CASE i = 0
        BY <4>2
      <4>3. CASE i = 1
        BY <4>3
      <4>4. CASE i = 2
        BY <4>4
      <4>. QED
        BY <4>1, <4>2, <4>3, <4>4
    <3>2. signalValues[First(i) + N + j] = signalValues[S!MainStart + N + j]
      BY <1>1, <2>2 DEF Distributed
    <3>. QED
      BY <1>6, <3>1, <3>2
  <2>. QED
    BY <2>1, <2>2
<1>8. \A j \in 0 .. k : signalValues'[S!MainStart + N + j] = signalValues[S!MainStart + N + j]
  BY <1>1, <1>3
<1>9. CASE k + 1 # N
  <2>. \A i \in 0 .. 2 : ~S!IsLast(i, 1)
    BY <1>1, <1>2, <1>9 DEF S!IsLast
  <2>. signalValues' = fed
    BY <1>4 DEF S!RunIfNeeded
  <2>1. ASSUME NEW i \in 0 .. 2, NEW j \in 0 .. (k + 1) - 1
        PROVE  signalValues'[First(i) + N + j] = signalValues'[S!MainStart + N + j]
    <3>. j \in 0 .. k
      BY <1>1
    <3>. QED
      BY <1>7, <1>8
  <2>2. Distributed(signalValues', k + 1)
    BY <2>1 DEF Distributed
  <2>. QED
    BY <1>9, <2>2
<1>10. CASE k + 1 = N
  <2>. DEFINE sv0 == S!RotR_run(fed, First(0), S!Constant(1))
              sv1 == S!RotR_run(sv0, First(1), S!Constant(4))
              sv2 == S!ShR_run(sv1, First(2))
  <2>1. \A i \in 0 .. 2 : S!IsLast(i, 1)
    BY <1>1, <1>2, <1>10 DEF S!IsLast
  <2>2. signalValues' = sv2
    BY <1>2, <1>4, <2>1 DEF S!RunIfNeeded, S!RunSubcomponent
  <2>3. S!Constant(1) = Ra /\ S!Constant(4) = Rb
    BY ConstantValues
  <2>. Ra \in Nat /\ Rb \in Nat /\ Rc \in Nat
    BY DEF S!SigmaConstants
  <2>. 0 \in 0 .. 2 /\ 1 \in 0 .. 2 /\ 2 \in 0 .. 2
    OBVIOUS
  <2>4. /\ \A j \in 0 .. N - 1 : sv0[First(0) + j] = fed[First(0) + N + Turn(j, Ra)]
        /\ \A s \in S!Signal \ S!Outputs(First(0)) : sv0[s] = fed[s]
    <3>. DEFINE start == First(0)
    <3>. start \in Nat /\ start >= 1 /\ start + 2 * N <= 13 * N + 1
      OBVIOUS
    <3>. HIDE DEF start
    <3>1. /\ \A j \in 0 .. N - 1 : S!RotR_run(fed, start, Ra)[start + j] = fed[start + N + Turn(j, Ra)]
          /\ \A s \in S!Signal \ S!Outputs(start) : S!RotR_run(fed, start, Ra)[s] = fed[s]
      BY RotRTurns
    <3>. QED
      BY <2>3, <3>1 DEF start
  <2>. HIDE DEF sv0
  <2>5. /\ \A j \in 0 .. N - 1 : sv1[First(1) + j] = sv0[First(1) + N + Turn(j, Rb)]
        /\ \A s \in S!Signal \ S!Outputs(First(1)) : sv1[s] = sv0[s]
    <3>. DEFINE start == First(1)
    <3>. start \in Nat /\ start >= 1 /\ start + 2 * N <= 13 * N + 1
      OBVIOUS
    <3>. HIDE DEF start
    <3>1. /\ \A j \in 0 .. N - 1 : S!RotR_run(sv0, start, Rb)[start + j] = sv0[start + N + Turn(j, Rb)]
          /\ \A s \in S!Signal \ S!Outputs(start) : S!RotR_run(sv0, start, Rb)[s] = sv0[s]
      BY RotRTurns
    <3>. QED
      BY <2>3, <3>1 DEF start
  <2>. HIDE DEF sv1
  <2>6. /\ \A j \in 0 .. N - 1 :
              sv2[First(2) + j] = IF j + Rc < N THEN sv1[First(2) + N + (j + Rc)] ELSE 0
        /\ \A s \in S!Signal \ S!Outputs(First(2)) : sv2[s] = sv1[s]
    <3>. DEFINE start == First(2)
    <3>. start \in Nat /\ start >= 1 /\ start + 2 * N <= 13 * N + 1
      OBVIOUS
    <3>. HIDE DEF start
    <3>1. /\ \A j \in 0 .. N - 1 :
                S!ShR_run(sv1, start)[start + j] = IF j + Rc < N THEN sv1[start + N + (j + Rc)] ELSE 0
          /\ \A s \in S!Signal \ S!Outputs(start) : S!ShR_run(sv1, start)[s] = sv1[s]
      BY ShRTurns
    <3>. QED
      BY <3>1 DEF start
  <2>. HIDE DEF sv2
  <2>7. ASSUME NEW i \in 0 .. 2, NEW j \in 0 .. N - 1
        PROVE  /\ First(i) + N + j \in S!Signal \ S!Outputs(First(0))
               /\ First(i) + N + j \in S!Signal \ S!Outputs(First(1))
               /\ First(i) + N + j \in S!Signal \ S!Outputs(First(2))
    BY DEF S!Outputs
  <2>8. ASSUME NEW j \in 0 .. N - 1
        PROVE  /\ First(0) + j \in S!Signal \ S!Outputs(First(1)) /\ First(0) + j \in S!Signal \ S!Outputs(First(2))
               /\ First(1) + j \in S!Signal \ S!Outputs(First(2))
    BY DEF S!Outputs
  <2>9. ASSUME NEW i \in 0 .. 2, NEW j \in 0 .. N - 1
        PROVE  /\ fed[First(i) + N + j] = signalValues'[S!MainStart + N + j]
               /\ sv0[First(i) + N + j] = signalValues'[S!MainStart + N + j]
               /\ sv1[First(i) + N + j] = signalValues'[S!MainStart + N + j]
               /\ sv2[First(i) + N + j] = signalValues'[S!MainStart + N + j]
    <3>. j \in 0 .. k
      BY <1>1, <1>10
    <3>1. fed[First(i) + N + j] = signalValues'[S!MainStart + N + j]
      BY <1>7, <1>8
    <3>2. sv0[First(i) + N + j] = fed[First(i) + N + j]
      BY <2>4, <2>7
    <3>3. sv1[First(i) + N + j] = sv0[First(i) + N + j]
      BY <2>5, <2>7
    <3>4. sv2[First(i) + N + j] = sv1[First(i) + N + j]
      BY <2>6, <2>7
    <3>. QED
      BY <3>1, <3>2, <3>3, <3>4
  <2>10. Distributed(signalValues', k + 1)
    BY <1>10, <2>2, <2>9 DEF Distributed
  <2>11. ASSUME NEW j \in 0 .. N - 1
         PROVE  /\ sv2[First(0) + j] = RotatedIn(signalValues', Ra, j)
                /\ sv2[First(1) + j] = RotatedIn(signalValues', Rb, j)
                /\ sv2[First(2) + j] = ShiftedIn(signalValues', j)
    <3>. Turn(j, Ra) \in 0 .. N - 1 /\ Turn(j, Rb) \in 0 .. N - 1 /\ (j + Rc < N => j + Rc \in 0 .. N - 1)
      BY InWord
    <3>1. sv2[First(0) + j] = RotatedIn(signalValues', Ra, j)
      <4>1. sv2[First(0) + j] = sv0[First(0) + j]
        BY <2>5, <2>6, <2>8
      <4>2. sv0[First(0) + j] = fed[First(0) + N + Turn(j, Ra)]
        BY <2>4
      <4>3. fed[First(0) + N + Turn(j, Ra)] = signalValues'[S!MainStart + N + Turn(j, Ra)]
        BY <2>9
      <4>. QED
        BY <4>1, <4>2, <4>3 DEF RotatedIn
    <3>2. sv2[First(1) + j] = RotatedIn(signalValues', Rb, j)
      <4>1. sv2[First(1) + j] = sv1[First(1) + j]
        BY <2>6, <2>8
      <4>2. sv1[First(1) + j] = sv0[First(1) + N + Turn(j, Rb)]
        BY <2>5
      <4>3. sv0[First(1) + N + Turn(j, Rb)] = signalValues'[S!MainStart + N + Turn(j, Rb)]
        BY <2>9
      <4>. QED
        BY <4>1, <4>2, <4>3 DEF RotatedIn
    <3>3. sv2[First(2) + j] = ShiftedIn(signalValues', j)
      <4>1. sv2[First(2) + j] = IF j + Rc < N THEN sv1[First(2) + N + (j + Rc)] ELSE 0
        BY <2>6
      <4>2. j + Rc < N => sv1[First(2) + N + (j + Rc)] = signalValues'[S!MainStart + N + (j + Rc)]
        BY <2>9
      <4>. QED
        BY <4>1, <4>2 DEF ShiftedIn
    <3>. QED
      BY <3>1, <3>2, <3>3
  <2>12. Turned(signalValues')
    BY <2>2, <2>11 DEF Turned
  <2>. QED
    BY <2>10, <2>12
<1>. QED
  BY <1>9, <1>10

LEMMA CombineValues ==
    ASSUME S!SigmaConstants, IInv, S!FeedXor3, Turned(signalValues), Gathered(signalValues, k)
    PROVE  /\ Gathered(signalValues', k + 1)
           /\ k + 1 # N => Turned(signalValues')
           /\ k + 1 = N => Mixed(signalValues')
<1>. /\ N \in Nat \ {0} /\ S!MainStart = 1 /\ S!Signal = 0 .. 13 * N
     /\ First(0) = 2 * N + 1 /\ First(1) = 4 * N + 1 /\ First(2) = 6 * N + 1 /\ First(3) = 8 * N + 1
  BY LayoutFacts
<1>1. phase = "combine" /\ k \in 0 .. N - 1 /\ signalValues \in Signals
  BY DEF S!FeedXor3, IInv, Phases
<1>2. /\ \A i \in 0 .. 3 : S!Start(i) = First(i)
      /\ S!InputCounter(3) = 3 * N - 3 * k
  BY <1>1 DEF IInv, Layout, Made, Fed, Progress, AfterFeed, S!Inputs
<1>. DEFINE f0 == First(3) + k + N
            f1 == First(3) + k + 2 * N
            f2 == First(3) + k + 3 * N
            fed == [signalValues EXCEPT ![f0] = signalValues[First(0) + k],
                                        ![f1] = signalValues[First(1) + k],
                                        ![f2] = signalValues[First(2) + k]]
            sv == signalValues
<1>3. signalValues' = S!RunIfNeeded(3, 3, fed)
  <2>. S!Start(0) = First(0) /\ S!Start(1) = First(1) /\ S!Start(2) = First(2) /\ S!Start(3) = First(3)
    BY <1>2
  <2>. QED
    BY DEF S!FeedXor3, S!Operand
<1>4. f0 \in S!Signal /\ f1 \in S!Signal /\ f2 \in S!Signal /\ f0 # f1 /\ f0 # f2 /\ f1 # f2
  BY <1>1
<1>5. /\ fed[f0] = RotatedIn(sv, Ra, k) /\ fed[f1] = RotatedIn(sv, Rb, k) /\ fed[f2] = ShiftedIn(sv, k)
      /\ \A s \in S!Signal \ {f0, f1, f2} : fed[s] = sv[s]
  <2>. HIDE DEF f0, f1, f2
  <2>1. /\ fed[f0] = signalValues[First(0) + k] /\ fed[f1] = signalValues[First(1) + k]
        /\ fed[f2] = signalValues[First(2) + k]
        /\ \A s \in S!Signal \ {f0, f1, f2} : fed[s] = sv[s]
    BY <1>1, <1>4 DEF Signals
  <2>. QED
    BY <1>1, <2>1 DEF Turned
<1>. HIDE DEF fed
<1>6. ASSUME NEW j \in 0 .. k
      PROVE  /\ fed[First(3) + N + j] = RotatedIn(sv, Ra, j)
             /\ fed[First(3) + 2 * N + j] = RotatedIn(sv, Rb, j)
             /\ fed[First(3) + 3 * N + j] = ShiftedIn(sv, j)
  <2>1. CASE j = k
    <3>. First(3) + N + j = f0 /\ First(3) + 2 * N + j = f1 /\ First(3) + 3 * N + j = f2
      BY <1>1, <2>1
    <3>. HIDE DEF f0, f1, f2
    <3>. QED
      BY <1>5, <2>1
  <2>2. CASE j # k
    <3>1. /\ First(3) + N + j \in S!Signal \ {f0, f1, f2} /\ First(3) + 2 * N + j \in S!Signal \ {f0, f1, f2}
          /\ First(3) + 3 * N + j \in S!Signal \ {f0, f1, f2}
      <4>. j \in Nat /\ j < k /\ k < N /\ k \in Nat
        BY <1>1, <2>2
      <4>1. /\ First(3) + N + j \in S!Signal /\ First(3) + N + j # f0
            /\ First(3) + N + j # f1 /\ First(3) + N + j # f2
        OBVIOUS
      <4>2. /\ First(3) + 2 * N + j \in S!Signal /\ First(3) + 2 * N + j # f0
            /\ First(3) + 2 * N + j # f1 /\ First(3) + 2 * N + j # f2
        OBVIOUS
      <4>3. /\ First(3) + 3 * N + j \in S!Signal /\ First(3) + 3 * N + j # f0
            /\ First(3) + 3 * N + j # f1 /\ First(3) + 3 * N + j # f2
        OBVIOUS
      <4>. QED
        BY <4>1, <4>2, <4>3
    <3>2. j \in 0 .. k - 1
      BY <1>1, <2>2
    <3>3. /\ sv[First(3) + N + j] = RotatedIn(sv, Ra, j)
          /\ sv[First(3) + 2 * N + j] = RotatedIn(sv, Rb, j)
          /\ sv[First(3) + 3 * N + j] = ShiftedIn(sv, j)
      BY <3>2 DEF Gathered
    <3>. QED
      BY <1>5, <3>1, <3>3
  <2>. QED
    BY <2>1, <2>2
<1>7. \A s \in N + 1 .. 2 * N : signalValues'[s] = sv[s]
  BY CombineStep
<1>8. \A j \in 0 .. N - 1 :
        /\ RotatedIn(signalValues', Ra, j) = RotatedIn(sv, Ra, j)
        /\ RotatedIn(signalValues', Rb, j) = RotatedIn(sv, Rb, j)
        /\ ShiftedIn(signalValues', j) = ShiftedIn(sv, j)
        /\ MidOf(signalValues', j) = MidOf(sv, j) /\ OutOf(signalValues', j) = OutOf(sv, j)
  <2>. DEFINE new == signalValues'
  <2>. \A s \in N + 1 .. 2 * N : new[s] = sv[s]
    BY <1>7
  <2>. HIDE DEF new, sv
  <2>1. \A j \in 0 .. N - 1 :
        /\ RotatedIn(new, Ra, j) = RotatedIn(sv, Ra, j)
        /\ RotatedIn(new, Rb, j) = RotatedIn(sv, Rb, j)
        /\ ShiftedIn(new, j) = ShiftedIn(sv, j)
        /\ MidOf(new, j) = MidOf(sv, j) /\ OutOf(new, j) = OutOf(sv, j)
    BY SameExpected
  <2>. QED
    BY <2>1 DEF new
<1>9. CASE k + 1 # N
  <2>. ~S!IsLast(3, 3)
    BY <1>1, <1>2, <1>9 DEF S!IsLast
  <2>. signalValues' = fed
    BY <1>3 DEF S!RunIfNeeded
  <2>1. ASSUME NEW j \in 0 .. (k + 1) - 1
        PROVE  /\ signalValues'[First(3) + N + j] = RotatedIn(signalValues', Ra, j)
               /\ signalValues'[First(3) + 2 * N + j] = RotatedIn(signalValues', Rb, j)
               /\ signalValues'[First(3) + 3 * N + j] = ShiftedIn(signalValues', j)
    <3>. j \in 0 .. k /\ j \in 0 .. N - 1
      BY <1>1
    <3>. QED
      BY <1>6, <1>8
  <2>2. Gathered(signalValues', k + 1)
    BY <2>1 DEF Gathered
  <2>3. ASSUME NEW j \in 0 .. N - 1
        PROVE  /\ signalValues'[First(0) + j] = sv[First(0) + j]
               /\ signalValues'[First(1) + j] = sv[First(1) + j]
               /\ signalValues'[First(2) + j] = sv[First(2) + j]
    <3>. k \in Nat /\ k < N
      BY <1>1
    <3>1. First(0) + j \in S!Signal \ {f0, f1, f2}
      OBVIOUS
    <3>2. First(1) + j \in S!Signal \ {f0, f1, f2}
      OBVIOUS
    <3>3. First(2) + j \in S!Signal \ {f0, f1, f2}
      OBVIOUS
    <3>. QED
      BY <1>5, <3>1, <3>2, <3>3
  <2>4. Turned(signalValues')
    BY <1>8, <2>3 DEF Turned
  <2>. QED
    BY <1>9, <2>2, <2>4
<1>10. CASE k + 1 = N
  <2>. DEFINE start == First(3)
              new == S!Xor3_run(fed, start)
  <2>1. S!IsLast(3, 3)
    BY <1>1, <1>2, <1>10 DEF S!IsLast
  <2>2. signalValues' = new
    BY <1>2, <1>3, <2>1 DEF S!RunIfNeeded, S!RunSubcomponent
  <2>3. start \in Nat /\ start >= 1 /\ start + 5 * N <= 13 * N + 1
    OBVIOUS
  <2>4. ASSUME NEW j \in 0 .. N - 1
        PROVE  /\ start + N + j \in S!Signal \ (S!Outputs(start) \cup S!Outputs(start + 4 * N))
               /\ start + 2 * N + j \in S!Signal \ (S!Outputs(start) \cup S!Outputs(start + 4 * N))
               /\ start + 3 * N + j \in S!Signal \ (S!Outputs(start) \cup S!Outputs(start + 4 * N))
    <3>1. start + N + j \in S!Signal \ (S!Outputs(start) \cup S!Outputs(start + 4 * N))
      BY DEF S!Outputs
    <3>2. start + 2 * N + j \in S!Signal \ (S!Outputs(start) \cup S!Outputs(start + 4 * N))
      BY DEF S!Outputs
    <3>3. start + 3 * N + j \in S!Signal \ (S!Outputs(start) \cup S!Outputs(start + 4 * N))
      BY DEF S!Outputs
    <3>. QED
      BY <3>1, <3>2, <3>3
  <2>5. ASSUME NEW j \in 0 .. N - 1
        PROVE  /\ fed[start + N + j] = RotatedIn(sv, Ra, j)
               /\ fed[start + 2 * N + j] = RotatedIn(sv, Rb, j)
               /\ fed[start + 3 * N + j] = ShiftedIn(sv, j)
    BY <1>1, <1>6, <1>10
  <2>. HIDE DEF start, sv
  <2>6. ASSUME NEW j \in 0 .. N - 1
        PROVE  /\ new[start + j] = OutOf(sv, j) /\ new[start + 4 * N + j] = MidOf(sv, j)
               /\ new[start + N + j] = RotatedIn(sv, Ra, j)
               /\ new[start + 2 * N + j] = RotatedIn(sv, Rb, j)
               /\ new[start + 3 * N + j] = ShiftedIn(sv, j)
    <3>1. /\ new[start + j] = S!Xor3Out(fed[start + N + j], fed[start + 2 * N + j], fed[start + 3 * N + j],
                                      S!Fr_mul(fed[start + 2 * N + j], fed[start + 3 * N + j]))
          /\ new[start + 4 * N + j] = S!Fr_mul(fed[start + 2 * N + j], fed[start + 3 * N + j])
      BY <2>3, Xor3Mixes
    <3>2. \A s \in S!Signal \ (S!Outputs(start) \cup S!Outputs(start + 4 * N)) : new[s] = fed[s]
      BY <2>3, Xor3Mixes
    <3>3. new[start + N + j] = fed[start + N + j] /\ new[start + 2 * N + j] = fed[start + 2 * N + j]
          /\ new[start + 3 * N + j] = fed[start + 3 * N + j]
      BY <2>4, <3>2
    <3>. HIDE DEF new
    <3>. QED
      BY <2>5, <3>1, <3>3 DEF OutOf, MidOf
  <2>. HIDE DEF new
  <2>7. Gathered(signalValues', k + 1)
    BY <1>8, <1>10, <2>2, <2>6 DEF Gathered, start
  <2>8. Mixed(signalValues')
    BY <1>8, <2>2, <2>6 DEF Mixed, start
  <2>. QED
    BY <1>10, <2>7, <2>8
<1>. QED
  BY <1>9, <1>10

LEMMA CopyValues ==
    ASSUME S!SigmaConstants, IInv, S!CopyOutput, Mixed(signalValues), Delivered(signalValues, k)
    PROVE  Mixed(signalValues') /\ Delivered(signalValues', k + 1)
<1>. /\ N \in Nat \ {0} /\ S!MainStart = 1 /\ S!Signal = 0 .. 13 * N /\ First(3) = 8 * N + 1
  BY LayoutFacts
<1>1. phase = "output" /\ k \in 0 .. N - 1 /\ signalValues \in Signals /\ S!Start(3) = First(3)
  BY DEF S!CopyOutput, IInv, Phases, Layout, Made
<1>. DEFINE sv == signalValues  new == signalValues'
<1>2. new = [sv EXCEPT ![S!MainStart + k] = sv[First(3) + k]]
  BY <1>1 DEF S!CopyOutput
<1>3. S!MainStart + k \in S!Signal
  BY <1>1
<1>4. new[S!MainStart + k] = OutOf(sv, k) /\ \A s \in S!Signal \ {S!MainStart + k} : new[s] = sv[s]
  BY <1>1, <1>2, <1>3 DEF Signals, Mixed
<1>5. \A s \in N + 1 .. 2 * N : new[s] = sv[s]
  BY CopyStep
<1>. HIDE DEF sv, new
<1>6. \A j \in 0 .. N - 1 : MidOf(new, j) = MidOf(sv, j) /\ OutOf(new, j) = OutOf(sv, j)
  BY <1>5, SameExpected
<1>7. ASSUME NEW j \in 0 .. N - 1
      PROVE  new[First(3) + j] = OutOf(new, j) /\ new[First(3) + 4 * N + j] = MidOf(new, j)
  <2>1. /\ First(3) + j \in S!Signal \ {S!MainStart + k}
        /\ First(3) + 4 * N + j \in S!Signal \ {S!MainStart + k}
    BY <1>1
  <2>2. new[First(3) + j] = sv[First(3) + j] /\ new[First(3) + 4 * N + j] = sv[First(3) + 4 * N + j]
    BY <1>4, <2>1
  <2>3. sv[First(3) + j] = OutOf(sv, j) /\ sv[First(3) + 4 * N + j] = MidOf(sv, j)
    BY DEF Mixed, sv
  <2>. QED
    BY <1>6, <2>2, <2>3
<1>8. ASSUME NEW j \in 0 .. (k + 1) - 1 PROVE new[S!MainStart + j] = OutOf(new, j)
  <2>. j \in 0 .. N - 1
    BY <1>1
  <2>1. CASE j = k
    BY <1>4, <1>6, <2>1
  <2>2. CASE j # k
    <3>1. S!MainStart + j \in S!Signal \ {S!MainStart + k} /\ j \in 0 .. k - 1
      BY <1>1, <2>2
    <3>2. sv[S!MainStart + j] = OutOf(sv, j)
      BY <3>1 DEF Delivered, sv
    <3>. QED
      BY <1>4, <1>6, <3>1, <3>2
  <2>. QED
    BY <2>1, <2>2
<1>. QED
  BY <1>7, <1>8 DEF Mixed, Delivered, new

LEMMA NextVInv == ASSUME S!SigmaConstants, IInv, VInv, S!Next PROVE VInv'
<1>. N \in Nat \ {0}
  BY LayoutFacts
<1>1. CASE S!run
  BY <1>1 DEF S!run, VInv
<1>2. CASE S!CreateSubcomponent
  <2>1. phase' = "feed" => k' = 0
    BY <1>2 DEF S!CreateSubcomponent
  <2>2. phase' \in {"create", "feed"}
    BY <1>2 DEF S!CreateSubcomponent
  <2>. QED
    BY <2>1, <2>2 DEF VInv, Distributed
<1>3. CASE S!FeedInputs
  <2>1. phase = "feed" /\ k \in 0 .. N - 1
    BY <1>3 DEF S!FeedInputs, IInv, Phases
  <2>2. Distributed(signalValues', k + 1) /\ (k + 1 = N => Turned(signalValues'))
    BY <1>3, <2>1, FeedValues DEF VInv
  <2>3. /\ k + 1 # N => phase' = "feed" /\ k' = k + 1
        /\ k + 1 = N => phase' = "combine" /\ k' = 0
    BY <1>3, <2>1 DEF S!FeedInputs, S!Loop
  <2>4. Gathered(signalValues', 0)
    BY DEF Gathered
  <2>. QED
    BY <2>2, <2>3, <2>4 DEF VInv
<1>4. CASE S!FeedXor3
  <2>1. phase = "combine" /\ k \in 0 .. N - 1
    BY <1>4 DEF S!FeedXor3, IInv, Phases
  <2>2. /\ Gathered(signalValues', k + 1)
        /\ k + 1 # N => Turned(signalValues')
        /\ k + 1 = N => Mixed(signalValues')
    BY <1>4, <2>1, CombineValues DEF VInv
  <2>3. \/ phase' = "aborted"
        \/ /\ k + 1 # N => phase' = "combine" /\ k' = k + 1
           /\ k + 1 = N => phase' = "output" /\ k' = 0
    BY <1>4, <2>1 DEF S!FeedXor3, S!Loop
  <2>4. Delivered(signalValues', 0)
    BY DEF Delivered
  <2>. QED
    BY <2>2, <2>3, <2>4 DEF VInv
<1>5. CASE S!CopyOutput
  <2>1. phase = "output" /\ k \in 0 .. N - 1
    BY <1>5 DEF S!CopyOutput, IInv, Phases
  <2>2. Mixed(signalValues') /\ Delivered(signalValues', k + 1)
    BY <1>5, <2>1, CopyValues DEF VInv
  <2>3. /\ k + 1 # N => phase' = "output" /\ k' = k + 1
        /\ k + 1 = N => phase' = "release" /\ k' = 0
    BY <1>5, <2>1 DEF S!CopyOutput, S!Loop
  <2>. QED
    BY <2>2, <2>3 DEF VInv
<1>6. CASE S!Release
  BY <1>6 DEF S!Release, VInv
<1>. QED
  BY <1>1, <1>2, <1>3, <1>4, <1>5, <1>6 DEF S!Next

-----------------------------------------------------------------------------
(* Numbers modulo the prime. *)
Equivalent(x, y) == \E q \in Int : x = y + q * Mod

(* x is the element of the field that stands for the integer u. *)
StandsFor(x, u) == x \in 0 .. Mod - 1 /\ u \in Int /\ Equivalent(x, u)

LEMMA EquivalentResults ==
    ASSUME Mod \in Nat, NEW x \in Int, NEW y \in Int, NEW u \in Int, NEW v \in Int,
           Equivalent(x, u), Equivalent(y, v)
    PROVE  Equivalent(x + y, u + v) /\ Equivalent(x - y, u - v) /\ Equivalent(x * y, u * v)
<1>1. PICK p \in Int : x = u + p * Mod
  BY DEF Equivalent
<1>2. PICK q \in Int : y = v + q * Mod
  BY DEF Equivalent
<1>3. p * Mod \in Int /\ q * Mod \in Int
  OBVIOUS
<1>4. Equivalent(x + y, u + v)
  <2>1. p + q \in Int /\ (p + q) * Mod = p * Mod + q * Mod
    OBVIOUS
  <2>2. x + y = (u + v) + (p + q) * Mod
    BY <1>1, <1>2, <1>3, <2>1
  <2>. QED
    BY <2>1, <2>2 DEF Equivalent
<1>5. Equivalent(x - y, u - v)
  <2>1. p - q \in Int /\ (p - q) * Mod = p * Mod - q * Mod
    OBVIOUS
  <2>2. x - y = (u - v) + (p - q) * Mod
    BY <1>1, <1>2, <1>3, <2>1
  <2>. QED
    BY <2>1, <2>2 DEF Equivalent
<1>6. Equivalent(x * y, u * v)
  <2>. DEFINE r == u * q + p * v + p * q * Mod
  <2>1. r \in Int
    OBVIOUS
  <2>2. (u + p * Mod) * (v + q * Mod) = u * v + r * Mod
    OBVIOUS
  <2>. HIDE DEF r
  <2>3. x * y = u * v + r * Mod
    BY <1>1, <1>2, <2>2
  <2>. QED
    BY <2>1, <2>3 DEF Equivalent
<1>. QED
  BY <1>4, <1>5, <1>6

LEMMA Residue ==
    ASSUME Mod \in Nat \ {0}, NEW x \in Int
    PROVE  StandsFor(x % Mod, x)
<1>. DEFINE q == x \div Mod
<1>1. q \in Int /\ x % Mod \in 0 .. Mod - 1 /\ x % Mod = x - Mod * q
  OBVIOUS
<1>. HIDE DEF q
<1>2. -q \in Int /\ (-q) * Mod = -(Mod * q) /\ Mod * q \in Int
  BY <1>1
<1>3. x % Mod = x + (-q) * Mod
  BY <1>1, <1>2
<1>. QED
  BY <1>1, <1>2, <1>3 DEF StandsFor, Equivalent

(* Every integer has one element that stands for it: its residue. *)
LEMMA OneElement ==
    ASSUME Mod \in Nat \ {0}, NEW x, NEW y, NEW u, StandsFor(x, u), StandsFor(y, u)
    PROVE  x = y
<1>1. x \in 0 .. Mod - 1 /\ y \in 0 .. Mod - 1 /\ u \in Int
  BY DEF StandsFor
<1>2. PICK p \in Int : x = u + p * Mod
  BY DEF StandsFor, Equivalent
<1>3. PICK q \in Int : y = u + q * Mod
  BY DEF StandsFor, Equivalent
<1>. DEFINE d == p - q
<1>4. d \in Int /\ x - y = d * Mod
  <2>1. p * Mod \in Int /\ q * Mod \in Int /\ (p - q) * Mod = p * Mod - q * Mod
    OBVIOUS
  <2>. QED
    BY <1>1, <1>2, <1>3, <2>1
<1>. HIDE DEF d
<1>5. x - y < Mod /\ x - y > -Mod
  BY <1>1
<1>6. CASE d >= 1
  <2>1. d * Mod >= Mod
    BY <1>4, <1>6
  <2>. QED
    BY <1>1, <1>4, <1>5, <2>1
<1>7. CASE d <= -1
  <2>1. d * Mod <= -Mod
    BY <1>4, <1>7
  <2>. QED
    BY <1>1, <1>4, <1>5, <2>1
<1>8. CASE d = 0
  BY <1>1, <1>4, <1>8
<1>. QED
  BY <1>4, <1>6, <1>7, <1>8

LEMMA StandsForResidue ==
    ASSUME Mod \in Nat \ {0}, NEW x, NEW u, StandsFor(x, u)
    PROVE  x = u % Mod
BY Residue, OneElement DEF StandsFor

LEMMA ResultsStandFor ==
    ASSUME Mod \in Nat \ {0}, NEW x, NEW y, NEW u, NEW v, StandsFor(x, u), StandsFor(y, v)
    PROVE  /\ StandsFor((x + y) % Mod, u + v) /\ StandsFor((x - y) % Mod, u - v)
           /\ StandsFor((x * y) % Mod, u * v)
<1>1. /\ x \in Int /\ y \in Int /\ u \in Int /\ v \in Int
      /\ Equivalent(x, u) /\ Equivalent(y, v)
  BY DEF StandsFor
<1>2. Equivalent(x + y, u + v) /\ Equivalent(x - y, u - v) /\ Equivalent(x * y, u * v)
  BY <1>1, EquivalentResults
<1>3. ASSUME NEW s \in Int, NEW t \in Int, Equivalent(s, t) PROVE StandsFor(s % Mod, t)
  <2>1. s % Mod \in 0 .. Mod - 1 /\ Equivalent(s % Mod, s)
    BY Residue DEF StandsFor
  <2>2. PICK p \in Int : s % Mod = s + p * Mod
    BY <2>1 DEF Equivalent
  <2>3. PICK q \in Int : s = t + q * Mod
    BY <1>3 DEF Equivalent
  <2>4. p * Mod \in Int /\ q * Mod \in Int /\ p + q \in Int /\ (p + q) * Mod = p * Mod + q * Mod
    OBVIOUS
  <2>5. s % Mod = t + (p + q) * Mod
    BY <2>2, <2>3, <2>4
  <2>. QED
    BY <2>1, <2>4, <2>5 DEF StandsFor, Equivalent
<1>4. x + y \in Int /\ x - y \in Int /\ x * y \in Int /\ u + v \in Int /\ u - v \in Int /\ u * v \in Int
  BY <1>1
<1>. QED
  BY <1>2, <1>3, <1>4

(* The operations of the generated code on signals that have been set. *)
LEMMA OperationsStandFor ==
    ASSUME Mod \in Nat \ {0}, NEW x, NEW y, NEW u, NEW v, StandsFor(x, u), StandsFor(y, v)
    PROVE  StandsFor(S!Fr_add(x, y), u + v) /\ StandsFor(S!Fr_sub(x, y), u - v) /\ StandsFor(S!Fr_mul(x, y), u * v)
<1>1. x # S!Unset /\ y # S!Unset
  BY DEF StandsFor, S!Unset
<1>2. S!Fr_add(x, y) = (x + y) % Mod /\ S!Fr_sub(x, y) = (x - y) % Mod /\ S!Fr_mul(x, y) = (x * y) % Mod
  BY <1>1 DEF S!Fr_add, S!Fr_sub, S!Fr_mul
<1>. QED
  BY <1>2, ResultsStandFor

LEMMA ItselfStandsFor ==
    ASSUME Mod \in Nat \ {0}, NEW x \in 0 .. Mod - 1
    PROVE  StandsFor(x, x)
<1>1. x = x + 0 * Mod /\ x \in Int
  OBVIOUS
<1>. QED
  BY <1>1 DEF StandsFor, Equivalent

(* What the exclusive or computes. *)
Polynomial(a, b, c, mid) == ((a * (((1 - 2 * b) - 2 * c) + 4 * mid) + b) + c) - 2 * mid

LEMMA Xor3StandsFor ==
    ASSUME S!SigmaConstants, NEW a, NEW b, NEW c, NEW mid, NEW m,
           StandsFor(a, a), StandsFor(b, b), StandsFor(c, c), StandsFor(mid, m)
    PROVE  StandsFor(S!Xor3Out(a, b, c, mid), Polynomial(a, b, c, m))
<1>. Mod \in Nat \ {0} /\ 8 < Mod
  BY DEF S!SigmaConstants
<1>1. StandsFor(S!Constant(3), 1) /\ StandsFor(S!Constant(6), 2) /\ StandsFor(S!Constant(7), 4)
  <2>. 1 \in 0 .. Mod - 1 /\ 2 \in 0 .. Mod - 1 /\ 4 \in 0 .. Mod - 1
    OBVIOUS
  <2>. QED
    BY ConstantValues, ItselfStandsFor
<1>. DEFINE p1 == S!Fr_mul(S!Constant(6), b)
            p2 == S!Fr_mul(S!Constant(6), c)
            p3 == S!Fr_mul(S!Constant(7), mid)
            p4 == S!Fr_sub(S!Constant(3), p1)
            p5 == S!Fr_sub(p4, p2)
            p6 == S!Fr_add(p5, p3)
            p7 == S!Fr_mul(a, p6)
            p8 == S!Fr_add(p7, b)
            p9 == S!Fr_add(p8, c)
            p10 == S!Fr_mul(S!Constant(6), mid)
<1>2. S!Xor3Out(a, b, c, mid) = S!Fr_sub(p9, p10)
  BY DEF S!Xor3Out
<1>3. /\ StandsFor(p1, 2 * b) /\ StandsFor(p2, 2 * c) /\ StandsFor(p3, 4 * m) /\ StandsFor(p10, 2 * m)
  BY <1>1, OperationsStandFor
<1>. HIDE DEF p1, p2, p3, p10
<1>4. StandsFor(p4, 1 - 2 * b)
  BY <1>1, <1>3, OperationsStandFor
<1>. HIDE DEF p4
<1>5. StandsFor(p5, (1 - 2 * b) - 2 * c)
  BY <1>3, <1>4, OperationsStandFor
<1>. HIDE DEF p5
<1>6. StandsFor(p6, ((1 - 2 * b) - 2 * c) + 4 * m)
  BY <1>3, <1>5, OperationsStandFor
<1>. HIDE DEF p6
<1>7. StandsFor(p7, a * (((1 - 2 * b) - 2 * c) + 4 * m))
  BY <1>6, OperationsStandFor
<1>. HIDE DEF p7
<1>8. StandsFor(p8, a * (((1 - 2 * b) - 2 * c) + 4 * m) + b)
  BY <1>7, OperationsStandFor
<1>. HIDE DEF p8
<1>9. StandsFor(p9, (a * (((1 - 2 * b) - 2 * c) + 4 * m) + b) + c)
  BY <1>8, OperationsStandFor
<1>. HIDE DEF p9
<1>10. StandsFor(S!Fr_sub(p9, p10), ((a * (((1 - 2 * b) - 2 * c) + 4 * m) + b) + c) - 2 * m)
  BY <1>3, <1>9, OperationsStandFor
<1>. QED
  BY <1>2, <1>10 DEF Polynomial

(* When the circuit is done, its signals hold what its source computes.      *)
LEMMA DoneValues ==
    ASSUME S!SigmaConstants, IInv, VInv, phase = "done", NEW j \in 0 .. N - 1
    PROVE  LET a == RotatedIn(signalValues, Ra, j)
               b == RotatedIn(signalValues, Rb, j)
               c == ShiftedIn(signalValues, j)
               mid == signalValues[S!MainStart + 12 * N + j]
               out == signalValues[S!MainStart + j]
           IN /\ StandsFor(a, a) /\ StandsFor(b, b) /\ StandsFor(c, c)
              /\ StandsFor(mid, b * c)
              /\ StandsFor(out, Polynomial(a, b, c, b * c))
              /\ StandsFor(out, Polynomial(a, b, c, mid))
<1>. /\ N \in Nat \ {0} /\ S!MainStart = 1 /\ S!Signal = 0 .. 13 * N /\ First(3) = 8 * N + 1
     /\ Mod \in Nat \ {0} /\ 8 < Mod /\ Rc \in Nat
  BY LayoutFacts DEF S!SigmaConstants
<1>. DEFINE a == RotatedIn(signalValues, Ra, j)
            b == RotatedIn(signalValues, Rb, j)
            c == ShiftedIn(signalValues, j)
            mid == signalValues[S!MainStart + 12 * N + j]
            out == signalValues[S!MainStart + j]
<1>1. ASSUME NEW i \in 0 .. N - 1 PROVE signalValues[S!MainStart + N + i] \in 0 .. Mod - 1
  <2>1. S!MainStart + N + i \in S!MainStart + N .. S!MainStart + N + N - 1 /\ S!MainStart + N + i \in S!Signal
    OBVIOUS
  <2>2. Written(signalValues, S!MainStart + N, N) /\ signalValues \in Signals
    BY DEF IInv, Feeding
  <2>. QED
    BY <2>1, <2>2 DEF Written, Signals, Value
<1>2. a \in 0 .. Mod - 1 /\ b \in 0 .. Mod - 1 /\ c \in 0 .. Mod - 1
  <2>1. a \in 0 .. Mod - 1 /\ b \in 0 .. Mod - 1
    BY <1>1, InWord DEF RotatedIn
  <2>2. CASE j + Rc < N
    <3>. DEFINE i == j + Rc
    <3>1. i \in 0 .. N - 1
      BY <2>2, InWord
    <3>2. c = signalValues[S!MainStart + N + i]
      BY <2>2 DEF ShiftedIn
    <3>. HIDE DEF i, c
    <3>3. c \in 0 .. Mod - 1
      BY <1>1, <3>1, <3>2
    <3>. QED
      BY <2>1, <3>3
  <2>3. CASE ~(j + Rc < N)
    <3>. c = 0
      BY <2>3 DEF ShiftedIn
    <3>. QED
      BY <2>1
  <2>. QED
    BY <2>2, <2>3
<1>3. mid = S!Fr_mul(b, c) /\ out = S!Xor3Out(a, b, c, mid)
  <2>1. Mixed(signalValues) /\ Delivered(signalValues, N)
    BY DEF VInv
  <2>2. signalValues[First(3) + 4 * N + j] = S!Fr_mul(b, c)
    BY <2>1 DEF Mixed, MidOf
  <2>3. First(3) + 4 * N + j = S!MainStart + 12 * N + j
    OBVIOUS
  <2>4. out = S!Xor3Out(a, b, c, S!Fr_mul(b, c))
    BY <2>1 DEF Delivered, OutOf, MidOf
  <2>. QED
    BY <2>2, <2>3, <2>4
<1>. HIDE DEF a, b, c, mid, out
<1>4. StandsFor(a, a) /\ StandsFor(b, b) /\ StandsFor(c, c)
  BY <1>2, ItselfStandsFor
<1>5. StandsFor(mid, b * c)
  BY <1>3, <1>4, OperationsStandFor
<1>6. StandsFor(mid, mid)
  BY <1>5, ItselfStandsFor DEF StandsFor
<1>7. StandsFor(out, Polynomial(a, b, c, b * c))
  <2>. DEFINE m == b * c
  <2>. StandsFor(mid, m)
    BY <1>5
  <2>. HIDE DEF m
  <2>1. StandsFor(out, Polynomial(a, b, c, m))
    BY <1>3, <1>4, Xor3StandsFor
  <2>. QED
    BY <2>1 DEF m
<1>8. StandsFor(out, Polynomial(a, b, c, mid))
  BY <1>3, <1>4, <1>6, Xor3StandsFor
<1>. QED
  BY <1>4, <1>5, <1>7, <1>8 DEF a, b, c, mid, out

LEMMA PolynomialIsSum ==
    ASSUME NEW a \in Int, NEW b \in Int, NEW c \in Int
    PROVE  /\ Polynomial(a, b, c, b * c) \in Int
           /\ Polynomial(a, b, c, b * c) =
                a + b + c - 2 * a * b - 2 * a * c - 2 * b * c + 4 * a * b * c
BY DEF Polynomial

LEMMA OnBits ==
    ASSUME S!SigmaConstants, NEW a \in {0, 1}, NEW b \in {0, 1}, NEW c \in {0, 1}
    PROVE  Polynomial(a, b, c, b * c) % Mod = S!Xor(S!Xor(a, b), c)
<1>. Mod \in Nat \ {0} /\ 8 < Mod /\ 0 % Mod = 0 /\ 1 % Mod = 1
  BY DEF S!SigmaConstants
<1>. DEFINE p == Polynomial(a, b, c, b * c)
<1>1. p = S!Xor(S!Xor(a, b), c) /\ S!Xor(S!Xor(a, b), c) \in {0, 1}
  <2>1. CASE a = 0 /\ b = 0
    BY <2>1 DEF Polynomial, S!Xor
  <2>2. CASE a = 0 /\ b = 1
    BY <2>2 DEF Polynomial, S!Xor
  <2>3. CASE a = 1 /\ b = 0
    BY <2>3 DEF Polynomial, S!Xor
  <2>4. CASE a = 1 /\ b = 1
    BY <2>4 DEF Polynomial, S!Xor
  <2>. QED
    BY <2>1, <2>2, <2>3, <2>4
<1>. HIDE DEF p
<1>2. p % Mod = S!Xor(S!Xor(a, b), c)
  BY <1>1
<1>. QED
  BY <1>2 DEF p

LEMMA ValuesInvariant == ASSUME S!SigmaConstants, IInv, VInv PROVE S!ComputesSigma
<1> SUFFICES ASSUME phase = "done", NEW j \in 0 .. N - 1
             PROVE  LET a == S!In((j + Ra) % N)  b == S!In((j + Rb) % N)  c == S!Shifted(j)
                    IN /\ signalValues[S!MainStart + j] =
                            (a + b + c - 2 * a * b - 2 * a * c - 2 * b * c + 4 * a * b * c) % Mod
                       /\ {a, b, c} \subseteq {0, 1} => signalValues[S!MainStart + j] = S!Xor(S!Xor(a, b), c)
  BY DEF S!ComputesSigma
<1>. DEFINE a == S!In((j + Ra) % N)  b == S!In((j + Rb) % N)  c == S!Shifted(j)  out == signalValues[S!MainStart + j]
<1>. Mod \in Nat \ {0}
  BY DEF S!SigmaConstants
<1>1. StandsFor(a, a) /\ StandsFor(b, b) /\ StandsFor(c, c) /\ StandsFor(out, Polynomial(a, b, c, b * c))
  <2>1. a = RotatedIn(signalValues, Ra, j) /\ b = RotatedIn(signalValues, Rb, j)
    BY DEF S!In, RotatedIn, Turn
  <2>2. c = ShiftedIn(signalValues, j)
    BY DEF S!Shifted, ShiftedIn, S!In
  <2>. HIDE DEF a, b, c
  <2>. QED
    BY <2>1, <2>2, DoneValues
<1>. HIDE DEF a, b, c, out
<1>2. out = Polynomial(a, b, c, b * c) % Mod
  BY <1>1, StandsForResidue
<1>3. a \in Int /\ b \in Int /\ c \in Int
  BY <1>1 DEF StandsFor
<1>4. out = (a + b + c - 2 * a * b - 2 * a * c - 2 * b * c + 4 * a * b * c) % Mod
  BY <1>2, <1>3, PolynomialIsSum
<1>5. {a, b, c} \subseteq {0, 1} => out = S!Xor(S!Xor(a, b), c)
  BY <1>2, OnBits
<1>. QED
  BY <1>4, <1>5 DEF a, b, c, out

LEMMA Computation == S!SigmaConstants => (S!Spec => []VInv)
<1> SUFFICES ASSUME S!SigmaConstants PROVE S!Spec => []VInv
  OBVIOUS
<1>1. S!Init => VInv
  BY DEF S!Init, VInv
<1>2. ASSUME IInv, VInv, [S!Next]_(S!vars) PROVE VInv'
  <2>1. CASE S!Next
    BY <1>2, <2>1, NextVInv
  <2>2. CASE UNCHANGED S!vars
    BY <1>2, <2>2 DEF S!vars, S!circuit, VInv
  <2>. QED
    BY <1>2, <2>1, <2>2
<1>3. S!Spec => [](IInv /\ InputsWritten)
  BY CircuitInvariant
<1>. QED
  BY <1>1, <1>2, <1>3, PTL DEF S!Spec

(* Type correctness of the witness computation: no signal and no component   *)
(* outside the arrays is touched, for words of any size.                     *)
THEOREM CircuitTypeCorrect == S!SigmaConstants => (S!Spec => []S!TypeOK)
<1> SUFFICES ASSUME S!SigmaConstants PROVE S!Spec => []S!TypeOK
  OBVIOUS
<1>1. IInv => S!TypeOK
  BY TypesInvariant
<1>2. S!Spec => [](IInv /\ InputsWritten)
  BY CircuitInvariant
<1>. QED
  BY <1>1, <1>2, PTL

(* Whatever the word, the rotations and the shift: a subcomponent is run     *)
(* exactly once, by the copy that sets the last of its inputs (main_c.cpp:   *)
(* 478-511, 537-566).                                                        *)
THEOREM CircuitRunOnce == S!SigmaConstants => (S!Spec => []S!RunWhenComplete)
<1> SUFFICES ASSUME S!SigmaConstants PROVE S!Spec => []S!RunWhenComplete
  OBVIOUS
<1>1. IInv => S!RunWhenComplete
  BY RunsInvariant
<1>2. S!Spec => [](IInv /\ InputsWritten)
  BY CircuitInvariant
<1>. QED
  BY <1>1, <1>2, PTL

(* Whatever the word, the rotations and the shift: nothing is computed from  *)
(* a signal nobody wrote and no assertion of the generated code fails        *)
(* (main_c.cpp:539, 551).                                                    *)
THEOREM CircuitReadsNothingUnset == S!SigmaConstants => (S!Spec => []S!NothingReadUnset)
<1> SUFFICES ASSUME S!SigmaConstants PROVE S!Spec => []S!NothingReadUnset
  OBVIOUS
<1>1. IInv => S!NothingReadUnset
  BY WrittenInvariant
<1>2. S!Spec => [](IInv /\ InputsWritten)
  BY CircuitInvariant
<1>. QED
  BY <1>1, <1>2, PTL

(* Whatever the word, the rotations, the shift and the inputs: the circuit   *)
(* computes the polynomial of its source and, on bits, the exclusive or of   *)
(* two rotations and a shift (main_c.cpp:84-603).                            *)
THEOREM CircuitComputes == S!SigmaConstants => (S!Spec => []S!ComputesSigma)
<1> SUFFICES ASSUME S!SigmaConstants PROVE S!Spec => []S!ComputesSigma
  OBVIOUS
<1>1. IInv /\ VInv => S!ComputesSigma
  BY ValuesInvariant
<1>2. (S!Spec => [](IInv /\ InputsWritten)) /\ (S!Spec => []VInv)
  BY CircuitInvariant, Computation
<1>. QED
  BY <1>1, <1>2, PTL
-----------------------------------------------------------------------------
LEMMA Constants == S!SigmaConstants /\ N \in Nat \ {0} /\ Mod \in Nat /\ 8 < Mod
BY SigmaAssumption DEF S!SigmaConstants

-----------------------------------------------------------------------------
(* The hash table.                                                           *)
LEMMA SameSets ==
    \A T : C!Cardinality(T) = Cardinality(T) /\ (C!IsFiniteSet(T) <=> IsFiniteSet(T))
BY DEF C!Cardinality, Cardinality, C!IsFiniteSet, IsFiniteSet

LEMMA Least ==
    ASSUME NEW T \in SUBSET Nat, T # {}
    PROVE  \E x \in T : \A y \in T : x <= y
<1>. DEFINE R == {ss \in Nat \X Nat : ss[1] < ss[2]}
<1>1. R = OpToRel(<, Nat)
  BY DEF OpToRel
<1>2. IsWellFoundedOn(R, Nat)
  BY <1>1, NatLessThanWellFounded
<1>. HIDE DEF R
<1>3. PICK x \in T : \A y \in T : ~(<<y, x>> \in R)
  BY <1>2, WFMin
<1>4. ASSUME NEW y \in T PROVE x <= y
  <2>1. x \in Nat /\ y \in Nat /\ <<y, x>> \in Nat \X Nat /\ <<y, x>>[1] = y /\ <<y, x>>[2] = x
    OBVIOUS
  <2>2. ~(y < x)
    BY <1>3, <2>1 DEF R
  <2>. QED
    BY <2>1, <2>2
<1>. QED
  BY <1>4

-----------------------------------------------------------------------------
(* Numbers in the input files. *)
LEMMA CountUp ==
    ASSUME NEW n \in Nat, NEW T, 0 \in T, \A i \in 1 .. n : i - 1 \in T => i \in T
    PROVE  \A i \in 0 .. n : i \in T
<1>. DEFINE rest == {i \in 0 .. n : i \notin T}
<1>1. SUFFICES ASSUME rest # {} PROVE FALSE
  OBVIOUS
<1>2. rest \in SUBSET Nat
  OBVIOUS
<1>3. PICK i \in rest : \A j \in rest : i <= j
  BY <1>1, <1>2, Least
<1>4. i \in 1 .. n /\ i \notin T
  <2>1. i # 0
    BY DEF rest
  <2>. QED
    BY <2>1
<1>5. i - 1 \in 0 .. n /\ ~(i <= i - 1)
  BY <1>4
<1>6. i - 1 \in T
  BY <1>3, <1>5
<1>. QED
  BY <1>4, <1>6

(* A loop has a state before each of its rounds. *)
IsLoop(h, n, base, round) == h[0] = base /\ \A i \in 1 .. n : h[i] = round[i][h[i - 1]]

LEMMA LoopExists ==
    ASSUME NEW n \in Nat, NEW D, NEW base \in D, NEW round \in [1 .. n -> [D -> D]]
    PROVE  \E h \in [0 .. n -> D] : IsLoop(h, n, base, round)
<1>. DEFINE Rounds(c, h) == h[0] = base /\ \A i \in 1 .. c : h[i] = round[i][h[i - 1]]
            T == {c \in 0 .. n : \E h \in [0 .. c -> D] : Rounds(c, h)}
<1>1. 0 \in T
  <2>. DEFINE h == [i \in 0 .. 0 |-> base]
  <2>1. h \in [0 .. 0 -> D] /\ h[0] = base /\ 1 .. 0 = {}
    OBVIOUS
  <2>. HIDE DEF h
  <2>. QED
    BY <2>1
<1>2. ASSUME NEW c \in 1 .. n, c - 1 \in T PROVE c \in T
  <2>1. PICK h \in [0 .. c - 1 -> D] : Rounds(c - 1, h)
    BY <1>2
  <2>. DEFINE e == [i \in 0 .. c |-> IF i = c THEN round[c][h[c - 1]] ELSE h[i]]
  <2>2. h[c - 1] \in D /\ round[c] \in [D -> D]
    OBVIOUS
  <2>3. \A i \in 0 .. c : i # c => i \in 0 .. c - 1
    OBVIOUS
  <2>4. e \in [0 .. c -> D]
    BY <2>2, <2>3
  <2>5. e[0] = base
    BY <2>1
  <2>6. ASSUME NEW i \in 1 .. c PROVE e[i] = round[i][e[i - 1]]
    <3>1. i - 1 \in 0 .. c /\ i - 1 # c /\ e[i - 1] = h[i - 1]
      OBVIOUS
    <3>2. CASE i = c
      BY <3>1, <3>2
    <3>3. CASE i # c
      <4>1. i \in 1 .. c - 1 /\ e[i] = h[i]
        BY <3>3
      <4>. QED
        BY <2>1, <3>1, <4>1
    <3>. QED
      BY <3>2, <3>3
  <2>7. Rounds(c, e)
    BY <2>5, <2>6, Zenon
  <2>. HIDE DEF e, Rounds
  <2>. QED
    BY <2>4, <2>7
<1>3. n \in T
  <2>. HIDE DEF T
  <2>1. \A i \in 1 .. n : i - 1 \in T => i \in T
    BY <1>2
  <2>2. \A i \in 0 .. n : i \in T
    BY <1>1, <2>1, CountUp
  <2>. QED
    BY <2>2
<1>. QED
  BY <1>3 DEF IsLoop

(* The numbers that the first digits denote. *)
Prefixes(digits, base, n) ==
    CHOOSE h : h = [i \in 0 .. n |-> IF i = 0 THEN 0 ELSE base * h[i - 1] + digits[i]]

LEMMA NumeralIsLast ==
    ASSUME NEW digits, NEW base
    PROVE  C!Numeral(digits, base) = Prefixes(digits, base, Len(digits))[Len(digits)]
BY DEF C!Numeral, Prefixes

LEMMA PrefixesAre ==
    ASSUME NEW n \in Nat, NEW digits, \A i \in 1 .. n : digits[i] \in Nat, NEW base \in Nat
    PROVE  /\ Prefixes(digits, base, n)[0] = 0
           /\ \A i \in 1 .. n : Prefixes(digits, base, n)[i] = base * Prefixes(digits, base, n)[i - 1] + digits[i]
           /\ \A i \in 0 .. n : Prefixes(digits, base, n)[i] \in Nat
<1>. DEFINE Body(h) == [i \in 0 .. n |-> IF i = 0 THEN 0 ELSE base * h[i - 1] + digits[i]]
            round == [i \in 1 .. n |-> [v \in Nat |-> base * v + digits[i]]]
<1>1. ASSUME NEW v \in Nat, NEW i \in 1 .. n PROVE base * v + digits[i] \in Nat
  <2>1. digits[i] \in Nat /\ base * v \in Nat
    OBVIOUS
  <2>. QED
    BY <2>1
<1>2. round \in [1 .. n -> [Nat -> Nat]] /\ 0 \in Nat
  BY <1>1
<1>. HIDE DEF round
<1>3. PICK h \in [0 .. n -> Nat] : IsLoop(h, n, 0, round)
  BY <1>2, LoopExists
<1>4. ASSUME NEW i \in 1 .. n PROVE h[i] = base * h[i - 1] + digits[i]
  <2>1. i - 1 \in 0 .. n
    OBVIOUS
  <2>2. h[i - 1] \in Nat
    BY <2>1
  <2>3. round[i][h[i - 1]] = base * h[i - 1] + digits[i]
    BY <2>2 DEF round
  <2>. QED
    BY <1>3, <2>3 DEF IsLoop
<1>5. h = Body(h)
  <2>1. ASSUME NEW i \in 0 .. n PROVE h[i] = Body(h)[i]
    <3>1. CASE i = 0
      BY <1>3, <3>1 DEF IsLoop
    <3>2. CASE i # 0
      BY <1>4, <3>2
    <3>. QED
      BY <3>1, <3>2
  <2>2. \A i \in 0 .. n : h[i] = Body(h)[i]
    BY <2>1
  <2>. QED
    BY <2>2
<1>6. Prefixes(digits, base, n) = Body(Prefixes(digits, base, n))
  BY <1>5 DEF Prefixes
<1>. DEFINE q == Prefixes(digits, base, n)
<1>. HIDE DEF q
<1>7. q[0] = 0 /\ \A i \in 1 .. n : q[i] = base * q[i - 1] + digits[i]
  <2>1. q = Body(q)
    BY <1>6 DEF q
  <2>2. Body(q)[0] = 0
    OBVIOUS
  <2>3. \A i \in 1 .. n : Body(q)[i] = base * q[i - 1] + digits[i]
    OBVIOUS
  <2>. HIDE DEF Body
  <2>. QED
    BY <2>1, <2>2, <2>3, Zenon
<1>8. \A i \in 0 .. n : q[i] \in Nat
  <2>. DEFINE T == {i \in 0 .. n : q[i] \in Nat}
  <2>1. 0 \in T
    BY <1>7
  <2>2. ASSUME NEW i \in 1 .. n, i - 1 \in T PROVE i \in T
    <3>1. q[i] = base * q[i - 1] + digits[i]
      BY <1>7
    <3>2. q[i] \in Nat
      BY <1>1, <2>2, <3>1
    <3>. QED
      BY <3>2
  <2>. HIDE DEF T
  <2>3. \A i \in 0 .. n : i \in T
    BY <2>1, <2>2, CountUp
  <2>. QED
    BY <2>3 DEF T
<1>. QED
  BY <1>7, <1>8 DEF q

(* Quotients. *)
LEMMA QuotientIs ==
    ASSUME NEW n \in Int, NEW m \in Nat \ {0}, NEW q \in Int, NEW r \in 0 .. m - 1, n = m * q + r
    PROVE  n \div m = q
<1>. DEFINE p == n \div m  s == n % m
<1>1. p \in Int /\ s \in 0 .. m - 1 /\ n = m * p + s
  OBVIOUS
<1>. HIDE DEF p, s
<1>. DEFINE d == p - q
<1>2. d \in Int /\ m * d = m * p - m * q /\ m * p \in Int /\ m * q \in Int
  BY <1>1
<1>3. m * d \in Int /\ m * d < m /\ m * d > -m
  BY <1>1, <1>2
<1>. HIDE DEF d
<1>4. CASE d >= 1
  <2>1. m * d >= m
    BY <1>2, <1>4
  <2>. QED
    BY <1>3, <2>1
<1>5. CASE d <= -1
  <2>1. m * d <= -m
    BY <1>2, <1>5
  <2>. QED
    BY <1>3, <2>1
<1>6. CASE d = 0
  BY <1>1, <1>6 DEF d, p
<1>. QED
  BY <1>2, <1>4, <1>5, <1>6

LEMMA QuotientOfQuotient ==
    ASSUME NEW n \in Int, NEW m \in Nat \ {0}, NEW w \in Nat \ {0}
    PROVE  n \div m = w * (n \div (w * m)) + ((n \div m) % w)
<1>. DEFINE q == n \div m  r == n % m  s == q \div w  t == q % w
<1>1. q \in Int /\ r \in 0 .. m - 1 /\ n = m * q + r
  OBVIOUS
<1>2. s \in Int /\ t \in 0 .. w - 1 /\ q = w * s + t
  BY <1>1
<1>. HIDE DEF q, r, s, t
<1>3. w * m \in Nat \ {0}
  <2>1. w * m \in Nat /\ w * m >= m
    OBVIOUS
  <2>. QED
    BY <2>1
<1>4. n = (w * m) * s + (m * t + r)
  <2>1. m * (w * s + t) = (w * m) * s + m * t
    BY <1>1, <1>2
  <2>2. (w * m) * s \in Int /\ m * t \in Int
    BY <1>1, <1>2
  <2>. QED
    BY <1>1, <1>2, <2>1, <2>2
<1>5. m * t + r \in 0 .. (w * m) - 1
  <2>1. m * t >= 0 /\ m * t \in Int
    BY <1>2
  <2>2. m * (t + 1) <= m * w
    BY <1>2
  <2>3. m * (t + 1) = m * t + m /\ m * w = w * m /\ w * m \in Int
    BY <1>2
  <2>. QED
    BY <1>1, <1>2, <2>1, <2>2, <2>3
<1>6. n \div (w * m) = s
  BY <1>2, <1>3, <1>4, <1>5, QuotientIs
<1>7. q = w * (n \div (w * m)) + t
  BY <1>2, <1>6
<1>. QED
  BY <1>7, Zenon DEF q, t

LEMMA Powers ==
    ASSUME NEW base \in {2, 8, 10, 16}, NEW c \in 0 .. MaxDigits
    PROVE  base ^ c \in Nat \ {0} /\ base ^ 0 = 1 /\ (c # 0 => base ^ c = base * base ^ (c - 1))
<1>1. base ^ c \in Nat \ {0} /\ base ^ 0 = 1
  BY PowersAssumption, Zenon
<1>2. ASSUME c # 0 PROVE base ^ c = base * base ^ (c - 1)
  <2>1. MaxDigits \in Nat
    BY CalcAssumption DEF C!CalcConstants, C!FilesGiven
  <2>2. c \in 1 .. MaxDigits
    BY <1>2, <2>1
  <2>. QED
    BY <2>2, PowersAssumption, Zenon
<1>. QED
  BY <1>1, <1>2

(* What the first i of a number's digits denote, ...                         *)
Front(n, base, width, i) == n \div base ^ (width - i)

LEMMA Fronts ==
    ASSUME NEW n \in Nat, NEW base \in {2, 8, 10, 16}, NEW width \in 0 .. MaxDigits, n < base ^ width
    PROVE  /\ Front(n, base, width, 0) = 0 /\ Front(n, base, width, width) = n
           /\ \A i \in 0 .. width : Front(n, base, width, i) \in Nat
           /\ \A i \in 1 .. width : Front(n, base, width, i) =
                  base * Front(n, base, width, i - 1) + (Front(n, base, width, i) % base)
<1>0. MaxDigits \in Nat
  BY CalcAssumption DEF C!CalcConstants, C!FilesGiven
<1>1. width \in Nat /\ \A i \in 0 .. width : width - i \in 0 .. MaxDigits
  BY <1>0
<1>2. \A i \in 0 .. width : base ^ (width - i) \in Nat \ {0}
  BY <1>1, Powers
<1>3. ASSUME NEW i \in 0 .. width PROVE Front(n, base, width, i) \in Nat
  <2>. DEFINE power == base ^ (width - i)
  <2>1. power \in Nat \ {0}
    BY <1>2
  <2>. HIDE DEF power
  <2>2. n \div power \in Nat
    BY <2>1
  <2>. QED
    BY <2>2 DEF power, Front
<1>4. Front(n, base, width, 0) = 0
  <2>. DEFINE power == base ^ width
  <2>1. power \in Nat \ {0} /\ n < power /\ width - 0 = width
    BY <1>1, Powers
  <2>. HIDE DEF power
  <2>2. n \in 0 .. power - 1 /\ n = power * 0 + n /\ n \in Int
    BY <2>1
  <2>3. n \div power = 0
    BY <2>1, <2>2, QuotientIs
  <2>. QED
    BY <2>1, <2>3 DEF power, Front
<1>5. Front(n, base, width, width) = n
  <2>1. width - width = 0 /\ n \div 1 = n
    BY <1>1
  <2>2. base ^ 0 = 1
    BY PowersAssumption, Zenon
  <2>. QED
    BY <2>1, <2>2, Zenon DEF Front
<1>6. ASSUME NEW i \in 1 .. width
      PROVE  Front(n, base, width, i) =
                 base * Front(n, base, width, i - 1) + (Front(n, base, width, i) % base)
  <2>. DEFINE power == base ^ (width - i)
  <2>1. power \in Nat \ {0} /\ base \in Nat \ {0} /\ n \in Int
    BY <1>2
  <2>2. base ^ (width - (i - 1)) = base * power
    <3>1. width - (i - 1) \in 0 .. MaxDigits /\ width - (i - 1) # 0 /\ (width - (i - 1)) - 1 = width - i
      BY <1>0, <1>1
    <3>. QED
      BY <3>1, Powers
  <2>. HIDE DEF power
  <2>3. n \div power = base * (n \div (base * power)) + ((n \div power) % base)
    BY <2>1, QuotientOfQuotient, Zenon
  <2>. QED
    BY <2>2, <2>3, Zenon DEF Front, power
<1>. QED
  BY <1>3, <1>4, <1>5, <1>6

(* ... which is what has been read after i steps: reading digits from left   *)
(* to right yields the number that is written with them.                     *)
LEMMA NumeralDenotes ==
    ASSUME NEW digits, NEW base \in {2, 8, 10, 16}, Len(digits) \in 0 .. MaxDigits,
           DOMAIN digits = 1 .. Len(digits), \A i \in 1 .. Len(digits) : digits[i] \in 0 .. base - 1
    PROVE  C!Numeral(digits, base) \in Nat /\ C!Numeral(digits, base) = NumberOf(digits, base)
<1>. DEFINE len == Len(digits)  p == Prefixes(digits, base, len)  v == p[len]
            Bounded == {i \in 0 .. len : p[i] < base ^ i}
<1>1. MaxDigits \in Nat
  BY CalcAssumption DEF C!CalcConstants, C!FilesGiven
<1>2. len \in Nat /\ base \in Nat /\ base > 1 /\ base # 0 /\ (\A i \in 0 .. len : i \in 0 .. MaxDigits)
      /\ \A i \in 1 .. len : i \in 0 .. len /\ i - 1 \in 0 .. len
  BY <1>1
<1>3. \A i \in 1 .. len : digits[i] \in Nat /\ digits[i] < base /\ digits[i] \in 0 .. base - 1
  BY <1>2
<1>. HIDE DEF len
<1>4. /\ p[0] = 0 /\ \A i \in 1 .. len : p[i] = base * p[i - 1] + digits[i]
      /\ \A i \in 0 .. len : p[i] \in Nat
  BY <1>2, <1>3, PrefixesAre
<1>5. C!Numeral(digits, base) = v
  BY NumeralIsLast DEF len
<1>. HIDE DEF p
<1>6. 0 \in Bounded
  <2>1. 0 \in 0 .. len
    BY <1>2
  <2>2. base ^ 0 = 1
    BY PowersAssumption, Zenon
  <2>. QED
    BY <1>4, <2>1, <2>2
<1>7. ASSUME NEW i \in 1 .. len, i - 1 \in Bounded PROVE i \in Bounded
  <2>. DEFINE power == base ^ (i - 1)  low == p[i - 1]  d == digits[i]
  <2>1. base ^ i = base * power /\ power \in Nat /\ low \in Nat /\ d \in Nat /\ d < base /\ low < power
    <3>1. i \in 0 .. MaxDigits /\ i # 0 /\ i - 1 \in 0 .. MaxDigits
      BY <1>2
    <3>. QED
      BY <1>2, <1>3, <1>4, <1>7, <3>1, Powers
  <2>2. p[i] = base * low + d
    BY <1>4
  <2>. HIDE DEF power, low, d
  <2>3. base * (low + 1) <= base * power
    BY <1>2, <2>1
  <2>4. base * (low + 1) = base * low + base /\ base * low \in Nat /\ base * power \in Nat
    BY <1>2, <2>1
  <2>5. base * low + d < base * power
    BY <1>2, <2>1, <2>3, <2>4
  <2>. QED
    BY <1>2, <2>1, <2>2, <2>5
<1>8. v \in Nat /\ v < base ^ len /\ len \in 0 .. len
  <2>1. len \in 0 .. len
    BY <1>2
  <2>2. \A i \in 0 .. len : i \in Bounded
    <3>. HIDE DEF Bounded
    <3>. QED
      BY <1>2, <1>6, <1>7, CountUp
  <2>. QED
    BY <1>4, <2>1, <2>2
<1>. HIDE DEF v, Bounded
<1>. DEFINE HasDigits(n) == \A i \in DOMAIN digits : digits[i] = (n \div base ^ (len - i)) % base
<1>9. \A n : HasDigits(n) <=> \A i \in 1 .. len : digits[i] = Front(n, base, len, i) % base
  BY DEF Front, len
<1>10. len \in 0 .. MaxDigits
  BY <1>2, <1>8
<1>11. HasDigits(v)
  <2>. DEFINE u == [i \in 0 .. len |-> Front(v, base, len, i)]
              T == {c \in 0 .. len : u[len - c] = p[len - c]}
  <2>1. /\ u[len] = v /\ \A i \in 0 .. len : u[i] \in Nat
        /\ \A i \in 1 .. len : u[i] = base * u[i - 1] + (u[i] % base)
    <3>1. /\ Front(v, base, len, len) = v /\ \A i \in 0 .. len : Front(v, base, len, i) \in Nat
          /\ \A i \in 1 .. len : Front(v, base, len, i) =
                base * Front(v, base, len, i - 1) + (Front(v, base, len, i) % base)
      <4>. HIDE DEF u, T, HasDigits
      <4>1. Front(v, base, len, len) = v /\ \A i \in 0 .. len : Front(v, base, len, i) \in Nat
        BY <1>8, <1>10, Fronts
      <4>2. \A i \in 1 .. len : Front(v, base, len, i) =
                base * Front(v, base, len, i - 1) + (Front(v, base, len, i) % base)
        BY <1>8, <1>10, Fronts
      <4>. QED
        BY <4>1, <4>2, Zenon
    <3>. QED
      BY <1>2, <1>8, <3>1
  <2>2. \A i \in 1 .. len : u[i] = Front(v, base, len, i)
    BY <1>2
  <2>. HIDE DEF u
  <2>3. ASSUME NEW i \in 1 .. len, u[i] = p[i] PROVE u[i - 1] = p[i - 1] /\ digits[i] = u[i] % base
    <3>0. \A x \in Nat : x % base \in 0 .. base - 1
      BY <1>2
    <3>. DEFINE a == u[i - 1]  b == p[i - 1]  r == u[i] % base  d == digits[i]
    <3>1. u[i] \in Nat /\ a \in Int /\ b \in Int /\ u[i] = base * a + r /\ u[i] = base * b + d
      BY <1>2, <1>4, <2>1, <2>3
    <3>2. r \in 0 .. base - 1 /\ d \in 0 .. base - 1
      BY <1>3, <3>0, <3>1, Zenon
    <3>. HIDE DEF a, b, r, d
    <3>3. u[i] \in Int /\ base \in Nat \ {0}
      BY <1>2, <3>1
    <3>4. u[i] \div base = a /\ u[i] \div base = b
      BY <3>1, <3>2, <3>3, QuotientIs
    <3>5. a = b
      BY <3>4
    <3>6. base * a \in Int /\ r \in Int /\ d \in Int
      BY <3>1, <3>2, <3>3
    <3>7. r = d
      BY <3>1, <3>5, <3>6
    <3>. QED
      BY <3>5, <3>7 DEF a, b, r, d
  <2>4. 0 \in T
    BY <1>2, <1>8, <2>1 DEF v
  <2>5. ASSUME NEW c \in 1 .. len, c - 1 \in T PROVE c \in T
    <3>1. len - (c - 1) \in 1 .. len /\ (len - (c - 1)) - 1 = len - c /\ c \in 0 .. len
      BY <1>2
    <3>2. u[len - (c - 1)] = p[len - (c - 1)]
      BY <2>5
    <3>3. u[(len - (c - 1)) - 1] = p[(len - (c - 1)) - 1]
      BY <2>3, <3>1, <3>2
    <3>. QED
      BY <3>1, <3>3
  <2>6. \A c \in 0 .. len : c \in T
    <3>. HIDE DEF T
    <3>. QED
      BY <1>2, <2>4, <2>5, CountUp
  <2>7. \A i \in 1 .. len : digits[i] = u[i] % base
    <3>1. ASSUME NEW i \in 1 .. len PROVE u[i] = p[i]
      <4>1. len - i \in 0 .. len /\ len - (len - i) = i
        BY <1>2
      <4>. QED
        BY <2>6, <4>1
    <3>. QED
      BY <2>3, <3>1
  <2>. QED
    BY <1>9, <2>2, <2>7
<1>12. ASSUME NEW n \in 0 .. base ^ len - 1, HasDigits(n) PROVE n = v
  <2>. DEFINE T == {i \in 0 .. len : Front(n, base, len, i) = p[i]}
  <2>1. n \in Nat /\ n < base ^ len
    <3>1. base ^ len \in Nat
      BY <1>10, Powers
    <3>. QED
      BY <3>1
  <2>2. /\ Front(n, base, len, 0) = 0 /\ Front(n, base, len, len) = n
        /\ \A i \in 1 .. len : Front(n, base, len, i) =
              base * Front(n, base, len, i - 1) + (Front(n, base, len, i) % base)
    <3>. HIDE DEF T, HasDigits
    <3>1. Front(n, base, len, 0) = 0 /\ Front(n, base, len, len) = n
      BY <1>10, <2>1, Fronts
    <3>2. \A i \in 1 .. len : Front(n, base, len, i) =
              base * Front(n, base, len, i - 1) + (Front(n, base, len, i) % base)
      BY <1>10, <2>1, Fronts
    <3>. QED
      BY <3>1, <3>2, Zenon
  <2>3. 0 \in T
    BY <1>2, <1>4, <2>2
  <2>4. ASSUME NEW i \in 1 .. len, i - 1 \in T PROVE i \in T
    <3>1. Front(n, base, len, i - 1) = p[i - 1] /\ i \in 0 .. len
      BY <1>2, <2>4
    <3>2. digits[i] = Front(n, base, len, i) % base
      BY <1>9, <1>12, Zenon
    <3>3. Front(n, base, len, i) = base * p[i - 1] + digits[i]
      BY <2>2, <3>1, <3>2, Zenon
    <3>4. Front(n, base, len, i) = p[i]
      BY <1>4, <3>3, Zenon
    <3>. QED
      BY <3>1, <3>4
  <2>5. \A i \in 0 .. len : i \in T
    <3>. HIDE DEF T
    <3>. QED
      BY <1>2, <2>3, <2>4, CountUp
  <2>. QED
    BY <1>8, <2>2, <2>5 DEF v
<1>13. v \in 0 .. base ^ len - 1
  <2>1. base ^ len \in Nat
    BY <1>10, Powers
  <2>. QED
    BY <1>8, <2>1
<1>14. NumberOf(digits, base) = CHOOSE n \in 0 .. base ^ len - 1 : HasDigits(n)
  BY DEF NumberOf, len
<1>15. NumberOf(digits, base) = v
  <2>. HIDE DEF HasDigits
  <2>. QED
    BY <1>11, <1>12, <1>13, <1>14, Zenon
<1>. QED
  BY <1>5, <1>8, <1>15

(* A value is converted to an element of the field, and one that a double    *)
(* holds, or a numeral, to the number it denotes.                            *)
LEMMA ElementOf ==
    ASSUME NEW v, C!IsValue(v), C!Valid(v)
    PROVE  C!Element(v) \in 0 .. Mod - 1 /\ (Plain(v) => C!Element(v) = Denoted(v) % Mod)
<1>1. Mod \in Nat \ {0} /\ C!MaxExact \in Nat
  BY CalcAssumption DEF C!CalcConstants, C!FilesGiven, C!SignalsFit
<1>2. CASE v.type = "number"
  <2>. DEFINE h == v.halves
  <2>1. h \in Int
    BY <1>2 DEF C!IsValue
  <2>. HIDE DEF h
  <2>2. C!Rounded(h, 2) \in Int /\ C!Rounded(h, 4) \in Int
    BY <2>1 DEF C!Rounded
  <2>3. C!ThroughDouble(h) \in Int
    BY <2>2 DEF C!ThroughDouble
  <2>4. C!Element(v) = C!ThroughDouble(h) % Mod
    BY <1>2 DEF C!Element, h
  <2>5. C!Element(v) \in 0 .. Mod - 1
    BY <1>1, <2>3, <2>4
  <2>6. ASSUME Plain(v) PROVE C!Element(v) = Denoted(v) % Mod
    <3>1. h % 2 = 0 /\ h \in -2 * C!MaxExact .. 2 * C!MaxExact
      BY <1>2, <2>6 DEF Plain, h
    <3>2. C!Rounded(h, 2) = h \div 2
      BY <2>1, <3>1 DEF C!Rounded
    <3>3. C!ThroughDouble(h) = h \div 2
      BY <3>1, <3>2 DEF C!ThroughDouble
    <3>. QED
      BY <1>2, <2>4, <3>3 DEF h, Denoted
  <2>. QED
    BY <2>5, <2>6
<1>3. CASE v.type # "number"
  <2>. DEFINE digits == v.digits  base == BaseMeant(v.prefix)
  <2>1. v.type = "string" /\ C!check_valid_number(v.digits, C!Base(v.prefix))
    BY <1>3 DEF C!Valid
  <2>2. /\ v.prefix \in {"none", "0b", "0o", "0x"} /\ Len(digits) \in Nat /\ Len(digits) <= MaxDigits
        /\ DOMAIN digits = 1 .. Len(digits) /\ \A i \in DOMAIN digits : digits[i] \in Nat
    BY <2>1 DEF C!IsValue, C!IsSequence
  <2>3. C!Base(v.prefix) = base /\ base \in {2, 8, 10, 16}
    BY <2>2 DEF C!Base, BaseMeant
  <2>4. MaxDigits \in Nat
    BY CalcAssumption DEF C!CalcConstants, C!FilesGiven
  <2>. HIDE DEF base, digits
  <2>5. \A i \in 1 .. Len(digits) : digits[i] < base
    BY <2>1, <2>2, <2>3 DEF C!check_valid_number, digits
  <2>6. Len(digits) \in 0 .. MaxDigits /\ \A i \in 1 .. Len(digits) : digits[i] \in 0 .. base - 1
    BY <2>2, <2>3, <2>4, <2>5
  <2>7. C!Numeral(digits, base) \in Nat /\ C!Numeral(digits, base) = NumberOf(digits, base)
    BY <2>2, <2>3, <2>6, NumeralDenotes
  <2>8. C!Element(v) = C!Numeral(digits, base) % Mod /\ Denoted(v) = NumberOf(digits, base)
    BY <1>3, <2>3 DEF C!Element, Denoted, digits, base
  <2>. QED
    BY <1>1, <2>7, <2>8
<1>. QED
  BY <1>2, <1>3

-----------------------------------------------------------------------------
(* Positions in the hash table. *)

(* The position that is found is one of the table, never the memory behind   *)
(* it.                                                                       *)
LEMMA PositionInTable ==
    ASSUME table \in Table, beyond \in {C!Free, Foreign},
           NEW h \in Nat, h # C!Free, h # Foreign, C!getInputSignalHashPosition(h) # C!NotFound
    PROVE  C!getInputSignalHashPosition(h) \in DOMAIN table
<1>. DEFINE n == C!TableSize
            p == h % n
            stops == {j \in 1 .. n - 1 : C!HashAt(C!Probe(p, j)) \in {h, C!Free}}
            m == C!Min(stops)
<1>1. n \in Nat \ {0} /\ DOMAIN table = 0 .. n - 1
  <2>1. IsFiniteSet(DOMAIN table) /\ DOMAIN table # {} /\ DOMAIN table = 0 .. Cardinality(DOMAIN table) - 1
    <3>1. C!TablesFit
      BY CalcAssumption DEF C!CalcConstants
    <3>. QED
      BY <3>1, SameSets DEF C!TablesFit
  <2>2. Cardinality(DOMAIN table) \in Nat
    BY <2>1, FS_CardinalityType
  <2>3. n = Cardinality(DOMAIN table)
    BY SameSets DEF C!TableSize
  <2>. HIDE DEF n
  <2>4. n \in Nat /\ DOMAIN table = 0 .. n - 1
    BY <2>1, <2>2, <2>3
  <2>5. n # 0
    BY <2>1, <2>4
  <2>. QED
    BY <2>4, <2>5
<1>. HIDE DEF n
<1>2. p \in 0 .. n - 1
  BY <1>1
<1>. HIDE DEF p
<1>3. C!HashAt(n) # h
  BY DEF C!HashAt, n
<1>4. CASE C!HashAt(p) = h
  BY <1>1, <1>2, <1>4 DEF C!getInputSignalHashPosition, p, n
<1>5. CASE C!HashAt(p) # h
  <2>1. stops # {} /\ C!HashAt(C!Probe(p, m)) = h /\ C!getInputSignalHashPosition(h) = C!Probe(p, m)
    BY <1>5 DEF C!getInputSignalHashPosition, p, n
  <2>2. stops \in SUBSET Nat /\ stops \subseteq 1 .. n - 1
    BY <1>1
  <2>. HIDE DEF stops
  <2>3. m \in stops
    BY <2>1, <2>2, Least DEF C!Min
  <2>. HIDE DEF m
  <2>4. m \in 1 .. n - 1
    BY <2>2, <2>3
  <2>5. C!Probe(p, m) \in 0 .. n
    <3>1. (p + m) % n \in 0 .. n - 1
      BY <1>1, <1>2, <2>4
    <3>. QED
      BY <1>1, <1>2, <2>4, <3>1 DEF C!Probe, n
  <2>6. C!Probe(p, m) # n
    BY <1>3, <2>1
  <2>. QED
    BY <1>1, <2>1, <2>5, <2>6
<1>. QED
  BY <1>4, <1>5

-----------------------------------------------------------------------------
Inputs == N + 1 .. 2 * N
AllAssigned == inputSignalAssigned = Inputs

(* The driver: where it is in the file, and what it has counted.             *)
Arguments ==
    /\ json \in Json /\ table \in Table /\ beyond \in {C!Free, Foreign}
    /\ item \in Nat \ {0} /\ index \in Nat \ {0}
    /\ step \in {"start", "items", "values", "circuit", "done", "threw", "aborted", "crashed"}

Counted ==
    /\ inputSignalAssigned \subseteq Inputs
    /\ inputSignalAssignedCounter = N - Cardinality(inputSignalAssigned)
    /\ \A s \in inputSignalAssigned : signalValues[s] # -1

(* The head of the loop has found the item's signal and valid values. *)
Ready ==
    /\ item <= Len(json)
    /\ \A j \in DOMAIN C!Values(item) : C!Valid(C!Values(item)[j])
    /\ C!Position(item) \in DOMAIN table
Checked ==
    /\ step = "values" => Ready
    /\ step = "circuit" /\ Len(json) # 0 => Ready

(* The circuit runs on all inputs, and nothing is assigned while it does. *)
Complete == (step = "circuit" => AllAssigned) /\ (phase # "idle" => AllAssigned)

WInv == Arguments /\ Counted /\ Checked /\ Complete /\ IInv

LEMMA AllCounted ==
    ASSUME Counted
    PROVE  /\ AllAssigned <=> inputSignalAssignedCounter = 0
           /\ inputSignalAssignedCounter \in Nat
<1>. N \in Nat \ {0}
  BY Constants
<1>1. IsFiniteSet(Inputs) /\ Cardinality(Inputs) = N
  <2>1. IsFiniteSet(N + 1 .. 2 * N) /\ Cardinality(N + 1 .. 2 * N) = IF N + 1 > 2 * N THEN 0 ELSE 2 * N - (N + 1) + 1
    BY FS_Interval
  <2>. QED
    BY <2>1 DEF Inputs
<1>2. /\ Cardinality(inputSignalAssigned) <= N
      /\ Cardinality(inputSignalAssigned) = N => AllAssigned
  BY <1>1, FS_Subset DEF Counted, AllAssigned
<1>3. Cardinality(inputSignalAssigned) \in Nat
  BY <1>1, FS_Subset, FS_CardinalityType DEF Counted
<1>4. AllAssigned => Cardinality(inputSignalAssigned) = N
  BY <1>1 DEF AllAssigned
<1>. QED
  BY <1>2, <1>3, <1>4 DEF Counted

LEMMA InitWInv == Init => WInv
<1> SUFFICES ASSUME Init PROVE WInv
  OBVIOUS
<1>. N \in Nat \ {0} /\ S!SigmaConstants /\ Mod \in Nat /\ 8 < Mod
  BY Constants
<1>1. C!Init /\ S!Init
  BY DEF Init
<1>2. Arguments
  BY <1>1 DEF C!Init, Arguments
<1>3. Counted
  BY <1>1, FS_EmptySet DEF C!Init, Counted
<1>4. Checked /\ Complete
  BY <1>1 DEF C!Init, S!Init, Checked, Complete
<1>5. signalValues \in Signals
  BY <1>1 DEF C!Init, C!Signal, Signals, S!Signal, Value, S!Unset
<1>6. IInv
  BY <1>1, <1>5, InitIInv
<1>. QED
  BY <1>2, <1>3, <1>4, <1>6 DEF WInv

(* A value goes to an input signal that has none yet.                        *)
LEMMA SetStep ==
    ASSUME WInv, C!setInputSignal
    PROVE  /\ phase = "idle"
           /\ C!Target(item, index) \in Inputs \ inputSignalAssigned
           /\ C!Element(C!Values(item)[index]) \in 0 .. Mod - 1
<1>. N \in Nat \ {0}
  BY Constants
<1>1. step = "values" /\ index \in Nat \ {0} /\ index <= Len(C!Values(item)) /\ ~C!Rejected(item, index)
  BY DEF C!setInputSignal, WInv, Arguments
<1>2. Ready /\ json \in Json /\ table \in Table /\ item \in Nat \ {0}
  BY <1>1 DEF WInv, Checked, Arguments
<1>3. phase = "idle"
  BY <1>1, AllCounted DEF WInv, Complete, C!Rejected
<1>4. /\ inputSignalAssignedCounter # 0
      /\ ~(index > table[C!Position(item)].signalsize)
      /\ C!Target(item, index) \notin inputSignalAssigned
  BY <1>1 DEF C!Rejected
<1>5. C!Target(item, index) \in Inputs
  <2>. DEFINE e == table[C!Position(item)]
  <2>1. /\ e.signalid \in Nat /\ e.signalsize \in Nat
        /\ e.signalid >= N + 1 /\ e.signalid + e.signalsize <= N + 1 + N
    <3>1. C!TablesFit
      BY CalcAssumption DEF C!CalcConstants
    <3>. QED
      BY <1>2, <3>1 DEF C!TablesFit, Ready
  <2>2. C!Target(item, index) = e.signalid + index - 1
    BY DEF C!Target
  <2>. HIDE DEF e
  <2>3. index <= e.signalsize
    BY <1>1, <1>4, <2>1 DEF e
  <2>. QED
    BY <1>1, <2>1, <2>2, <2>3 DEF Inputs
<1>6. C!Element(C!Values(item)[index]) \in 0 .. Mod - 1
  <2>1. C!FilesGiven
    BY CalcAssumption DEF C!CalcConstants
  <2>2. C!IsSequence(json)
    BY <1>2, <2>1 DEF C!FilesGiven
  <2>3. item \in DOMAIN json
    BY <1>2, <2>2 DEF C!IsSequence, Ready
  <2>4. /\ C!IsSequence(C!Values(item))
        /\ \A j \in DOMAIN C!Values(item) : C!IsValue(C!Values(item)[j])
    BY <1>2, <2>1, <2>3 DEF C!FilesGiven, C!Values
  <2>5. index \in DOMAIN C!Values(item)
    BY <1>1, <2>4 DEF C!IsSequence
  <2>6. C!IsValue(C!Values(item)[index]) /\ C!Valid(C!Values(item)[index])
    BY <1>2, <2>4, <2>5 DEF Ready
  <2>. QED
    BY <2>6, ElementOf
<1>. QED
  BY <1>3, <1>4, <1>5, <1>6

(* The head of the loop over the items: what it lets through is ready.       *)
LEMMA ReadyAfterHead ==
    ASSUME WInv, C!NextItem, step' = "values"
    PROVE  Ready'
<1>. /\ step = "items" /\ item <= Len(json) /\ UNCHANGED <<json, table, beyond, item>>
     /\ json \in Json /\ table \in Table /\ beyond \in {C!Free, Foreign} /\ item \in Nat \ {0}
  BY DEF C!NextItem, WInv, Arguments
<1>1. /\ \A j \in DOMAIN C!Values(item) : C!Valid(C!Values(item)[j])
      /\ C!Position(item) # C!NotFound
  BY DEF C!NextItem
<1>2. C!Position(item) \in DOMAIN table
  <2>1. C!FilesGiven /\ C!HashesGiven
    BY CalcAssumption DEF C!CalcConstants
  <2>2. json[item].key \in Key
    BY <2>1 DEF C!FilesGiven, C!IsSequence
  <2>3. Hash[json[item].key] \in Nat /\ Hash[json[item].key] \notin {C!Free, Foreign}
    BY <2>1, <2>2 DEF C!HashesGiven
  <2>. DEFINE h == Hash[json[item].key]
  <2>4. C!Position(item) = C!getInputSignalHashPosition(h)
    BY DEF C!Position, C!Key_
  <2>5. h \in Nat /\ h # C!Free /\ h # Foreign
    BY <2>3
  <2>. HIDE DEF h
  <2>. QED
    BY <1>1, <2>4, <2>5, PositionInTable
<1>. DEFINE v == C!Values(item)  p == C!Position(item)
<1>3. v' = v /\ p' = p
  BY DEF C!Values, C!Position, C!Key_, C!getInputSignalHashPosition, C!HashAt, C!Probe, C!TableSize
<1>. QED
  BY <1>1, <1>2, <1>3 DEF Ready

LEMMA SameReady ==
    ASSUME UNCHANGED <<json, table, beyond, item>>, Ready
    PROVE  Ready'
<1>. DEFINE v == C!Values(item)  p == C!Position(item)
<1>1. v' = v /\ p' = p
  BY DEF C!Values, C!Position, C!Key_, C!getInputSignalHashPosition, C!HashAt, C!Probe, C!TableSize
<1>. QED
  BY <1>1 DEF Ready

LEMMA NextWInv == WInv /\ [Next]_vars => WInv'
<1> SUFFICES ASSUME WInv, [Next]_vars PROVE WInv'
  OBVIOUS
<1>. N \in Nat \ {0} /\ S!SigmaConstants /\ Mod \in Nat /\ 8 < Mod
  BY Constants
<1>0. UNCHANGED <<signalValues, circuit>> => IInv'
  BY SameIInv DEF WInv, circuit, S!vars, S!circuit
<1>1. CASE Load /\ ~C!setInputSignal
  <2>1. /\ UNCHANGED <<json, table, beyond, inputSignalAssigned, inputSignalAssignedCounter, signalValues, circuit>>
    BY <1>1 DEF Load, C!Load, C!LoadEmpty, C!LoadItems, C!NextItem, C!AbortInSet, C!EndOfItem, C!writeBinWitness
  <2>2. Arguments'
    BY <1>1 DEF Load, C!Load, C!LoadEmpty, C!LoadItems, C!NextItem, C!AbortInSet, C!EndOfItem, C!writeBinWitness,
        WInv, Arguments, C!TryRunCircuit, C!Following
  <2>3. Counted'
    BY <2>1 DEF WInv, Counted
  <2>4. /\ step' = "values" => C!NextItem
        /\ step' = "circuit" => C!LoadEmpty /\ inputSignalAssignedCounter = 0 /\ Len(json)' = 0
    BY <1>1 DEF Load, C!Load, C!LoadEmpty, C!LoadItems, C!NextItem, C!AbortInSet, C!EndOfItem, C!writeBinWitness,
        C!TryRunCircuit
  <2>5. Checked'
    BY <2>4, ReadyAfterHead DEF Checked
  <2>6. Complete'
    <3>1. phase' = phase /\ (AllAssigned' <=> AllAssigned)
      BY <2>1 DEF circuit, AllAssigned
    <3>. QED
      BY <2>4, <3>1, AllCounted DEF WInv, Complete
  <2>. QED
    BY <1>0, <2>1, <2>2, <2>3, <2>5, <2>6 DEF WInv
<1>2. CASE C!setInputSignal /\ UNCHANGED circuit
  <2>. DEFINE s0 == C!Target(item, index)  x == C!Element(C!Values(item)[index])
  <2>1. phase = "idle" /\ s0 \in Inputs \ inputSignalAssigned /\ x \in 0 .. Mod - 1
    BY <1>2, SetStep
  <2>2. /\ step = "values" /\ index' = index + 1
        /\ signalValues' = [signalValues EXCEPT ![s0] = x]
        /\ inputSignalAssigned' = inputSignalAssigned \cup {s0}
        /\ inputSignalAssignedCounter' = inputSignalAssignedCounter - 1
        /\ step' = IF inputSignalAssignedCounter' = 0 THEN "circuit" ELSE "values"
        /\ UNCHANGED <<json, table, beyond, item>>
    BY <1>2 DEF C!setInputSignal, C!TryRunCircuit
  <2>3. signalValues \in Signals
    BY DEF WInv, IInv
  <2>. HIDE DEF s0, x
  <2>4. Arguments'
    BY <2>2 DEF WInv, Arguments
  <2>5. /\ signalValues' \in Signals /\ signalValues'[s0] = x /\ x # -1
        /\ \A s \in Inputs \ {s0} : signalValues'[s] = signalValues[s]
    <3>1. s0 \in S!Signal /\ Inputs \subseteq S!Signal
      BY <2>1 DEF Inputs, S!Signal
    <3>2. x \in Value /\ x # -1
      BY <2>1 DEF Value
    <3>. QED
      BY <2>1, <2>2, <2>3, <3>1, <3>2 DEF Signals
  <2>6. Counted'
    <3>1. inputSignalAssigned' \subseteq Inputs
      BY <2>1, <2>2 DEF WInv, Counted
    <3>2. IsFiniteSet(inputSignalAssigned) /\ Cardinality(inputSignalAssigned) \in Nat
      <4>. IsFiniteSet(Inputs)
        BY FS_Interval DEF Inputs
      <4>. QED
        BY FS_Subset, FS_CardinalityType DEF WInv, Counted
    <3>3. Cardinality(inputSignalAssigned') = Cardinality(inputSignalAssigned) + 1
      BY <2>1, <2>2, <3>2, FS_AddElement
    <3>4. \A s \in inputSignalAssigned' : signalValues'[s] # -1
      BY <2>1, <2>2, <2>5 DEF WInv, Counted
    <3>. QED
      BY <2>2, <3>1, <3>2, <3>3, <3>4 DEF WInv, Counted
  <2>7. Ready'
    BY <2>2, SameReady DEF WInv, Checked
  <2>8. Checked'
    BY <2>7 DEF Checked
  <2>9. Complete'
    <3>1. AllAssigned' <=> inputSignalAssignedCounter' = 0
      <4>1. IsFiniteSet(Inputs) /\ Cardinality(Inputs) = N
        <5>1. IsFiniteSet(N + 1 .. 2 * N)
                /\ Cardinality(N + 1 .. 2 * N) = IF N + 1 > 2 * N THEN 0 ELSE 2 * N - (N + 1) + 1
          BY FS_Interval
        <5>. QED
          BY <5>1 DEF Inputs
      <4>2. /\ Cardinality(inputSignalAssigned') \in Nat
            /\ Cardinality(inputSignalAssigned') = N => AllAssigned'
        BY <2>6, <4>1, FS_Subset, FS_CardinalityType DEF Counted, AllAssigned
      <4>3. AllAssigned' => Cardinality(inputSignalAssigned') = N
        BY <4>1 DEF AllAssigned
      <4>. QED
        BY <2>6, <4>2, <4>3 DEF Counted
    <3>2. phase' = "idle"
      BY <1>2, <2>1 DEF circuit
    <3>. QED
      BY <2>2, <3>1, <3>2 DEF Complete
  <2>10. IInv'
    <3>. IInv
      BY DEF WInv
    <3>. UNCHANGED S!circuit
      BY <1>2 DEF circuit, S!circuit
    <3>. QED
      BY <2>1, <2>5, IdleIInv
  <2>. QED
    BY <2>4, <2>6, <2>8, <2>9, <2>10 DEF WInv
<1>3. CASE Compute
  <2>1. step = "circuit" /\ S!Next /\ UNCHANGED calc
    BY <1>3 DEF Compute
  <2>2. AllAssigned
    BY <2>1 DEF WInv, Complete
  <2>3. IInv /\ S!Next
    BY <2>1 DEF WInv
  <2>4. InputsWritten
    <3>1. \A s \in Inputs : signalValues[s] # -1
      BY <2>2 DEF AllAssigned, WInv, Counted
    <3>. QED
      BY <3>1, InputsAreSet DEF S!InputSignals, S!MainStart, S!Unset, Inputs
  <2>5. IInv'
    BY <2>3, <2>4, NextIInv
  <2>6. \A s \in Inputs : signalValues'[s] = signalValues[s]
    BY <2>3, InputsKept DEF S!InputSignals, S!MainStart, Inputs
  <2>7. /\ UNCHANGED <<json, table, beyond, item, index, step, inputSignalAssigned, inputSignalAssignedCounter>>
    BY <2>1 DEF calc
  <2>8. Arguments' /\ Counted' /\ Complete'
    BY <2>2, <2>6, <2>7 DEF WInv, Arguments, Counted, Complete, AllAssigned
  <2>9. Checked'
    BY <2>1, <2>7, SameReady DEF WInv, Checked
  <2>. QED
    BY <2>5, <2>8, <2>9 DEF WInv
<1>4. CASE Return
  <2>1. /\ step = "circuit" /\ step' = IF Len(json) = 0 THEN "items" ELSE "values"
        /\ UNCHANGED <<json, table, beyond, item, index, inputSignalAssigned, inputSignalAssignedCounter,
                       signalValues, circuit>>
    BY <1>4 DEF Return, C!Return
  <2>2. Arguments' /\ Counted'
    BY <2>1 DEF WInv, Arguments, Counted
  <2>3. Complete'
    BY <2>1 DEF WInv, Complete, AllAssigned, circuit
  <2>4. Checked'
    BY <2>1, SameReady DEF WInv, Checked
  <2>. QED
    BY <1>0, <2>1, <2>2, <2>3, <2>4 DEF WInv
<1>5. CASE UNCHANGED vars
  <2>1. UNCHANGED <<json, table, beyond, item, index, step, inputSignalAssigned, inputSignalAssignedCounter,
                    signalValues, circuit>>
    BY <1>5 DEF vars, calc
  <2>2. Arguments' /\ Counted' /\ Complete'
    BY <2>1 DEF WInv, Arguments, Counted, Complete, AllAssigned, circuit
  <2>3. Checked'
    BY <2>1, SameReady DEF WInv, Checked
  <2>. QED
    BY <1>0, <2>1, <2>2, <2>3 DEF WInv
<1>. QED
  BY <1>1, <1>2, <1>3, <1>4, <1>5 DEF Next, Load

LEMMA Invariant == Spec => []WInv
BY InitWInv, NextWInv, PTL DEF Spec

-----------------------------------------------------------------------------
(* The circuit is run once, and only when every input signal has been set,   *)
(* for all files, hash tables and word sizes (calcwit.cpp:70-96,             *)
(* main.cpp:170-192).                                                        *)
THEOREM RunsOnAll == Spec => []RunsOnAllInputs
<1>1. ASSUME WInv PROVE RunsOnAllInputs
  <2> SUFFICES ASSUME phase # "idle"
               PROVE  /\ inputSignalAssigned = S!InputSignals
                      /\ \A s \in S!InputSignals : S!IsSet(s)
                      /\ ran[0] = 1
    BY DEF RunsOnAllInputs
  <2>. N \in Nat \ {0}
    BY Constants
  <2>1. S!InputSignals = Inputs
    BY DEF S!InputSignals, S!MainStart, Inputs
  <2>2. inputSignalAssigned = Inputs
    BY <1>1 DEF WInv, Complete, AllAssigned
  <2>3. \A s \in Inputs : S!IsSet(s)
    BY <1>1, <2>2 DEF WInv, Counted, S!IsSet, S!Unset
  <2>4. ran[0] = 1
    BY <1>1 DEF WInv, IInv, Runs
  <2>. QED
    BY <2>1, <2>2, <2>3, <2>4
<1>. QED
  BY <1>1, Invariant, PTL

(* Once the circuit runs, no input signal changes any more: not by the       *)
(* driver, whose loops go on when the circuit has returned, and not by the   *)
(* circuit, which copies inputs to its components (calcwit.cpp:78-96,        *)
(* main_c.cpp:478-566).                                                      *)
THEOREM NoneIsSetLater == Spec => InputsFrozen
<1>1. ASSUME WInv, [Next]_vars
      PROVE  [phase # "idle" => \A s \in S!InputSignals : signalValues'[s] = signalValues[s]]_vars
  <2> SUFFICES ASSUME Next, phase # "idle", NEW s \in S!InputSignals
               PROVE  signalValues'[s] = signalValues[s]
    BY <1>1
  <2>1. CASE Load
    <3>1. ~C!setInputSignal
      BY <1>1, SetStep
    <3>. QED
      BY <2>1, <3>1 DEF Load, C!Load, C!LoadEmpty, C!LoadItems, C!NextItem, C!AbortInSet, C!EndOfItem, C!writeBinWitness
  <2>2. CASE Compute
    <3>. S!SigmaConstants /\ IInv /\ S!Next /\ s \in S!InputSignals
      BY <1>1, <2>2, Constants DEF Compute, WInv
    <3>. QED
      BY InputsKept
  <2>3. CASE Return
    BY <2>3 DEF Return, C!Return
  <2>. QED
    BY <2>1, <2>2, <2>3 DEF Next
<1>. QED
  BY <1>1, Invariant, PTL DEF Spec, InputsFrozen

(* Inside the whole program, too, a component is run once and by the copy    *)
(* that sets the last of its inputs (main_c.cpp:478-511, 537-566).           *)
THEOREM RunOnce == Spec => []RunWhenComplete
<1>1. ASSUME WInv PROVE RunWhenComplete
  BY <1>1, Constants, RunsInvariant DEF WInv, RunWhenComplete
<1>. QED
  BY <1>1, Invariant, PTL

(* The program computes nothing from a signal nobody wrote, and no assertion *)
(* of the generated code fails (main_c.cpp:375-603).                         *)
THEOREM NoReadUnset == Spec => []NothingReadUnset
<1>1. ASSUME WInv PROVE NothingReadUnset
  BY <1>1, Constants, WrittenInvariant DEF WInv, NothingReadUnset
<1>. QED
  BY <1>1, Invariant, PTL

-----------------------------------------------------------------------------
Bounded == item <= Len(json) + 1

LEMMA BoundedInvariant == Spec => []Bounded
<1>1. ASSUME json \in Json PROVE Len(json) \in Nat
  BY <1>1, CalcAssumption DEF C!CalcConstants, C!FilesGiven, C!IsSequence
<1>2. Init => Bounded
  BY <1>1 DEF Init, C!Init, Bounded
<1>3. ASSUME WInv, Bounded, [Next]_vars PROVE Bounded'
  <2>1. CASE C!EndOfItem
    BY <1>1, <1>3, <2>1 DEF C!EndOfItem, C!Following, WInv, Checked, Ready, Arguments, Bounded
  <2>2. CASE ~C!EndOfItem
    <3>. UNCHANGED <<json, item>>
      BY <1>3, <2>2 DEF Next, vars, calc, Load, Compute, Return, C!Return, C!Load, C!LoadEmpty, C!LoadItems,
        C!NextItem, C!setInputSignal, C!AbortInSet, C!writeBinWitness
    <3>. QED
      BY <1>3 DEF Bounded
  <2>. QED
    BY <2>1, <2>2
<1>. QED
  BY <1>2, <1>3, Invariant, PTL DEF Spec

(* Type correctness of the whole program: what the driver has counted agrees *)
(* with what it has marked, and no signal outside the array is touched.      *)
THEOREM TypeCorrect == Spec => []TypeOK
<1>1. ASSUME WInv, Bounded PROVE TypeOK
  <2>1. json \in Json /\ Len(json) \in Nat
    BY <1>1, CalcAssumption DEF C!CalcConstants, C!FilesGiven, C!IsSequence, WInv, Arguments
  <2>2. item \in 1 .. Len(json) + 1
    BY <1>1, <2>1 DEF WInv, Arguments, Bounded
  <2>3. S!InputSignals = Inputs
    BY Constants DEF S!InputSignals, S!MainStart, Inputs
  <2>4. S!TypeOK
    BY <1>1, Constants, TypesInvariant DEF WInv
  <2>. QED
    BY <1>1, <2>2, <2>3, <2>4 DEF TypeOK, WInv, Arguments, Counted
<1>. QED
  BY <1>1, Invariant, BoundedInvariant, PTL

-----------------------------------------------------------------------------
(* From the inputs to the witness file.                                      *)
LEMMA ConstantKept ==
    ASSUME S!SigmaConstants, IInv, S!Next
    PROVE  signalValues'[0] = signalValues[0]
<1>. N \in Nat \ {0} /\ S!MainStart = 1 /\ 0 \in 0 .. 2 * N
  BY LayoutFacts
<1>1. CASE S!FeedInputs
  BY <1>1, FeedStep
<1>2. CASE S!FeedXor3
  BY <1>2, CombineStep
<1>3. CASE S!CopyOutput
  <2>1. S!MainStart + k # 0
    BY <1>3 DEF S!CopyOutput, IInv, Phases
  <2>2. signalValues \in Signals /\ 0 \in S!Signal
    BY DEF IInv, S!Signal
  <2>. QED
    BY <1>3, <2>1, <2>2 DEF S!CopyOutput, Signals
<1>4. CASE S!run \/ S!CreateSubcomponent \/ S!Release
  BY <1>4 DEF S!run, S!CreateSubcomponent, S!Release
<1>. QED
  BY <1>1, <1>2, <1>3, <1>4 DEF S!Next

(* The circuit has control from the last input on until it is done; what has *)
(* been written is the witness of the signals as they are.                   *)
Controlled == AllAssigned => step = "circuit" \/ phase = "done"
AtEnd(where) == where \in {"done", "crashed"}
Witnessed ==
    /\ AtEnd(step) => AllAssigned
    /\ WholeWitness => wtns = [i \in DOMAIN witness2SignalList |-> signalValues[witness2SignalList[i]]]
ResultInv == VInv /\ signalValues[0] = 1 /\ Controlled /\ Witnessed

LEMMA InitResultInv == Init => ResultInv
<1> SUFFICES ASSUME Init PROVE ResultInv
  OBVIOUS
<1>. N \in Nat \ {0}
  BY Constants
<1>1. C!Init /\ S!Init
  BY DEF Init
<1>2. VInv
  BY <1>1 DEF S!Init, VInv
<1>3. signalValues[0] = 1
  <2>. 0 \in C!Signal
    BY DEF C!Signal
  <2>. QED
    BY <1>1 DEF C!Init
<1>4. ~AllAssigned
  <2>. N + 1 \in Inputs
    BY DEF Inputs
  <2>. QED
    BY <1>1 DEF C!Init, AllAssigned
<1>. QED
  BY <1>1, <1>2, <1>3, <1>4 DEF C!Init, ResultInv, Controlled, Witnessed, AtEnd, WholeWitness

LEMMA NextResultInv == WInv /\ ResultInv /\ [Next]_vars => ResultInv'
<1> SUFFICES ASSUME WInv, ResultInv, [Next]_vars PROVE ResultInv'
  OBVIOUS
<1>. N \in Nat \ {0} /\ S!SigmaConstants
  BY Constants
<1>0. ASSUME UNCHANGED <<signalValues, circuit>> PROVE VInv' /\ signalValues'[0] = 1
  BY <1>0 DEF ResultInv, VInv, circuit
<1>1. CASE Load /\ ~C!setInputSignal
  <2>1. UNCHANGED <<inputSignalAssigned, inputSignalAssignedCounter, signalValues, circuit>>
    BY <1>1 DEF Load, C!Load, C!LoadEmpty, C!LoadItems, C!NextItem, C!AbortInSet, C!EndOfItem, C!writeBinWitness
  <2>2. step # "circuit" /\ ~AtEnd(step)
    BY <1>1 DEF Load, C!Load, C!LoadEmpty, C!LoadItems, C!NextItem, C!AbortInSet, C!EndOfItem, C!writeBinWitness,
        AtEnd
  <2>3. Controlled'
    BY <2>1, <2>2 DEF ResultInv, Controlled, AllAssigned, circuit
  <2>4. Witnessed'
    <3>1. AtEnd(step') => C!writeBinWitness /\ C!Complete
      BY <1>1 DEF Load, C!Load, C!LoadEmpty, C!LoadItems, C!NextItem, C!AbortInSet, C!EndOfItem, C!TryRunCircuit,
        C!writeBinWitness, AtEnd
    <3>2. inputSignalAssignedCounter = 0 => AllAssigned'
      BY <2>1, AllCounted DEF WInv, AllAssigned
    <3>3. ASSUME C!writeBinWitness, C!Complete, DOMAIN wtns' = DOMAIN witness2SignalList
          PROVE  wtns' = [i \in DOMAIN witness2SignalList |-> signalValues[witness2SignalList[i]]]
      <4>. PICK n \in {0} \cup DOMAIN witness2SignalList :
              wtns' = [i \in 1 .. n |-> signalValues[witness2SignalList[i]]]
        BY <3>3 DEF C!writeBinWitness
      <4>. DOMAIN wtns' = 1 .. n
        OBVIOUS
      <4>. QED
        BY <3>3
    <3>4. WholeWitness' => AtEnd(step') /\ DOMAIN wtns' = DOMAIN witness2SignalList
      BY DEF WholeWitness, AtEnd
    <3>. QED
      BY <2>1, <3>1, <3>2, <3>3, <3>4 DEF Witnessed, C!Complete
  <2>. QED
    BY <1>0, <2>1, <2>3, <2>4 DEF ResultInv
<1>2. CASE C!setInputSignal /\ UNCHANGED circuit
  <2>. DEFINE s0 == C!Target(item, index)  x == C!Element(C!Values(item)[index])
  <2>1. phase = "idle" /\ s0 \in Inputs
    BY <1>2, SetStep
  <2>2. /\ signalValues' = [signalValues EXCEPT ![s0] = x]
        /\ step' = IF inputSignalAssignedCounter' = 0 THEN "circuit" ELSE "values"
        /\ UNCHANGED <<componentMemory, phase, k, released, ran>>
    BY <1>2 DEF C!setInputSignal, C!TryRunCircuit, circuit
  <2>. HIDE DEF s0, x
  <2>3. VInv'
    BY <2>1, <2>2 DEF VInv
  <2>4. signalValues'[0] = 1
    <3>1. signalValues \in Signals /\ 0 \in S!Signal
      BY DEF WInv, IInv, S!Signal
    <3>2. s0 # 0
      BY <2>1 DEF Inputs
    <3>. QED
      BY <2>2, <3>1, <3>2 DEF ResultInv, Signals
  <2>5. AllAssigned' => inputSignalAssignedCounter' = 0
    <3>1. WInv'
      BY NextWInv
    <3>2. inputSignalAssignedCounter' = N - Cardinality(inputSignalAssigned')
      BY <3>1 DEF WInv, Counted
    <3>3. Cardinality(Inputs) = N
      <4>1. Cardinality(N + 1 .. 2 * N) = IF N + 1 > 2 * N THEN 0 ELSE 2 * N - (N + 1) + 1
        BY FS_Interval
      <4>. QED
        BY <4>1 DEF Inputs
    <3>. QED
      BY <3>2, <3>3 DEF AllAssigned
  <2>. QED
    BY <2>2, <2>3, <2>4, <2>5 DEF ResultInv, Controlled, Witnessed, WholeWitness, AtEnd
<1>3. CASE Compute
  <2>1. step = "circuit" /\ S!Next /\ UNCHANGED calc
    BY <1>3 DEF Compute
  <2>2. VInv'
    BY <2>1, NextVInv DEF WInv, ResultInv
  <2>3. signalValues'[0] = 1
    BY <2>1, ConstantKept DEF WInv, ResultInv
  <2>4. step' = "circuit"
    BY <2>1 DEF calc
  <2>. QED
    BY <2>2, <2>3, <2>4 DEF ResultInv, Controlled, Witnessed, WholeWitness, AtEnd
<1>4. CASE Return
  <2>1. /\ phase = "done" /\ ~AtEnd(step')
        /\ UNCHANGED <<signalValues, circuit>>
    BY <1>4 DEF Return, C!Return, AtEnd
  <2>2. phase' = "done"
    BY <2>1 DEF circuit
  <2>. QED
    BY <1>0, <2>1, <2>2 DEF ResultInv, Controlled, Witnessed, WholeWitness, AtEnd
<1>5. CASE UNCHANGED vars
  <2>1. UNCHANGED <<step, inputSignalAssigned, wtns, signalValues, circuit>>
    BY <1>5 DEF vars, calc
  <2>2. Controlled' /\ Witnessed'
    BY <2>1 DEF ResultInv, Controlled, Witnessed, AllAssigned, WholeWitness, circuit
  <2>. QED
    BY <1>0, <2>1, <2>2 DEF ResultInv
<1>. QED
  BY <1>1, <1>2, <1>3, <1>4, <1>5 DEF Next, Load

LEMMA ResultInvariant == Spec => []ResultInv
<1>1. WInv /\ ResultInv /\ [Next]_vars => ResultInv'
  BY NextResultInv
<1>. QED
  BY <1>1, InitResultInv, Invariant, PTL DEF Spec

(* For all files and hash tables, words, rotations and shifts: the circuit   *)
(* computes the polynomial of its source and, on bits, the exclusive or of   *)
(* two rotations and a shift (main_c.cpp:84-603).                            *)
THEOREM Computes == Spec => []ComputesSigma
<1>1. ASSUME WInv, ResultInv PROVE ComputesSigma
  BY <1>1, Constants, ValuesInvariant DEF WInv, ResultInv, ComputesSigma
<1>. QED
  BY <1>1, Invariant, ResultInvariant, PTL

-----------------------------------------------------------------------------
(* What stands at each position of the witness. *)
LEMMA WitnessAt ==
    ASSUME Witnessed, WholeWitness, NEW i \in 0 .. WitnessNo - 1
    PROVE  Wire(i) = signalValues[IF i <= 2 * N THEN i ELSE MidStart + (i - 2 * N - 1)]
<1>. N \in Nat \ {0} /\ Rc \in Nat /\ Rc <= N
  BY Constants, ShiftAssumption DEF S!SigmaConstants
<1>1. i + 1 \in 1 .. WitnessNo
  BY DEF WitnessNo
<1>2. DOMAIN witness2SignalList = 1 .. WitnessNo
  BY DEF witness2SignalList
<1>3. Wire(i) = signalValues[witness2SignalList[i + 1]]
  BY <1>1, <1>2 DEF Witnessed, Wire
<1>4. witness2SignalList[i + 1] = IF i + 1 <= 2 * N + 1 THEN i + 1 - 1 ELSE MidStart + (i + 1 - 2 * N - 2)
  BY <1>1 DEF witness2SignalList
<1>5. i + 1 - 1 = i /\ i + 1 - 2 * N - 2 = i - 2 * N - 1 /\ (i + 1 <= 2 * N + 1 <=> i <= 2 * N)
  OBVIOUS
<1>6. witness2SignalList[i + 1] = IF i <= 2 * N THEN i ELSE MidStart + (i - 2 * N - 1)
  BY <1>4, <1>5, Zenon
<1>. QED
  BY <1>3, <1>6, Zenon

(* The wires of the constraint system are the signals of the circuit. *)
LEMMA WiresAreSignals ==
    ASSUME Witnessed, WholeWitness, NEW j \in 0 .. N - 1
    PROVE  /\ Wire(0) = signalValues[0]
           /\ OutWire(j) = signalValues[S!MainStart + j]
           /\ InWire(j) = signalValues[S!MainStart + N + j]
           /\ j < N - Rc => MidWire(j) = signalValues[S!MainStart + 12 * N + j]
<1>. N \in Nat \ {0} /\ Rc \in Nat /\ Rc <= N /\ S!MainStart = 1
  BY Constants, ShiftAssumption DEF S!SigmaConstants, S!MainStart
<1>0. WitnessNo = 1 + 2 * N + (N - Rc) /\ MidStart = 1 + 12 * N
  BY DEF WitnessNo, MidStart
<1>1. Wire(0) = signalValues[0]
  <2>. 0 \in 0 .. WitnessNo - 1 /\ 0 <= 2 * N
    BY <1>0
  <2>. QED
    BY WitnessAt
<1>2. OutWire(j) = signalValues[S!MainStart + j]
  <2>. DEFINE i == 1 + j
  <2>1. i \in 0 .. WitnessNo - 1 /\ i <= 2 * N
    BY <1>0
  <2>2. OutWire(j) = Wire(i)
    BY DEF OutWire
  <2>. HIDE DEF i
  <2>3. Wire(i) = signalValues[i]
    BY <2>1, WitnessAt
  <2>. QED
    BY <2>2, <2>3 DEF i
<1>3. InWire(j) = signalValues[S!MainStart + N + j]
  <2>. DEFINE i == 1 + N + j
  <2>1. i \in 0 .. WitnessNo - 1 /\ i <= 2 * N
    BY <1>0
  <2>2. InWire(j) = Wire(i)
    BY DEF InWire
  <2>. HIDE DEF i
  <2>3. Wire(i) = signalValues[i]
    BY <2>1, WitnessAt
  <2>. QED
    BY <2>2, <2>3 DEF i
<1>4. ASSUME j < N - Rc PROVE MidWire(j) = signalValues[S!MainStart + 12 * N + j]
  <2>. DEFINE i == 1 + 2 * N + j
  <2>1. i \in 0 .. WitnessNo - 1 /\ ~(i <= 2 * N) /\ MidStart + (i - 2 * N - 1) = S!MainStart + 12 * N + j
    BY <1>0, <1>4
  <2>2. MidWire(j) = Wire(i)
    BY <1>4 DEF MidWire
  <2>. HIDE DEF i
  <2>3. Wire(i) = signalValues[MidStart + (i - 2 * N - 1)]
    BY <2>1, WitnessAt
  <2>. QED
    BY <2>1, <2>2, <2>3, Zenon
<1>. QED
  BY <1>1, <1>2, <1>3, <1>4

LEMMA EquivalentCongruent ==
    ASSUME Mod \in Nat \ {0}, NEW x \in Int, NEW y \in Int, Equivalent(x, y)
    PROVE  Congruent(x, y) /\ Congruent(y, x)
<1>1. PICK q \in Int : x = y + q * Mod
  BY DEF Equivalent
<1>2. q * Mod \in Int /\ (-q) * Mod = -(q * Mod) /\ -q \in Int
  OBVIOUS
<1>3. x - y = q * Mod /\ y - x = (-q) * Mod
  BY <1>1, <1>2
<1>4. ASSUME NEW p \in Int PROVE (p * Mod) % Mod = 0
  OBVIOUS
<1>. QED
  BY <1>2, <1>3, <1>4 DEF Congruent

(* The equation of the exclusive or, from what its output stands for. *)
LEMMA Xor3Equation ==
    ASSUME Mod \in Nat \ {0}, NEW a \in Int, NEW b \in Int, NEW c \in Int, NEW m \in Int, NEW out \in Int,
           Equivalent(out, Polynomial(a, b, c, m))
    PROVE  Congruent(a * (2 * b + 2 * c - 4 * m - 1), b + c - 2 * m - out)
<1>1. PICK q \in Int : out = Polynomial(a, b, c, m) + q * Mod
  BY DEF Equivalent
<1>. DEFINE e == 2 * b + 2 * c - 4 * m - 1
            x == a * e
            y == b + c - 2 * m - out
<1>2. e \in Int /\ x \in Int /\ y \in Int /\ q * Mod \in Int
  OBVIOUS
<1>3. Polynomial(a, b, c, m) = ((a * (-e) + b) + c) - 2 * m
  <2>1. ((1 - 2 * b) - 2 * c) + 4 * m = -e
    OBVIOUS
  <2>. QED
    BY <2>1 DEF Polynomial
<1>4. a * (-e) = -x
  OBVIOUS
<1>5. x = y + q * Mod
  <2>. HIDE DEF e, x
  <2>1. out = ((-x + b) + c) - 2 * m + q * Mod
    BY <1>1, <1>3, <1>4
  <2>. QED
    BY <1>2, <2>1
<1>. HIDE DEF e, x, y
<1>6. Equivalent(x, y)
  BY <1>5 DEF Equivalent
<1>7. Congruent(x, y)
  BY <1>2, <1>6, EquivalentCongruent
<1>. QED
  BY <1>7 DEF e, x, y

(* For all files and hash tables, words, rotations and shifts: a witness that *)
(* is written whole solves the constraint system of the circuit, which knows wires  *)
(* only, those of removed signals replaced (main.cpp:202-287, main_c.cpp:     *)
(* 297-603 against constraints.json).                                         *)
THEOREM SolvesConstraintsOfSource == Spec => []WitnessSolvesConstraints
<1>1. ASSUME WInv, ResultInv, WholeWitness PROVE SolvesConstraints
  <2>. /\ N \in Nat \ {0} /\ Mod \in Nat \ {0} /\ S!SigmaConstants
       /\ Rc \in Nat /\ Rc <= N /\ S!MainStart = 1
    BY Constants, ShiftAssumption DEF S!SigmaConstants, S!MainStart
  <2>1. IInv /\ VInv /\ Witnessed /\ signalValues[0] = 1 /\ phase = "done"
    BY <1>1 DEF WInv, ResultInv, Witnessed, Controlled, WholeWitness, AtEnd
  <2>2. Wire(0) = 1
    <3>. 0 \in 0 .. N - 1
      OBVIOUS
    <3>. QED
      BY <1>1, <2>1, WiresAreSignals
  <2>3. ASSUME NEW j \in 0 .. N - 1
        PROVE  LET a == InWire((j + Ra) % N)
                   b == InWire((j + Rb) % N)
                   c == ShiftedWire(j)
               IN /\ j < N - Rc => Congruent(b * c, MidWire(j))
                  /\ Congruent(a * (2 * b + 2 * c - 4 * MidWire(j) - 1), b + c - 2 * MidWire(j) - OutWire(j))
    <3>. DEFINE a == InWire((j + Ra) % N)  b == InWire((j + Rb) % N)  c == ShiftedWire(j)
                mid == signalValues[S!MainStart + 12 * N + j]
                out == OutWire(j)
    <3>1. a = RotatedIn(signalValues, Ra, j) /\ b = RotatedIn(signalValues, Rb, j)
      <4>1. (j + Ra) % N \in 0 .. N - 1 /\ (j + Rb) % N \in 0 .. N - 1
        BY InWord DEF Turn
      <4>. QED
        BY <1>1, <2>1, <4>1, WiresAreSignals DEF RotatedIn, Turn
    <3>2. c = ShiftedIn(signalValues, j)
      <4>1. CASE j < N - Rc
        <5>. DEFINE i == j + Rc
        <5>1. i \in 0 .. N - 1 /\ j + Rc < N
          BY <4>1, <2>1, Constants DEF S!SigmaConstants
        <5>2. c = InWire(i) /\ ShiftedIn(signalValues, j) = signalValues[S!MainStart + N + i]
          BY <4>1, <5>1 DEF ShiftedWire, ShiftedIn
        <5>. HIDE DEF i, c
        <5>. QED
          BY <1>1, <2>1, <5>1, <5>2, WiresAreSignals
      <4>2. CASE ~(j < N - Rc)
        <5>1. ~(j + Rc < N)
          BY <4>2, Constants DEF S!SigmaConstants
        <5>. QED
          BY <4>2, <5>1 DEF ShiftedWire, ShiftedIn
      <4>. QED
        BY <4>1, <4>2
    <3>3. out = signalValues[S!MainStart + j] /\ (j < N - Rc => MidWire(j) = mid)
      BY <1>1, <2>1, WiresAreSignals
    <3>. HIDE DEF a, b, c, out, mid
    <3>4. /\ StandsFor(a, a) /\ StandsFor(b, b) /\ StandsFor(c, c) /\ StandsFor(mid, b * c)
          /\ StandsFor(out, Polynomial(a, b, c, b * c)) /\ StandsFor(out, Polynomial(a, b, c, mid))
      BY <2>1, <3>1, <3>2, <3>3, DoneValues DEF mid
    <3>5. a \in Int /\ b \in Int /\ c \in Int /\ mid \in Int /\ out \in Int /\ b * c \in Int
      BY <3>4 DEF StandsFor
    <3>6. CASE j < N - Rc
      <4>1. Congruent(b * c, mid)
        BY <3>4, <3>5, EquivalentCongruent DEF StandsFor
      <4>2. Congruent(a * (2 * b + 2 * c - 4 * mid - 1), b + c - 2 * mid - out)
        BY <3>4, <3>5, Xor3Equation DEF StandsFor
      <4>3. MidWire(j) = mid
        BY <3>3, <3>6
      <4>. QED
        BY <4>1, <4>2, <4>3 DEF a, b, c, out
    <3>7. CASE ~(j < N - Rc)
      <4>1. c = 0 /\ MidWire(j) = 0
        BY <3>7 DEF c, ShiftedWire, MidWire
      <4>2. b * c = 0
        BY <3>5, <4>1
      <4>3. Equivalent(out, Polynomial(a, b, c, 0))
        BY <3>4, <4>2, Zenon DEF StandsFor
      <4>4. Congruent(a * (2 * b + 2 * c - 4 * 0 - 1), b + c - 2 * 0 - out)
        BY <3>5, <4>3, Xor3Equation
      <4>. QED
        BY <3>7, <4>1, <4>4 DEF a, b, c, out
    <3>. QED
      BY <3>6, <3>7
  <2>. QED
    BY <2>2, <2>3 DEF SolvesConstraints
<1>. QED
  BY <1>1, Invariant, ResultInvariant, PTL DEF WitnessSolvesConstraints

-----------------------------------------------------------------------------
(* Which values of the file stand in which signals. *)
Target(pl) == C!Target(pl[1], pl[2])
Processed ==
    {pl \in Places : pl[1] < item \/ (pl[1] = item /\ pl[2] < index /\ step \notin {"start", "items"})}
ValueAt(pl) == C!Values(pl[1])[pl[2]]

PlacedAt(pl) ==
    /\ C!Position(pl[1]) \in DOMAIN table
    /\ C!Valid(ValueAt(pl))
    /\ signalValues[Target(pl)] = C!Element(ValueAt(pl))

(* Each value that has been processed has a signal of its own; nothing else  *)
(* has been assigned, and at the end no value is left.                       *)
PlacedInv ==
    /\ inputSignalAssigned = {Target(pl) : pl \in Processed}
    /\ \A pl, other \in Processed : Target(pl) = Target(other) => pl = other
    /\ \A pl \in Processed : PlacedAt(pl)
    /\ AtEnd(step) => item > Len(json)

LEMMA FileFacts ==
    ASSUME json \in Json
    PROVE  /\ Len(json) \in Nat /\ DOMAIN json = 1 .. Len(json)
           /\ \A i \in DOMAIN json :
                /\ json[i].key \in Key
                /\ Len(C!Values(i)) \in Nat /\ DOMAIN C!Values(i) = 1 .. Len(C!Values(i))
BY CalcAssumption DEF C!CalcConstants, C!FilesGiven, C!IsSequence, C!Values

LEMMA TableFacts ==
    ASSUME table \in Table
    PROVE  /\ C!TableSize \in Nat \ {0} /\ DOMAIN table = 0 .. C!TableSize - 1
           /\ C!TableSize = Cardinality(DOMAIN table)
           /\ \A p \in DOMAIN table :
                /\ table[p].hash \in Nat /\ table[p].signalid \in Nat /\ table[p].signalsize \in Nat
                /\ table[p].signalid >= N + 1
                /\ table[p].signalid + table[p].signalsize <= 2 * N + 1
<1>. N \in Nat \ {0}
  BY Constants
<1>. DEFINE n == C!TableSize
<1>0. C!TablesFit
  BY CalcAssumption DEF C!CalcConstants
<1>1. /\ IsFiniteSet(DOMAIN table) /\ DOMAIN table # {} /\ DOMAIN table = 0 .. Cardinality(DOMAIN table) - 1
  BY <1>0, SameSets DEF C!TablesFit
<1>2. Cardinality(DOMAIN table) \in Nat
  BY <1>1, FS_CardinalityType
<1>3. n = Cardinality(DOMAIN table)
  BY SameSets DEF C!TableSize
<1>. HIDE DEF n
<1>4. n \in Nat /\ DOMAIN table = 0 .. n - 1
  BY <1>1, <1>2, <1>3
<1>5. n # 0
  BY <1>1, <1>4
<1>6. ASSUME NEW p \in DOMAIN table
      PROVE  /\ table[p].hash \in Nat /\ table[p].signalid \in Nat /\ table[p].signalsize \in Nat
             /\ table[p].signalid >= N + 1
             /\ table[p].signalid + table[p].signalsize <= 2 * N + 1
  <2>1. table[p].signalid + table[p].signalsize <= N + 1 + N
    BY <1>0 DEF C!TablesFit
  <2>2. /\ table[p].hash \in Nat /\ table[p].signalid \in Nat /\ table[p].signalsize \in Nat
        /\ table[p].signalid >= N + 1
    BY <1>0 DEF C!TablesFit
  <2>. QED
    BY <2>1, <2>2
<1>. QED
  BY <1>3, <1>4, <1>5, <1>6 DEF n

LEMMA HashFacts ==
    ASSUME json \in Json, NEW i \in DOMAIN json
    PROVE  LET h == Hash[json[i].key]
           IN h \in Nat /\ h # C!Free /\ h # Foreign /\ C!Position(i) = C!getInputSignalHashPosition(h)
<1>1. Hash[json[i].key] \in Nat /\ Hash[json[i].key] \notin {C!Free, Foreign}
  <2>1. C!HashesGiven
    BY CalcAssumption DEF C!CalcConstants
  <2>. QED
    BY <2>1, FileFacts DEF C!HashesGiven
<1>. QED
  BY <1>1 DEF C!Position, C!Key_

(* The slot that is found holds the hash. *)
LEMMA PositionHolds ==
    ASSUME table \in Table, beyond \in {C!Free, Foreign},
           NEW h \in Nat, h # C!Free, h # Foreign, C!getInputSignalHashPosition(h) # C!NotFound
    PROVE  table[C!getInputSignalHashPosition(h)].hash = h
<1>. DEFINE pos == C!getInputSignalHashPosition(h)
<1>1. pos \in DOMAIN table
  BY PositionInTable
<1>2. C!HashAt(pos) = h
  BY DEF C!getInputSignalHashPosition
<1>3. pos # C!TableSize
  BY <1>1, TableFacts
<1>. HIDE DEF pos
<1>4. table[pos].hash = h
  BY <1>2, <1>3 DEF C!HashAt
<1>. QED
  BY <1>4 DEF pos

(* No two slots of a table have the hash of a name. *)
LEMMA StoredAtPosition ==
    ASSUME json \in Json, table \in Table, beyond \in {C!Free, Foreign},
           NEW i \in DOMAIN json, C!Position(i) \in DOMAIN table
    PROVE  Stored(i) = {C!Position(i)}
<1>. DEFINE h == Hash[json[i].key]  p == C!Position(i)
<1>1. h \in Nat /\ h # C!Free /\ h # Foreign /\ p = C!getInputSignalHashPosition(h)
  BY HashFacts
<1>2. p # C!NotFound
  BY TableFacts DEF C!NotFound
<1>3. table[p].hash = h
  <2>. HIDE DEF h, p
  <2>. QED
    BY <1>1, <1>2, PositionHolds
<1>4. \A q \in DOMAIN table : table[q].hash = h => q = p
  BY <1>1, <1>3, TableAssumption
<1>. QED
  BY <1>3, <1>4 DEF Stored

(* The place of a value whose signal exists. *)
LEMMA PlaceFacts ==
    ASSUME NEW pl \in Places, json \in Json
    PROVE  /\ pl = <<pl[1], pl[2]>>
           /\ pl[1] \in DOMAIN json /\ pl[1] \in Nat \ {0} /\ pl[1] <= Len(json)
           /\ pl[2] \in 1 .. N /\ pl[2] \in Nat \ {0} /\ pl[2] <= Len(C!Values(pl[1]))
<1>. N \in Nat
  BY Constants
<1>1. pl \in (DOMAIN json) \X (1 .. N) /\ pl[2] <= Len(C!Values(pl[1]))
  BY DEF Places
<1>2. pl = <<pl[1], pl[2]>> /\ pl[1] \in DOMAIN json /\ pl[2] \in 1 .. N
  BY <1>1
<1>. QED
  BY <1>1, <1>2, FileFacts

LEMMA SameArguments ==
    ASSUME UNCHANGED <<json, table, beyond>>
    PROVE  /\ Places' = Places
           /\ \A i : C!Position(i)' = C!Position(i) /\ C!Values(i)' = C!Values(i)
           /\ \A pl : Target(pl)' = Target(pl) /\ ValueAt(pl)' = ValueAt(pl)
<1>1. \A i : C!Position(i)' = C!Position(i) /\ C!Values(i)' = C!Values(i)
  BY DEF C!Values, C!Position, C!Key_, C!getInputSignalHashPosition, C!HashAt, C!Probe, C!TableSize
<1>2. Places' = Places
  BY <1>1 DEF Places
<1>3. \A pl : Target(pl)' = Target(pl) /\ ValueAt(pl)' = ValueAt(pl)
  BY <1>1 DEF Target, C!Target, ValueAt
<1>. QED
  BY <1>1, <1>2, <1>3

(* A step that assigns no input. *)
LEMMA SamePlaced ==
    ASSUME PlacedInv, WInv, Processed' = Processed,
           UNCHANGED <<json, table, beyond, inputSignalAssigned>>,
           \A s \in Inputs : signalValues'[s] = signalValues[s],
           AtEnd(step') => item' > Len(json)
    PROVE  PlacedInv'
<1>1. ASSUME NEW pl PROVE Target(pl)' = Target(pl) /\ ValueAt(pl)' = ValueAt(pl)
  BY SameArguments
<1>2. {Target(pl) : pl \in Processed}' = {Target(pl) : pl \in Processed}
  BY <1>1
<1>3. inputSignalAssigned' = {Target(pl) : pl \in Processed}'
  BY <1>2 DEF PlacedInv
<1>4. ASSUME NEW pl \in Processed PROVE PlacedAt(pl)'
  <2>1. PlacedAt(pl) /\ Target(pl) \in Inputs
    BY DEF PlacedInv, WInv, Counted
  <2>2. signalValues[Target(pl)]' = signalValues[Target(pl)]
    BY <1>1, <2>1
  <2>3. C!Position(pl[1])' = C!Position(pl[1])
    BY SameArguments
  <2>4. C!Valid(ValueAt(pl))' /\ C!Element(ValueAt(pl))' = C!Element(ValueAt(pl))
    BY <1>1, <2>1 DEF PlacedAt, C!Valid, C!Element
  <2>. QED
    BY <1>1, <2>1, <2>2, <2>3, <2>4 DEF PlacedAt
<1>5. \A pl, other \in Processed' : Target(pl)' = Target(other)' => pl = other
  BY <1>1 DEF PlacedInv
<1>. QED
  BY <1>3, <1>4, <1>5 DEF PlacedInv

LEMMA InitPlaced == Init => PlacedInv
<1> SUFFICES ASSUME Init PROVE PlacedInv
  OBVIOUS
<1>1. C!Init
  BY DEF Init
<1>2. json \in Json /\ item = 1 /\ step = "start" /\ inputSignalAssigned = {}
  BY <1>1 DEF C!Init
<1>3. Processed = {}
  BY <1>2, PlaceFacts DEF Processed
<1>. QED
  BY <1>2, <1>3 DEF PlacedInv, AtEnd

(* A value that is assigned was the next one of its item. *)
LEMMA SetPlaced ==
    ASSUME WInv, PlacedInv, C!setInputSignal
    PROVE  PlacedInv'
<1>. DEFINE pl0 == <<item, index>>  s0 == C!Target(item, index)  x == C!Element(C!Values(item)[index])
<1>. N \in Nat \ {0}
  BY Constants
<1>1. /\ step = "values" /\ index' = index + 1 /\ index <= Len(C!Values(item))
      /\ signalValues' = [signalValues EXCEPT ![s0] = x]
      /\ inputSignalAssigned' = inputSignalAssigned \cup {s0}
      /\ step' \in {"circuit", "values"}
      /\ UNCHANGED <<json, table, beyond, item>>
      /\ ~(index > table[C!Position(item)].signalsize)
  BY DEF C!setInputSignal, C!TryRunCircuit, C!Rejected
<1>2. /\ json \in Json /\ table \in Table /\ beyond \in {C!Free, Foreign}
      /\ item \in Nat \ {0} /\ index \in Nat \ {0} /\ Ready
  BY <1>1 DEF WInv, Arguments, Checked
<1>3. s0 \in Inputs \ inputSignalAssigned
  BY SetStep
<1>4. pl0 \in Places /\ pl0 \notin Processed /\ pl0[1] = item /\ pl0[2] = index
  <2>1. item \in DOMAIN json
    BY <1>2, FileFacts DEF Ready
  <2>2. index <= N
    <3>. DEFINE e == table[C!Position(item)]
    <3>1. e.signalid \in Nat /\ e.signalsize \in Nat /\ e.signalid >= N + 1 /\ e.signalid + e.signalsize <= 2 * N + 1
      BY <1>2, TableFacts DEF Ready
    <3>2. ~(index > e.signalsize)
      BY <1>1
    <3>. HIDE DEF e
    <3>. QED
      BY <1>2, <3>1, <3>2
  <2>3. pl0 \in (DOMAIN json) \X (1 .. N) /\ pl0[1] = item /\ pl0[2] = index
    BY <1>2, <2>1, <2>2
  <2>4. pl0[2] <= Len(C!Values(pl0[1]))
    BY <1>1, <2>3
  <2>5. ~(item < item) /\ ~(index < index)
    BY <1>2
  <2>. QED
    BY <2>3, <2>4, <2>5 DEF Places, Processed
<1>5. Places' = Places /\ \A pl : Target(pl)' = Target(pl) /\ ValueAt(pl)' = ValueAt(pl)
  BY <1>1, SameArguments
<1>6. Processed' = Processed \cup {pl0}
  <2>1. ASSUME NEW pl \in Places
        PROVE  (pl[1] < item \/ (pl[1] = item /\ pl[2] < index + 1))
                <=> (pl[1] < item \/ (pl[1] = item /\ pl[2] < index)) \/ pl = pl0
    <3>1. pl = <<pl[1], pl[2]>> /\ pl[1] \in Nat /\ pl[2] \in Nat
      BY <1>2, PlaceFacts
    <3>2. pl = pl0 <=> pl[1] = item /\ pl[2] = index
      BY <3>1
    <3>. QED
      BY <1>2, <3>1, <3>2
  <2>2. step \notin {"start", "items"} /\ step' \notin {"start", "items"}
    BY <1>1
  <2>3. Processed' = {pl \in Places : pl[1] < item \/ (pl[1] = item /\ pl[2] < index + 1)}
    BY <1>1, <1>5, <2>2 DEF Processed
  <2>4. Processed = {pl \in Places : pl[1] < item \/ (pl[1] = item /\ pl[2] < index)}
    BY <2>2 DEF Processed
  <2>. HIDE DEF pl0
  <2>. QED
    BY <1>4, <2>1, <2>3, <2>4
<1>7. Target(pl0) = s0 /\ ValueAt(pl0) = C!Values(item)[index]
  BY <1>4 DEF Target, ValueAt
<1>8. C!Element(ValueAt(pl0)) = x
  BY <1>7
<1>9. C!Valid(ValueAt(pl0)) /\ C!Position(pl0[1]) \in DOMAIN table
  BY <1>1, <1>2, <1>4, <1>7, FileFacts DEF Ready
<1>10. \A s \in Inputs : signalValues'[s] = IF s = s0 THEN x ELSE signalValues[s]
  <2>. signalValues \in Signals /\ Inputs \subseteq S!Signal
    BY DEF WInv, IInv, Inputs, S!Signal
  <2>. QED
    BY <1>1 DEF Signals
<1>. HIDE DEF pl0, s0, x
<1>11. inputSignalAssigned = {Target(pl) : pl \in Processed}
  BY DEF PlacedInv
<1>12. inputSignalAssigned' = {Target(pl)' : pl \in Processed'}
  <2>1. {Target(pl)' : pl \in Processed'} = {Target(pl) : pl \in Processed \cup {pl0}}
    BY <1>5, <1>6
  <2>. QED
    BY <1>1, <1>7, <1>11, <2>1
<1>13. ASSUME NEW pl \in Processed', NEW other \in Processed', Target(pl)' = Target(other)'
       PROVE  pl = other
  <2>1. \A p \in Processed : Target(p) # Target(pl0)
    BY <1>3, <1>7, <1>11
  <2>. QED
    BY <1>5, <1>6, <1>13, <2>1 DEF PlacedInv
<1>14. ASSUME NEW pl \in Processed' PROVE PlacedAt(pl)'
  <2>1. C!Position(pl[1])' = C!Position(pl[1]) /\ Target(pl)' = Target(pl) /\ ValueAt(pl)' = ValueAt(pl)
    BY <1>1, SameArguments
  <2>2. C!Valid(ValueAt(pl))' = C!Valid(ValueAt(pl)) /\ C!Element(ValueAt(pl))' = C!Element(ValueAt(pl))
    BY <2>1 DEF C!Valid, C!Element
  <2>3. CASE pl = pl0
    BY <1>1, <1>3, <1>7, <1>8, <1>9, <1>10, <2>1, <2>2, <2>3 DEF PlacedAt
  <2>4. CASE pl # pl0
    <3>1. pl \in Processed
      BY <1>6, <2>4
    <3>2. Target(pl) \in Inputs /\ Target(pl) # s0
      BY <1>3, <1>11, <3>1 DEF WInv, Counted
    <3>3. PlacedAt(pl)
      BY <3>1 DEF PlacedInv
    <3>4. signalValues'[Target(pl)] = signalValues[Target(pl)]
      BY <1>10, <3>2
    <3>. QED
      BY <1>1, <2>1, <2>2, <3>3, <3>4 DEF PlacedAt
  <2>. QED
    BY <2>3, <2>4
<1>15. ~AtEnd(step')
  BY <1>1 DEF AtEnd
<1>. QED
  BY <1>12, <1>13, <1>14, <1>15 DEF PlacedInv

LEMMA NextPlaced == WInv /\ PlacedInv /\ [Next]_vars => PlacedInv'
<1> SUFFICES ASSUME WInv, PlacedInv, [Next]_vars PROVE PlacedInv'
  OBVIOUS
<1>. N \in Nat \ {0} /\ S!SigmaConstants
  BY Constants
<1>0. json \in Json /\ item \in Nat \ {0} /\ index \in Nat \ {0} /\ Len(json) \in Nat
  BY FileFacts DEF WInv, Arguments
<1>1. CASE C!setInputSignal
  BY <1>1, SetPlaced
<1>2. CASE Load /\ ~C!setInputSignal
  <2>1. UNCHANGED <<json, table, beyond, inputSignalAssigned, signalValues>>
    BY <1>2 DEF Load, C!Load, C!LoadEmpty, C!LoadItems, C!NextItem, C!AbortInSet, C!EndOfItem, C!writeBinWitness
  <2>2. Places' = Places
    BY <2>1, SameArguments
  <2>3. ASSUME NEW pl \in Places
        PROVE  (pl[1] < item' \/ (pl[1] = item' /\ pl[2] < index' /\ step' \notin {"start", "items"}))
                <=> (pl[1] < item \/ (pl[1] = item /\ pl[2] < index /\ step \notin {"start", "items"}))
    <3>1. pl[1] \in Nat \ {0} /\ pl[1] <= Len(json) /\ pl[2] \in Nat \ {0} /\ pl[2] <= Len(C!Values(pl[1]))
      BY <1>0, PlaceFacts
    <3>2. CASE C!LoadEmpty
      BY <1>0, <3>1, <3>2 DEF C!LoadEmpty
    <3>3. CASE C!LoadItems
      BY <3>3 DEF C!LoadItems
    <3>4. CASE C!NextItem
      <4>1. item' = item /\ step = "items" /\ index' = 1
        BY <3>4 DEF C!NextItem
      <4>2. ~(pl[2] < 1)
        BY <3>1
      <4>. QED
        BY <4>1, <4>2
    <3>5. CASE C!AbortInSet
      BY <3>5 DEF C!AbortInSet
    <3>6. CASE C!EndOfItem
      <4>1. item' = item + 1 /\ step = "values" /\ step' = "items" /\ index > Len(C!Values(item))
        BY <3>6 DEF C!EndOfItem, C!Following
      <4>2. Len(C!Values(pl[1])) \in Nat
        BY <1>0, <3>1, FileFacts
      <4>3. pl[1] = item => pl[2] < index
        BY <1>0, <3>1, <4>1, <4>2
      <4>4. pl[1] < item + 1 <=> pl[1] < item \/ pl[1] = item
        BY <1>0, <3>1
      <4>. QED
        BY <4>1, <4>3, <4>4
    <3>7. CASE C!writeBinWitness
      <4>1. item > Len(json) /\ item' = item
        BY <3>7 DEF C!writeBinWitness
      <4>2. pl[1] < item
        BY <1>0, <3>1, <4>1
      <4>. QED
        BY <4>1, <4>2
    <3>. QED
      BY <1>2, <3>2, <3>3, <3>4, <3>5, <3>6, <3>7 DEF Load, C!Load
  <2>4. Processed' = Processed
    BY <2>2, <2>3 DEF Processed
  <2>5. AtEnd(step') => item' > Len(json)
    BY <1>2 DEF Load, C!Load, C!LoadEmpty, C!LoadItems, C!NextItem, C!AbortInSet, C!EndOfItem, C!writeBinWitness,
        C!TryRunCircuit, AtEnd
  <2>. QED
    BY <2>1, <2>4, <2>5, SamePlaced
<1>3. CASE Compute
  <2>1. step = "circuit" /\ S!Next /\ UNCHANGED calc
    BY <1>3 DEF Compute
  <2>2. UNCHANGED <<json, table, beyond, step, item, index, inputSignalAssigned>>
    BY <2>1 DEF calc
  <2>3. \A s \in Inputs : signalValues'[s] = signalValues[s]
    BY <2>1, InputsKept DEF WInv, S!InputSignals, S!MainStart, Inputs
  <2>4. Processed' = Processed
    BY <2>2, SameArguments DEF Processed
  <2>5. ~AtEnd(step')
    BY <2>1, <2>2 DEF AtEnd
  <2>. QED
    BY <2>2, <2>3, <2>4, <2>5, SamePlaced
<1>4. CASE Return
  <2>1. /\ step = "circuit" /\ step' = IF Len(json) = 0 THEN "items" ELSE "values"
        /\ UNCHANGED <<json, table, beyond, item, index, inputSignalAssigned, signalValues>>
    BY <1>4 DEF Return, C!Return
  <2>2. Processed' = Processed
    <3>1. Places' = Places
      BY <2>1, SameArguments
    <3>2. Len(json) = 0 => Places = {}
      BY <1>0, PlaceFacts
    <3>. QED
      BY <2>1, <3>1, <3>2 DEF Processed
  <2>. QED
    BY <2>1, <2>2, SamePlaced DEF AtEnd
<1>5. CASE UNCHANGED vars
  <2>1. UNCHANGED <<json, table, beyond, step, item, index, inputSignalAssigned, signalValues>>
    BY <1>5 DEF vars, calc
  <2>2. Processed' = Processed
    BY <2>1, SameArguments DEF Processed
  <2>3. AtEnd(step') => item' > Len(json)
    BY <2>1 DEF PlacedInv
  <2>. QED
    BY <2>1, <2>2, <2>3, SamePlaced
<1>. QED
  BY <1>1, <1>2, <1>3, <1>4, <1>5 DEF Next

LEMMA PlacedInvariant == Spec => []PlacedInv
<1>1. WInv /\ PlacedInv /\ [Next]_vars => PlacedInv'
  BY NextPlaced
<1>. QED
  BY <1>1, InitPlaced, Invariant, PTL DEF Spec

(* Reading a value of the file that a double holds, or a numeral. *)
LEMMA ElementDenoted ==
    ASSUME json \in Json, NEW i \in DOMAIN json, NEW j \in DOMAIN C!Values(i),
           C!Valid(C!Values(i)[j]), Plain(C!Values(i)[j])
    PROVE  C!Element(C!Values(i)[j]) = Denoted(C!Values(i)[j]) % Mod
<1>1. C!FilesGiven
  BY CalcAssumption DEF C!CalcConstants
<1>2. C!IsValue(C!Values(i)[j])
  BY <1>1 DEF C!FilesGiven, C!Values
<1>. QED
  BY <1>2, ElementOf

(* The places a signal gets its value from. *)
LEMMA OnePlace ==
    ASSUME json \in Json, table \in Table, beyond \in {C!Free, Foreign},
           NEW pl \in Places, C!Position(pl[1]) \in DOMAIN table, NEW s
    PROVE  pl \in PlacesOf(s) <=> Target(pl) = s
<1>1. Stored(pl[1]) = {C!Position(pl[1])}
  BY PlaceFacts, StoredAtPosition
<1>. QED
  BY <1>1 DEF PlacesOf, Target, C!Target

(* For all files and hash tables: in a witness that is written each input     *)
(* signal has the value of the one place of the file that names it, and that  *)
(* is the number written there, unless it is a number a double does not hold  *)
(* (main.cpp:116-200).                                                        *)
THEOREM IsForTheFile == Spec => []WitnessIsForTheFile
<1>1. ASSUME WInv, ResultInv, PlacedInv, WholeWitness, NEW s \in S!InputSignals
      PROVE  \E pl \in PlacesOf(s) :
                /\ PlacesOf(s) = {pl}
                /\ LET v == C!Values(pl[1])[pl[2]]
                   IN Plain(v) => Wire(s) = Denoted(v) % Mod
  <2>. N \in Nat \ {0} /\ Rc \in Nat /\ Rc <= N
    BY Constants, ShiftAssumption DEF S!SigmaConstants
  <2>1. /\ json \in Json /\ table \in Table /\ beyond \in {C!Free, Foreign} /\ item \in Nat
        /\ AllAssigned /\ Witnessed /\ item > Len(json)
    BY <1>1 DEF WInv, Arguments, ResultInv, Witnessed, PlacedInv, WholeWitness, AtEnd
  <2>2. Processed = Places
    <3>1. ASSUME NEW pl \in Places PROVE pl[1] < item
      <4>1. pl[1] \in Nat /\ pl[1] <= Len(json) /\ Len(json) \in Nat
        BY <2>1, PlaceFacts, FileFacts
      <4>. QED
        BY <2>1, <4>1
    <3>. QED
      BY <3>1 DEF Processed
  <2>3. s \in Inputs
    BY DEF S!InputSignals, S!MainStart, Inputs
  <2>4. PICK pl \in Places : Target(pl) = s
    BY <1>1, <2>1, <2>2, <2>3 DEF PlacedInv, AllAssigned
  <2>5. \A other \in Places : PlacedAt(other) /\ (other \in PlacesOf(s) <=> Target(other) = s)
    BY <1>1, <2>1, <2>2, OnePlace DEF PlacedInv, PlacedAt
  <2>6. PlacesOf(s) = {pl}
    <3>1. \A other \in Places : Target(other) = s => other = pl
      BY <1>1, <2>2, <2>4 DEF PlacedInv
    <3>2. PlacesOf(s) \subseteq Places
      BY DEF PlacesOf
    <3>. QED
      BY <2>4, <2>5, <3>1, <3>2
  <2>7. Wire(s) = signalValues[s]
    <3>. s \in 0 .. WitnessNo - 1 /\ s <= 2 * N
      BY <2>3 DEF Inputs, WitnessNo
    <3>. QED
      BY <1>1, <2>1, WitnessAt
  <2>8. signalValues[s] = C!Element(ValueAt(pl)) /\ C!Valid(ValueAt(pl))
    BY <2>4, <2>5 DEF PlacedAt
  <2>9. pl[1] \in DOMAIN json /\ pl[2] \in DOMAIN C!Values(pl[1])
    <3>1. pl[1] \in DOMAIN json /\ pl[2] \in Nat \ {0} /\ pl[2] <= Len(C!Values(pl[1]))
      BY <2>1, PlaceFacts
    <3>2. Len(C!Values(pl[1])) \in Nat /\ DOMAIN C!Values(pl[1]) = 1 .. Len(C!Values(pl[1]))
      BY <2>1, <3>1, FileFacts
    <3>. QED
      BY <3>1, <3>2
  <2>10. Plain(ValueAt(pl)) => C!Element(ValueAt(pl)) = Denoted(ValueAt(pl)) % Mod
    BY <2>1, <2>8, <2>9, ElementDenoted DEF ValueAt
  <2>. QED
    BY <2>6, <2>7, <2>8, <2>10 DEF ValueAt
<1>2. WInv /\ ResultInv /\ PlacedInv => WitnessIsForTheFile
  BY <1>1 DEF WitnessIsForTheFile
<1>. QED
  BY <1>2, Invariant, ResultInvariant, PlacedInvariant, PTL

-----------------------------------------------------------------------------
(* What is looked up is found where the compiler put it, unless that lies    *)
(* before the slot the hash points to.                                       *)
LEMMA FoundWhereStored ==
    ASSUME json \in Json, table \in Table, beyond \in {C!Free, Foreign},
           NEW i \in DOMAIN json, ~Wrapped(i), NEW at \in Stored(i)
    PROVE  C!Position(i) = at
<1>. DEFINE h == Hash[json[i].key]
            n == C!TableSize
            p == h % n
            stops == {j \in 1 .. n - 1 : C!HashAt(C!Probe(p, j)) \in {h, C!Free}}
            m == at - p
<1>1. h \in Nat /\ h # C!Free /\ h # Foreign /\ C!Position(i) = C!getInputSignalHashPosition(h)
  BY HashFacts
<1>2. n \in Nat \ {0} /\ DOMAIN table = 0 .. n - 1 /\ n = Cardinality(DOMAIN table)
  BY TableFacts
<1>3. at \in DOMAIN table /\ table[at].hash = h
  BY DEF Stored
<1>4. ~(at < p)
  BY DEF Wrapped
<1>5. /\ \A q \in DOMAIN table : table[q].hash = h => q = at
      /\ \A q \in p .. at - 1 : table[q].hash # C!Free
  <2>. /\ \A q \in DOMAIN table : table[q].hash = h => q = at
       /\ \A q \in h % Cardinality(DOMAIN table) .. at - 1 : table[q].hash # C!Free
    BY <1>1, <1>3, TableAssumption
  <2>. QED
    BY <1>2
<1>6. p \in 0 .. n - 1
  BY <1>1, <1>2
<1>7. C!getInputSignalHashPosition(h) =
        IF C!HashAt(p) = h THEN p
        ELSE IF stops = {} \/ C!HashAt(C!Probe(p, C!Min(stops))) # h THEN C!NotFound
        ELSE C!Probe(p, C!Min(stops))
  BY DEF C!getInputSignalHashPosition
<1>8. \A q \in 0 .. n - 1 : C!HashAt(q) = table[q].hash
  BY <1>2 DEF C!HashAt
<1>. HIDE DEF h, n, p
<1>9. at \in 0 .. n - 1 /\ p <= at
  BY <1>2, <1>3, <1>4, <1>6
<1>10. CASE at = p
  BY <1>1, <1>3, <1>6, <1>7, <1>8, <1>10
<1>11. CASE at # p
  <2>1. m \in 1 .. n - 1 /\ p + m = at
    BY <1>2, <1>6, <1>9, <1>11
  <2>2. ASSUME NEW j \in 1 .. m PROVE C!Probe(p, j) = p + j /\ p + j \in 0 .. n - 1
    <3>1. p + j \in 0 .. n - 1
      BY <1>2, <1>6, <1>9, <2>1
    <3>2. (p + j) % n = p + j
      BY <1>2, <3>1
    <3>. QED
      BY <3>1, <3>2 DEF C!Probe, n
  <2>3. C!HashAt(p) # h
    <3>1. C!HashAt(p) = table[p].hash /\ p \in DOMAIN table
      BY <1>2, <1>6, <1>8
    <3>. QED
      BY <1>5, <1>11, <3>1
  <2>4. m \in stops /\ C!HashAt(C!Probe(p, m)) = h
    <3>1. C!Probe(p, m) = at
      BY <2>1, <2>2
    <3>2. C!HashAt(at) = h
      BY <1>3, <1>8, <1>9
    <3>. QED
      BY <2>1, <3>1, <3>2
  <2>5. ASSUME NEW j \in stops PROVE m <= j
    <3>1. j \in 1 .. n - 1 /\ C!HashAt(C!Probe(p, j)) \in {h, C!Free}
      OBVIOUS
    <3>2. CASE j < m
      <4>. j \in 1 .. m /\ j # m
        BY <2>1, <3>1, <3>2
      <4>1. C!HashAt(C!Probe(p, j)) = table[p + j].hash /\ p + j \in DOMAIN table
        BY <1>2, <1>8, <2>2
      <4>2. p + j \in p .. at - 1 /\ p + j # at
        BY <1>6, <1>9, <2>1, <3>1, <3>2
      <4>3. table[p + j].hash # C!Free
        BY <1>5, <4>2
      <4>4. table[p + j].hash # h
        BY <1>5, <4>1, <4>2
      <4>. QED
        BY <3>1, <4>1, <4>3, <4>4
    <3>. QED
      BY <2>1, <3>1, <3>2
  <2>6. C!Min(stops) = m
    <3>. stops \subseteq Nat /\ m \in Nat
      BY <2>1
    <3>. HIDE DEF stops, m
    <3>1. C!Min(stops) \in stops /\ \A y \in stops : C!Min(stops) <= y
      BY <2>4, <2>5 DEF C!Min
    <3>2. C!Min(stops) <= m /\ m <= C!Min(stops) /\ C!Min(stops) \in Nat
      BY <2>4, <2>5, <3>1
    <3>. QED
      BY <3>2
  <2>7. stops # {}
    BY <2>4
  <2>8. C!Probe(p, m) = at
    BY <2>1, <2>2
  <2>. HIDE DEF stops, m
  <2>. QED
    BY <1>1, <1>7, <2>3, <2>4, <2>6, <2>7, <2>8
<1>. QED
  BY <1>10, <1>11

LEMMA PlacesFinite ==
    ASSUME json \in Json, NEW s
    PROVE  /\ IsFiniteSet(PlacesOf(s))
           /\ Cardinality(PlacesOf(s)) = 1 => \E pl : PlacesOf(s) = {pl}
<1>. N \in Nat
  BY Constants
<1>1. IsFiniteSet(DOMAIN json) /\ IsFiniteSet(1 .. N)
  BY FileFacts, FS_Interval
<1>2. IsFiniteSet((DOMAIN json) \X (1 .. N))
  BY <1>1, FS_Product
<1>3. PlacesOf(s) \in SUBSET ((DOMAIN json) \X (1 .. N))
  BY DEF PlacesOf, Places
<1>4. IsFiniteSet(PlacesOf(s))
  BY <1>2, <1>3, FS_Subset
<1>. QED
  BY <1>4, FS_Singleton

Unwrapped == \A i \in DOMAIN json : ~Wrapped(i)

(* In a regular file everything is found, and sized as it should be. *)
LEMMA RegularItems ==
    ASSUME json \in Json, table \in Table, beyond \in {C!Free, Foreign}, Regular, Unwrapped,
           NEW i \in DOMAIN json
    PROVE  /\ C!Position(i) \in DOMAIN table
           /\ table[C!Position(i)].signalsize = Len(C!Values(i))
           /\ \A j \in DOMAIN C!Values(i) : C!Valid(C!Values(i)[j])
<1>1. PICK p \in Stored(i) : table[p].signalsize = Len(C!Values(i))
  BY DEF Regular
<1>2. C!Position(i) = p
  BY <1>1, FoundWhereStored DEF Unwrapped
<1>3. p \in DOMAIN table
  BY <1>1 DEF Stored
<1>. QED
  BY <1>1, <1>2, <1>3 DEF Regular

LEMMA RegularSignals ==
    ASSUME json \in Json, table \in Table, beyond \in {C!Free, Foreign}, Regular, Unwrapped,
           NEW s \in Inputs
    PROVE  \E pl \in Places : Target(pl) = s /\ \A other \in Places : Target(other) = s => other = pl
<1>. N \in Nat \ {0}
  BY Constants
<1>1. s \in S!InputSignals
  BY DEF S!InputSignals, S!MainStart, Inputs
<1>2. PICK pl : PlacesOf(s) = {pl}
  BY <1>1, PlacesFinite DEF Regular
<1>3. ASSUME NEW other \in Places PROVE other \in PlacesOf(s) <=> Target(other) = s
  BY PlaceFacts, RegularItems, OnePlace
<1>4. pl \in Places
  BY <1>2 DEF PlacesOf
<1>. QED
  BY <1>2, <1>3, <1>4

NotRefused == Regular /\ Unwrapped => step \notin {"threw", "aborted"}

LEMMA SameFile ==
    ASSUME UNCHANGED <<json, table>>
    PROVE  (Regular /\ Unwrapped)' <=> Regular /\ Unwrapped
<1>1. \A i : C!Values(i)' = C!Values(i) /\ Stored(i)' = Stored(i)
  BY DEF C!Values, Stored
<1>2. C!TableSize' = C!TableSize
  BY DEF C!TableSize
<1>3. Unwrapped' <=> Unwrapped
  BY <1>1, <1>2 DEF Unwrapped, Wrapped
<1>4. \A s : PlacesOf(s)' = PlacesOf(s)
  BY <1>1 DEF PlacesOf, Places
<1>5. Regular' <=> Regular
  BY <1>1, <1>4 DEF Regular, C!Valid
<1>. QED
  BY <1>3, <1>5

LEMMA NextNotRefused == WInv /\ PlacedInv /\ NotRefused /\ [Next]_vars => NotRefused'
<1> SUFFICES ASSUME WInv, PlacedInv, NotRefused, [Next]_vars, (Regular /\ Unwrapped)',
                    step' \in {"threw", "aborted"}
             PROVE  FALSE
  BY DEF NotRefused
<1>. N \in Nat \ {0}
  BY Constants
<1>1. UNCHANGED <<json, table, beyond>>
  BY DEF Next, Load, C!Load, C!LoadEmpty, C!LoadItems, C!NextItem, C!setInputSignal, C!AbortInSet, C!EndOfItem,
    C!writeBinWitness, Compute, Return, C!Return, vars, calc
<1>2. Regular /\ Unwrapped /\ step \notin {"threw", "aborted"}
  BY <1>1, SameFile DEF NotRefused
<1>3. /\ json \in Json /\ table \in Table /\ beyond \in {C!Free, Foreign}
      /\ item \in Nat \ {0} /\ index \in Nat \ {0}
  BY DEF WInv, Arguments
<1>4. C!NextItem \/ C!AbortInSet \/ C!writeBinWitness
  BY <1>2 DEF Next, Load, C!Load, C!LoadEmpty, C!LoadItems, C!setInputSignal, C!EndOfItem, C!TryRunCircuit,
    Compute, Return, C!Return, vars, calc
<1>5. ASSUME C!NextItem PROVE FALSE
  <2>1. item \in DOMAIN json
    BY <1>3, <1>5, FileFacts DEF C!NextItem
  <2>2. /\ C!Position(item) \in DOMAIN table
        /\ table[C!Position(item)].signalsize = Len(C!Values(item))
        /\ \A j \in DOMAIN C!Values(item) : C!Valid(C!Values(item)[j])
    BY <1>2, <1>3, <2>1, RegularItems
  <2>3. C!Position(item) # C!NotFound
    BY <1>3, <2>2, TableFacts DEF C!NotFound
  <2>. QED
    BY <1>5, <2>2, <2>3 DEF C!NextItem
(* A place that has not been processed is not the one of an assigned signal. *)
<1>6. ASSUME NEW pl \in Places, pl \notin Processed, Target(pl) \in Inputs
      PROVE  Target(pl) \notin inputSignalAssigned
  <2>1. \A one, other \in Places : Target(one) \in Inputs /\ Target(one) = Target(other) => one = other
    BY <1>2, <1>3, RegularSignals
  <2>2. Processed \subseteq Places
    BY DEF Processed
  <2>. QED
    BY <1>6, <2>1, <2>2 DEF PlacedInv
<1>7. ASSUME C!AbortInSet PROVE FALSE
  <2>. DEFINE e == table[C!Position(item)]  pl == <<item, index>>
  <2>1. step = "values" /\ index <= Len(C!Values(item)) /\ C!Rejected(item, index) /\ Ready
    BY <1>7 DEF C!AbortInSet, WInv, Checked
  <2>2. item \in DOMAIN json
    BY <1>3, <2>1, FileFacts DEF Ready
  <2>3. e.signalsize = Len(C!Values(item)) /\ C!Position(item) \in DOMAIN table
    BY <1>2, <1>3, <2>2, RegularItems
  <2>4. e.signalid \in Nat /\ e.signalsize \in Nat /\ e.signalid >= N + 1 /\ e.signalid + e.signalsize <= 2 * N + 1
    BY <1>3, <2>3, TableFacts
  <2>. HIDE DEF e
  <2>5. index \in 1 .. N /\ e.signalid + index - 1 \in Inputs /\ ~(index > e.signalsize)
    BY <1>3, <2>1, <2>3, <2>4 DEF Inputs
  <2>6. pl \in Places /\ pl \notin Processed /\ Target(pl) = e.signalid + index - 1
    <3>1. pl \in (DOMAIN json) \X (1 .. N) /\ pl[1] = item /\ pl[2] = index
      BY <2>2, <2>5
    <3>2. ~(item < item) /\ ~(index < index)
      BY <1>3
    <3>. QED
      BY <2>1, <3>1, <3>2 DEF Places, Processed, Target, C!Target, e
  <2>7. Target(pl) \in Inputs \ inputSignalAssigned /\ C!Target(item, index) = Target(pl)
    BY <1>6, <2>5, <2>6 DEF Target
  <2>8. inputSignalAssignedCounter # 0
    BY <2>7, AllCounted DEF WInv, AllAssigned
  <2>. QED
    BY <2>1, <2>5, <2>7, <2>8 DEF C!Rejected, e
<1>8. ASSUME C!writeBinWitness PROVE FALSE
  <2>1. item > Len(json) /\ inputSignalAssignedCounter # 0
    BY <1>8 DEF C!writeBinWitness, C!Complete
  <2>2. PICK s \in Inputs : s \notin inputSignalAssigned
    BY <2>1, AllCounted DEF WInv, Counted, AllAssigned
  <2>3. PICK pl \in Places : Target(pl) = s
    BY <1>2, <1>3, RegularSignals
  <2>4. pl \in Processed
    <3>1. pl[1] \in Nat /\ pl[1] <= Len(json) /\ Len(json) \in Nat
      BY <1>3, PlaceFacts, FileFacts
    <3>2. pl[1] < item
      BY <1>3, <2>1, <3>1
    <3>. QED
      BY <3>2 DEF Processed
  <2>. QED
    BY <2>2, <2>3, <2>4 DEF PlacedInv
<1>. QED
  BY <1>4, <1>5, <1>7, <1>8

(* For all files and hash tables: a file that names every input once, with    *)
(* valid values in the right number, is refused only when a name was moved    *)
(* past the end of the hash table (calcwit.cpp:50-96, main.cpp:163-200).      *)
THEOREM RefusesOnlyTheWrapped == Spec => []RefusedOnlyAtTheEnd
<1>1. Init => NotRefused
  BY DEF Init, C!Init, NotRefused
<1>2. WInv /\ PlacedInv /\ NotRefused /\ [Next]_vars => NotRefused'
  BY NextNotRefused
<1>3. NotRefused => RefusedOnlyAtTheEnd
  BY DEF NotRefused, Unwrapped, RefusedOnlyAtTheEnd
<1>. QED
  BY <1>1, <1>2, <1>3, Invariant, PlacedInvariant, PTL DEF Spec
=============================================================================
