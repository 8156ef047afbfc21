---------------------------- MODULE Import_proofs -----------------------------
(* Proofs about Import, for every set of versions of the circuit.            *)
EXTENDS Import, FiniteSetTheorems, TLAPS

Tool == {"init", "circom", "rp", "rej", "mapper", "wc", "wej"}
Rank == [t \in Tool |->
    CASE t = "init" -> 0 [] t = "circom" -> 1 [] t = "rp" -> 2 [] t = "rej" -> 3
      [] t = "mapper" -> 4 [] t = "wc" -> 5 [] t = "wej" -> 6]
Pending(t, s) == \E i \in 1 .. Len(s) : s[i] = t
InOrder(s) == \A i, j \in 1 .. Len(s) : i < j => Rank[s[i]] < Rank[s[j]]

(* Two parts of a list of tools. *)
Before(a, b) == \A s, t \in Tool : Pending(s, a) /\ Pending(t, b) => Rank[s] < Rank[t]
LEMMA ConcatPending ==
    ASSUME NEW a \in Seq(Tool), NEW b \in Seq(Tool), InOrder(a), InOrder(b), Before(a, b)
    PROVE  /\ a \o b \in Seq(Tool)
           /\ InOrder(a \o b)
           /\ \A t : Pending(t, a \o b) <=> Pending(t, a) \/ Pending(t, b)
<1>. /\ a \o b \in Seq(Tool)
     /\ Len(a) \in Nat /\ Len(b) \in Nat /\ Len(a \o b) = Len(a) + Len(b)
     /\ \A i \in 1 .. Len(a) : (a \o b)[i] = a[i]
     /\ \A i \in 1 .. Len(b) : (a \o b)[Len(a) + i] = b[i]
  OBVIOUS
<1>1. \A i \in 1 .. Len(a) + Len(b) : i \notin 1 .. Len(a) =>
        i - Len(a) \in 1 .. Len(b) /\ (a \o b)[i] = b[i - Len(a)]
  <2>. TAKE i \in 1 .. Len(a) + Len(b)
  <2>. HAVE i \notin 1 .. Len(a)
  <2>. i - Len(a) \in 1 .. Len(b) /\ Len(a) + (i - Len(a)) = i
    OBVIOUS
  <2>. QED
    OBVIOUS
<1>2. InOrder(a \o b)
  <2> SUFFICES ASSUME NEW i \in 1 .. Len(a) + Len(b), NEW j \in 1 .. Len(a) + Len(b), i < j
               PROVE  Rank[(a \o b)[i]] < Rank[(a \o b)[j]]
    BY DEF InOrder
  <2>1. CASE i \in 1 .. Len(a) /\ j \in 1 .. Len(a)
    BY <2>1 DEF InOrder
  <2>2. CASE i \in 1 .. Len(a) /\ j \notin 1 .. Len(a)
    <3>. a[i] \in Tool /\ b[j - Len(a)] \in Tool /\ Pending(a[i], a) /\ Pending(b[j - Len(a)], b)
      BY <2>2, <1>1 DEF Pending
    <3>. QED
      BY <2>2, <1>1 DEF Before
  <2>3. CASE i \notin 1 .. Len(a)
    <3>. j \notin 1 .. Len(a) /\ i - Len(a) < j - Len(a)
      BY <2>3
    <3>. QED
      BY <2>3, <1>1 DEF InOrder
  <2>. QED
    BY <2>1, <2>2, <2>3
<1>3. ASSUME NEW t PROVE Pending(t, a \o b) <=> Pending(t, a) \/ Pending(t, b)
  <2>1. ASSUME Pending(t, a \o b) PROVE Pending(t, a) \/ Pending(t, b)
    BY <2>1, <1>1 DEF Pending
  <2>2. ASSUME Pending(t, a) PROVE Pending(t, a \o b)
    <3>. PICK i \in 1 .. Len(a) : a[i] = t
      BY <2>2 DEF Pending
    <3>. i \in 1 .. Len(a \o b) /\ (a \o b)[i] = t
      OBVIOUS
    <3>. QED
      BY DEF Pending
  <2>3. ASSUME Pending(t, b) PROVE Pending(t, a \o b)
    <3>. PICK i \in 1 .. Len(b) : b[i] = t
      BY <2>3 DEF Pending
    <3>. Len(a) + i \in 1 .. Len(a \o b) /\ (a \o b)[Len(a) + i] = t
      OBVIOUS
    <3>. QED
      BY DEF Pending
  <2>. QED
    BY <2>1, <2>2, <2>3
<1>. QED
  BY <1>2, <1>3

(* The parts make puts together. *)
LEMMA Parts ==
    /\ \A s \in {<<>>, <<"init">>, <<"circom", "rp", "rej">>, <<"mapper">>, <<"wc", "wej">>} :
        s \in Seq(Tool) /\ InOrder(s)
    /\ \A t : ~Pending(t, <<>>)
    /\ \A t : Pending(t, <<"init">>) <=> t = "init"
    /\ \A t : Pending(t, <<"circom", "rp", "rej">>) <=> t \in {"circom", "rp", "rej"}
    /\ \A t : Pending(t, <<"mapper">>) <=> t = "mapper"
    /\ \A t : Pending(t, <<"wc", "wej">>) <=> t \in {"wc", "wej"}
<1>1. <<>> \in Seq(Tool) /\ InOrder(<<>>) /\ \A t : ~Pending(t, <<>>)
  BY DEF InOrder, Pending
<1>2. <<"init">> \in Seq(Tool) /\ InOrder(<<"init">>) /\ \A t : Pending(t, <<"init">>) <=> t = "init"
  BY DEF InOrder, Pending, Tool
<1>3. <<"mapper">> \in Seq(Tool) /\ InOrder(<<"mapper">>)
        /\ \A t : Pending(t, <<"mapper">>) <=> t = "mapper"
  BY DEF InOrder, Pending, Tool
<1>4. <<"wc", "wej">> \in Seq(Tool) /\ InOrder(<<"wc", "wej">>)
        /\ \A t : Pending(t, <<"wc", "wej">>) <=> t \in {"wc", "wej"}
  BY DEF InOrder, Pending, Tool, Rank
<1>5. <<"circom", "rp", "rej">> \in Seq(Tool) /\ InOrder(<<"circom", "rp", "rej">>)
        /\ \A t : Pending(t, <<"circom", "rp", "rej">>) <=> t \in {"circom", "rp", "rej"}
  <2>. DEFINE s == <<"circom", "rp", "rej">>
  <2>1. s \in Seq(Tool) /\ Len(s) = 3 /\ s[1] = "circom" /\ s[2] = "rp" /\ s[3] = "rej"
    BY DEF Tool
  <2>. HIDE DEF s
  <2>2. 1 .. 3 = {1, 2, 3}
    OBVIOUS
  <2>3. InOrder(s)
    BY <2>1, <2>2 DEF InOrder, Rank, Tool
  <2>4. \A t : Pending(t, s) <=> t \in {"circom", "rp", "rej"}
    BY <2>1, <2>2 DEF Pending
  <2>. QED
    BY <2>1, <2>3, <2>4 DEF s
<1>. QED
  BY <1>1, <1>2, <1>3, <1>4, <1>5

(* What a make starts. *)
LEMMA ToolsPending ==
    ASSUME NEW target \in Target, uptodate \in BOOLEAN
    PROVE  /\ Tools(target) \in Seq(Tool)
           /\ InOrder(Tools(target))
           /\ \A t : Pending(t, Tools(target)) <=>
                \/ (t = "init" /\ target = "default")
                \/ (t \in {"circom", "rp", "rej"} /\ ~uptodate)
                \/ (t = "mapper" /\ target \in {"default", "map"})
                \/ (t \in {"wc", "wej"} /\ target \in {"default", "witness"})
<1>. DEFINE a == IF target = "default" THEN <<"init">> ELSE <<>>
            b == ConstraintTools
            c == CASE target = "default" -> MapTools \o WitnessTools
                   [] target = "constraints" -> <<>>
                   [] target = "map" -> MapTools
                   [] target = "witness" -> WitnessTools
<1>1. /\ a \in Seq(Tool) /\ InOrder(a)
      /\ \A t : Pending(t, a) <=> (t = "init" /\ target = "default")
  BY Parts
<1>2. /\ b \in Seq(Tool) /\ InOrder(b)
      /\ \A t : Pending(t, b) <=> (t \in {"circom", "rp", "rej"} /\ ~uptodate)
  BY Parts DEF ConstraintTools
<1>3. /\ c \in Seq(Tool) /\ InOrder(c)
      /\ \A t : Pending(t, c) <=> \/ (t = "mapper" /\ target \in {"default", "map"})
                                \/ (t \in {"wc", "wej"} /\ target \in {"default", "witness"})
  <2>1. CASE target = "default"
    <3>. DEFINE m == <<"mapper">>  w == <<"wc", "wej">>
    <3>1. /\ m \in Seq(Tool) /\ InOrder(m) /\ \A t : Pending(t, m) <=> t = "mapper"
          /\ w \in Seq(Tool) /\ InOrder(w) /\ \A t : Pending(t, w) <=> t \in {"wc", "wej"}
      BY Parts
    <3>2. c = m \o w
      BY <2>1 DEF MapTools, WitnessTools
    <3>. HIDE DEF m, w, c
    <3>3. Before(m, w)
      BY <3>1 DEF Before, Rank, Tool
    <3>4. m \o w \in Seq(Tool) /\ InOrder(m \o w) /\ \A t : Pending(t, m \o w) <=> Pending(t, m) \/ Pending(t, w)
      BY <3>1, <3>3, ConcatPending
    <3>. QED
      BY <2>1, <3>1, <3>2, <3>4
  <2>2. CASE target = "constraints"
    BY <2>2, Parts
  <2>3. CASE target = "map"
    BY <2>3, Parts DEF MapTools
  <2>4. CASE target = "witness"
    BY <2>4, Parts DEF WitnessTools
  <2>. QED
    BY <2>1, <2>2, <2>3, <2>4 DEF Target
<1>4. Tools(target) = (a \o b) \o c
  BY DEF Tools
<1>. HIDE DEF a, b, c
<1>5. Before(a, b)
  BY <1>1, <1>2 DEF Before, Rank, Tool
<1>6. a \o b \in Seq(Tool) /\ InOrder(a \o b) /\ \A t : Pending(t, a \o b) <=> Pending(t, a) \/ Pending(t, b)
  BY <1>1, <1>2, <1>5, ConcatPending
<1>. DEFINE ab == a \o b
<1>7. ab \in Seq(Tool) /\ InOrder(ab)
        /\ \A t : Pending(t, ab) <=> (t \in {"circom", "rp", "rej"} /\ ~uptodate) \/ (t = "init" /\ target = "default")
  BY <1>1, <1>2, <1>6
<1>8. Tools(target) = ab \o c
  BY <1>4
<1>. HIDE DEF ab
<1>9. Before(ab, c)
  BY <1>7, <1>3 DEF Before, Rank, Tool
<1>10. ab \o c \in Seq(Tool) /\ InOrder(ab \o c) /\ \A t : Pending(t, ab \o c) <=> Pending(t, ab) \/ Pending(t, c)
  BY <1>7, <1>3, <1>9, ConcatPending
<1>. QED
  BY <1>8, <1>10, <1>7, <1>3

LEMMA TailPending ==
    ASSUME NEW s \in Seq(Tool), s # <<>>, InOrder(s)
    PROVE  /\ Tail(s) \in Seq(Tool)
           /\ InOrder(Tail(s))
           /\ Head(s) \in Tool
           /\ ~Pending(Head(s), Tail(s))
           /\ \A t : Pending(t, s) <=> t = Head(s) \/ Pending(t, Tail(s))
           /\ \A t \in Tool : Pending(t, s) => Rank[Head(s)] <= Rank[t]
<1>. Len(s) \in Nat \ {0} /\ Len(Tail(s)) = Len(s) - 1 /\ \A i \in 1 .. Len(s) - 1 : Tail(s)[i] = s[i + 1]
  OBVIOUS
<1>1. Tail(s) \in Seq(Tool) /\ Head(s) \in Tool /\ Head(s) = s[1]
  OBVIOUS
<1>2. InOrder(Tail(s))
  BY DEF InOrder
<1>3. \A i \in 1 .. Len(s) : s[i] \in Tool
  OBVIOUS
<1>4. \A t \in Tool : Rank[t] \in Nat
  BY DEF Rank, Tool
<1>5. ~Pending(Head(s), Tail(s))
  <2> SUFFICES ASSUME NEW i \in 1 .. Len(s) - 1, s[i + 1] = s[1] PROVE FALSE
    BY <1>1 DEF Pending
  <2>. Rank[s[1]] < Rank[s[i + 1]]
    BY DEF InOrder
  <2>. QED
    BY <1>3, <1>4
<1>6. ASSUME NEW t PROVE Pending(t, s) <=> t = Head(s) \/ Pending(t, Tail(s))
  <2>1. ASSUME NEW i \in 1 .. Len(s), s[i] = t PROVE t = Head(s) \/ Pending(t, Tail(s))
    <3>1. CASE i = 1
      BY <1>1, <2>1, <3>1
    <3>2. CASE i # 1
      <4>. i - 1 \in 1 .. Len(s) - 1 /\ Tail(s)[i - 1] = t
        BY <2>1, <3>2
      <4>. QED
        BY DEF Pending
    <3>. QED
      BY <3>1, <3>2
  <2>2. ASSUME NEW i \in 1 .. Len(s) - 1, Tail(s)[i] = t PROVE Pending(t, s)
    BY <2>2 DEF Pending
  <2>3. t = Head(s) => Pending(t, s)
    BY <1>1 DEF Pending
  <2>. QED
    BY <2>1, <2>2, <2>3 DEF Pending
<1>7. ASSUME NEW t \in Tool, Pending(t, s) PROVE Rank[Head(s)] <= Rank[t]
  <2>. PICK i \in 1 .. Len(s) : s[i] = t
    BY <1>7 DEF Pending
  <2>. i = 1 \/ Rank[s[1]] < Rank[s[i]]
    BY DEF InOrder
  <2>. QED
    BY <1>1, <1>4
<1>. QED
  BY <1>1, <1>2, <1>5, <1>6, <1>7

-----------------------------------------------------------------------------
(* What holds of the build between any two tools.                            *)
Types ==
    /\ TypeOK
    /\ uptodate \in BOOLEAN /\ complete \in BOOLEAN
    /\ job \in Seq(Tool) /\ InOrder(job)

(* make reads main_c.r1cs, main_c.sym and main_c.wasm only when circom is    *)
(* not to be run any more.                                                   *)
BuiltWhenRead ==
    /\ Pending("circom", job) => Pending("rej", job)
    /\ uptodate => IsWhole(built) /\ constraints \in {built, Partial}
    /\ uptodate => ~Pending("circom", job) /\ ~Pending("rej", job)
    /\ job # <<>> /\ ~Pending("circom", job) => IsWhole(built)

(* A make of everything, so far: what it does not have to do any more is of  *)
(* the build it goes by.                                                     *)
SoFar ==
    complete =>
        /\ Pending("init", job) \/ Pending("circom", job) \/ Pending("rej", job) =>
              Pending("mapper", job) /\ Pending("wej", job)
        /\ ~Pending("rej", job) => constraints \in {built, Partial}
        /\ ~Pending("mapper", job) => map = built
        /\ ~Pending("wej", job) => witness = built

(* The translator runs when make does not. *)
Alone == at \in {"names", "values", "write", "writing"} => job = <<>>

IInv == Types /\ BuiltWhenRead /\ SoFar /\ Alone /\ OneBuildAfterMake

LEMMA InitIInv == Init => IInv
<1> SUFFICES ASSUME Init PROVE IInv
  OBVIOUS
<1>. ~Pending("init", <<>>) /\ ~Pending("circom", <<>>) /\ ~Pending("rej", <<>>)
        /\ ~Pending("mapper", <<>>) /\ ~Pending("wej", <<>>)
  BY Parts
<1>1. Types
  BY Parts DEF Init, Types, TypeOK, File
<1>2. BuiltWhenRead /\ SoFar /\ Alone
  BY DEF Init, BuiltWhenRead, SoFar, Alone
<1>3. OneBuildAfterMake
  BY DEF Init, OneBuildAfterMake, Written, IsWhole, Missing
<1>. QED
  BY <1>1, <1>2, <1>3 DEF IInv

(* A tool that ends well: what is left to run, and what has been run. *)
LEMMA RanPending ==
    ASSUME IInv, NEW tool \in Tool, Ran(tool)
    PROVE  /\ job' \in Seq(Tool) /\ InOrder(job')
           /\ Pending(tool, job) /\ ~Pending(tool, job')
           /\ \A t \in Tool : t # tool => (Pending(t, job) <=> Pending(t, job'))
           /\ \A t \in Tool : Pending(t, job) => Rank[tool] <= Rank[t]
           /\ job # <<>>
           /\ job' # <<>> => at = "idle"
<1>. job \in Seq(Tool) /\ InOrder(job) /\ job # <<>> /\ job' = Tail(job) /\ Head(job) = tool /\ at = "idle"
  BY DEF IInv, Types, TypeOK, Ran
<1>. QED
  BY TailPending

LEMMA WholeInFile ==
    ASSUME TypeOK, IsWhole(built)
    PROVE  built \in File \ {Missing, Partial} /\ built # NoDirectory
BY DEF TypeOK, File, IsWhole, Whole, Missing, Partial, NoDirectory

LEMMA NextIInv == IInv /\ [Next]_vars => IInv'
<1> SUFFICES ASSUME IInv, [Next]_vars PROVE IInv'
  OBVIOUS
<1>. USE DEF IInv
<1>. \A t : ~Pending(t, <<>>)
  BY Parts
<1>1. CASE EditCircuit
  <2>. /\ source' \in Circuit
       /\ UNCHANGED <<built, constraints, map, witness, job, complete, at, schema>>
    BY <1>1 DEF EditCircuit, targets
  <2>. uptodate' = FALSE \/ uptodate' = uptodate
    BY <1>1, Zenon DEF EditCircuit
  <2>. uptodate \in BOOLEAN
    BY DEF Types
  <2>. (uptodate' => uptodate) /\ uptodate' \in BOOLEAN
    <3>1. CASE uptodate' = FALSE
      BY <3>1
    <3>2. CASE uptodate' = uptodate
      BY <3>2
    <3>. QED
      BY <3>1, <3>2
  <2>1. Types'
    BY DEF Types, TypeOK
  <2>2. BuiltWhenRead' /\ SoFar' /\ Alone'
    BY DEF BuiltWhenRead, SoFar, Alone, IsWhole
  <2>3. OneBuildAfterMake'
    BY <1>1 DEF EditCircuit, OneBuildAfterMake, Written, Circuit_
  <2>. QED
    BY <2>1, <2>2, <2>3
<1>2. CASE clean
  <2>1. Types'
    BY <1>2 DEF clean, Idle, Types, TypeOK, File
  <2>2. BuiltWhenRead' /\ SoFar' /\ Alone'
    BY <1>2 DEF clean, Idle, BuiltWhenRead, SoFar, Alone
  <2>3. OneBuildAfterMake'
    BY <1>2 DEF clean, OneBuildAfterMake, Written, IsWhole, Missing
  <2>. QED
    BY <2>1, <2>2, <2>3
<1>3. CASE make
  <2>. PICK target \in Target : job' = Tools(target) /\ complete' = (target = "default")
    BY <1>3 DEF make
  <2>. uptodate \in BOOLEAN
    BY DEF Types
  <2>1. Types'
    BY <1>3, ToolsPending DEF make, Types, TypeOK, targets
  <2>2. BuiltWhenRead'
    <3>1. /\ Pending("circom", job') <=> ~uptodate
          /\ Pending("rej", job') <=> ~uptodate
      BY ToolsPending
    <3>. QED
      BY <3>1, <1>3 DEF make, BuiltWhenRead, targets
  <2>3. SoFar'
    <3> SUFFICES ASSUME target = "default" PROVE SoFar'
      BY DEF SoFar
    <3>1. /\ Pending("rej", job') <=> ~uptodate
          /\ Pending("mapper", job') /\ Pending("wej", job')
      BY ToolsPending
    <3>. QED
      BY <3>1, <1>3 DEF make, SoFar, BuiltWhenRead, targets
  <2>4. Alone'
    BY <1>3 DEF make, Alone
  <2>5. OneBuildAfterMake'
    BY <1>3 DEF make, OneBuildAfterMake, Written, Circuit_
  <2>. QED
    BY <2>1, <2>2, <2>3, <2>4, <2>5
<1>4. CASE init
  <2>1. Ran("init") /\ "init" \in Tool
    BY <1>4 DEF init, Tool
  <2>2. /\ \A t \in Tool \ {"init"} : Pending(t, job) <=> Pending(t, job')
        /\ job' \in Seq(Tool) /\ InOrder(job') /\ job # <<>> /\ (job' # <<>> => at = "idle")
        /\ Pending("init", job) /\ ~Pending("init", job')
    BY <2>1, RanPending
  <2>3. IsWhole(built) => built' = built
    BY <1>4, WholeInFile DEF init, Types
  <2>4. /\ Pending("circom", job) <=> Pending("circom", job')
        /\ Pending("rej", job) <=> Pending("rej", job')
        /\ Pending("mapper", job) <=> Pending("mapper", job')
        /\ Pending("wej", job) <=> Pending("wej", job')
    BY <2>2 DEF Tool
  <2>5. Types'
    BY <1>4, <2>2 DEF init, Ran, Types, TypeOK
  <2>6. BuiltWhenRead'
    BY <1>4, <2>2, <2>3, <2>4 DEF init, BuiltWhenRead, IsWhole
  <2>7. SoFar'
    BY <1>4, <2>1, <2>2, <2>3, <2>4 DEF init, Ran, SoFar, BuiltWhenRead
  <2>8. Alone' /\ OneBuildAfterMake'
    BY <1>4, <2>2 DEF init, Alone, OneBuildAfterMake, Written, Circuit_
  <2>. QED
    BY <2>5, <2>6, <2>7, <2>8
<1>5. CASE circom
  <2>1. Ran("circom") /\ "circom" \in Tool
    BY <1>5 DEF circom, Tool
  <2>2. /\ \A t \in Tool \ {"circom"} : Pending(t, job) <=> Pending(t, job')
        /\ job' \in Seq(Tool) /\ InOrder(job') /\ job # <<>> /\ (job' # <<>> => at = "idle")
        /\ Pending("circom", job) /\ ~Pending("circom", job')
    BY <2>1, RanPending
  <2>3. /\ Pending("rej", job) <=> Pending("rej", job')
        /\ Pending("mapper", job) <=> Pending("mapper", job')
        /\ Pending("wej", job) <=> Pending("wej", job')
    BY <2>2 DEF Tool
  <2>4. ~uptodate /\ Pending("rej", job')
    BY <2>2, <2>3 DEF BuiltWhenRead
  <2>5. IsWhole(built') /\ built' \in {Whole(c) : c \in Circuit}
    BY <1>5 DEF circom, IsWhole, Whole, Types, TypeOK
  <2>6. Types'
    BY <1>5, <2>2, <2>5 DEF circom, Ran, Types, TypeOK
  <2>7. BuiltWhenRead'
    BY <1>5, <2>2, <2>4, <2>5 DEF circom, BuiltWhenRead
  <2>8. SoFar'
    BY <1>5, <2>1, <2>2, <2>3, <2>4 DEF circom, Ran, SoFar
  <2>9. Alone' /\ OneBuildAfterMake'
    BY <1>5, <2>2 DEF circom, Alone, OneBuildAfterMake, Written, Circuit_
  <2>. QED
    BY <2>6, <2>7, <2>8, <2>9
<1>6. CASE rej
  <2>1. Ran("rej") /\ "rej" \in Tool
    BY <1>6 DEF rej, Tool
  <2>2. /\ \A t \in Tool \ {"rej"} : Pending(t, job) <=> Pending(t, job')
        /\ \A t \in Tool : Pending(t, job) => Rank["rej"] <= Rank[t]
        /\ job' \in Seq(Tool) /\ InOrder(job') /\ job # <<>> /\ (job' # <<>> => at = "idle")
        /\ Pending("rej", job) /\ ~Pending("rej", job')
    BY <2>1, RanPending
  <2>3. ~Pending("circom", job) /\ ~Pending("init", job)
    BY <2>2 DEF Tool, Rank
  <2>4. /\ ~Pending("circom", job') /\ ~Pending("init", job')
        /\ Pending("mapper", job) <=> Pending("mapper", job')
        /\ Pending("wej", job) <=> Pending("wej", job')
    BY <2>2, <2>3 DEF Tool
  <2>5. IsWhole(built)
    BY <2>2, <2>3 DEF BuiltWhenRead
  <2>6. built \in File \ {Missing, Partial}
    BY <2>5, WholeInFile DEF Types
  <2>7. Types'
    BY <1>6, <2>2, <2>6 DEF rej, Ran, Types, TypeOK
  <2>8. BuiltWhenRead'
    BY <1>6, <2>2, <2>4, <2>5 DEF rej, BuiltWhenRead, IsWhole
  <2>9. SoFar'
    BY <1>6, <2>1, <2>2, <2>4 DEF rej, Ran, SoFar
  <2>10. Alone' /\ OneBuildAfterMake'
    BY <1>6, <2>2 DEF rej, Alone, OneBuildAfterMake, Written, Circuit_
  <2>. QED
    BY <2>7, <2>8, <2>9, <2>10
<1>7. ASSUME NEW tool \in {"rp", "wc"}, Ran(tool), UNCHANGED <<source, uptodate, targets, at, schema>>
      PROVE  IInv'
  <2>1. tool \in Tool
    BY DEF Tool
  <2>2. /\ \A t \in Tool \ {tool} : Pending(t, job) <=> Pending(t, job')
        /\ job' \in Seq(Tool) /\ InOrder(job') /\ job # <<>> /\ (job' # <<>> => at = "idle")
    BY <1>7, <2>1, RanPending
  <2>3. /\ Pending("circom", job) <=> Pending("circom", job')
        /\ Pending("init", job) <=> Pending("init", job')
        /\ Pending("rej", job) <=> Pending("rej", job')
        /\ Pending("mapper", job) <=> Pending("mapper", job')
        /\ Pending("wej", job) <=> Pending("wej", job')
    BY <2>2 DEF Tool
  <2>4. Types'
    BY <1>7, <2>2 DEF Ran, Types, TypeOK, targets
  <2>5. BuiltWhenRead'
    BY <1>7, <2>2, <2>3 DEF BuiltWhenRead, targets, IsWhole
  <2>6. SoFar'
    BY <1>7, <2>3 DEF Ran, SoFar, targets
  <2>7. Alone' /\ OneBuildAfterMake'
    BY <1>7, <2>2 DEF Alone, OneBuildAfterMake, Written, Circuit_
  <2>. QED
    BY <2>4, <2>5, <2>6, <2>7
<1>8. CASE mapper
  <2>1. Ran("mapper") /\ "mapper" \in Tool
    BY <1>8 DEF mapper, Tool
  <2>2. /\ \A t \in Tool \ {"mapper"} : Pending(t, job) <=> Pending(t, job')
        /\ \A t \in Tool : Pending(t, job) => Rank["mapper"] <= Rank[t]
        /\ job' \in Seq(Tool) /\ InOrder(job') /\ job # <<>> /\ (job' # <<>> => at = "idle")
        /\ ~Pending("mapper", job')
    BY <2>1, RanPending
  <2>3. ~Pending("init", job) /\ ~Pending("circom", job) /\ ~Pending("rej", job)
    BY <2>2 DEF Tool, Rank
  <2>4. /\ ~Pending("init", job') /\ ~Pending("circom", job') /\ ~Pending("rej", job')
        /\ Pending("wej", job) <=> Pending("wej", job')
    BY <2>2, <2>3 DEF Tool
  <2>5. IsWhole(built)
    BY <2>2, <2>3 DEF BuiltWhenRead
  <2>6. built \in File \ {Missing, Partial}
    BY <2>5, WholeInFile DEF Types
  <2>7. Types'
    BY <1>8, <2>2, <2>6 DEF mapper, Ran, Types, TypeOK
  <2>8. BuiltWhenRead'
    BY <1>8, <2>4, <2>5 DEF mapper, BuiltWhenRead, IsWhole
  <2>9. SoFar'
    BY <1>8, <2>1, <2>3, <2>4 DEF mapper, Ran, SoFar
  <2>10. Alone' /\ OneBuildAfterMake'
    BY <1>8, <2>2 DEF mapper, Alone, OneBuildAfterMake, Written, Circuit_
  <2>. QED
    BY <2>7, <2>8, <2>9, <2>10
<1>9. CASE wej
  <2>1. Ran("wej") /\ "wej" \in Tool
    BY <1>9 DEF wej, Tool
  <2>2. /\ \A t \in Tool \ {"wej"} : Pending(t, job) <=> Pending(t, job')
        /\ \A t \in Tool : Pending(t, job) => Rank["wej"] <= Rank[t]
        /\ job' \in Seq(Tool) /\ InOrder(job') /\ job # <<>> /\ (job' # <<>> => at = "idle")
        /\ ~Pending("wej", job')
    BY <2>1, RanPending
  <2>3. ~Pending("init", job) /\ ~Pending("circom", job) /\ ~Pending("rej", job)
    BY <2>2 DEF Tool, Rank
  <2>4. /\ ~Pending("init", job') /\ ~Pending("circom", job') /\ ~Pending("rej", job')
        /\ Pending("mapper", job) <=> Pending("mapper", job')
    BY <2>2, <2>3 DEF Tool
  <2>5. IsWhole(built)
    BY <2>2, <2>3 DEF BuiltWhenRead
  <2>6. built \in File \ {Missing, Partial}
    BY <2>5, WholeInFile DEF Types
  <2>7. Types'
    BY <1>9, <2>2, <2>6 DEF wej, Ran, Types, TypeOK
  <2>8. BuiltWhenRead'
    BY <1>9, <2>4, <2>5 DEF wej, BuiltWhenRead, IsWhole
  <2>9. SoFar'
    BY <1>9, <2>1, <2>3, <2>4 DEF wej, Ran, SoFar
  <2>10. Alone' /\ OneBuildAfterMake'
    BY <1>9, <2>2 DEF wej, Alone, OneBuildAfterMake, Written, Circuit_
  <2>. QED
    BY <2>7, <2>8, <2>9, <2>10
<1>10. CASE ToolFails
  <2>. PICK died \in BOOLEAN :
          /\ map' = After(map, "mapper", died)
          /\ witness' = After(witness, "wej", died)
          /\ constraints' = After(constraints, "rej", died)
          /\ uptodate' = (uptodate \/ (died /\ Head(job) = "rej"))
    BY <1>10 DEF ToolFails
  <2>1. /\ job # <<>> /\ job' = <<>> /\ ~complete' /\ UNCHANGED <<source, built, at, schema>>
        /\ at = "idle"
    BY <1>10 DEF ToolFails, Types, TypeOK
  <2>2. Head(job) = "rej" => IsWhole(built)
    <3> SUFFICES ASSUME Head(job) = "rej" PROVE ~Pending("circom", job)
      BY <2>1 DEF BuiltWhenRead
    <3>1. \A t \in Tool : Pending(t, job) => Rank["rej"] <= Rank[t]
      BY <2>1, TailPending DEF Types
    <3>. QED
      BY <3>1 DEF Tool, Rank
  <2>3. {constraints', map', witness'} \subseteq File
    BY DEF Types, TypeOK, After, File
  <2>4. uptodate' => constraints' \in {constraints, Partial} /\ (constraints' = Partial \/ uptodate)
    BY DEF After
  <2>5. Partial # Missing
    BY DEF Partial, Missing
  <2>. uptodate' \in BOOLEAN /\ (uptodate' => constraints' # Missing)
    <3>1. uptodate' \in BOOLEAN
      OBVIOUS
    <3>. QED
      BY <3>1, <2>4, <2>5 DEF Types, TypeOK
  <2>. job' \in Seq(Tool) /\ InOrder(job') /\ complete' \in BOOLEAN
    BY <1>10, <2>1, Parts DEF ToolFails
  <2>6. Types'
    BY <2>1, <2>3 DEF Types, TypeOK
  <2>7. BuiltWhenRead'
    BY <2>1, <2>2, <2>4 DEF BuiltWhenRead, IsWhole
  <2>8. SoFar' /\ Alone'
    BY <2>1 DEF SoFar, Alone
  <2>9. OneBuildAfterMake'
    BY <2>1 DEF OneBuildAfterMake, Written, Circuit_
  <2>. QED
    BY <2>6, <2>7, <2>8, <2>9
<1>11. CASE OpenFiles
  <2>1. Types'
    BY <1>11 DEF OpenFiles, Enter, Stay, Idle, Types, TypeOK, targets, IsWhole, Missing, Partial
  <2>2. BuiltWhenRead' /\ SoFar' /\ Alone'
    BY <1>11 DEF OpenFiles, Enter, Stay, Idle, BuiltWhenRead, SoFar, Alone, targets
  <2>3. OneBuildAfterMake'
    BY <1>11 DEF OpenFiles, OneBuildAfterMake, Written, Circuit_
  <2>. QED
    BY <2>1, <2>2, <2>3
<1>12. CASE ReadNames \/ ReadValues
  <2>. at \in {"names", "values"} /\ job = <<>> /\ at' \in {"values", "write", "threw"} /\ UNCHANGED schema /\ Stay
    BY <1>12 DEF ReadNames, ReadValues, Enter, Alone
  <2>1. Types'
    BY DEF Stay, Types, TypeOK, targets
  <2>2. BuiltWhenRead' /\ SoFar' /\ Alone'
    BY DEF Stay, BuiltWhenRead, SoFar, Alone, targets
  <2>3. OneBuildAfterMake'
    BY DEF OneBuildAfterMake, Written, Circuit_
  <2>. QED
    BY <2>1, <2>2, <2>3
<1>13. CASE OpenOutput \/ WriteSchema \/ TranslatorDies
  <2>. /\ at \in {"names", "values", "write", "writing"} /\ job = <<>>
       /\ at' \in {"writing", "done", "threw", "died"} /\ Stay
    BY <1>13 DEF OpenOutput, WriteSchema, TranslatorDies, Enter, Alone
  <2>1. Types'
    BY DEF Stay, Types, TypeOK, targets
  <2>2. BuiltWhenRead' /\ SoFar' /\ Alone'
    BY DEF Stay, BuiltWhenRead, SoFar, Alone, targets
  <2>3. OneBuildAfterMake'
    <3>1. CASE UNCHANGED schema
      BY <3>1 DEF OneBuildAfterMake, Written, Circuit_
    <3>2. CASE schema' = Whole([circuit |-> Translated, of |-> constraints.content,
                                names |-> map.content, complete |-> complete])
      <4>1. complete => constraints = built /\ map = built /\ witness = built
        BY DEF Types, TypeOK, SoFar
      <4>2. Translated.variables = witness.content
        BY DEF Translated
      <4>. QED
        BY <3>2, <4>1, <4>2 DEF OneBuildAfterMake, Circuit_, Whole
    <3>3. CASE schema' = Partial
      BY <3>3 DEF OneBuildAfterMake, Written, IsWhole, Partial
    <3>. QED
      BY <1>13, <3>1, <3>2, <3>3 DEF OpenOutput, WriteSchema, TranslatorDies
  <2>. QED
    BY <2>1, <2>2, <2>3
<1>14. CASE UNCHANGED vars
  BY <1>14 DEF vars, targets, Types, TypeOK, BuiltWhenRead, SoFar, Alone, OneBuildAfterMake, Written, Circuit_
<1>. QED
  BY <1>1, <1>2, <1>3, <1>4, <1>5, <1>6, <1>7, <1>8, <1>9, <1>10, <1>11, <1>12, <1>13, <1>14 DEF Next, rp, wc

LEMMA Invariant == Spec => []IInv
BY InitIInv, NextIInv, PTL DEF Spec

-----------------------------------------------------------------------------
(* Type correctness, for every set of versions of the circuit: constraints,  *)
(* names and witness are whole files when the translator works on them, and  *)
(* a tool runs only when the translator does not.                            *)
THEOREM TypeCorrect == Spec => []TypeOK
<1>1. IInv => TypeOK
  BY DEF IInv, Types
<1>. QED
  BY <1>1, Invariant, PTL

(* Whatever was edited, failed or was left behind before: the schema         *)
(* translated after a make of everything that has ended well is of one build *)
(* of one version of the circuit (circom-verification/Makefile:14-33,        *)
(* translator.cpp:15-74).                                                    *)
THEOREM OneBuild == Spec => []OneBuildAfterMake
<1>1. IInv => OneBuildAfterMake
  BY DEF IInv
<1>. QED
  BY <1>1, Invariant, PTL

-----------------------------------------------------------------------------
(* What the output is made of.                                               *)
MadeOf ==
    Written =>
        LET c == schema.content.of
        IN /\ c \in Circuit
           /\ Circuit_.public_inps = public_inps(c)
           /\ Circuit_.wires = [j \in DOMAIN c.constraints |-> [i \in 1 .. 3 |-> Wires(c.constraints[j][i])]]
           /\ Circuit_.selectors =
                [j \in DOMAIN c.constraints |-> [i \in 1 .. 3 |-> Selectors(c.constraints[j][i])]]

LEMMA MadeOfInvariant == Spec => []MadeOf
<1>1. Init => MadeOf
  BY DEF Init, MadeOf, Written, IsWhole, Missing
<1>2. ASSUME IInv, MadeOf, [Next]_vars PROVE MadeOf'
  <2>1. CASE UNCHANGED schema
    BY <1>2, <2>1 DEF MadeOf, Written, Circuit_
  <2>2. CASE clean
    BY <2>2 DEF clean, MadeOf, Written, IsWhole, Missing
  <2>3. CASE schema' = Whole([circuit |-> Translated, of |-> constraints.content,
                              names |-> map.content, complete |-> complete]) /\ at = "writing"
    <3>1. constraints \in File \ {Missing, Partial}
      BY <1>2, <2>3 DEF IInv, Types, TypeOK
    <3>2. constraints.content \in Circuit
      BY <3>1 DEF File, Whole
    <3>3. schema'.content.of = constraints.content /\ schema'.content.circuit = Translated
      BY <2>3 DEF Whole
    <3>. QED
      BY <3>2, <3>3 DEF MadeOf, Circuit_, Translated
  <2>4. CASE schema' = Partial
    BY <2>4 DEF MadeOf, Written, IsWhole, Partial
  <2>. QED
    BY <1>2, <2>1, <2>2, <2>3, <2>4 DEF Next, vars, EditCircuit, make, init, circom, rp, rej, mapper, wc, wej,
        ToolFails, OpenFiles, ReadNames, ReadValues, OpenOutput, WriteSchema, TranslatorDies
<1>. QED
  BY <1>1, <1>2, Invariant, PTL DEF Spec

(* For every circuit: the wires the schema names as public inputs are the    *)
(* public inputs iff the circuit has no outputs or no public inputs          *)
(* (translator.cpp:33-38).                                                   *)
THEOREM PublicInputs == Spec => []PublicInputsIffNoOutputs
<1>1. ASSUME MadeOf PROVE PublicInputsIffNoOutputs
  <2> SUFFICES ASSUME Written
               PROVE  LET c == schema.content.of
                      IN Range(Circuit_.public_inps) = c.nOutputs + 1 .. c.nOutputs + c.nPubInputs
                            <=> c.nOutputs = 0 \/ c.nPubInputs = 0
    BY DEF PublicInputsIffNoOutputs
  <2>. DEFINE c == schema.content.of  o == c.nOutputs  n == c.nPubInputs
  <2>1. c \in Circuit /\ Circuit_.public_inps = [i \in 1 .. n |-> i]
    BY <1>1 DEF MadeOf, public_inps
  <2>2. o \in Nat /\ n \in Nat
    BY <2>1, CircuitAssumption DEF WellFormed
  <2>3. Range(Circuit_.public_inps) = 1 .. n
    BY <2>1 DEF Range
  <2>. HIDE DEF o, n
  <2>4. 1 .. n = o + 1 .. o + n => o = 0 \/ n = 0
    <3> SUFFICES ASSUME 1 .. n = o + 1 .. o + n, o # 0, n # 0 PROVE FALSE
      OBVIOUS
    <3>. 1 \in 1 .. n /\ 1 \notin o + 1 .. o + n
      BY <2>2
    <3>. QED
      OBVIOUS
  <2>5. o = 0 \/ n = 0 => 1 .. n = o + 1 .. o + n
    BY <2>2
  <2>. QED
    BY <2>3, <2>4, <2>5 DEF o, n
<1>. QED
  BY <1>1, MadeOfInvariant, PTL

(* Each wire of a linear combination comes once.                             *)
LEMMA WiresOnce ==
    ASSUME NEW lc, IsFiniteSet(DOMAIN lc)
    PROVE  /\ Wires(lc) \in [1 .. Cardinality(DOMAIN lc) -> DOMAIN lc]
           /\ Cardinality(DOMAIN lc) \in Nat
           /\ \A w \in DOMAIN lc : \E t \in 1 .. Cardinality(DOMAIN lc) : Wires(lc)[t] = w
<1>. DEFINE S == DOMAIN lc  n == Cardinality(S)  f == Wires(lc)
<1>1. n \in Nat /\ ExistsBijection(1 .. n, S)
  BY FS_CardinalityType
<1>2. f \in [1 .. n -> S] /\ IsInjective(f)
  <2>. PICK g \in Bijection(1 .. n, S) : TRUE
    BY <1>1 DEF ExistsBijection
  <2>. g \in [1 .. n -> S] /\ IsInjective(g)
    BY DEF Bijection, Injection, IsInjective
  <2>. QED
    BY DEF Wires, SetToSeq
<1>. HIDE DEF f, n
<1>. DEFINE T == {f[t] : t \in 1 .. n}
<1>3. T \in SUBSET S
  BY <1>2
<1>4. f \in Bijection(1 .. n, T)
  BY <1>2 DEF Bijection, Injection, Surjection, IsInjective
<1>5. Cardinality(T) = n
  BY <1>1, <1>4, FS_CountingElements DEF ExistsBijection
<1>6. T = S
  BY <1>3, <1>5, FS_Subset DEF n
<1>. QED
  BY <1>1, <1>2, <1>6 DEF f, n

(* For every circuit: each term of each constraint keeps its wire and its    *)
(* selector (translator.cpp:52-69).                                          *)
THEOREM KeepsConstraints == Spec => []ConstraintsKept
<1>1. ASSUME MadeOf PROVE ConstraintsKept
  <2> SUFFICES ASSUME Written, NEW j \in DOMAIN schema.content.of.constraints, NEW i \in 1 .. 3
               PROVE  LET lc == schema.content.of.constraints[j][i]
                          wires == Circuit_.wires[j][i]
                      IN /\ Len(wires) = Cardinality(DOMAIN lc)
                         /\ \A w \in DOMAIN lc : \E t \in DOMAIN wires :
                                wires[t] = w /\ Circuit_.selectors[j][i][t] = lc[w]
    BY DEF ConstraintsKept
  <2>. DEFINE c == schema.content.of  lc == c.constraints[j][i]  n == Cardinality(DOMAIN lc)
  <2>1. c \in Circuit /\ Circuit_.wires[j][i] = Wires(lc) /\ Circuit_.selectors[j][i] = Selectors(lc)
    BY <1>1 DEF MadeOf
  <2>2. c.nVars \in Nat /\ DOMAIN lc \subseteq 0 .. c.nVars - 1
    BY <2>1, CircuitAssumption DEF WellFormed
  <2>. HIDE DEF c, lc
  <2>3. IsFiniteSet(DOMAIN lc)
    <3>1. 0 \in Int /\ c.nVars - 1 \in Int
      BY <2>2
    <3>2. IsFiniteSet(0 .. c.nVars - 1)
      BY <3>1, FS_Interval
    <3>. QED
      BY <2>2, <3>2, FS_Subset
  <2>4. /\ Wires(lc) \in [1 .. n -> DOMAIN lc] /\ n \in Nat
        /\ \A w \in DOMAIN lc : \E t \in 1 .. n : Wires(lc)[t] = w
    BY <2>3, WiresOnce
  <2>5. Len(Wires(lc)) = n
    BY <2>4
  <2>6. \A t \in 1 .. n : Selectors(lc)[t] = lc[Wires(lc)[t]]
    BY <2>4 DEF Selectors
  <2>7. \A w \in DOMAIN lc : \E t \in DOMAIN Wires(lc) : Wires(lc)[t] = w /\ Selectors(lc)[t] = lc[w]
    BY <2>4, <2>6
  <2>. HIDE DEF n
  <2>8. /\ Len(Circuit_.wires[j][i]) = n
        /\ \A w \in DOMAIN lc : \E t \in DOMAIN Circuit_.wires[j][i] :
               Circuit_.wires[j][i][t] = w /\ Circuit_.selectors[j][i][t] = lc[w]
    BY <2>1, <2>5, <2>7, Zenon
  <2>. QED
    BY <2>8 DEF c, lc, n
<1>. QED
  BY <1>1, MadeOfInvariant, PTL

-----------------------------------------------------------------------------
(* The slots of the mapper.                                                  *)
LEMMA CountBelow ==
    ASSUME NEW n \in Nat
    PROVE  IsFiniteSet(0 .. n - 1) /\ Cardinality(0 .. n - 1) = n
<1>1. /\ IsFiniteSet(0 .. n - 1)
      /\ Cardinality(0 .. n - 1) = IF 0 > n - 1 THEN 0 ELSE (n - 1) - 0 + 1
  BY FS_Interval
<1>. QED
  BY <1>1

(* Where the slots are filled from the first on, the n-th is number n - 1.   *)
LEMMA NthOfFirst ==
    ASSUME NEW slots \in SUBSET Nat, IsFiniteSet(slots), NEW k \in Nat, 0 .. k - 1 \subseteq slots
    PROVE  /\ Cardinality(slots) \in Nat /\ k <= Cardinality(slots)
           /\ \A n \in 1 .. k : Nth(slots, n) = n - 1
<1>. DEFINE Below(s) == {t \in slots : t < s}
<1>1. Cardinality(slots) \in Nat /\ k <= Cardinality(slots)
  BY CountBelow, FS_Subset, FS_CardinalityType
<1>2. ASSUME NEW s \in slots PROVE IsFiniteSet(Below(s)) /\ Cardinality(Below(s)) \in Nat
  BY FS_Subset, FS_CardinalityType
<1>3. ASSUME NEW s \in 0 .. k - 1 PROVE Cardinality(Below(s)) = s
  <2>1. Below(s) = 0 .. s - 1
    <3>1. ASSUME NEW t PROVE t \in Below(s) <=> t \in 0 .. s - 1
      <4>1. ASSUME t \in slots, t < s PROVE t \in 0 .. s - 1
        BY <4>1
      <4>2. ASSUME t \in 0 .. s - 1 PROVE t \in slots /\ t < s
        <5>. t \in 0 .. k - 1 /\ t < s
          BY <4>2
        <5>. QED
          OBVIOUS
      <4>. QED
        BY <4>1, <4>2
    <3>. QED
      BY <3>1
  <2>2. Cardinality(0 .. s - 1) = s
    BY CountBelow
  <2>. QED
    BY <2>1, <2>2
<1>4. ASSUME NEW n \in 1 .. k, NEW s \in slots, Cardinality(Below(s)) = n - 1
      PROVE  s = n - 1
  <2>1. CASE s < n
    <3>1. s \in 0 .. k - 1
      BY <2>1
    <3>. QED
      BY <1>3, <1>4, <3>1
  <2>2. CASE s >= n
    <3>1. 0 .. n - 1 \in SUBSET Below(s)
      BY <2>2
    <3>2. Cardinality(0 .. n - 1) = n /\ n \in Nat
      BY CountBelow
    <3>3. n <= Cardinality(Below(s))
      BY <1>2, <3>1, <3>2, FS_Subset
    <3>. QED
      BY <1>4, <3>2, <3>3
  <2>. QED
    BY <2>1, <2>2
<1>5. ASSUME NEW n \in 1 .. k PROVE Nth(slots, n) = n - 1
  <2>1. n - 1 \in slots /\ Cardinality(Below(n - 1)) = n - 1
    BY <1>3
  <2>2. Nth(slots, n) \in slots /\ Cardinality(Below(Nth(slots, n))) = n - 1
    BY <2>1 DEF Nth
  <2>. QED
    BY <1>4, <2>2
<1>. QED
  BY <1>1, <1>5

(* There is a line for every wire; the slot of removed signals lies behind.  *)
LEMMA LinesSuffice ==
    ASSUME NEW c \in Circuit
    PROVE  /\ c.nVars \in Nat /\ c.nVars >= 1 /\ c.nVars <= Slots(c.sym)
           /\ (\E m \in DOMAIN c.sym : c.sym[m].wire = -1) => c.nVars < Slots(c.sym)
<1>. DEFINE n == c.nVars - 1  L == Len(c.sym)
            f == [w \in 1 .. n |-> CHOOSE l \in DOMAIN c.sym : c.sym[l].wire = w]
<1>1. /\ c.nVars \in Nat /\ c.nVars >= 1 /\ L \in Nat /\ DOMAIN c.sym = 1 .. L
      /\ \A w \in 1 .. n : \E l \in DOMAIN c.sym : c.sym[l].wire = w
  <2>. c.nVars \in Nat /\ c.nOutputs \in Nat /\ c.nPubInputs \in Nat /\ c.nVars > c.nOutputs + c.nPubInputs
    BY CircuitAssumption DEF WellFormed
  <2>. QED
    BY CircuitAssumption DEF WellFormed
<1>2. \A w \in 1 .. n : f[w] \in DOMAIN c.sym /\ c.sym[f[w]].wire = w
  BY <1>1
<1>. HIDE DEF f
<1>3. ASSUME NEW T \in SUBSET (DOMAIN c.sym), \A w \in 1 .. n : f[w] \in T
      PROVE  IsFiniteSet(T) /\ n <= Cardinality(T)
  <2>1. IsFiniteSet(DOMAIN c.sym)
    <3>. 1 \in Int /\ L \in Int
      BY <1>1
    <3>. QED
      BY <1>1, FS_Interval
  <2>2. IsFiniteSet(T)
    BY <2>1, FS_Subset
  <2>3. f \in Injection(1 .. n, T)
    <3>1. f \in [1 .. n -> T]
      BY <1>3 DEF f
    <3>2. \A v, w \in 1 .. n : f[v] = f[w] => v = w
      BY <1>2
    <3>. QED
      BY <3>1, <3>2 DEF Injection, IsInjective
  <2>4. Cardinality(1 .. n) <= Cardinality(T)
    BY <2>2, <2>3, FS_Injection DEF ExistsInjection
  <2>5. Cardinality(1 .. n) = n
    <3>. 1 \in Int /\ n \in Int
      BY <1>1
    <3>1. Cardinality(1 .. n) = IF 1 > n THEN 0 ELSE n - 1 + 1
      BY FS_Interval
    <3>. QED
      BY <1>1, <3>1
  <2>. QED
    BY <2>2, <2>4, <2>5
<1>4. IsFiniteSet(DOMAIN c.sym) /\ Cardinality(DOMAIN c.sym) = L
  <2>. 1 \in Int /\ L \in Int
    BY <1>1
  <2>1. IsFiniteSet(1 .. L) /\ Cardinality(1 .. L) = IF 1 > L THEN 0 ELSE L - 1 + 1
    BY FS_Interval
  <2>. QED
    BY <1>1, <2>1
<1>5. n <= L
  BY <1>2, <1>3, <1>4
<1>6. ASSUME NEW m \in DOMAIN c.sym, c.sym[m].wire = -1 PROVE n <= L - 1
  <2>1. \A w \in 1 .. n : f[w] \in DOMAIN c.sym \ {m}
    BY <1>2, <1>6
  <2>2. n <= Cardinality(DOMAIN c.sym \ {m})
    BY <1>3, <2>1
  <2>3. Cardinality(DOMAIN c.sym \ {m}) = L - 1
    BY <1>4, FS_RemoveElement
  <2>. QED
    BY <2>2, <2>3
<1>7. Slots(c.sym) = L + 1
  BY DEF Slots
<1>. QED
  BY <1>1, <1>5, <1>6, <1>7

(* Every wire of a circuit has the name circom gives it.                     *)
LEMMA MapNames ==
    ASSUME NEW c \in Circuit
    PROVE  LET map_ == create_map(c.sym)
           IN /\ map_ \in Seq(Range(map_)) /\ c.nVars <= Len(map_)
              /\ \A w \in 0 .. c.nVars - 1 :
                    map_[w + 1] = IF w = 0 THEN {"one"} ELSE LabelsOf(c, w)
<1>. DEFINE sym == c.sym  filled == Filled(sym)  map_ == create_map(sym)
<1>1. /\ Len(sym) \in Nat /\ DOMAIN sym = 1 .. Len(sym)
      /\ \A l \in DOMAIN sym : sym[l].wire \in {-1} \cup 1 .. c.nVars - 1
      /\ \A w \in 1 .. c.nVars - 1 : \E l \in DOMAIN sym : sym[l].wire = w
  BY CircuitAssumption DEF WellFormed
<1>2. /\ c.nVars \in Nat /\ c.nVars >= 1 /\ c.nVars <= Slots(sym) /\ Slots(sym) = Len(sym) + 1
      /\ (\E m \in DOMAIN sym : sym[m].wire = -1) => c.nVars < Slots(sym)
  BY LinesSuffice DEF Slots
<1>3. ASSUME NEW w \in 0 .. c.nVars - 1
      PROVE  {m \in DOMAIN sym : Slot(sym, sym[m].wire) = w} = {m \in DOMAIN sym : sym[m].wire = w}
  <2> SUFFICES ASSUME NEW m \in DOMAIN sym PROVE Slot(sym, sym[m].wire) = w <=> sym[m].wire = w
    OBVIOUS
  <2>1. CASE sym[m].wire = -1
    <3>1. Slot(sym, sym[m].wire) = Slots(sym) - 1
      BY <1>2, <2>1 DEF Slot
    <3>. QED
      BY <1>2, <2>1, <3>1
  <2>2. CASE sym[m].wire \in 1 .. c.nVars - 1
    <3>1. ~(sym[m].wire < 0)
      BY <1>2, <2>2
    <3>. QED
      BY <3>1 DEF Slot
  <2>. QED
    BY <1>1, <2>1, <2>2
<1>4. ASSUME NEW w \in 0 .. c.nVars - 1
      PROVE  LabelsAt(sym, w) = IF w = 0 THEN {"one"} ELSE LabelsOf(c, w)
  <2>. DEFINE at_ == {m \in DOMAIN sym : sym[m].wire = w}
  <2>1. LabelsAt(sym, w) = (IF w = 0 THEN {"one"} ELSE {}) \cup {sym[l].label : l \in at_}
    BY <1>3 DEF LabelsAt
  <2>2. LabelsOf(c, w) = {sym[l].label : l \in at_}
    BY DEF LabelsOf
  <2>3. w = 0 => at_ = {}
    BY <1>1, <1>2
  <2>. HIDE DEF at_, sym
  <2>4. CASE w = 0
    BY <2>1, <2>3, <2>4
  <2>5. CASE w # 0
    BY <2>1, <2>2, <2>5
  <2>. QED
    BY <2>4, <2>5
<1>5. \A w \in 0 .. c.nVars - 1 : LabelsAt(sym, w) # {}
  <2>. SUFFICES ASSUME NEW w \in 0 .. c.nVars - 1 PROVE LabelsAt(sym, w) # {}
    OBVIOUS
  <2>0. CASE w = 0
    BY <1>4, <2>0
  <2>. SUFFICES ASSUME w # 0 PROVE LabelsOf(c, w) # {}
    BY <1>4, <2>0
  <2>5. w \in 1 .. c.nVars - 1
    BY <1>2
  <2>1. PICK l \in DOMAIN sym : sym[l].wire = w
    BY <1>1, <2>5
  <2>2. l \in {m \in DOMAIN c.sym : c.sym[m].wire = w}
    BY <2>1
  <2>3. sym[l].label \in LabelsOf(c, w)
    BY <2>2 DEF LabelsOf
  <2>. QED
    BY <2>3
<1>6. IsFiniteSet(filled) /\ filled \in SUBSET Nat /\ 0 .. c.nVars - 1 \subseteq filled
  <2>1. IsFiniteSet(0 .. Slots(sym) - 1) /\ filled \in SUBSET (0 .. Slots(sym) - 1)
    BY <1>1, <1>2, FS_Interval DEF Filled
  <2>2. 0 .. c.nVars - 1 \subseteq filled
    BY <1>2, <1>5 DEF Filled
  <2>3. IsFiniteSet(filled)
    BY <2>1, FS_Subset
  <2>4. 0 .. Slots(sym) - 1 \subseteq Nat
    BY <1>1, <1>2
  <2>. QED
    BY <2>1, <2>2, <2>3, <2>4
<1>. HIDE DEF filled
<1>7. Cardinality(filled) \in Nat /\ c.nVars <= Cardinality(filled)
        /\ \A n \in 1 .. c.nVars : Nth(filled, n) = n - 1
  BY <1>2, <1>6, NthOfFirst
<1>8. map_ = [n \in 1 .. Cardinality(filled) |-> LabelsAt(sym, Nth(filled, n))]
  BY DEF create_map, filled
<1>9. map_ \in Seq(Range(map_)) /\ Len(map_) = Cardinality(filled)
  <2>. HIDE DEF sym
  <2>. QED
    BY <1>7, <1>8 DEF Range
<1>10. ASSUME NEW w \in 0 .. c.nVars - 1 PROVE map_[w + 1] = LabelsAt(sym, w)
  <2>. DEFINE n == w + 1
  <2>1. n \in 1 .. c.nVars /\ n \in 1 .. Cardinality(filled) /\ n - 1 = w
    BY <1>2, <1>7
  <2>. HIDE DEF n
  <2>2. map_[n] = LabelsAt(sym, w)
    BY <1>7, <1>8, <2>1
  <2>. QED
    BY <2>2 DEF n
<1>. QED
  BY <1>4, <1>7, <1>9, <1>10

(* Which names the schema has been given.                                    *)
NamesGiven ==
    Written =>
        /\ schema.content.of \in Circuit /\ schema.content.names \in Circuit
        /\ Circuit_.vars_of_interest =
                SubSeq(create_map(schema.content.names.sym), 1, schema.content.of.nVars)

LEMMA NamesGivenInvariant == Spec => []NamesGiven
<1>1. Init => NamesGiven
  BY DEF Init, NamesGiven, Written, IsWhole, Missing
<1>2. ASSUME IInv, NamesGiven, [Next]_vars PROVE NamesGiven'
  <2>1. CASE UNCHANGED schema
    BY <1>2, <2>1 DEF NamesGiven, Written, Circuit_
  <2>2. CASE clean
    BY <2>2 DEF clean, NamesGiven, Written, IsWhole, Missing
  <2>3. CASE schema' = Whole([circuit |-> Translated, of |-> constraints.content,
                              names |-> map.content, complete |-> complete]) /\ at = "writing"
    <3>1. {constraints, map} \subseteq File \ {Missing, Partial}
      BY <1>2, <2>3 DEF IInv, Types, TypeOK
    <3>2. constraints.content \in Circuit /\ map.content \in Circuit
      BY <3>1 DEF File, Whole
    <3>3. /\ schema'.content.of = constraints.content /\ schema'.content.circuit = Translated
          /\ schema'.content.names = map.content
      BY <2>3 DEF Whole
    <3>4. Translated.vars_of_interest = SubSeq(create_map(map.content.sym), 1, constraints.content.nVars)
      BY DEF Translated, nVars
    <3>. QED
      BY <3>2, <3>3, <3>4 DEF NamesGiven, Circuit_
  <2>4. CASE schema' = Partial
    BY <2>4 DEF NamesGiven, Written, IsWhole, Partial
  <2>. QED
    BY <1>2, <2>1, <2>2, <2>3, <2>4 DEF Next, vars, EditCircuit, make, init, circom, rp, rej, mapper, wc, wej,
        ToolFails, OpenFiles, ReadNames, ReadValues, OpenOutput, WriteSchema, TranslatorDies
<1>. QED
  BY <1>1, <1>2, Invariant, PTL DEF Spec

(* For every circuit: where constraints and names are of one build, every     *)
(* wire has the names of the signals circom has put on it, whatever has been  *)
(* removed (mapper.py:5-28, translator.cpp:40-44).                            *)
THEOREM NamesWires == Spec => []NamesOnTheirWires
<1>1. ASSUME NamesGiven PROVE NamesOnTheirWires
  <2> SUFFICES ASSUME Written, schema.content.of = schema.content.names,
                      NEW w \in 0 .. schema.content.of.nVars - 1
               PROVE  Circuit_.vars_of_interest[w + 1] =
                        IF w = 0 THEN {"one"} ELSE LabelsOf(schema.content.of, w)
    BY DEF NamesOnTheirWires
  <2>. DEFINE c == schema.content.of  map_ == create_map(c.sym)  n == c.nVars
  <2>1. c \in Circuit /\ Circuit_.vars_of_interest = SubSeq(map_, 1, n)
    BY <1>1 DEF NamesGiven
  <2>2. /\ map_ \in Seq(Range(map_)) /\ n <= Len(map_) /\ n \in Nat
        /\ map_[w + 1] = IF w = 0 THEN {"one"} ELSE LabelsOf(c, w)
    BY <2>1, MapNames, LinesSuffice
  <2>. HIDE DEF map_, n
  <2>3. w + 1 \in 1 .. n
    BY <2>2 DEF n
  <2>4. SubSeq(map_, 1, n)[w + 1] = map_[w + 1]
    BY <2>2, <2>3
  <2>. QED
    BY <2>1, <2>2, <2>4
<1>. QED
  BY <1>1, NamesGivenInvariant, PTL

(* For every circuit: after a make of everything the translator throws only   *)
(* for want of a name of its output, or because of a broken constraints.json  *)
(* that make takes for made (circom-verification/Makefile:23-33,              *)
(* translator.cpp:3-74).                                                      *)
THEOREM Translates == Spec => TranslatesAfterMake
<1>1. ASSUME IInv, [Next]_vars
      PROVE  [at # "threw" /\ at' = "threw" /\ complete => at = "write" \/ constraints = Partial]_vars
  <2> SUFFICES ASSUME Next, at # "threw", at' = "threw", complete
               PROVE  at = "write" \/ constraints = Partial
    BY <1>1
  <2>1. OpenFiles \/ ReadNames \/ ReadValues \/ at = "write"
    BY DEF Next, EditCircuit, clean, make, init, circom, rp, rej, mapper, wc, wej, ToolFails, Ran,
        OpenOutput, WriteSchema, TranslatorDies, Enter
  <2>3. ASSUME constraints # Partial, job = <<>>
        PROVE  constraints = built /\ map = built /\ witness = built
    <3>. \A t : ~Pending(t, <<>>)
      BY Parts
    <3>. QED
      BY <1>1, <2>3 DEF IInv, SoFar
  <2>4. CASE OpenFiles
    <3> SUFFICES ASSUME constraints # Partial PROVE FALSE
      OBVIOUS
    <3>1. constraints # Missing /\ job = <<>>
            /\ ~(IsWhole(constraints) /\ IsWhole(map) /\ IsWhole(witness))
      BY <2>4 DEF OpenFiles, Enter, Idle
    <3>2. constraints = built /\ map = built /\ witness = built
      BY <2>3, <3>1
    <3>3. IsWhole(constraints)
      BY <1>1, <3>1 DEF IInv, Types, TypeOK, File, IsWhole, Whole
    <3>. QED
      BY <3>1, <3>2, <3>3
  <2>5. ASSUME constraints # Partial, at \in {"names", "values"}
        PROVE  constraints = map /\ constraints = witness /\ constraints.content \in Circuit
    <3>1. job = <<>>
      BY <1>1, <2>5 DEF IInv, Alone
    <3>2. constraints \in File \ {Missing, Partial}
      BY <1>1, <2>5 DEF IInv, Types, TypeOK
    <3>. QED
      BY <2>3, <2>5, <3>1, <3>2 DEF File, Whole
  <2>6. CASE ReadNames
    <3> SUFFICES ASSUME constraints # Partial PROVE FALSE
      OBVIOUS
    <3>. DEFINE c == constraints.content
    <3>1. c \in Circuit /\ map.content = c
      BY <2>5, <2>6 DEF ReadNames
    <3>2. c.nVars <= Len(create_map(c.sym)) /\ c.nVars \in Nat
      BY <3>1, MapNames, LinesSuffice
    <3>3. Len(create_map(c.sym)) \in Nat
      BY <3>1, MapNames
    <3>4. ~(Len(create_map(map.content.sym)) >= nVars)
      BY <2>6 DEF ReadNames, Enter
    <3>. QED
      BY <3>1, <3>2, <3>3, <3>4 DEF nVars
  <2>7. CASE ReadValues
    <3> SUFFICES ASSUME constraints # Partial PROVE FALSE
      OBVIOUS
    <3>1. constraints.content \in Circuit /\ witness.content = constraints.content
      BY <2>5, <2>7 DEF ReadValues
    <3>2. nVars \in Nat
      BY <3>1, LinesSuffice DEF nVars
    <3>3. ~(witness.content.nVars >= nVars)
      BY <2>7 DEF ReadValues, Enter
    <3>. QED
      BY <3>1, <3>2, <3>3 DEF nVars
  <2>. QED
    BY <2>1, <2>4, <2>6, <2>7
<1>. QED
  BY <1>1, Invariant, PTL DEF Spec, TranslatesAfterMake
=============================================================================
