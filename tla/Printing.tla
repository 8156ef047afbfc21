------------------------------ MODULE Printing ------------------------------
(***************************************************************************)
(* default_model and default_model_single: what a client that was told     *)
(* "sat" makes of the model.  The whole witness goes to a file, read from  *)
(* the solver under the names the variables print as; then the variables   *)
(* the client calls special are looked up by name and shown.               *)
(***************************************************************************)
EXTENDS UniqueWitness, TLC

CONSTANTS Request       \* calls: [circuits, special]

ASSUME RequestAssumption ==
    Request \subseteq [circuits : {<<"circuit1">>, <<"circuit1", "circuit2">>}, special : Seq(Name)]

VARIABLES
    request,        \* the arguments of the call
    printing,       \* where the call is: "none", "written", "shown", "threw"
    file,           \* row of the output file -> what it shows
    shown           \* what is shown of the special variables

printer == <<request, printing, file, shown>>

Untouched == <<>>
NoRequest == [circuits |-> <<>>, special |-> <<>>]

PrintInit ==
    /\ Init
    /\ request = NoRequest
    /\ printing = "none"
    /\ file = Untouched
    /\ shown = <<>>

-----------------------------------------------------------------------------
(* The name STerm::Var was given for a real index, without the tag: an      *)
(* unnamed variable is called by the first index that stands for it.        *)
PrintedName(s, real) ==
    IF real = 0 THEN "zero"
    ELSE IF real = 1 THEN "one"
    ELSE IF real \in DOMAIN s.vars_of_interest THEN s.vars_of_interest[real]
    ELSE LET first == CHOOSE i \in {j \in C1!Index(s) \ {0, 1} : C1!RealOf(s, j) = real} :
                          \A j \in C1!Index(s) \ {0, 1} : C1!RealOf(s, j) = real => i <= j
         IN "var_" \o ToString(first)

(* The real index whose variable row i is about. *)
Row(i) == C1!RealOf(schema, i)

NamedLike(i) == {j \in C1!Index(schema) : PrintedName(schema, Row(j)) = PrintedName(schema, Row(i))}
FirstOf(rows) == CHOOSE j \in rows : \A k \in rows : j <= k
(* Faulty variant of ValueByName: both columns are read from the first map. *)
ValueByName_First(t, i) == candidate[<<"circuit1", Row(FirstOf(NamedLike(i)))>>]
(* mmap[vname]: model(vector) keeps the value of the first row of a name.   *)
ValueByName(t, i) == candidate[<<t, Row(FirstOf(NamedLike(i)))>>]

(* s->model(vterms1), s->model(vterms2), which throw before the file is     *)
(* touched, and the loop that writes it.  The stream is not looked at: a    *)
(* file that cannot be opened gets no row, a full disk keeps the first ones. *)
WriteWitness ==
    /\ step = "built"
    /\ printing = "none"
    /\ request' \in Request
    /\ \/ /\ S!Refused
          /\ printing' = "threw"
          /\ UNCHANGED file
       \/ /\ ~S!Refused
          /\ printing' = "written"
          /\ \E rows \in 0 .. schema.num_vars :
                file' = [i \in 0 .. rows - 1 |->
                            [k \in DOMAIN request'.circuits |-> ValueByName(request'.circuits[k], i)]]
    /\ UNCHANGED <<vars, shown>>

InverseOf(t) == IF t = "circuit1" THEN inverse1 ELSE inverse2

(* Faulty variant of Keys: without the suffixes _1 and _2 the first stays. *)
Keys_Plain == [n \in Range(request.special) |-> [k \in DOMAIN request.circuits |-> <<n, 1>>]]
(* The keys <name>_1 and <name>_2 the special variables are shown under. *)
Keys == [n \in Range(request.special) |-> [k \in DOMAIN request.circuits |-> <<n, k>>]]

(* The lookups of the special names, then s->model(vterms) and the loop     *)
(* that shows the values.  The file is closed by then.                      *)
ShowSpecial ==
    /\ printing = "written"
    /\ LET special == Range(request.special)
           tags == request.circuits
       IN \/ /\ \A n \in special, k \in DOMAIN tags : n \in DOMAIN InverseOf(tags[k])
             /\ S!model_map([nk \in special \X DOMAIN tags |-> <<tags[nk[2]], InverseOf(tags[nk[2]])[nk[1]]>>])
             /\ shown' = [n \in special |-> [k \in DOMAIN tags |-> reply'.values[Keys[n][k]]]]
             /\ printing' = "shown"
          \/ /\ \E n \in special, k \in DOMAIN tags : n \notin DOMAIN InverseOf(tags[k])
             /\ printing' = "threw"
             /\ UNCHANGED <<shown, reply>>
    /\ UNCHANGED <<schema, call, step, pos, c1, c2, request, file>>
    /\ UNCHANGED <<asserted, mode, candidate, produceModels, checked, res, cvc_result>>

PrintNext ==
    \/ printing = "none" /\ Next /\ UNCHANGED printer
    \/ WriteWitness
    \/ ShowSpecial

PrintSpec ==
    /\ PrintInit
    /\ [][PrintNext]_<<vars, printer>>
    /\ WF_vars(printing = "none" /\ Step /\ UNCHANGED printer)

-----------------------------------------------------------------------------
(* No two variables of the schema print alike: a client that calls one      *)
(* "var_2" may break this.                                                  *)
PrintedOnce ==
    \A i, j \in C1!RealIndex(schema) : PrintedName(schema, i) = PrintedName(schema, j) => i = j

(* Whenever the file has got rows, by calls that fail later too, and however *)
(* few, they are those of two witnesses of the schema that refute the       *)
(* uniqueness the client asked about, or of one of them, if the call was    *)
(* posed and no two variables print alike (smt_util.cpp:24-49, 83-103).     *)
FileShowsEvidence ==
    (file # Untouched /\ PrintedOnce /\ Posed(<<schema, call>>)) =>
        \E pair \in Evidence(<<schema, call>>) :
            \A i \in DOMAIN file, k \in DOMAIN request.circuits :
                file[i][k] = pair[k][schema.real_variable_index[i]]

(* The special variables shown have the values their rows have in the file, *)
(* though they are read by other names and at another time                  *)
(* (smt_util.cpp:51-60, 105-113).                                           *)
ShownAsInTheFile ==
    (printing = "shown" /\ PrintedOnce) =>
        \A n \in Range(request.special), k \in DOMAIN request.circuits :
            LET i == InverseOf(request.circuits[k])[n]
            IN i \in DOMAIN file /\ schema.real_variable_index[i] = i => shown[n][k] = file[i][k]
=============================================================================
