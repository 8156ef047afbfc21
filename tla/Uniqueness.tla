----------------------------- MODULE Uniqueness -----------------------------
(***************************************************************************)
(* What asking for the uniqueness of a witness promises, whatever the      *)
(* circuit, its encoding and the solver: each answer to a question is      *)
(* right or withheld.  Evidence(q) is the set of pairs of witnesses that   *)
(* answer question q in the negative.  An answer to a question that is not *)
(* well posed promises nothing.                                            *)
(***************************************************************************)
CONSTANTS Question, Evidence(_), Posed(_)

VARIABLES question, verdict, evidence

vars == <<question, verdict, evidence>>

Init ==
    /\ question \in Question
    /\ verdict = "none"
    /\ evidence = {}

(* "unsat": there is no such pair; "sat": here is one. *)
Answer ==
    /\ UNCHANGED question
    /\ \/ /\ verdict' = "unsat" /\ evidence' = {}
          /\ Posed(question) => Evidence(question) = {}
       \/ /\ verdict' = "sat"
          /\ Posed(question) => \E pair \in Evidence(question) : evidence' = {pair}
       \/ verdict' = "unknown" /\ evidence' = {}

Spec == Init /\ [][Answer]_vars
=============================================================================
