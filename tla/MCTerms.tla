------------------------------ MODULE MCTerms --------------------------------
(* Instances of Terms: a client that may call every operator. *)
EXTENDS Terms

AllCalls == {"+", "*", "^", "&", "|", "neg", "-", "c-", "-=", "batch_add", "batch_mul",
             "rotl", "rotr", "<<", ">>", "/", "c/", "/=", "==", "!=", "<", "<=", ">", ">=",
             "bool==", "copy"}
=============================================================================
