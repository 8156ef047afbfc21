------------------------------ MODULE MCValues ------------------------------
(* A client that writes constants or combines Booleans: all numbers below    *)
(* 200 modulo the prime 211, two unknown Booleans and TRUE.  A constant and  *)
(* a Bool know nothing of each other, so it does one or the other.           *)
EXTENDS Bools, Literals

MCNumbers == 0 .. 199

MCValuation == BOOLEAN \X BOOLEAN
MCAtom == { {w \in MCValuation : w[1]}, {w \in MCValuation : w[2]}, MCValuation }
(* Every call but &=. *)
NoAndAssign == {"|", "&", "==", "!=", "!", "batch_or", "batch_and", "|=", "assert_term", "copy"}

WriteConstants == call = "none" /\ NextLiteral /\ UNCHANGED vars
CombineBools == meant = 0 /\ text = <<>> /\ Next /\ UNCHANGED literal

MCInit == Init /\ InitLiteral
MCSpec ==
    /\ MCInit
    /\ [][WriteConstants \/ CombineBools]_<<vars, literal>>
=============================================================================
