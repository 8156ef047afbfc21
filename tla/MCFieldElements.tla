-------------------------- MODULE MCFieldElements ---------------------------
(* A field of seven elements, in two words of four values. *)
EXTENDS FieldElements

MCSmall == -2 .. 1
MCNumber == -8 .. 15
=============================================================================
