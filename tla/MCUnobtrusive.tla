---------------------------- MODULE MCUnobtrusive ----------------------------
(* A small instance of Unobtrusive: of two sets of attributes, one gives a  *)
(* lone rule that lets an empty value pass, the other gives two rules.     *)
EXTENDS Unobtrusive

AtLeastTwo == [required |-> FALSE, min |-> 2, max |-> None]
ExactlyOne == [required |-> TRUE, min |-> 1, max |-> 1]

MCDecorations == {AtLeastTwo, ExactlyOne}
=============================================================================
