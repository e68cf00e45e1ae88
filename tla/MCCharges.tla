------------------------------ MODULE MCCharges ------------------------------
(* Amounts are 1 and 2 of the smallest unit; "1.50" starts with 1. *)
EXTENDS Charges, TLC

BlankText == [kind |-> "blank", n |-> 0]
Integer(k) == [kind |-> "integer", n |-> k]

PlainTexts == {BlankText, Integer(1), Integer(2)}
WildTexts == PlainTexts \cup {[kind |-> "prefix", n |-> 1], Integer(-1)}
StrangeTexts == WildTexts \cup {[kind |-> "word", n |-> 0]}

Symmetry == Permutations(Calls) \cup Permutations(Payments) \cup Permutations(Refunds)
=============================================================================
