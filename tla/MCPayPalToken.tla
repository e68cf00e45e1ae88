----------------------------- MODULE MCPayPalToken -----------------------------
(* One tick is 15 s: a timeout is 2, the margin 4, and expires_in 75 or 105 s.  *)
EXTENDS PayPalToken, TLC

CallSymmetry == Permutations(Calls)
=============================================================================
