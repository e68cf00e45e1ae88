----------------------------- MODULE MCSettlement -----------------------------
(* 3000 at 1.1 % is one of the products a float gets too high; of 7988, the  *)
(* shares at PayPal are whole hundreds; fees eat up all of 20 and of 31.     *)
EXTENDS Settlement

CarriesMC == {<<3000, 11>>}

\* The first and the second source of the gross amount, and the percentage.
Figures == {<<3000, 0, 11>>, <<0, 7988, 50>>, <<20, 31, 0>>, <<0, 0, 50>>}

Job(provider, frontend, f, currency, destination, bank, wiring, context) ==
  [provider |-> provider, frontend |-> frontend, config |-> f[1], input |-> f[2],
   percent |-> f[3], currency |-> currency, destination |-> destination, bank |-> bank,
   wiring |-> wiring, context |-> context]

JobsMC ==
  {Job(p, f, x, c, d, b, w, g) :
     p \in {"stripe", "paypal"}, f \in {"legacy", "typed"}, x \in Figures,
     c \in {NoCurrency, "USD", "JPY"}, d \in BOOLEAN, b \in BOOLEAN, w \in {"config", "input"},
     g \in BOOLEAN}
=============================================================================
