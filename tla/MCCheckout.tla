------------------------------ MODULE MCCheckout ------------------------------
EXTENDS Checkout, TLC

CONSTANTS q1, once

Flag(kind, b) == [kind |-> kind, b |-> b]
Absent == Flag("absent", FALSE)
Bools == {Absent, Flag("bool", TRUE), Flag("bool", FALSE)}
TextsOrNone == {Absent, Flag("string", TRUE), Flag("string", FALSE), Flag("word", FALSE)}

\* Booleans in maps; in messages texts, one that does not parse among them, and a
\* boolean that is present or not.
Uses == ({"legacy"} \X Bools \X Bools) \cup ({"typed"} \X TextsOrNone \X {Absent, Flag("bool", TRUE)})

Nothing == [price |-> None, amount |-> FALSE, currency |-> FALSE, interval |-> FALSE,
            mode |-> None, metadata |-> FALSE]

\* Configurations, and what the pipeline's data or the input adds or overrides.
Configs ==
  {[Nothing EXCEPT !.price = q1],
   [Nothing EXCEPT !.price = once, !.mode = "payment"],
   [Nothing EXCEPT !.currency = TRUE, !.interval = TRUE, !.metadata = TRUE],
   [Nothing EXCEPT !.amount = TRUE, !.currency = TRUE, !.mode = "setup"]}
Inputs ==
  {Nothing, [Nothing EXCEPT !.amount = TRUE], [Nothing EXCEPT !.price = q1, !.mode = "payment"]}

OfferUsesMC == {"legacy", "typed"} \X Configs \X Inputs
OneTimeMC == {once}

CheckoutSymmetry == Permutations(Calls) \cup Permutations(Subs) \cup Permutations(Items)
=============================================================================
