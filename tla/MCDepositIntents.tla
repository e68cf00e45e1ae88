--------------------------- MODULE MCDepositIntents ---------------------------
EXTENDS DepositIntents

CONSTANT k1

Canonical ==
  [s \in {"base", " Base", "solana", "tempo", "", " ", "ethereum"} |->
     CASE s = " Base" -> "base" [] s = " " -> "" [] OTHER -> s]

Codes ==
  [s \in {"usd", " USD", "eur", "", " "} |->
     CASE s = " USD" -> "usd" [] s = " " -> "" [] OTHER -> s]

Order(f, key, amount, config, input) ==
  [frontend |-> f, key |-> key, amount |-> amount, stablecoin |-> "usdc",
   currency |-> "", defaultCurrency |-> "usd", description |-> "",
   config |-> config, input |-> input]

First5 == Order("typed", k1, 5, <<"base", "tempo">>, <<"solana">>)

\* Under k1 one order in three spellings and through both front ends, the same with
\* another currency, with a default that was reconfigured, and with a description; an
\* order for another amount and all networks, one in another order, and orders that are
\* not sent: only blanks, an unsupported network, no amount.  And an order without a key.
OrdersMC == {
  First5,
  [First5 EXCEPT !.currency = " USD"],
  [First5 EXCEPT !.currency = "eur"],
  [First5 EXCEPT !.currency = " ", !.defaultCurrency = "USD"],
  [First5 EXCEPT !.description = "invoice 7"],
  [Order("legacy", k1, 5, <<"solana">>, <<"", " Base", "base", " ", "tempo">>)
     EXCEPT !.currency = "usd", !.defaultCurrency = "eur"],
  Order("legacy", k1, 7, <<"">>, <<>>),
  Order("typed", k1, 5, <<>>, <<"tempo", "base">>),
  Order("typed", k1, 5, <<" ">>, <<"base">>),
  Order("legacy", k1, 5, <<>>, <<"base", "ethereum">>),
  Order("typed", k1, 0, <<>>, <<"base">>),
  Order("typed", None, 5, <<"base">>, <<>>) }

Token(address, token) == [address |-> address, token |-> token]
Good == Token(TRUE, "contract")
EvidenceMC == {
  [n \in {"base", "tempo"} |-> Good],
  [n \in {"base", "solana"} |-> Good],
  [n \in {"base", "tempo"} |-> IF n = "base" THEN Good ELSE Token(TRUE, "bare")],
  [n \in {"base", "tempo"} |-> IF n = "base" THEN Good ELSE Token(FALSE, "none")],
  [n \in {"base"} |-> Token(FALSE, "contract")],
  [n \in {"base"} |-> Token(TRUE, "none")] }

Symmetry == Permutations(Calls) \cup Permutations(Ids)
=============================================================================
