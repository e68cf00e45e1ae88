-------------------------- MODULE MCProviderDispatch --------------------------
(* Two Stripe accounts, a Stripe module without a key, a PayPal module and one *)
(* whose provider type is misspelt.  NameOfReload puts the two accounts under  *)
(* one name (a module reloaded with another key), NameOfApart side by side.    *)
EXTENDS ProviderDispatch, TLC

CONSTANTS accountA, accountB, keyless, paypal, misspelt, n1, n2, keyA, keyB, credentials

NameOfReload == [i \in Instances |-> IF i \in {accountA, accountB} THEN n1 ELSE n2]
NameOfApart == [i \in Instances |-> IF i = accountA THEN n1 ELSE n2]
KindOfMC == [i \in Instances |-> CASE i = paypal -> "paypal"
                                   [] i = misspelt -> "unknown"
                                   [] OTHER -> "stripe"]
KeyOfMC == [i \in Instances |-> CASE i = accountA -> keyA
                                  [] i = accountB -> keyB
                                  [] i = paypal -> credentials
                                  [] OTHER -> NoKey]

CallSymmetry == Permutations(Calls)
=============================================================================
