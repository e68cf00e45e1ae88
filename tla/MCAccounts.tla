------------------------------ MODULE MCAccounts ------------------------------
EXTENDS Accounts, TLC

ItemsMC == 1..3
AttachableMC == {1}

Symmetry == Permutations(Calls) \cup Permutations(Ids) \cup Permutations(Owners)
=============================================================================
