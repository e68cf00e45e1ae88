SPECIFICATION Spec
CONSTANTS
  Calls = {c1, c2}
  Instances = {accountA, accountB}
  Names = {n1, n2}
  Keys = {keyA, keyB, credentials}
  NoKey = NoKey
  None = None
  NameOf <- NameOfApart
  KindOf <- KindOfMC
  KeyOf <- KeyOfMC
  Ops = {"CreateCharge", "EnsureCustomer"}
  Overlapping = {}
  accountA = accountA
  accountB = accountB
  keyless = keyless
  paypal = paypal
  misspelt = misspelt
  n1 = n1
  n2 = n2
  keyA = keyA
  keyB = keyB
  credentials = credentials
SYMMETRY CallSymmetry
INVARIANTS
  CallUsesOwnKey
