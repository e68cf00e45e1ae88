SPECIFICATION Spec
CONSTANTS
  Calls = {c1, c2}
  Instances = {accountA, accountB, keyless, paypal, misspelt}
  Names = {n1, n2}
  Keys = {keyA, keyB, credentials}
  NoKey = NoKey
  None = None
  NameOf <- NameOfReload
  KindOf <- KindOfMC
  KeyOf <- KeyOfMC
  Ops = {"UpdateSubscription", "WebhookEndpointEnsure"}
  Overlapping = {n1}
  accountA = accountA
  accountB = accountB
  keyless = keyless
  paypal = paypal
  misspelt = misspelt
  n1 = n1
  n2 = n2
  keyA = keyA
  keyB = keyB
  credentials = credentials
SYMMETRY CallSymmetry
INVARIANTS
  TypeOK
  NeverEmptyKey
  ForeignKeyNeedsRace
  RegistryIsCurrent
