SPECIFICATION AccountsSpec
CONSTANTS
  Calls = {c1, c2}
  Emails = {e1, e2}
  Turns = {e1}
  Ids = {k1, k2, k3}
  NoId = NoId
  MaxFaults = 2
  Providers = {"stripe", "paypal"}
  Kinds = {"customer", "method", "invoice"}
  Items <- ItemsMC
  NoItem = NoItem
  NoList = NoList
  Tags = {"x", "y"}
  Sizes = {1}
  Owners = {o1, o2}
  Attachable <- AttachableMC
SYMMETRY Symmetry
INVARIANTS
  AccountsTypeOK
  DuplicatesNeedOverlap
  AnswersAreTheirs
  ListingsAreFaithful
  AttachedIsFindable
PROPERTIES
  ImplementsDirectory
