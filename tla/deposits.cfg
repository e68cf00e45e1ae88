SPECIFICATION Spec
CONSTANTS
  k1 = k1
  Calls = {c1, c2}
  Orders <- OrdersMC
  Keys = {k1}
  Canon <- Canonical
  Code <- Codes
  Ids = {p1, p2}
  Evidence <- EvidenceMC
  None = None
  Malformed = Malformed
  MaxFaults = 1
  MaxUnkeyed = 1
SYMMETRY Symmetry
INVARIANTS
  TypeOK
  OneIntentPerKey
  RepetitionsAgree
  AnswersCoverRequest
  RefusalsAreConflicts
