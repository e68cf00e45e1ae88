SPECIFICATION Spec
CONSTANTS
  Runs = {r1, r2}
  URLs = {u1, u2}
  Ids = {e1, e2, e3, e4, e5}
  NoId = NoId
  NoPar = NoPar
  RawLists <- RawListsMC
  Canon <- CanonMC
  Blank = ""
  Modes <- ModesMC
  Frontends = {"cli", "step"}
  InitialEndpoints <- OneDrifted
  TurnURLs <- OneTurns
  MaxFaults = 2
  Wanted <- WantedMC
  u1 = u1
  e1 = e1
SYMMETRY Symmetry
INVARIANTS
  TypeOK
  AtMostOnePerURL
  SuccessMeansProvisioned
PROPERTY
  EnsureKeepsSecret
