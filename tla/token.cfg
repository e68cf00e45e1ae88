SPECIFICATION FairSpec
CONSTANTS
  Calls = {c1, c2, c3}
  NoCall = NoCall
  Timeout = 2
  Margin = 4
  Lifetimes = {5, 7}
  MaxRevocations = 1
INVARIANTS
  TypeOK
  TokenFresh
  SingleFlight
PROPERTIES
  EveryCallReturns
  RejectionsEnd
