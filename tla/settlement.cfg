SPECIFICATION Spec
CONSTANTS
  Runs = {r1}
  NoRequest = NoRequest
  NoQuote = NoQuote
  NoCurrency = NoCurrency
  Jobs <- JobsMC
  Carries <- CarriesMC
  Hundredless = {"JPY"}
  MaxTries = 3
  MaxLost = 2
CHECK_DEADLOCK FALSE
INVARIANTS
  TypeOK
  FeesCover
  BooksBalance
  NeverPaysBeyond
