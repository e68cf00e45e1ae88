SPECIFICATION Spec
CONSTANTS
  Calls = {c1, c2}
  Payments = {p1}
  Refunds = {r1, r2}
  NoPayment = NoPayment
  NoCall = NoCall
  NoAmount = NoAmount
  NotAnAmount = NotAnAmount
  Providers = {"stripe", "paypal"}
  Frontends = {"legacy", "typed"}
  Texts <- WildTexts
  RefundRefs = {"charge", "capture"}
  Currencies = {"", "EUR"}
  DefaultCurrency = "USD"
  MaxFaults = 1
SYMMETRY Symmetry
INVARIANTS
  TypeOK
  BooksBalance
  AmountsAsStated
PROPERTIES
  RefusalsHaveCause
