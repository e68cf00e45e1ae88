SPECIFICATION Spec
CONSTANTS
  Calls = {c1}
  Payments = {p1}
  Refunds = {r1}
  NoPayment = NoPayment
  NoCall = NoCall
  NoAmount = NoAmount
  NotAnAmount = NotAnAmount
  Providers = {"paypal"}
  Frontends = {"typed"}
  Texts <- PlainTexts
  RefundRefs = {"charge"}
  Currencies = {""}
  DefaultCurrency = "USD"
  MaxFaults = 0
PROPERTIES
  CompletedChargesRefund
