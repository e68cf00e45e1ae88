SPECIFICATION CheckoutSpec
CONSTANTS
  Calls = {c1, c2}
  Subs = {s1}
  Prices = {q1}
  Items = {i1, i2, i3}
  None = None
  Inline = Inline
  Providers = {"stripe", "paypal"}
  FlagUses <- Uses
  MaxFaults = 1
  MaxReplaced = 1
  Visits = {v1}
  Sessions = {k1}
  OneTime <- OneTimeMC
  OfferUses <- OfferUsesMC
  q1 = q1
  once = once
SYMMETRY CheckoutSymmetry
INVARIANTS
  CheckoutTypeOK
  OneItemAtLastPrice
  SubscriptionsAccounted
  AsAsked
