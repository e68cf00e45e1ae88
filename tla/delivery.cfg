SPECIFICATION DeliverySpec
CONSTANTS
  Runs = {r1}
  URLs = {u1, u2}
  Ids = {e1, e2, e3, e4, e5}
  NoId = NoId
  NoPar = NoPar
  RawLists <- RawListsMC
  Canon <- CanonMC
  Blank = ""
  Modes <- ModesMC
  Frontends = {"cli"}
  InitialEndpoints <- OneUnknown
  TurnURLs = {u1, u2}
  MaxFaults = 2
  Wanted <- WantedMC
  PayPalURLs = {hook}
  PayPalHook = PayPalHook
  Wiring <- WiringMC
  Checking <- CheckingMC
  MaxEvents = 1
  u1 = u1
  u2 = u2
  hook = hook
  e1 = e1
INVARIANT
  DeliveryTypeOK
PROPERTIES
  RestartsKeepVerifying
  EventuallyInService
  EventuallyVerified
