-------------------------- MODULE MCWebhookDelivery --------------------------
(* A Stripe URL served by a legacy step, one served by a typed step, and a *)
(* PayPal URL; body and signature in places few tests put them.            *)
EXTENDS WebhookDelivery

CONSTANTS u1, u2, hook, e1

CanonMC == [s \in {"a", "A"} |-> "a"]
RawListsMC == {{"A"}}
OneUnknown == {[id |-> e1, url |-> u1, events |-> {"a"}]}
ModesMC == [u \in URLs |-> {"ensure", "replace"}]
WantedMC == [u \in URLs |-> {"A"}]

WiringMC ==
  [u \in URLs \cup PayPalURLs |->
     CASE u = u1 -> [frontend |-> "legacy", body |-> "current.payload",
                     signature |-> "metadata.stripe_signature"]
       [] u = u2 -> [frontend |-> "typed", body |-> "metadata._raw_body",
                     signature |-> "metadata.webhook_signature"]
       [] u = hook -> [frontend |-> "typed", body |-> "metadata.request_body",
                       signature |-> "metadata.signature header"]]
CheckingMC == URLs \cup PayPalURLs
=============================================================================
