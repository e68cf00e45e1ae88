---------------------------- MODULE WebhookDelivery ----------------------------
(***************************************************************************)
(* What provisioning is for: webhook events reach the URLs and a running   *)
(* module verifies them with the secret it was started with.  Composes the *)
(* provisioning operator, module restarts, the providers' deliveries and   *)
(* step.payment_webhook_verify of both front ends.                         *)
(***************************************************************************)
EXTENDS WebhookProvisioning

CONSTANTS
  PayPalURLs,  \* URLs PayPal notifies; their endpoint is made by hand
  PayPalHook,  \* the id of that endpoint, the module's webhookId
  Wiring,      \* URL -> front end of its verify step, and where the workflow puts
               \* the request's body and signature
  Checking,    \* URLs whose workflow answers non-2xx when the step's output is an error
  MaxEvents    \* events the providers emit

Hooks == URLs \cup PayPalURLs

Places ==
  {"current.request_body", "config.request_body", "current.payload", "config.payload",
   "input.request_body", "metadata.request_body", "metadata._raw_body",
   "current.signature header", "config.signature header", "metadata.signature header",
   "current.stripe_signature", "config.stripe_signature", "metadata.stripe_signature",
   "current.webhook_signature", "config.webhook_signature", "metadata.webhook_signature",
   "input.signature", "config.signature"}

ASSUME DeliveryAssumption ==
  /\ URLs \cap PayPalURLs = {}
  /\ PayPalHook \notin Ids \cup {NoId}
  /\ Wiring \in [Hooks -> [frontend : {"legacy", "typed"}, body : Places, signature : Places]]
  /\ Checking \subseteq Hooks
  /\ MaxEvents \in Nat

\* The operator of the docs: a list of events and both modes are within what runs take.
ASSUME OperatorAssumption ==
  /\ Wanted \in [URLs -> RawLists]
  /\ \A u \in URLs : {"ensure", "replace"} \subseteq Modes[u]

VARIABLES
  module,    \* URL -> webhookSecret of the module that serves it
  pending,   \* deliveries not acknowledged; the provider repeats them
  accepted,  \* deliveries the verify step passed on as events
  emitted    \* events so far

deliveryVars == <<module, pending, accepted, emitted>>
allVars == <<vars, deliveryVars>>

Deliveries ==
  [event : 1..MaxEvents, from : Ids, to : URLs]
    \cup [event : 1..MaxEvents, from : {PayPalHook}, to : PayPalURLs]

-----------------------------------------------------------------------------
(* step.payment_webhook_verify *)

\* Where the legacy step looks for the body and for the signature.  "signature
\* header" stands for Stripe-Signature or PayPal's five transmission headers.
LegacyBodyPlaces == {"current.request_body", "config.request_body", "current.payload"}
LegacyHeaderPlaces ==
  {"current.signature header", "config.signature header", "metadata.signature header"}
LegacyStripePlaces ==
  {"current.stripe_signature", "config.stripe_signature", "metadata.stripe_signature",
   "current.webhook_signature", "config.webhook_signature"}

\* Faulty variant of TypedBodyPlaces: the body is an input only.
TypedBodyInput == {"input.request_body"}

\* Where the typed step looks for them.
TypedBodyPlaces == {"input.request_body", "metadata.request_body", "metadata._raw_body"}
TypedHeaderPlaces == {"input.signature", "metadata.signature header"}
TypedStripePlaces == {"metadata.stripe_signature", "metadata.webhook_signature"}

StripeOnly(u, places) == IF u \in URLs THEN places ELSE {}

\* The legacy step hands the provider a body and a signature.
LegacyReads(u) ==
  /\ Wiring[u].body \in LegacyBodyPlaces
  /\ Wiring[u].signature \in LegacyHeaderPlaces \cup StripeOnly(u, LegacyStripePlaces)

TypedReads(u) ==
  /\ Wiring[u].body \in TypedBodyPlaces
  /\ Wiring[u].signature \in TypedHeaderPlaces \cup StripeOnly(u, TypedStripePlaces)

Reads(u) == IF Wiring[u].frontend = "legacy" THEN LegacyReads(u) ELSE TypedReads(u)

\* Stripe's VerifyWebhook: without a secret an error, else the signature has to
\* be one made with it.
StripeVerifies(u, from) == module[u] # NoId /\ module[u] = from

\* PayPal's VerifyWebhook asks PayPal about the headers and the configured id.
PayPalVerifies(from) == from = PayPalHook

Verifies(d) ==
  /\ Reads(d.to)
  /\ IF d.to \in URLs THEN StripeVerifies(d.to, d.from) ELSE PayPalVerifies(d.from)

\* The step reports a failed verification in its output only: no error, no
\* StopPipeline.  The workflow answers 2xx all the same unless it looks.
Acknowledges(u, verified) == verified \/ u \notin Checking

-----------------------------------------------------------------------------
\* Stripe sends an event to every endpoint subscribed to its type.
StripeEmits(type) ==
  LET subscribed == {e \in endpoints : type \in e.events} IN
  /\ emitted < MaxEvents
  /\ subscribed # {}
  /\ emitted' = emitted + 1
  /\ pending' = pending \cup
       {[event |-> emitted + 1, from |-> e.id, to |-> e.url] : e \in subscribed}
  /\ UNCHANGED <<module, accepted>>

PayPalEmits(u) ==
  /\ emitted < MaxEvents
  /\ emitted' = emitted + 1
  /\ pending' = pending \cup {[event |-> emitted + 1, from |-> PayPalHook, to |-> u]}
  /\ UNCHANGED <<module, accepted>>

\* A delivery, first or repeated, is answered.  One that fails and is not
\* acknowledged changes nothing: neither does one whose call to PayPal is lost,
\* or that arrives while the module restarts.
Attempt(d) ==
  /\ d \in pending
  /\ pending' = IF Acknowledges(d.to, Verifies(d)) THEN pending \ {d} ELSE pending
  /\ accepted' = IF Verifies(d) THEN accepted \cup {d} ELSE accepted
  /\ UNCHANGED <<module, emitted>>

\* The module restarts and reads the secret from the store; Init is the only
\* place that reads it.
Restart(u) ==
  /\ module' = [module EXCEPT ![u] = vault[u]]
  /\ UNCHANGED <<pending, accepted, emitted>>

DeliveryStep ==
  \/ \E type \in Events : StripeEmits(type)
  \/ \E u \in PayPalURLs : PayPalEmits(u)
  \/ \E d \in pending : Attempt(d)
  \/ \E u \in URLs : Restart(u)

Remembered == {module[u] : u \in URLs} \cup {d.from : d \in pending}

\* Meanwhile the operator provisions.  Stripe repeats no delivery of a deleted
\* endpoint, and a new endpoint has an id and a secret never seen before.
Provision ==
  /\ OperatorNext
  /\ \A e \in endpoints' : (\A f \in endpoints : f.id # e.id) => e.id \notin Remembered
  /\ pending' = {d \in pending : d.to \in URLs => \E e \in endpoints' : e.id = d.from}
  /\ UNCHANGED <<module, accepted, emitted>>

DeliveryInit ==
  /\ Init
  /\ module = [u \in URLs |-> NoId]
  /\ pending = {}
  /\ accepted = {}
  /\ emitted = 0

DeliveryNext == Provision \/ (DeliveryStep /\ UNCHANGED vars)

\* The operator's fairness, and: a module whose secret changed in the store is
\* restarted some day, and providers repeat what is not acknowledged.
DeliverySpec ==
  /\ DeliveryInit /\ [][DeliveryNext]_allVars
  /\ \A u \in URLs : SF_allVars(~InService(u) /\ OperatorStart(u) /\ Provision)
  /\ \A c \in Runs : WF_allVars(Request(c) /\ Provision)
  /\ \A u \in URLs : WF_allVars(Restart(u) /\ UNCHANGED vars)
  /\ \A d \in Deliveries : WF_allVars(Attempt(d) /\ UNCHANGED vars)

-----------------------------------------------------------------------------
DeliveryTypeOK ==
  /\ TypeOK
  /\ module \in [URLs -> Ids \cup {NoId}]
  /\ pending \subseteq Deliveries
  /\ accepted \subseteq Deliveries
  /\ emitted \in 0..MaxEvents

\* Restarting a module never costs it a secret that verifies: as long as the
\* endpoint whose secret it holds exists, that secret is what the store hands out,
\* whatever runs created, lost or replaced meanwhile.
RestartsKeepVerifying ==
  [][\A u \in TurnURLs, id \in Ids :
       (module[u] = id /\ Live(u, id) /\ Live(u, id)') => module'[u] = id]_allVars

\* Every delivery is accepted in the end, or its endpoint is replaced: whatever
\* secrets were lost on the way, and though each failed verification is reported
\* as a success of the step.
EventuallyVerified ==
  \A d \in Deliveries :
    (d \in pending /\ d.to \in Checking) ~>
      (d \in accepted \/ (d.to \in URLs /\ ~Live(d.to, d.from)))
=============================================================================
