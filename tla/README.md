# TLA+ models of workflow-plugin-payments

This directory specifies and verifies the parts of the payments plugin whose
correctness depends on what happens in between: other goroutines, other runs,
lost answers, elapsed time. Paths such as `internal/provider_stripe.go:91` are
relative to the repository.

## 1. Inventory

The plugin is a process the workflow engine starts. It offers one module type
(`payments.provider`), 18 step types, and a `wfctl payments` command. It keeps
almost nothing of its own; what it works on lives at Stripe or PayPal.

| Component | State | Operations | Hard part | What makes it correct |
|---|---|---|---|---|
| Provider registry and module life cycle (`registry.go`, `module_provider.go`) | `providerRegistry`: name to provider, under a RWMutex | `RegisterProvider`, `GetProvider`, `UnregisterProvider`; `Init`, `Stop` | the engine may start an instance before it has stopped the one of the same name; a call in flight keeps a provider that was unregistered | the registry serves no stopped module; a live module can be reached |
| Stripe keys (`provider_stripe.go`: `checkKey`, `setKey`, the SDK's package functions) | `stripe.Key`, one variable for the process; `secretKey` per provider | every Stripe method stores its key, then calls the SDK, which reads it; three methods build a client of their own or need no key | goroutines run steps concurrently; the variable is a two-word string without a lock | a request goes to the account of the module the step names, and never without a key |
| Webhook endpoint provisioning (`WebhookEndpointEnsure`, `cli.go`, its step) | endpoints at Stripe; the signing secret in the operators' secret store | list, then nothing / create / update / delete and create; persist the secret if `created` | two to three requests without a transaction; the secret is told once; runs repeat, overlap, die | one endpoint per URL with the wanted events and a stored secret that is its own |
| PayPal token (`getAccessToken`, `doJSON`) | `accessToken`, `tokenExpiry`, under `tokenMu` | serve from the cache, or fetch under the lock; then the request | time: age of the token, two requests that may each use up a timeout; the lock is held across HTTP | no request with an expired token, one fetch at a time, every call returns |
| Charges: create, capture, refund | PaymentIntents at Stripe, orders at PayPal | one request each | lost answers and repeated steps; refunds that overlap; an amount that is not positive means "all", and is also what malformed amounts become; PayPal refunds by an id no step returns | what moves is what the workflow states; no more is refunded than captured; a step neither claims nor hides what happened |
| Customers (`EnsureCustomer`) | customers at Stripe; at PayPal an id formed from the address | list by e-mail, else create | the gap between the two; a lost answer | one customer per e-mail, and every answer names it |
| Subscriptions | subscriptions and their items | create, get-then-update, cancel now or later | the item read may be gone when the update arrives; a flag that is boolean here and text there | an update replaces the price and adds nothing; a cancellation ends a subscription when it was asked to |
| Stablecoin deposit intents | PaymentIntents, idempotency keys | create and confirm, then validate the answer | an invalid answer leaves a live intent behind an error; repetition, in another spelling or through the other front end; Go's map order | one intent per idempotency key, one verdict and one answer for it, only requested networks in the answer |
| Step parameters (`helpers.go`, `typed.go`) | none | two front ends: legacy maps (current over config) and typed messages (config over input) | precedence, and what malformed values become | a value given is the value used |
| Fees, transfers, payouts (`CalculateFees`, `CreateTransfer`, `CreatePayout`) | payments made, at the provider | divide an amount; one request each, no idempotency key | rounding of floats; a lost answer and a repeated step pay twice; the amount in the run's data comes before the configured one; minor units | parts add up, fees cover what they are for, a share is paid once and is the share |
| Webhook verification (`VerifyWebhook`, its step) | `webhookSecret` fixed at `Init` | find body and signature, check, output an event or an error | the secret changes under a running module; a failed verification does not fail the step; two front ends look in different places | every delivery is accepted in the end, or its endpoint is gone |
| Checkout and portal | sessions at Stripe | one request each; then the customer acts | fields come from two places one by one; the customer changes subscriptions while steps run | customers get what the workflow asks for, and subscriptions keep one item |
| Payment methods and invoices | those at Stripe | attach; list page by page | items come and go between pages; a page fails | an attached method is found; a listing that succeeds has what was there |
| Manifest, contracts, protobuf, `main` | none | tables and generated code | - | - |

Interaction: a step's `Execute` (or its typed handler) looks its module up in
the registry, resolves its parameters and calls one method of the provider. The
engine runs steps concurrently and calls `Init` and `Stop` of modules whenever
its configuration changes. The CLI builds a provider of its own and is a process
of its own; it meets other runs only at Stripe. Provisioning and verification meet in
the secret store, customers and payment methods in the customer's id, checkout and
subscription steps in the subscription.

The hazards of this code, each at its line, are in `PROJECT.json`, with the
properties that cover them. Where the code has the fault, a note says what the properties
state of it all the same.

## 2. Modules

| Module | Models | Checked by | Proved in |
|---|---|---|---|
| `ProviderDispatch` | registry, module life cycle, `stripe.Key`, the requests of a call | `MCProviderDispatch` | `ProviderDispatchProofs` |
| `WebhookProvisioning` | `WebhookEndpointEnsure`, its front ends, the secret store | `MCWebhookProvisioning` | `WebhookProvisioningProofs` |
| `WebhookDelivery`, on top of it | deliveries, `VerifyWebhook`, the verify step, restarts of modules | `MCWebhookDelivery` | `WebhookProvisioningProofs` |
| `PayPalToken` | `getAccessToken`, `doJSON` | `MCPayPalToken` | `PayPalTokenProofs` |
| `Charges` | charge, capture and refund steps, both providers | `MCCharges` | `ChargesProofs` |
| `Customers`, `CustomerDirectory` | Stripe's `EnsureCustomer`; the directory it promises to be | `MCAccounts` | `CustomersProofs` |
| `Accounts`, on top of it | payment methods, invoices and their listings | `MCAccounts` | `CustomersProofs` |
| `Subscriptions` | create, update and cancel steps, both providers | `MCCheckout` | `CheckoutProofs` |
| `Checkout`, on top of it | checkout and portal steps, and the customer | `MCCheckout` | `CheckoutProofs` |
| `DepositIntents` | Stripe's `CreateStablecoinDepositIntent` and its front ends | `MCDepositIntents` | `DepositIntentsProofs` |
| `Settlement` | fee, transfer and payout steps of one workflow, both providers | `MCSettlement` | `SettlementProofs` |

A module "on top of" another EXTENDS it: its next-state relation has the steps of the
other and its own, so the two components interleave and share the state they share in
the code.

The `MC*` modules only give values to constants. A definition named `...Never`,
`...Any`, `...Reversed` and the like with the comment "Faulty variant" is not part of
the model: it is what a plausible mistake in the code would make of the definition of
that name, kept to show that the properties notice.

### ProviderDispatch

`state` is the life cycle of each module instance, `registry` the map of
`registry.go`. `ModuleInit` is `Init` with its three outcomes (registered, PayPal
without credentials, unknown provider type); `ModuleStop` is `Stop`, which
unregisters the name and not the instance. Each element of `Calls` is a goroutine
that runs one step after another: `Lookup` (`GetProvider` and the checks of
`Execute`), `Enter` (a method up to and including `checkKey`), `StoreKeyWord`
(`setKey`), `LoadKeyWord` and `Send` (a package function of the SDK reads the key
and the request goes out), `SendOwn` (a method with its own client, and PayPal),
`GiveUp` (returns before it sends anything), `Return`.

A Go string is a pointer and a length, and the language gives no guarantee for
unsynchronised accesses wider than a word. So `stripeKey` has two words that are
stored and loaded one by one in either order; a mixed pair is a torn key.
`raced` is a history variable: the calls whose published word was overwritten by
a call for another key while they might still load it.

What a request asks for is left out. `EnsureCustomer` and `UpdateSubscription`
make up to two requests, each of which reads the key again.

### WebhookProvisioning

`endpoints` is what Stripe holds, `vault` what the operators' workflow has
persisted, and each of `Runs` one invocation of the CLI or the step. `pc` names the
request a run is about to make. `Start` has the argument checks in the order of
the code: length of the list as passed, mode, then normalisation. `ListNone` and
`ListMatch` are `findWebhookByURL` and the switch on the mode; `Delete`, `Create`
and `Update` the requests; `Persist` the `if: created` of the docs. `Refused` is
Stripe's no. `Fail` is a request that never arrived, a run that died, or a persist
that failed; `LoseAnswer` a request that took effect and whose run never learnt.
An event list is a set of strings, `Canon` is trimming and lowercasing. A secret is
named after its endpoint, so "the stored secret verifies deliveries" is
`Live(u, vault[u])`. The description, which a drift update also sets, is left out.

`OperatorNext` restricts who starts runs: the operator of
`docs/WEBHOOK-PROVISIONING.md` runs mode=ensure, and mode=replace where there is an
endpoint whose secret the store does not have. `TurnURLs` are the URLs whose runs the
documented concurrency group serialises; runs for other URLs overlap.

### WebhookDelivery

`module` is the `webhookSecret` a module was started with; `Restart` reads the store, as
`newStripeProvider` does, and nothing else does. `StripeEmits` puts a delivery for every
endpoint subscribed to the event into `pending`, `Attempt` is one try at it: the verify
step of the URL's front end finds body and signature or does not (`LegacyReads`,
`TypedReads`: the places in the order of the code, as sets, since `Wiring` says in which
one a workflow puts them), `VerifyWebhook` accepts the delivery or does not, and the
workflow acknowledges it. The step's error is an output: a workflow that does not look
at it acknowledges what was not verified, so `Checking` names the workflows that look.
`Provision` is a step of the documented operator. A signature is the secret it was made
with. PayPal's deliveries are verified by PayPal against the configured id.

### PayPalToken

Time is discrete; a deadline is the number of ticks left until it, so the state
stays finite. `cache` is `accessToken` with the ticks to `tokenExpiry`, and a
token carries the ticks until PayPal lets it expire, which began to run when it
was issued and not when it was received. `AskToken` takes `tokenMu` and sends the
token request, `Issue` is PayPal's side, `ReceiveToken` caches, unlocks and sends
the API request, `TakeCached` is the way through the cache, `Arrive` is PayPal
looking at the token, `Return` the answer. `Fail` is every error path. `Tick` is
blocked while a request is at its timeout: `http.Client` ends it there. `Revoke`
withdraws the tokens PayPal has issued. Computation between two requests takes no
time. With delays there, the margin of exactly two timeouts has no slack.

### Charges

A step's amount is a text: blank, an integer, something that starts with one
("1.50"), or a word. `Strict` is `parseConfigInt64`, `Lenient` the `Sscanf` of
`toInt64`; `LegacyAmount` and `TypedAmount` are the two orders of precedence. `Meant`
is not code: it is what the author of the workflow wrote in the place that comes
first, and the properties compare what moves with it.

`pay` is what the provider holds of a payment. `StartCharge`, `StartCapture` and
`StartRefund` are a step up to its request, including the required amount of a charge;
`CreateCharge`, `CaptureCharge`, `RefundCharge` and `Refuse` are the provider's side of
the request named in the code; `Report` is the step's output and `Lose` a request or an
answer that is lost, or does not decode. `provider` is chosen in `Init` and rigid.
`made`, `told` and `lost` are the provider's and the steps' accounts of what was
carried out. Charges the payer never pays, disputes, and the expiry of authorisations
are left out.

### Customers

`ListHit` and `ListMiss` are the list request and the first iteration of the iterator,
`Create` the second request. `Turns` names the addresses whose calls take turns: the
promise of an idempotent upsert holds for them and not for others, and both kinds live
in one account. Names and metadata are left out; PayPal's `EnsureCustomer` sends
nothing.

### Accounts

`kind` says what a run is about, so that one configuration covers three: customers with
methods attached to them, methods of existing customers, invoices. `Attach` composes
with `Customers`: it names a customer that a step was told. `NextPage` is one request of
the iterator: the newest items after the last one of the page before. When that one has
been detached meanwhile, Stripe refuses and the step outputs an error (`PageFails`), as
after any failed page. `always` and `ever` of a listing are history: the items that
matched all the time and at any time since its first request. PayPal has one page of
invoices, whatever the customer.

### Subscriptions

`StartUpdate`, `Get` and `UpdateSubscription` are the three parts of an update; only
Stripe's reads first, and only when there is a price. `ReplaceItem` and `PeriodEnds`
happen at the provider. `bought` are subscriptions that come from a checkout page
and not from a step. A cancellation flag is absent, a boolean, a text that parses,
or one that does not; `LegacyFlag` is the type switch of `subscriptionCancelStep`,
`TypedFlag` is `parseConfigBool`.

### Checkout

An offer is what a checkout step is asked for: a price or none, amount, currency and
interval given or not, a mode, subscription metadata. `LegacyOffer` and `TypedOffer` merge
two of them field by field in the two orders of precedence, `EffectiveMode` and
`LineItem` are the start of `CreateCheckoutSession` and `checkoutLineItem`.
`StartCheckout`, `CreateCheckoutSession`, `RefuseVisit`, `ReportVisit` and `LoseVisit` are
the step, Stripe, and the answer or its loss. `Buy`, `Expire`, `SwitchPrice` and
`EndInPortal` are the customer. `MeantPrice` and `MeantRecurring` are not code but what
the author wrote.

### Settlement

A run of the workflow calculates fees, transfers the contribution, and pays out the
platform's fee. `StripeFee`, `PayPalFee` and `PlatformFee` are `CalculateFees` in
integers: `math.Ceil` of a product of floats is the exact ceiling, or one cent more for
the pairs in `Carries`, where the product is a hair above the whole number it should be
(1.1 % of 3000 is such a pair). For up to 100 000 cents the float result was compared with
these definitions for percentages in tenths, every amount for those below 6 % and for the
whole ones, a sample of amounts for the others: the processing fees never carry, the
platform fee by at most one. `job` is the payment and how the workflow is
wired; it is chosen in `Init` and rigid. `wiring` and `context` say where the share and
the gross amount stand, from which `LegacyPaid` and `TypedPaid` follow. `StripePays` and
`PayPalPays` are the provider's side, `Refuse`, `Lose` and `GiveUp` what else may
happen. An entry of `books`, `told` or `lost` names the run, the kind and the number of the
try.

### DepositIntents

`Networks` is what each front end makes of a list, `Normalized` is
`normalizeStablecoinDepositNetworks` and `Sendable` every check before the request.
`Body` is all that can differ between two requests: amount, currency, description and
networks. No front end sends metadata with it, and the rest is fixed. A currency that is
not given is the default of the module (`Currency`), so an order names that default too:
two modules of an account, or one before and after its configuration changes, make two
orders of the same step, and a step repeated after its module's default was reconfigured
is refused under its own key: `RefusalsAreConflicts` counts this as a conflict. In
`Start` orders that fail the checks do nothing, as the step outputs an error. `Create`,
`Replay` and `Refuse` are Stripe's three answers to a request with an idempotency key.
Evidence is a function from networks to an address, present or blank, and to what the
first USDC token is like: it has a contract, has none, or there is no such token. `Tell`
and `Reject` are the two outcomes of the validation, after which the intent exists either
way.

Lists of networks are defined by what they are and not by a loop. `Lists` are the ones
that name a network once, `Ranked(S, rank)` those of them that list `S` by rank:
normalisation ranks by first mention (`First`), `sort.Slice` by the alphabet. `Sorted` is
the set of outcomes a step may output. That it has one member, whatever order Go ranges
over the map in, is left to `RepetitionsAgree` and proved (`RankedUnique`), as is that a
list there is (`RankedExists`). This keeps the module free of folds, whose values the
prover cannot compute for every input.

## 3. Runs

| Run | Bounds | Shows |
|---|---|---|
| `dispatch_keys` | 2 calls; a module reloaded with another key under the same name while the old instance is up; a module without a key, PayPal and a misspelt type sharing another name, one after another; methods with two requests and with an own client | `TypeOK`; `NeverEmptyKey`: a module without a key neither sends nor blanks another's key; `ForeignKeyNeedsRace`: a foreign or torn key needs a racing call of another account; `RegistryIsCurrent`: no stopped module serves, and a live one under a name that does not overlap is found |
| `dispatch_side_by_side` | two modules with two keys | `CallUsesOwnKey` is violated (finding 1) |
| `provisioning` | 2 runs of the CLI or the step; a URL with turns in the modes "", replace and an unknown one, and a URL without turns in mode ensure; 5 ids, 2 faults; event lists with case variants, blanks, only blanks, none | `TypeOK`, `AtMostOnePerURL`, `SuccessMeansProvisioned`, `EnsureKeepsSecret` |
| `delivery` | the operator loop over 2 URLs, one drifted at the start, 2 faults; a legacy and a typed verify step at Stripe's URLs and a typed one at PayPal's, with body and signature in rarely used places; 1 event; restarts at any time | `DeliveryTypeOK`, `RestartsKeepVerifying`, `EventuallyInService`, `EventuallyVerified` |
| `token` | 3 calls; timeout 2, margin 4, lifetimes 5 and 7 ticks; one withdrawal | `TypeOK`, `TokenFresh`, `SingleFlight`, `EveryCallReturns`, `RejectionsEnd` |
| `charges` | both providers and front ends, 2 calls, 1 payment, 2 refunds, amounts -1, 1 and 2 and "1.50", two currencies, both capture methods, 1 fault | `TypeOK`, `BooksBalance`, `AmountsAsStated`, `RefusalsHaveCause` |
| `charges_malformed` | one typed call at Stripe | `UnreadableRefundsNothing` is violated (finding 2) |
| `charges_paypal_refund` | one typed call at PayPal | `CompletedChargesRefund` is violated (finding 3) |
| `accounts` | 2 calls, one address with turns and one without, 3 customer ids, 3 items of 2 owners and 2 tags, pages of 1, 2 faults | `AccountsTypeOK`, `DuplicatesNeedOverlap`, `AnswersAreTheirs`, `ListingsAreFaithful`, `AttachedIsFindable`, and the refinement `ImplementsDirectory` |
| `subscriptions` | both providers and front ends, 2 steps and 1 visit to a page at once, 1 subscription, a recurring, a one-time and an inline price, 3 items, 1 fault, 1 replaced item, 24 ways to write an offer | `CheckoutTypeOK`, `OneItemAtLastPrice`, `SubscriptionsAccounted`, `AsAsked` |
| `deposits` | 2 calls, 12 orders (under one key one order in three spellings and through both front ends, the same in another currency, with a reconfigured default and with a description, one for another amount and all networks, one with its networks in another order, three that are not sent; and one without a key), 6 kinds of evidence and none, 1 fault | `TypeOK`, `OneIntentPerKey`, `RepetitionsAgree`, `AnswersCoverRequest`, `RefusalsAreConflicts` |
| `settlement` | both providers and front ends; gross amounts with a carry, with shares that are whole hundreds, smaller than the fees, and none; no currency, USD, JPY; with and without bank and destination; both wirings; 3 tries, 2 lost answers | `TypeOK`, `FeesCover`, `BooksBalance`, `NeverPaysBeyond` |

Why the bounds suffice.

- Two calls are what a race on one variable or on one payment takes; the theorems of
  section 5 cover any number.
- Webhooks: two runs give every order of two list, delete and create requests; ids are
  more than the endpoints that faults and runs can leave behind at once, and `MaxFaults`
  lets a fault hit a replacement and its repetition. In `delivery` runs take turns, as
  documented, so one goroutine does for all; a single event can be delivered before,
  during and after a replacement, and again each time.
- The times of the token keep the ratio of the code, 60 s to 30 s; 5 is the shortest
  lifetime that outlasts two timeouts (PayPal's are hours).
- Charges: amounts 1 and 2 tell "part" from "all", and two refunds of 1 or 2 of a charge
  of 2 fit or exceed it together. Payments do not interact.
- Accounts: 3 customer ids are the one customer with turns and the two that two
  overlapping calls can create, so the bound of `DuplicatesNeedOverlap` is reached. Three
  items and pages of one let an item come, go or change tag before, at and after the
  place the listing has reached.
- Subscriptions: 3 items are one of the subscription and two replacements; a second
  subscription would share nothing with the first but item ids, which are fresh.
- Deposits: 2 ids are one under the key and one without (`MaxUnkeyed` = 1); one fault
  loses the answer that creates an intent, or that of its repetition.
- Settlement: runs share nothing but the books, so one run does; a duplicate trigger is a
  second run, and pays the shares again, as nothing in the code relates the two. 3 tries
  and 2 lost answers let two answers of one share be lost and the third arrive.

Symmetry is used for calls, runs, ids, owners and subscriptions, and only in runs
without liveness properties. The deadlock check is off in `settlement` alone, whose workflow
ends.

Fairness. `DeliverySpec` assumes that a request that is not lost is answered (weak
fairness per run), that the operator neglects no URL that is not in service (strong
fairness, as other runs repeatedly take the turn), that modules restart after their
secret changed (weak fairness per URL), and that providers repeat deliveries (weak
fairness per delivery); faults are bounded. `FairSpec` of the token assumes that time
passes, that `http.Client` ends a request at its timeout, and that a goroutine that waits
for `tokenMu` gets it in the end: strong fairness, which `sync.Mutex` provides by handing
the lock over in starvation mode. Nothing is assumed of PayPal's token endpoint: it may
never answer.

What is assumed of the services, beyond what the code says: Stripe and PayPal carry
out a request at once and never reuse an id; Stripe replays the first answer to a request
with a known idempotency key, for the account of the key and for at least as long as
steps are repeated, and refuses another request under it; the resends of the SDK under
one key of its own count as one request; captures need an authorised payment and take at
most what was authorised, refunds at most what is left; an update that names an item the
subscription does not have is refused, and so is every change of a canceled
subscription; PayPal's `/capture` is for orders of intent CAPTURE and refunds are by the
id of a capture. Stripe lists newest first, pages start after an item that has to exist,
and deleted endpoints get no further deliveries; prices of a checkout page fit its mode,
setup pages take no line items, and PayPal takes no order of 0.00 and no fractions of a
currency without minor units.

## 4. Findings

With a run each:

1. `provider_stripe.go:91`. Two Stripe modules side by side, as `docs/SETUP.md`
   offers, race on `stripe.Key`: a call of one is carried out on the account of the
   other. The theorem `OneAccountUsesOwnKey` shows that two accounts are needed, and
   `ForeignKeysComeFromRaces` that the two methods with their own client are immune.
2. `typed.go:424`, `provider_stripe.go:334`. A refund amount in the configuration that does
   not parse is taken for 0 and the input's amount is refunded; 0 or a negative amount is
   left out of the request and refunds everything. `payments.proto:152` lets a non-empty
   one take precedence.
3. `provider_paypal.go:226`. A refund at PayPal names a capture, the charge step returns
   the id of an order, and no step returns the capture's: the refund of a completed
   charge that `plugin.json:218` offers is refused.

Other divergences met. The models have the behaviour of the code, and the properties
above state what is left of the promise:

- `provider_stripe.go:803`: a list of blanks passes "must contain at least one event" at
  the step, and in mode=replace the endpoint is deleted before the creation is refused.
  The CLI drops blanks first.
- `provider_stripe.go:825`: mode=replace deletes the first endpoint at the URL, where
  `payments/types.go:221` speaks of any.
- `step_webhook.go:71`, `typed.go` alike: a failed verification is an output without
  `StopPipeline`, so a workflow goes on and answers 2xx unless it looks.
- `docs/WFCOMPUTE-SETTLEMENT.md:85`: the verify step is configured with `payload` and
  `signature`, which neither front end reads from a configuration.
- `provider_stripe.go:322`: a capture step outputs the amount of the PaymentIntent, not
  what was captured (`plugin.json:206`). Not modelled; amounts in outputs are left out.
- `provider_stripe.go:373`: calls for one e-mail that overlap create two customers, where
  `plugin.json:329` says idempotent. `DuplicatesNeedOverlap` has both halves.
- `step_subscription.go:120`: the legacy step ignores a flag written as text, which the
  typed step reads (`typed.go:630`); hence the premise of `CustomersGetWhatIsAsked`.
- `payments/types.go:120` has a mode "setup", but `CreateCheckoutSession` always sends a line
  item, which Stripe refuses for it.
- `plugin.json:951`: "Maximum number of invoices to return" is the size of a page to the
  SDK, whose iterator goes on (`provider_stripe.go:696`).
- `provider_stripe.go:645`, `:668`: transfers and payouts have no idempotency key; a
  step repeated after a lost answer pays again. `NeverPaysBeyond` counts these.
- `provider_stripe.go:769`: a float product above a whole number makes the platform fee a
  cent higher than its percentage.
- `provider_paypal.go`: an order of a manual charge cannot be captured (:150, :195), the
  amount of a capture is ignored (:194), a partial refund is in USD whatever the charge
  (:220), `cancel_at_period_end` is ignored (:283), an inline price becomes an empty
  `plan_id` (:258), a checkout is an order of 0.00 USD whatever is sold (:333), invoices
  are those of any customer and are labelled with the one asked for (:508), and amounts are
  hundredths also where a currency has none (:162, :430): of a share of 100 yen one is
  paid, and of 150 nothing. `customer_id` is sent as an e-mail address although the id that
  `EnsureCustomer` returns has a prefix (:260, :250; not modelled).

## 5. Proofs

All theorems hold for every value of the constants that satisfies the modules' named
assumptions and, where a theorem has one, its premise.

**ProviderDispatchProofs.** `KeyInv` strengthens the type invariant by three parts.
`RegistryInv`: registered instances are up and under their own name, and a call's
provider was initialised. `Keyed`: it follows a non-empty key from the module,
through the words the call has stored and those it has loaded, to its requests;
without it `NeverEmptyKey` is not inductive, as nothing ties a loaded word to the
word stored before. `OwnKeyed`: the same path for "is the call's own key", for calls
not in `raced`. A step of one call changes nothing another owns (`OthersUntouched`),
so each invariant needs a lemma for the call that steps and a frame lemma for the
others. From `KeyInv`: `TypeCorrect`, `NoRequestIsUnkeyed`,
`ForeignKeysComeFromRaces`, `RegistryServesLiveModules`; with one shared key `raced`
stays empty, hence `OneAccountUsesOwnKey`. `LiveModulesAreReachable`, for names outside
`Overlapping`, is inductive by itself; with it, `RegistryStaysCurrent`.

**WebhookProvisioningProofs.** `RunInv` says that a run that works has parameters,
and an endpoint id once it needs one. `SerialInv` adds what a run that has its turn
knows: before it creates there is no endpoint at its URL, before it deletes or updates
its endpoint is there, and when it is done the URL is as it reports. That no one else
works at that URL is what carries these over the run's own steps, and that ids are fresh
what keeps the runs at other URLs, which overlap, from touching its endpoint. Hence
`TurnsKeepURLsUnique` and `SuccessIsReal`. `SecretsSurviveEnsure` needs instead that a run
in mode ensure deletes nothing and that a run told `created` holds the secret of an
endpoint that nobody can have replaced. `RestartsAreSafe` is about `DeliverySpec`: the
secret a module holds and whose endpoint exists is the stored one (`ModuleInv`), which
holds because endpoints are created with ids that no module or pending delivery knows.
The theorems about URLs with turns assume an account that starts with at most one endpoint
per URL.

`DeliveryImplementsProvisioning` is the step from a component to the system around it:
every step of the operator, a module or a provider is a step of the provisioning
specification or leaves its state alone, so what is proved of `Spec` holds in
`DeliverySpec`. `DeliveryTypeCorrect` needs no assumption on the account. Two theorems are the safety halves of the liveness properties
that only TLC checks. `OnlyAcceptedOrReplaced`: no delivery is dropped but by being accepted
or by the end of its endpoint. `ServiceIsKept`: a URL in service stays so, with the
stored secret and a module that was restarted with it, through every further run, failure
and lost answer. Its invariant is `CarefulInv`: a run of the operator that is about to
delete does so because the stored secret fits no endpoint, and as it has its turn this is
still so when the request is made; with `SerialInv`, a run at a URL in service is at
most about to write the events and the secret that are there.

**PayPalTokenProofs.** A received token has lost at most what its request used of its
timeout, so a cached one has `fresh + Margin - Timeout` to live, and one that is served
has more than a timeout left when its request starts; `Tick` then takes as much from
the request's timer as from the token. `LockInv` ties `tokenMu` to the call that
fetches. Hence `TokensAreFresh` and `FetchesAreSingle`, for every margin of at least
two timeouts.

**CustomersProofs.** `IInv` adds to the type invariant that ids are unique, that a call
about to answer has a customer of its address (`DoneInv`), that an address with turns
has one call at work (`TurnInv`), and that what a creating call saw is still so
(`MissInv`). The last two need each other: without `TurnInv` another call may create
in between, and without `MissInv` nothing forbids a second creation. From `IInv`:
`TurnsMakeOneCustomer`, `AnswersNameOwnCustomers` and, as each step maps to a step of
`CustomerDirectory` or to none, `EnsureImplementsDirectory`. `OverlapBoundsDuplicates`
counts instead: the customers of an address and the calls about to create one are
together at most the calls, as only an address without customers gains creators. It
assumes that there are finitely many calls; the others do not. `DuplicatesComeFromOverlap`
puts it together with `TurnsMakeOneCustomer`.

The second half is about `Accounts`. `AccountsImplementCustomers`: with methods, invoices
and listings around it, the customer step implements its own specification. `PagesInv` is
what makes listings faithful: the items behind the last page, and only those, have been
got or not been there throughout, and what has been there throughout is among what is
there now. A page goes on from its least item, which exists as numbers are well-ordered
(`LeastExists`, from the library's theorem that `<` on the naturals is well-founded; this
stands in for induction). An item that changes only moves the two notes a listing keeps
(`SeenKeeps`), and so `ListingsAreComplete` holds for any number of items, pages and
changes. `AttachedInv`: an attached method hangs on a customer some step was told for the
address; as `told` only grows, and an address with turns has one customer,
`AttachmentsAreFound`.

**ChargesProofs.** `IInv` says that nothing is refunded that was not captured and nothing
captured beyond the amount (`PayInv`), that a request names a payment that exists, or one
that is to come to be (`CallInv`), that ids of charges and refunds are used once and a
payment is captured once (`FreshInv`), that an effect carried out and not yet answered
belongs to one call and is neither told nor lost (`FlightInv`), and that the amount asked
for is the one meant (`MeantInv`). `FreshInv` and `FlightInv` make `BooksBalance` inductive;
`MeantInv`, with a lemma about both front ends (`AmountMeant`), gives `MoneyMovesAsStated`.
`RefusalsAreCaused` is an action property and follows from `IInv` in one step.

**SettlementProofs.** Lemmas about ceilings give `FeesAlwaysCover` for every amount,
percentage and set of carries. `EntryInv` orders the tries: entries are of the step a run
is at or of one before, and of earlier tries than the one under way. So an entry is booked
once (`BookInv`), a run tells each kind once (`ToldInv`), and what was paid for a share is
at most one told entry and the lost ones: `RunsNeverPayBeyond`.

**CheckoutProofs.** Over subscriptions, pages and the portal together. `CreateInv`: a
subscription that is to come to be is known to its create step only, so no page, update or
other create step can meet it halfway. `CallInv` keeps the subscription an update has read
in being, and Stripe's check of the item's id does the rest for `OneItemStays`. `FlagInv`
and `DoneInv` follow the flag from the author to the provider. `PagesInv` says that an open
or sold page is what the step's author meant. `CustomersGetWhatIsAsked` has the premise
that the maps of legacy steps hold no text for the flag, as the code ignores it there.

**DepositIntentsProofs.** `StripeInv`: Stripe remembers one intent under each key, and
every keyed intent is remembered, with the body it was made for. `StepsInv`: what steps
know, output or turned down is an intent with the body of their order, remembered under
its key; an output is valid evidence in alphabetical order, a refusal a conflict. The
lemmas about lists carry the rest: a set of at most three networks has one list by
ranks that differ, so `Normalized` depends on the names and their first mentions only, and
`Sorted` has one member. Hence `TypeCorrect`, `KeysStandForOneIntent`, `RunsShareTheIntent`,
`RepetitionsNeverDiffer` (the same intent and the same list, and no intent both output and
turned down), `OutputsCoverRequest`, and `OnlyConflictsAreRefused`: two orders with the
same amount, currency (given or default), description, networks and order of first
mentions (`SameList`) have one body, however they are spelled. They
hold for any two runs under a key, conflicting ones included.

Every invariant and every safety property of steps that the passing runs check has a
theorem. Only model-checked:

- the liveness properties (`EventuallyInService`, `EventuallyVerified`,
  `EveryCallReturns`, `RejectionsEnd`), as the prover handles neither fairness nor ENABLED;
  `ServiceIsKept` and `OnlyAcceptedOrReplaced` are what of the first two can be proved.

## 6. Not modelled

- Signature arithmetic, timestamps of signatures and the parsing of events: the SDK's and
  PayPal's.
- Names, reasons, descriptions other than those of deposits, metadata other than whether
  a subscription has some, and amounts in outputs: no property tells them apart.
- Percentages as floating-point texts; the carries that a product of floats can have are a
  constant.
- A step that calls another module's provider while that provider's instance is replaced
  is in `ProviderDispatch`; the other modules take the provider as given.
- The manifest, the contracts and the generated protobuf code: tables without state. Which
  fields a message has is in the modules where a front end reads them.
- Several payments, subscriptions or workflow runs in the same run of TLC: they share no
  state in the code except ids, which are fresh.
