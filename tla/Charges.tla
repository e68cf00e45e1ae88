------------------------------- MODULE Charges -------------------------------
(***************************************************************************)
(* step.payment_charge, _capture and _refund: how a step arrives at an     *)
(* amount, what the Stripe and the PayPal provider make of it, and what is *)
(* reported back.  Steps run concurrently and answers get lost.  The SDK's *)
(* resends under one idempotency key count as one request.                 *)
(***************************************************************************)
EXTENDS Integers

CONSTANTS
  Calls,        \* goroutines, each running one step after another
  Payments,     \* ids of PaymentIntents / orders
  Refunds,      \* ids of refunds
  NoPayment, NoCall, NoAmount, NotAnAmount,
  Providers,    \* provider types of the module, "stripe" and/or "paypal"
  Frontends,    \* "legacy": maps, "typed": protobuf messages
  Texts,        \* the amounts workflow authors write
  RefundRefs,   \* the id refunds name: the one the charge step returned ("charge"),
                \* or the capture's, which PayPal's webhooks tell ("capture")
  Currencies, DefaultCurrency,   \* "" stands for the default
  MaxFaults     \* lost requests and answers

TextKinds == {"blank", "integer", "prefix", "word"}

ASSUME ChargesAssumption ==
  /\ Providers \subseteq {"stripe", "paypal"}
  /\ Frontends \subseteq {"legacy", "typed"}
  /\ Texts \subseteq [kind : TextKinds, n : Int]
  /\ RefundRefs \subseteq {"charge", "capture"}
  /\ NoAmount \notin Int /\ NotAnAmount \notin Int
  /\ \A p \in Payments : p # NoPayment
  /\ MaxFaults \in Nat

VARIABLES
  provider, \* the module's provider type, which never changes
  pay,     \* payment -> what the provider holds of it
  made,    \* the requests the provider has carried out, as <<operation, id>>
  call,    \* goroutine -> the request it waits for
  told,    \* the requests steps have reported as carried out
  lost,    \* the requests carried out whose answer was lost
  faults

vars == <<provider, pay, made, call, told, lost, faults>>

-----------------------------------------------------------------------------
(* A text is blank, an integer, starts with one ("1.50"), or neither. *)

\* Faulty variant of Strict: what does not parse is passed on.
StrictUnchecked(t) ==
  CASE t.kind = "integer" -> t.n [] t.kind = "blank" -> 0 [] OTHER -> NotAnAmount

\* parseConfigInt64.
Strict(t) == IF t.kind = "integer" THEN t.n ELSE 0

\* toInt64: Sscanf takes the leading integer.
Lenient(t) == IF t.kind \in {"integer", "prefix"} THEN t.n ELSE 0

\* Faulty variant of LegacyAmount: the configuration is read first.
LegacyAmountReversed(config, current) ==
  IF Lenient(config) # 0 THEN Lenient(config) ELSE Lenient(current)

\* resolveInt64.
LegacyAmount(config, current) ==
  IF Lenient(current) # 0 THEN Lenient(current) ELSE Lenient(config)

\* The typed handlers: config takes precedence over input.
TypedAmount(config, input) ==
  IF Strict(config) # 0 THEN Strict(config) ELSE Strict(input)

AmountOf(f, config, current) ==
  IF f = "legacy" THEN LegacyAmount(config, current) ELSE TypedAmount(config, current)

\* Message fields of type int64 hold no other text: all of the inputs, and the
\* capture step's configuration.
Decodes(f, op, config, current) ==
  f = "typed" => /\ current.kind \in {"blank", "integer"}
                 /\ op = "capture" => config.kind \in {"blank", "integer"}

\* What the author of the workflow says: the text in the place that comes first.  A
\* zero is "full refund" to the providers and nothing to the steps: not stated.
Number(t) == IF t.kind = "integer" /\ t.n > 0 THEN t.n ELSE NotAnAmount
Meant(f, config, current) ==
  LET first == IF f = "legacy" THEN current ELSE config
      second == IF f = "legacy" THEN config ELSE current
      deciding == IF first.kind # "blank" THEN first ELSE second
  IN  IF deciding.kind = "blank" THEN NoAmount ELSE Number(deciding)

-----------------------------------------------------------------------------
Busy(c) == call[c] # NoCall
Effect(c) == <<call[c].op, call[c].id>>
Free(op, id) == <<op, id>> \notin made /\ \A d \in Calls : Busy(d) => Effect(d) # <<op, id>>

\* A goroutine asks for op on payment p, under the id that is to be used up.
Ask(c, op, p, id, ref, manual, currency, f, config, current) ==
  /\ call[c] = NoCall
  /\ Decodes(f, op, config, current)
  /\ call' = [call EXCEPT ![c] =
       [op |-> op, on |-> p, id |-> id, ref |-> ref, manual |-> manual, currency |-> currency,
        asked |-> AmountOf(f, config, current), meant |-> Meant(f, config, current),
        phase |-> "sent", moved |-> 0]]
  /\ UNCHANGED <<pay, made, told, lost, faults>>

\* The charge step: "amount is required", and the default currency.
StartCharge(c, p, f, config, current, manual, currency) ==
  /\ AmountOf(f, config, current) # 0
  /\ pay[p] = NoPayment /\ Free("charge", p)
  /\ LET known == IF currency = "" THEN DefaultCurrency ELSE currency
     IN  Ask(c, "charge", p, p, "charge", manual, known, f, config, current)

StartCapture(c, p, f, config, current) ==
  /\ pay[p] # NoPayment
  /\ Ask(c, "capture", p, p, "charge", FALSE, DefaultCurrency, f, config, current)

StartRefund(c, p, r, ref, f, config, current) ==
  /\ pay[p] # NoPayment
  /\ ref = "capture" => provider = "paypal"
  /\ Free("refund", r)
  /\ Ask(c, "refund", p, r, ref, FALSE, DefaultCurrency, f, config, current)

\* Faulty variant of Positive: whatever was resolved goes into the request.
PositiveAny(n) == n

\* An amount that is not positive is left out of a request, which means "all".
Positive(n) == IF n > 0 THEN n ELSE NoAmount

\* Faulty variant of SentAmount: captures never send one.
SentAmountFullCapture(c) ==
  CASE call[c].op = "charge" -> call[c].asked
    [] call[c].op = "capture" -> NoAmount
    [] call[c].op = "refund" -> Positive(call[c].asked)

\* The amount in the request; PayPal's CaptureCharge sends none.
SentAmount(c) ==
  CASE call[c].op = "charge" -> call[c].asked
    [] call[c].op = "capture" /\ provider = "paypal" -> NoAmount
    [] OTHER -> Positive(call[c].asked)

-----------------------------------------------------------------------------
(* The provider's side. *)

Left(p) == pay[p].captured - pay[p].refunded

\* Stripe refunds by the id of the PaymentIntent, PayPal by the capture's.
RefundableBy == IF provider = "paypal" THEN "capture" ELSE "charge"

Within(n, limit) == n # NoAmount => n >= 1 /\ n <= limit

AcceptsCharge(c) == SentAmount(c) >= 1
\* PayPal's /capture is for orders of intent CAPTURE.
AcceptsCapture(c) ==
  LET p == call[c].on IN
  /\ pay[p].state = "authorised"
  /\ provider = "paypal" => ~pay[p].manual
  /\ Within(SentAmount(c), pay[p].amount)
\* PayPal's RefundCharge names USD whenever it names an amount.
AcceptsRefund(c) ==
  LET p == call[c].on IN
  /\ call[c].ref = RefundableBy
  /\ Left(p) > 0
  /\ Within(SentAmount(c), Left(p))
  /\ (provider = "paypal" /\ SentAmount(c) # NoAmount) => pay[p].currency = "USD"

Moves(c, all) == IF SentAmount(c) = NoAmount THEN all ELSE SentAmount(c)

Accept(c, moved) ==
  /\ made' = made \cup {Effect(c)}
  /\ call' = [call EXCEPT ![c].phase = "accepted", ![c].moved = moved]
  /\ UNCHANGED <<told, lost, faults>>

Sent(c, op) == Busy(c) /\ call[c].op = op /\ call[c].phase = "sent"

CreateCharge(c) ==
  /\ Sent(c, "charge") /\ AcceptsCharge(c)
  /\ pay' = [pay EXCEPT ![call[c].on] =
       [amount |-> SentAmount(c), currency |-> call[c].currency, manual |-> call[c].manual,
        state |-> "open", captured |-> 0, refunded |-> 0]]
  /\ Accept(c, 0)

CaptureCharge(c) ==
  LET moved == Moves(c, pay[call[c].on].amount) IN
  /\ Sent(c, "capture") /\ AcceptsCapture(c)
  /\ pay' = [pay EXCEPT ![call[c].on].state = "captured", ![call[c].on].captured = moved]
  /\ Accept(c, moved)

RefundCharge(c) ==
  LET moved == Moves(c, Left(call[c].on)) IN
  /\ Sent(c, "refund") /\ AcceptsRefund(c)
  /\ pay' = [pay EXCEPT ![call[c].on].refunded = @ + moved]
  /\ Accept(c, moved)

Refuse(c) ==
  /\ \/ Sent(c, "charge") /\ ~AcceptsCharge(c)
     \/ Sent(c, "capture") /\ ~AcceptsCapture(c)
     \/ Sent(c, "refund") /\ ~AcceptsRefund(c)
  /\ call' = [call EXCEPT ![c].phase = "refused"]
  /\ UNCHANGED <<pay, made, told, lost, faults>>

\* The payer pays: an automatic Stripe payment is captured at once, all others
\* wait for a capture.
PayerPays(p) ==
  /\ pay[p] # NoPayment /\ pay[p].state = "open"
  /\ pay' = IF provider = "stripe" /\ ~pay[p].manual
              THEN [pay EXCEPT ![p].state = "captured", ![p].captured = pay[p].amount]
              ELSE [pay EXCEPT ![p].state = "authorised"]
  /\ UNCHANGED <<made, call, told, lost, faults>>

-----------------------------------------------------------------------------
\* Faulty variant of IsError: the status of the answer is not looked at.
IsErrorNever(c) == FALSE

\* A status from 400 on (PayPal), an error from the SDK (Stripe).
IsError(c) == call[c].phase = "refused"

Report(c) ==
  /\ Busy(c) /\ call[c].phase \in {"accepted", "refused"}
  /\ told' = IF IsError(c) THEN told ELSE told \cup {Effect(c)}
  /\ call' = [call EXCEPT ![c] = NoCall]
  /\ UNCHANGED <<pay, made, lost, faults>>

\* The request or its answer is lost, or the answer does not decode: the step
\* reports an error whatever the provider has done.
Lose(c) ==
  /\ Busy(c) /\ faults < MaxFaults
  /\ faults' = faults + 1
  /\ lost' = IF call[c].phase = "accepted" THEN lost \cup {Effect(c)} ELSE lost
  /\ call' = [call EXCEPT ![c] = NoCall]
  /\ UNCHANGED <<pay, made, told>>

-----------------------------------------------------------------------------
Init ==
  /\ provider \in Providers
  /\ pay = [p \in Payments |-> NoPayment]
  /\ made = {} /\ told = {} /\ lost = {}
  /\ call = [c \in Calls |-> NoCall]
  /\ faults = 0

Start(c) ==
  \E f \in Frontends, config \in Texts, current \in Texts, p \in Payments :
    \/ \E m \in BOOLEAN, u \in Currencies : StartCharge(c, p, f, config, current, m, u)
    \/ StartCapture(c, p, f, config, current)
    \/ \E ref \in RefundRefs, r \in Refunds : StartRefund(c, p, r, ref, f, config, current)

Serve(c) == CreateCharge(c) \/ CaptureCharge(c) \/ RefundCharge(c) \/ Refuse(c)

Next ==
  /\ \/ \E c \in Calls : Start(c) \/ Serve(c) \/ Report(c) \/ Lose(c)
     \/ \E p \in Payments : PayerPays(p)
  /\ UNCHANGED provider

Spec == Init /\ [][Next]_vars

-----------------------------------------------------------------------------
States == {"open", "authorised", "captured"}
Held == [amount : Int, currency : Currencies \cup {DefaultCurrency}, manual : BOOLEAN,
         state : States, captured : Int, refunded : Int]
Effects == ({"charge", "capture"} \X Payments) \cup ({"refund"} \X Refunds)
Requests == [op : {"charge", "capture", "refund"}, on : Payments,
             id : Payments \cup Refunds, ref : {"charge", "capture"}, manual : BOOLEAN,
             currency : Currencies \cup {DefaultCurrency}, asked : Int,
             meant : Int \cup {NoAmount, NotAnAmount},
             phase : {"sent", "accepted", "refused"}, moved : Int]

ASSUME RecordsAssumption ==
  NoCall \notin Requests /\ NoPayment \notin Held /\ NoAmount # NotAnAmount

TypeOK ==
  /\ provider \in Providers
  /\ \A p \in Payments : pay[p] = NoPayment \/
       (pay[p] \in Held /\ 0 <= pay[p].refunded /\ pay[p].refunded <= pay[p].captured
                        /\ pay[p].captured <= pay[p].amount)
  /\ made \subseteq Effects /\ told \subseteq Effects /\ lost \subseteq Effects
  /\ \A c \in Calls : Busy(c) => call[c] \in Requests /\ Effect(c) \in Effects
  /\ faults \in 0..MaxFaults

InFlight == {Effect(c) : c \in {d \in Calls : Busy(d) /\ call[d].phase = "accepted"}}

\* The books balance: what the provider has carried out is what steps reported as
\* success, what is about to be reported, and what a lost answer hides; nothing is
\* both reported and hidden.  A step never claims what did not happen, and an
\* error that is not a lost answer means that nothing happened.
BooksBalance ==
  /\ made = told \cup InFlight \cup lost
  /\ told \cap lost = {}

Accepted(c, op) == Busy(c) /\ call[c].op = op /\ call[c].phase = "accepted"

\* A refund the provider carried out is for the amount the workflow states in the
\* place that has precedence, or for all that was left if it states none, provided
\* that what it states is a positive number.
RefundsAsStated ==
  \A c \in Calls : (Accepted(c, "refund") /\ call[c].meant # NotAnAmount) =>
    IF call[c].meant = NoAmount THEN Left(call[c].on) = 0 ELSE call[c].moved = call[c].meant

\* The same of captures: "Amount to capture. Defaults to full authorised amount
\* when omitted." (plugin.json); but PayPal captures all.
CapturesAsStated ==
  \A c \in Calls : (Accepted(c, "capture") /\ call[c].meant # NotAnAmount) =>
    call[c].moved = IF provider = "paypal" \/ call[c].meant = NoAmount
                      THEN pay[call[c].on].amount ELSE call[c].meant

\* Money moves by the amounts workflows state.
AmountsAsStated == RefundsAsStated /\ CapturesAsStated

\* An amount that is given and is no positive number moves no money: "Empty/missing means
\* full-charge refund. When non-empty, takes precedence" (payments.proto).
UnreadableRefundsNothing ==
  \A c \in Calls : Accepted(c, "refund") => call[c].meant # NotAnAmount

RefusedNow(c, op) ==
  /\ Sent(c, op)
  /\ call'[c] # NoCall /\ call'[c].phase = "refused"

RefusalHasCause(c) ==
  LET p == call[c].on IN
  /\ RefusedNow(c, "capture") =>
       \/ pay[p].state # "authorised" \/ call[c].asked > pay[p].amount
       \/ provider = "paypal" /\ pay[p].manual
  /\ RefusedNow(c, "refund") =>
       \/ Left(p) = 0 \/ call[c].asked > Left(p)
       \/ provider = "paypal" /\ (call[c].ref = "charge" \/ pay[p].currency # "USD")

\* At Stripe a capture of an authorised charge is refused only if it asks for more
\* than was authorised.  PayPal also refuses to capture orders of intent AUTHORIZE.
\* A refund is refused only if less is left of the charge than it asks for, or
\* nothing, or, at PayPal, if it is asked for by the charge's id or in another
\* currency than USD; however many refunds of the charge are under way.
RefusalsHaveCause == [][\A c \in Calls : RefusalHasCause(c)]_vars

\* "Issues a full or partial refund for a completed charge" (plugin.json): the
\* same without PayPal's exceptions.
CompletedChargesRefund ==
  [][\A c \in Calls : RefusedNow(c, "refund") =>
       LET left == Left(call[c].on) IN left = 0 \/ call[c].asked > left]_vars
=============================================================================
