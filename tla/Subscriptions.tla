---------------------------- MODULE Subscriptions ----------------------------
(***************************************************************************)
(* The three subscription steps.  Stripe's UpdateSubscription reads the    *)
(* subscription to learn its item and then names that item in the update;  *)
(* meanwhile other steps, the dashboard and the end of the billing period  *)
(* go on.                                                                  *)
(***************************************************************************)
EXTENDS Naturals

CONSTANTS
  Calls, Subs, Prices, Items,
  None,
  Inline,       \* the price made from amount, currency and interval
  Providers,    \* provider types of the module, "stripe" and/or "paypal"
  FlagUses,     \* what authors write for cancel_at_period_end, and in front of which
                \* front end: <<"legacy" or "typed", configuration, current or input>>
  MaxFaults,    \* lost requests and answers
  MaxReplaced   \* items replaced from the dashboard

Flags == [kind : {"absent", "bool", "string", "word"}, b : BOOLEAN]

ASSUME SubscriptionsAssumption ==
  /\ None \notin Prices \cup Subs \cup Items \cup {Inline} /\ Inline \notin Prices
  /\ Providers \subseteq {"stripe", "paypal"}
  /\ FlagUses \subseteq {"legacy", "typed"} \X Flags \X Flags
  /\ MaxFaults \in Nat /\ MaxReplaced \in Nat

VARIABLES
  provider,  \* the module's provider type, which never changes
  sub,       \* subscription -> what the provider holds of it
  call,      \* goroutine -> the step it runs
  last,      \* subscription -> the price last set by a request
  told,      \* subscriptions that create steps have output
  lost,      \* subscriptions created whose answer was lost
  bought,    \* subscriptions customers bought at a checkout page
  faults,
  replaced   \* items replaced so far

vars == <<provider, sub, call, last, told, lost, bought, faults, replaced>>

-----------------------------------------------------------------------------
\* subscriptionCancelStep reads booleans only.
LegacyFlag(config, current) ==
  CASE current.kind = "bool" -> current.b
    [] current.kind # "bool" /\ config.kind = "bool" -> config.b
    [] OTHER -> FALSE

\* Faulty variant of TypedFlag: the input wins.
TypedFlagReversed(config, input) == input.kind = "bool" /\ input.b

\* parseConfigBool: the configuration's text if it parses, else the input.
TypedFlag(config, input) ==
  IF config.kind = "string" THEN config.b ELSE input.kind = "bool" /\ input.b

\* Of a message the configuration is a text and the input a boolean.
Decodes(f, config, current) ==
  f = "typed" => config.kind # "bool" /\ current.kind \in {"absent", "bool"}

AtPeriodEnd(f, config, current) ==
  IF f = "legacy" THEN LegacyFlag(config, current) ELSE TypedFlag(config, current)

\* What the author of the workflow says, in the place that has precedence.
Says(v) == v.kind \in {"bool", "string"}
MeantAtPeriodEnd(f, config, current) ==
  LET first == IF f = "legacy" THEN current ELSE config
      second == IF f = "legacy" THEN config ELSE current
  IN  IF Says(first) THEN first.b ELSE Says(second) /\ second.b

-----------------------------------------------------------------------------
Busy(c) == call[c] # None
At(c, op, stage) == Busy(c) /\ call[c].op = op /\ call[c].stage = stage

\* A goroutine runs op on subscription s; atEnd and meant are a cancellation's.
Begin(c, op, s, stage, price, atEnd, meant) ==
  /\ call[c] = None
  /\ call' = [call EXCEPT ![c] =
       [op |-> op, on |-> s, stage |-> stage, price |-> price, item |-> None,
        atEnd |-> atEnd, meant |-> meant, did |-> "nothing"]]
  /\ UNCHANGED <<sub, last, told, lost, faults, replaced>>

\* "price_id is required, or supply amount + currency + interval": price is one
\* or the other.
StartCreate(c, s, price) ==
  /\ sub[s] = None
  /\ \A d \in Calls : Busy(d) => call[d].on # s
  /\ Begin(c, "create", s, "send", price, FALSE, FALSE)

\* Faulty variant of StartUpdate: the subscription is not read.
StartUpdateBlind(c, s, price) ==
  /\ sub[s] # None
  /\ Begin(c, "update", s, "send", price, FALSE, FALSE)

\* Stripe's subscription is read first if there is a price to set.
StartUpdate(c, s, price) ==
  /\ sub[s] # None
  /\ Begin(c, "update", s, IF provider = "stripe" /\ price # None THEN "get" ELSE "send",
           price, FALSE, FALSE)

StartCancel(c, s, f, config, current) ==
  /\ sub[s] # None
  /\ Decodes(f, config, current)
  /\ Begin(c, "cancel", s, "send", None, AtPeriodEnd(f, config, current),
           MeantAtPeriodEnd(f, config, current))

\* existing.Items.Data[0].ID.
Get(c) ==
  /\ At(c, "update", "get")
  /\ \E i \in sub[call[c].on].items :
       call' = [call EXCEPT ![c].stage = "send", ![c].item = i.id]
  /\ UNCHANGED <<sub, last, told, lost, faults, replaced>>

-----------------------------------------------------------------------------
(* The provider's side. *)

ItemIds(s) == {i.id : i \in sub[s].items}

\* An item id no subscription has and no call has read.
Unknown(i) ==
  /\ \A s \in Subs : sub[s] # None => i \notin ItemIds(s)
  /\ \A d \in Calls : Busy(d) => call[d].item # i

\* PayPal has no inline prices: it is sent an empty plan_id.
Accepts(c) ==
  LET s == call[c].on IN
  CASE call[c].op = "create" -> provider = "paypal" => call[c].price # Inline
    [] call[c].op = "update" /\ provider = "stripe" ->
         /\ sub[s].status # "canceled"
         /\ call[c].price # None => call[c].item \in ItemIds(s)
    [] call[c].op = "update" /\ provider = "paypal" ->
         sub[s].status # "canceled" /\ call[c].price # None
    [] call[c].op = "cancel" -> sub[s].status # "canceled"

Accepted(c, did) ==
  /\ call' = [call EXCEPT ![c].stage = "accepted", ![c].did = did]
  /\ UNCHANGED <<told, lost, faults, replaced>>

CreateSubscription(c, i) ==
  LET s == call[c].on IN
  /\ At(c, "create", "send") /\ Accepts(c)
  /\ Unknown(i)
  /\ sub' = [sub EXCEPT ![s] =
       [status |-> "active", items |-> {[id |-> i, price |-> call[c].price]}]]
  /\ last' = [last EXCEPT ![s] = call[c].price]
  /\ Accepted(c, "created")

\* Faulty variant of Updated: without the item's id Stripe adds an item.
UpdatedAdds(c) ==
  LET s == call[c].on IN
  sub[s].items \cup
    (IF call[c].price = None THEN {}
     ELSE {[id |-> CHOOSE i \in Items : i \notin ItemIds(s), price |-> call[c].price]})

\* The items after an update: the named one has the new price.
Updated(c) ==
  {IF call[c].price # None /\ (provider = "paypal" \/ i.id = call[c].item)
     THEN [i EXCEPT !.price = call[c].price] ELSE i : i \in sub[call[c].on].items}

UpdateSubscription(c) ==
  LET s == call[c].on IN
  /\ At(c, "update", "send") /\ Accepts(c)
  /\ sub' = [sub EXCEPT ![s].items = Updated(c)]
  /\ last' = IF call[c].price = None THEN last ELSE [last EXCEPT ![s] = call[c].price]
  /\ Accepted(c, "updated")

\* PayPal's CancelSubscription ignores the flag.
EndsNow(c) == provider = "paypal" \/ ~call[c].atEnd

CancelSubscription(c) ==
  LET s == call[c].on IN
  /\ At(c, "cancel", "send") /\ Accepts(c)
  /\ sub' = [sub EXCEPT ![s].status = IF EndsNow(c) THEN "canceled" ELSE "ending"]
  /\ UNCHANGED last
  /\ Accepted(c, IF EndsNow(c) THEN "canceled" ELSE "ending")

Refuse(c) ==
  /\ Busy(c) /\ call[c].stage = "send"
  /\ ~Accepts(c)
  /\ call' = [call EXCEPT ![c].stage = "refused"]
  /\ UNCHANGED <<sub, last, told, lost, faults, replaced>>

PeriodEnds(s) ==
  /\ sub[s] # None /\ sub[s].status = "ending"
  /\ sub' = [sub EXCEPT ![s].status = "canceled"]
  /\ UNCHANGED <<call, last, told, lost, faults, replaced>>

\* Someone at the dashboard removes the item and adds one at the same price.
ReplaceItem(s, i) ==
  /\ provider = "stripe"
  /\ sub[s] # None /\ sub[s].status # "canceled"
  /\ replaced < MaxReplaced
  /\ Unknown(i)
  /\ replaced' = replaced + 1
  /\ sub' = [sub EXCEPT ![s].items = {[id |-> i, price |-> k.price] : k \in @}]
  /\ UNCHANGED <<call, last, told, lost, faults>>

-----------------------------------------------------------------------------
\* Faulty variant of IsError: only 200 is success, and PayPal creates with 201.
IsErrorCreated(c) == call[c].stage = "refused" \/ call[c].op = "create"

IsError(c) == call[c].stage = "refused"

\* The step outputs subscription_id or an error.
Report(c) ==
  /\ Busy(c) /\ call[c].stage \in {"accepted", "refused"}
  /\ told' = IF call[c].op = "create" /\ ~IsError(c) THEN told \cup {call[c].on} ELSE told
  /\ call' = [call EXCEPT ![c] = None]
  /\ UNCHANGED <<sub, last, lost, faults, replaced>>

\* A request or its answer is lost, or the answer does not decode: an error.
Lose(c) ==
  /\ Busy(c) /\ faults < MaxFaults
  /\ faults' = faults + 1
  /\ lost' = IF At(c, "create", "accepted") THEN lost \cup {call[c].on} ELSE lost
  /\ call' = [call EXCEPT ![c] = None]
  /\ UNCHANGED <<sub, last, told, replaced>>

-----------------------------------------------------------------------------
Init ==
  /\ provider \in Providers
  /\ sub = [s \in Subs |-> None]
  /\ call = [c \in Calls |-> None]
  /\ last = [s \in Subs |-> None]
  /\ told = {} /\ lost = {} /\ bought = {}
  /\ faults = 0 /\ replaced = 0

Start(c) ==
  \E s \in Subs :
    \/ \E price \in Prices \cup {Inline} : StartCreate(c, s, price)
    \/ \E price \in Prices \cup {None} : StartUpdate(c, s, price)
    \/ \E use \in FlagUses : StartCancel(c, s, use[1], use[2], use[3])

Serve(c) ==
  \/ \E i \in Items : CreateSubscription(c, i)
  \/ Get(c) \/ UpdateSubscription(c) \/ CancelSubscription(c) \/ Refuse(c)

Next ==
  /\ \/ \E c \in Calls : Start(c) \/ Serve(c) \/ Report(c) \/ Lose(c)
     \/ \E s \in Subs : PeriodEnds(s) \/ \E i \in Items : ReplaceItem(s, i)
  /\ UNCHANGED <<provider, bought>>

Spec == Init /\ [][Next]_vars

-----------------------------------------------------------------------------
SetPrices == Prices \cup {Inline}
Requests ==
  [op : {"create", "update", "cancel"}, on : Subs,
   stage : {"get", "send", "accepted", "refused"}, price : SetPrices \cup {None},
   item : Items \cup {None},
   atEnd : BOOLEAN, meant : BOOLEAN,
   did : {"nothing", "created", "updated", "ending", "canceled"}]
Held == [status : {"active", "ending", "canceled"}, items : SUBSET [id : Items, price : SetPrices]]

ASSUME RecordsAssumption == None \notin Requests /\ None \notin Held

TypeOK ==
  /\ provider \in Providers
  /\ \A s \in Subs : sub[s] = None \/ sub[s] \in Held
  /\ \A c \in Calls : Busy(c) =>
       /\ call[c] \in Requests
       \* A Stripe update that sets a price names an item.
       /\ (provider = "stripe" /\ At(c, "update", "send") /\ call[c].price # None)
            => call[c].item # None
  /\ \A s \in Subs : last[s] \in SetPrices \cup {None}
  /\ told \subseteq Subs /\ lost \subseteq Subs /\ bought \subseteq Subs
  /\ faults \in 0..MaxFaults /\ replaced \in 0..MaxReplaced

\* A subscription has one item, at the price the latest request set, whatever
\* happens between the read and the write of an update: updates replace a price
\* and never add an item, and a stale read leads to a refusal.
OneItemAtLastPrice ==
  \A s \in Subs : sub[s] # None =>
    \E i \in sub[s].items : sub[s].items = {i} /\ i.price = last[s]

\* The provider holds the subscriptions that customers bought at a checkout page and
\* that create steps reported, are about to report, or could not report as the
\* answer was lost, and no others.
SubscriptionsAccounted ==
  {s \in Subs : sub[s] # None} =
    bought \cup told \cup lost \cup {s \in Subs : \E c \in Calls : At(c, "create", "accepted") /\ call[c].on = s}

\* "When true, the subscription remains active until the end of the billing period"
\* (plugin.json): at Stripe a cancellation is immediate unless the workflow says true,
\* and only then; but the legacy step does not know what a text says.  PayPal always
\* cancels at once.
CancelsWhenAsked ==
  \A c \in Calls : At(c, "cancel", "accepted") =>
    call[c].did = IF provider = "stripe" /\ call[c].meant THEN "ending" ELSE "canceled"
=============================================================================
