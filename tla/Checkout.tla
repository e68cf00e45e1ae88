------------------------------- MODULE Checkout -------------------------------
(***************************************************************************)
(* Hosted pages: step.payment_checkout_create and _portal_create.  What a  *)
(* step asks for comes from two places field by field; the customer buys   *)
(* at the page, subscriptions among it, and later changes or ends them in  *)
(* the portal, while the subscription steps of module Subscriptions run.   *)
(***************************************************************************)
EXTENDS Subscriptions

CONSTANTS
  Visits,      \* goroutines that run checkout and portal steps
  Sessions,    \* ids of checkout sessions
  OneTime,     \* prices that do not recur, unlike Prices
  OfferUses    \* what authors write: <<front end, configuration, current or input>>

Modes == {None, "subscription", "payment", "setup"}

\* price_id; amount, currency and interval given or not; mode; whether there is
\* subscription_metadata.
Offers ==
  [price : Prices \cup OneTime \cup {None}, amount : BOOLEAN, currency : BOOLEAN, interval : BOOLEAN,
   mode : Modes, metadata : BOOLEAN]

ASSUME CheckoutAssumption ==
  /\ None \notin {"subscription", "payment", "setup"}
  /\ OneTime \cap (Prices \cup Items \cup Subs \cup {None, Inline}) = {}
  /\ OfferUses \subseteq {"legacy", "typed"} \X Offers \X Offers

VARIABLES
  visit,    \* goroutine -> the checkout or portal step it runs
  session,  \* session -> what the provider holds of it
  links,    \* sessions whose URL a step has output
  sales,    \* what customers bought: session, mode, price, metadata
  portal    \* a portal URL was output

checkoutVars == <<visit, session, links, sales, portal>>
allVars == <<vars, checkoutVars>>

-----------------------------------------------------------------------------
(* The offer, field by field. *)

Text(a, b) == IF a # None THEN a ELSE b
Either(first, second) ==
  [price |-> Text(first.price, second.price),
   amount |-> first.amount \/ second.amount,
   currency |-> first.currency \/ second.currency,
   interval |-> first.interval \/ second.interval,
   mode |-> IF first.mode # None THEN first.mode ELSE second.mode,
   metadata |-> first.metadata \/ second.metadata]

LegacyOffer(config, current) == Either(current, config)
TypedOffer(config, input) == Either(config, input)

OfferOf(f, config, current) ==
  IF f = "legacy" THEN LegacyOffer(config, current) ELSE TypedOffer(config, current)

\* Faulty variant of EffectiveMode: the page sells once.
EffectiveModePayment(o) == IF o.mode = None THEN "payment" ELSE o.mode

EffectiveMode(o) == IF o.mode = None THEN "subscription" ELSE o.mode

\* checkoutLineItem: the price, or one made inline; None is an error.
LineItem(o) ==
  CASE o.price # None -> o.price
    [] o.price = None /\ o.amount /\ o.currency
         /\ (EffectiveMode(o) = "subscription" => o.interval) -> Inline
    [] OTHER -> None

\* What the author says: the price where it is named, in the place that comes
\* first; a subscription unless a mode is written.
MeantPrice(f, config, current) ==
  LET first == IF f = "legacy" THEN current ELSE config
      second == IF f = "legacy" THEN config ELSE current
  IN  CASE first.price # None -> first.price
        [] first.price = None /\ second.price # None -> second.price
        [] OTHER -> Inline
MeantRecurring(f, config, current) ==
  LET first == IF f = "legacy" THEN current ELSE config
      second == IF f = "legacy" THEN config ELSE current
  IN  first.mode = "subscription" \/ (first.mode = None /\ second.mode \in {None, "subscription"})

-----------------------------------------------------------------------------
NoSale == [price |-> None, recurring |-> FALSE]

Begins(v, request) ==
  /\ visit[v] = None
  /\ visit' = [visit EXCEPT ![v] = request]
  /\ UNCHANGED <<vars, session, links, sales, portal>>

\* The checkout step; without a line item it outputs an error and asks nothing.
StartCheckout(v, k, f, config, current) ==
  LET o == OfferOf(f, config, current) IN
  /\ session[k] = None
  /\ \A w \in Visits : visit[w] # None => visit[w].on # k
  /\ provider = "stripe" => LineItem(o) # None
  /\ Begins(v, [op |-> "checkout", stage |-> "send", on |-> k,
                mode |-> EffectiveMode(o), price |-> LineItem(o),
                metadata |-> o.metadata /\ EffectiveMode(o) = "subscription",
                meant |-> [price |-> MeantPrice(f, config, current),
                           recurring |-> MeantRecurring(f, config, current)]])

\* The portal step wants a customer; PayPal's provider answers ErrUnsupported.
StartPortal(v) ==
  /\ provider = "stripe"
  /\ Begins(v, [op |-> "portal", stage |-> "send", on |-> None, mode |-> None,
                price |-> None, metadata |-> FALSE, meant |-> NoSale])

\* Stripe: prices fit the mode, and "setup" takes no line items, but the provider
\* always sends one.  PayPal is sent an order of 0.00 USD, which it refuses.
Sells(v) ==
  /\ provider = "stripe"
  /\ visit[v].op = "checkout" =>
       /\ visit[v].mode \in {"subscription", "payment"}
       /\ visit[v].price # Inline =>
            (visit[v].mode = "payment" <=> visit[v].price \in OneTime)

Answered(v, stage) ==
  /\ visit[v] # None /\ visit[v].stage = "send"
  /\ visit' = [visit EXCEPT ![v].stage = stage]
  /\ UNCHANGED <<vars, links, sales, portal>>

CreateCheckoutSession(v) ==
  /\ Answered(v, "accepted")
  /\ Sells(v) /\ visit[v].op = "checkout"
  /\ session' = [session EXCEPT ![visit[v].on] =
       [mode |-> visit[v].mode, price |-> visit[v].price, metadata |-> visit[v].metadata,
        meant |-> visit[v].meant, open |-> TRUE]]

CreatePortalSession(v) ==
  /\ Answered(v, "accepted")
  /\ Sells(v) /\ visit[v].op = "portal"
  /\ UNCHANGED session

RefuseVisit(v) ==
  /\ Answered(v, "refused")
  /\ ~Sells(v)
  /\ UNCHANGED session

\* The step outputs url and session_id, or an error.
ReportVisit(v) ==
  /\ visit[v] # None /\ visit[v].stage \in {"accepted", "refused"}
  /\ links' = IF visit[v].stage = "accepted" /\ visit[v].op = "checkout"
                THEN links \cup {visit[v].on} ELSE links
  /\ portal' = (portal \/ (visit[v].stage = "accepted" /\ visit[v].op = "portal"))
  /\ visit' = [visit EXCEPT ![v] = None]
  /\ UNCHANGED <<vars, session, sales>>

\* The request or the answer is lost: a session may be left that no one can open.
LoseVisit(v) ==
  /\ visit[v] # None /\ faults < MaxFaults
  /\ faults' = faults + 1
  /\ visit' = [visit EXCEPT ![v] = None]
  /\ UNCHANGED <<provider, sub, call, last, told, lost, bought, replaced, session, links, sales, portal>>

-----------------------------------------------------------------------------
(* The customer. *)

\* The customer pays; in mode "subscription" a subscription comes to be.
Buy(k, s, i) ==
  /\ k \in links /\ session[k].open
  /\ session' = [session EXCEPT ![k].open = FALSE]
  /\ sales' = sales \cup {[session |-> k, mode |-> session[k].mode, price |-> session[k].price,
                           metadata |-> session[k].metadata]}
  /\ IF session[k].mode = "payment" THEN UNCHANGED <<sub, last, bought>>
     ELSE /\ sub[s] = None /\ \A d \in Calls : Busy(d) => call[d].on # s
          /\ Unknown(i)
          /\ sub' = [sub EXCEPT ![s] =
               [status |-> "active", items |-> {[id |-> i, price |-> session[k].price]}]]
          /\ last' = [last EXCEPT ![s] = session[k].price]
          /\ bought' = bought \cup {s}
  /\ UNCHANGED <<provider, call, told, lost, faults, replaced, visit, links, portal>>

Expire(k) ==
  /\ session[k] # None /\ session[k].open
  /\ session' = [session EXCEPT ![k].open = FALSE]
  /\ UNCHANGED <<vars, visit, links, sales, portal>>

\* In the portal: another price for the item there is, or the end.
SwitchPrice(s, price) ==
  /\ portal /\ sub[s] # None /\ sub[s].status # "canceled"
  /\ sub' = [sub EXCEPT ![s].items = {[i EXCEPT !.price = price] : i \in @}]
  /\ last' = [last EXCEPT ![s] = price]
  /\ UNCHANGED <<provider, call, told, lost, bought, faults, replaced, checkoutVars>>

EndInPortal(s) ==
  /\ portal /\ sub[s] # None /\ sub[s].status = "active"
  /\ sub' = [sub EXCEPT ![s].status = "ending"]
  /\ UNCHANGED <<provider, call, last, told, lost, bought, faults, replaced, checkoutVars>>

-----------------------------------------------------------------------------
CheckoutInit ==
  /\ Init
  /\ visit = [v \in Visits |-> None]
  /\ session = [k \in Sessions |-> None]
  /\ links = {} /\ sales = {} /\ portal = FALSE

Visiting ==
  \E v \in Visits :
    \/ \E k \in Sessions, use \in OfferUses : StartCheckout(v, k, use[1], use[2], use[3])
    \/ StartPortal(v)
    \/ CreateCheckoutSession(v) \/ CreatePortalSession(v) \/ RefuseVisit(v)
    \/ ReportVisit(v) \/ LoseVisit(v)

Customer ==
  \/ \E k \in Sessions, s \in Subs, i \in Items : Buy(k, s, i)
  \/ \E k \in Sessions : Expire(k)
  \/ \E s \in Subs : EndInPortal(s) \/ \E price \in Prices : SwitchPrice(s, price)

CheckoutNext == (Next /\ UNCHANGED checkoutVars) \/ Visiting \/ Customer

CheckoutSpec == CheckoutInit /\ [][CheckoutNext]_allVars

-----------------------------------------------------------------------------
PagePrices == SetPrices \cup OneTime
Meant == [price : PagePrices \cup {None}, recurring : BOOLEAN]
Steps ==
  [op : {"checkout", "portal"}, stage : {"send", "accepted", "refused"},
   on : Sessions \cup {None}, mode : Modes, price : PagePrices \cup {None},
   metadata : BOOLEAN, meant : Meant]
Pages == [mode : {"subscription", "payment"}, price : PagePrices, metadata : BOOLEAN,
          meant : Meant, open : BOOLEAN]

ASSUME CheckoutRecords == None \notin Steps /\ None \notin Pages

CheckoutTypeOK ==
  /\ TypeOK
  /\ \A v \in Visits : visit[v] = None \/ visit[v] \in Steps
  /\ \A k \in Sessions : session[k] = None \/ session[k] \in Pages
  /\ links \subseteq {k \in Sessions : session[k] # None}
  /\ sales \subseteq [session : Sessions, mode : {"subscription", "payment"}, price : PagePrices,
                      metadata : BOOLEAN]
  /\ portal \in BOOLEAN

\* What is bought at a page is what the step's author asked for: the price named, in
\* the place that comes first, and a subscription exactly if no other mode is
\* written; and a page sells once, though sessions are made again after lost answers.
SoldAsAsked ==
  /\ \A x \in sales :
       /\ x.price = session[x.session].meant.price
       /\ (x.mode = "subscription") = session[x.session].meant.recurring
       /\ x.metadata => x.mode = "subscription"
  /\ \A x, y \in sales : x.session = y.session => x = y

\* Customers get what workflows ask for: at the page, and when a subscription ends.
AsAsked == SoldAsAsked /\ CancelsWhenAsked
=============================================================================
