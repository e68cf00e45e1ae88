------------------------------- MODULE Accounts -------------------------------
(***************************************************************************)
(* What hangs on a customer: payment methods and invoices.  A step attaches*)
(* a method to a customer the customer step returned, which composes with  *)
(* module Customers; others list the methods or invoices of customers that *)
(* exist, page by page, while methods come and go and invoices proceed.    *)
(***************************************************************************)
EXTENDS Customers

CONSTANTS
  Providers,   \* "stripe" and/or "paypal"
  Kinds,       \* "customer": steps ensure customers and attach methods;
               \* "method", "invoice": steps list those of existing customers
  Owners,      \* those customers
  Attachable,  \* methods attached in runs about customers
  Items,       \* numbers, in the order of creation
  NoItem, NoList,
  Tags,        \* types of methods, states of invoices; "" filters nothing
  Sizes        \* page sizes

ASSUME AccountsAssumption ==
  /\ Providers \subseteq {"stripe", "paypal"}
  /\ Kinds \subseteq {"customer", "method", "invoice"}
  /\ Owners \cap (Ids \cup {NoId}) = {}
  /\ Items \subseteq Nat \ {0} /\ Attachable \subseteq Items
  /\ "" \notin Tags
  /\ Sizes \subseteq Nat \ {0}
  /\ NoItem \notin [owner : Ids \cup Owners, tag : Tags] /\ NoItem \notin Items

VARIABLES
  provider, kind,  \* what the run is about; they never change
  item,      \* item -> owner and tag, as the provider holds it
  attached,  \* <<method, address>>: attachments reported as made
  list       \* the listing step under way, or done

accountVars == <<provider, kind, item, attached, list>>
allVars == <<vars, accountVars>>

-----------------------------------------------------------------------------
(* Who a step works for. *)

\* resolveValue: the pipeline's data, then the configuration.
LegacyCustomer(current, config) == IF current # NoId THEN current ELSE config
\* The typed steps have no such configuration.
TypedCustomer(input) == input

\* What a listing names: a customer the workflow knows, or none.
Customer(c) ==
  \/ \E current, config \in Owners \cup {NoId} : c = LegacyCustomer(current, config)
  \/ \E input \in Owners \cup {NoId} : c = TypedCustomer(input)

-----------------------------------------------------------------------------
Matches(i, owner, tag) ==
  /\ i # NoItem
  /\ owner # NoId => i.owner = owner
  /\ tag # "" => i.tag = tag

\* The items a listing asks for, among those there are.
Wanted(items, l) == {n \in Items : Matches(items[n], l.owner, l.tag)}

\* A listing under way notes what was there all the time and what at any time.
Seen(l, items) ==
  IF l = NoList \/ l.state = "done" THEN l
  ELSE [l EXCEPT !.always = @ \cap Wanted(items, l), !.ever = @ \cup Wanted(items, l)]

ItemStep(n, i) ==
  /\ item' = [item EXCEPT ![n] = i]
  /\ list' = Seen(list, [item EXCEPT ![n] = i])
  /\ UNCHANGED <<vars, provider, kind>>

\* Stripe attaches a method that has no other customer.  PayPal's provider
\* answers ErrUnsupported.
AttachPaymentMethod(n, c, tag) ==
  /\ kind \in {"customer", "method"} /\ provider = "stripe"
  /\ item[n] # NoItem => item[n].owner = c /\ item[n].tag = tag
  /\ ItemStep(n, [owner |-> c, tag |-> tag])

\* The attach step wants both ids; its answer may be lost.
Attach(n, e, c, tag) ==
  /\ c # NoId
  /\ kind = "customer" => n \in Attachable /\ c \in told[e]
  /\ kind = "method" => c \in Owners
  /\ AttachPaymentMethod(n, c, tag)
  /\ attached' \in {attached, IF kind = "customer" THEN attached \cup {<<n, e>>} ELSE attached}

Detach(n) ==
  /\ kind \in {"customer", "method"} /\ item[n] # NoItem
  /\ ItemStep(n, NoItem)
  /\ attached' = {a \in attached : a[1] # n}

Latest(n) == \A k \in Items : item[k] # NoItem => k < n

Issue(n, c, tag) ==
  /\ kind = "invoice" /\ Latest(n) /\ c \in Owners
  /\ ItemStep(n, [owner |-> c, tag |-> tag])
  /\ UNCHANGED attached

\* A draft is finalised, an open invoice paid.
Proceed(n, tag) ==
  /\ kind = "invoice" /\ item[n] # NoItem /\ item[n].tag # tag
  /\ ItemStep(n, [item[n] EXCEPT !.tag = tag])
  /\ UNCHANGED attached

-----------------------------------------------------------------------------
(* Listings. *)

NewList(c, tag, size) ==
  LET l == [state |-> "pages", owner |-> c, tag |-> tag, size |-> size,
            after |-> NoItem, got |-> [n \in Items |-> 0], always |-> {}, ever |-> {}]
  IN  [l EXCEPT !.always = Wanted(item, l), !.ever = Wanted(item, l)]

Quiet == UNCHANGED <<vars, provider, kind, item, attached>>

\* "customer_id is required"; the type is optional; Stripe's page size is its own.
ListPaymentMethods(c, tag, size) ==
  /\ kind = "method" /\ provider = "stripe"
  /\ list = NoList /\ c # NoId
  /\ list' = NewList(c, tag, size)
  /\ Quiet

\* Customer, limit and status are optional; the limit is the size of a page.
ListInvoices(c, tag, size) ==
  /\ kind = "invoice" /\ provider = "stripe"
  /\ list = NoList
  /\ list' = NewList(c, tag, size)
  /\ Quiet

Rest == {n \in Wanted(item, list) : list.after # NoItem => n < list.after}

\* A page: the newest items after the last one of the page before.
Pages ==
  {page \in SUBSET Rest :
     /\ Cardinality(page) <= list.size
     /\ Cardinality(page) < list.size => page = Rest
     /\ \A n \in page, k \in Rest \ page : k < n}

Gone == list.after # NoItem /\ item[list.after] = NoItem

HasMore(page) == page # Rest

\* The iterator asks for the next page as long as there are more.
NextPage ==
  /\ list # NoList /\ list.state = "pages" /\ provider = "stripe" /\ ~Gone
  /\ \E page \in Pages :
       list' = [list EXCEPT
         !.state = IF HasMore(page) THEN "pages" ELSE "done",
         !.after = IF page = {} THEN @ ELSE CHOOSE n \in page : \A k \in page : n <= k,
         !.got = [n \in Items |-> @[n] + IF n \in page THEN 1 ELSE 0]]
  /\ Quiet

\* Faulty variant of PageFails: it.Err() is not looked at, what came is returned.
PageFailsQuietly ==
  /\ list # NoList /\ list.state = "pages"
  /\ list' = [list EXCEPT !.state = "done"]
  /\ Quiet

\* A page's request or answer is lost, or its first item is after one that is no
\* more: the step outputs an error and none of the pages before.
PageFails ==
  /\ list # NoList /\ list.state = "pages"
  /\ list' = NoList
  /\ Quiet

\* PayPal's ListInvoices: one page, of whichever customers and states.
PayPalListInvoices(c, size) ==
  /\ kind = "invoice" /\ provider = "paypal" /\ list = NoList
  /\ LET l == NewList(NoId, "", size) IN
     \E page \in SUBSET l.ever :
       /\ Cardinality(page) <= size
       /\ Cardinality(page) < size => page = l.ever
       /\ list' = [l EXCEPT !.state = "done", !.owner = c,
                            !.got = [n \in Items |-> IF n \in page THEN 1 ELSE 0]]
  /\ Quiet

\* The workflow has used the step's output.
Forget == list # NoList /\ list.state = "done" /\ list' = NoList /\ Quiet

-----------------------------------------------------------------------------
AccountsInit ==
  /\ Init
  /\ provider \in Providers /\ kind \in Kinds
  /\ provider = "paypal" => kind = "invoice"  \* it has no methods
  /\ item = [n \in Items |-> NoItem]
  /\ attached = {}
  /\ list = NoList

ItemsChange ==
  \/ \E n \in Items, e \in Emails, c \in Ids \cup Owners, t \in Tags : Attach(n, e, c, t)
  \/ \E n \in Items : Detach(n)
  \/ \E n \in Items, c \in Owners, t \in Tags : Issue(n, c, t)
  \/ \E n \in Items, t \in Tags : Proceed(n, t)

Listing ==
  \/ \E c \in Owners \cup {NoId}, t \in Tags \cup {""}, s \in Sizes :
       /\ Customer(c)
       /\ ListPaymentMethods(c, t, s) \/ ListInvoices(c, t, s) \/ PayPalListInvoices(c, s)
  \/ NextPage \/ PageFails \/ Forget

Ensuring == kind = "customer" /\ Next /\ UNCHANGED accountVars

AccountsNext == Ensuring \/ ItemsChange \/ Listing

AccountsSpec == AccountsInit /\ [][AccountsNext]_allVars

-----------------------------------------------------------------------------
ItemRecords == [owner : Ids \cup Owners, tag : Tags]
Listings ==
  [state : {"pages", "done"}, owner : Owners \cup {NoId}, tag : Tags \cup {""}, size : Sizes,
   after : Items \cup {NoItem}, got : [Items -> Nat], always : SUBSET Items, ever : SUBSET Items]

AccountsTypeOK ==
  /\ TypeOK
  /\ provider \in Providers /\ kind \in Kinds
  /\ item \in [Items -> ItemRecords \cup {NoItem}]
  /\ attached \subseteq Items \X Emails
  /\ list \in Listings \cup {NoList}

\* A listing that succeeds has every item that was there and matched from its
\* first page to its last, none twice, and none that never matched, though items
\* come, change and go between its pages.  (PayPal's has no pages and no filter.)
ListingsAreFaithful ==
  (list # NoList /\ list.state = "done" /\ provider = "stripe") =>
    /\ \A n \in list.always : list.got[n] = 1
    /\ \A n \in Items : list.got[n] <= 1 /\ (list.got[n] = 1 => n \in list.ever)

\* A method attached for an address whose customer steps take turns hangs on the
\* customer that every step was told and every later step will be: a workflow
\* that ensures the customer and lists finds it.
AttachedIsFindable ==
  \A a \in attached : a[2] \in Turns =>
    /\ \A k \in With(a[2]) : item[a[1]].owner = k.id
    /\ told[a[2]] = {item[a[1]].owner}
=============================================================================
