--------------------------- MODULE ProviderDispatch ---------------------------
(***************************************************************************)
(* How a pipeline step reaches a payment provider: payments.provider       *)
(* modules that come and go, the process-wide registry that maps a module  *)
(* name to a provider, and the process-wide variable stripe.Key through    *)
(* which most Stripe methods authenticate.                                 *)
(*                                                                         *)
(* A Go string is two machine words.  stripe.Key is written and read by    *)
(* concurrent goroutines without a lock, so the words are stored and       *)
(* loaded one at a time, in either order, with anything in between.        *)
(***************************************************************************)
EXTENDS Naturals

CONSTANTS
  Calls,         \* goroutines; each executes one step at a time
  Instances,     \* module instances the host may create
  Names,         \* module names
  Keys,          \* Stripe secret keys and PayPal credentials
  NoKey,         \* the empty string
  None,
  NameOf, KindOf, KeyOf,   \* the configuration of each instance
  Ops,           \* the provider methods the steps call
  Overlapping    \* names under which the host may Init a module before it has
                 \*   stopped the instance it replaces

Words == {"ptr", "len"}

ASSUME ConfigAssumption ==
  /\ NameOf \in [Instances -> Names]
  /\ KindOf \in [Instances -> {"stripe", "paypal", "unknown"}]
  /\ KeyOf \in [Instances -> Keys \cup {NoKey}]
  /\ NoKey \notin Keys
  /\ None \notin Instances
  /\ Overlapping \subseteq Names

VARIABLES
  state,      \* life cycle of each module instance
  registry,   \* providerRegistry: module name -> instance
  stripeKey,  \* stripe.Key, word by word: the instance key each word is from
  pc,         \* where each call is
  op,         \* the provider method the call runs
  prov,       \* the provider the call looked up
  todo,       \* words of stripe.Key the call has still to store or load
  got,        \* words of stripe.Key the call has loaded
  left,       \* package-level API calls the method may still make
  sent,       \* keys under which the call's requests went out
  raced       \* history: calls whose published key another account overwrote

vars == <<state, registry, stripeKey, pc, op, prov, todo, got, left, sent, raced>>
callVars == <<pc, op, prov, todo, got, left, sent>>

-----------------------------------------------------------------------------
(* The provider methods.                                                   *)

\* Methods that build a client of their own around p.secretKey.
OwnClient(o) == o \in {"CreateStablecoinDepositIntent", "WebhookEndpointEnsure"}

\* Methods that make no API call and check no key.
Offline(o) == o \in {"VerifyWebhook", "CalculateFees"}

\* Faulty variant of PackageCalls: the update of a subscription is repeated.
PackageCallsRepeated(o) == IF o \in {"EnsureCustomer", "UpdateSubscription"} THEN 3 ELSE 1

\* Stripe methods that check their arguments themselves: the two with a client
\* of their own before they build it, the others after setKey.
ChecksArguments(o) ==
  OwnClient(o) \/ o \in {"CreateSubscription", "CreateCheckoutSession"}

\* How often a method calls a package-level function of the SDK, each of which
\* reads stripe.Key once: EnsureCustomer lists then creates, UpdateSubscription
\* gets then updates, the others make one call.
PackageCalls(o) == IF o \in {"EnsureCustomer", "UpdateSubscription"} THEN 2 ELSE 1

\* PayPal methods that return ErrUnsupported, or a local value, with no request.
PayPalLocal(o) ==
  o \in {"CreateStablecoinDepositIntent", "EnsureCustomer", "CreatePortalSession",
         "AttachPaymentMethod", "ListPaymentMethods", "WebhookEndpointEnsure",
         "CalculateFees"}

OwnKey(c) == [w \in Words |-> KeyOf[prov[c]]]

\* Faulty variant of KeyMissing: checkKey never objects.
KeyMissingNever(c) == FALSE

\* checkKey
KeyMissing(c) == KeyOf[prov[c]] = NoKey

-----------------------------------------------------------------------------
(* The registry and the modules' life cycle.                               *)

RegisterProvider(n, i) == registry' = [registry EXCEPT ![n] = i]
GetProvider(n) == registry[n]

\* Faulty variant of UnregisterProvider: the registry is emptied.
UnregisterAll(n) == registry' = [m \in Names |-> None]

UnregisterProvider(n) == registry' = [registry EXCEPT ![n] = None]

\* Init fails for an unknown provider type, and for PayPal without credentials;
\* a Stripe provider may be built without a key.
CanInit(i) ==
  \/ KindOf[i] = "stripe"
  \/ KindOf[i] = "paypal" /\ KeyOf[i] # NoKey

\* The host: unless the name may overlap, it stops an instance before it replaces it.
HostMayInit(i) ==
  NameOf[i] \in Overlapping \/ \A j \in Instances : state[j] = "up" => NameOf[j] # NameOf[i]

ModuleInit(i) ==
  /\ state[i] = "new"
  /\ HostMayInit(i)
  /\ \/ /\ CanInit(i)
        /\ RegisterProvider(NameOf[i], i)
        /\ state' = [state EXCEPT ![i] = "up"]
     \/ /\ ~CanInit(i)
        /\ state' = [state EXCEPT ![i] = "failed"]
        /\ UNCHANGED registry
  /\ UNCHANGED <<stripeKey, callVars, raced>>

\* Faulty variant of ModuleStop: Stop forgets to unregister.
ModuleStopKeepsEntry(i) ==
  /\ state[i] = "up"
  /\ state' = [state EXCEPT ![i] = "stopped"]
  /\ UNCHANGED <<registry, stripeKey, callVars, raced>>

\* Stop unregisters the name, whichever instance the registry holds under it.
ModuleStop(i) ==
  /\ state[i] = "up"
  /\ UnregisterProvider(NameOf[i])
  /\ state' = [state EXCEPT ![i] = "stopped"]
  /\ UNCHANGED <<stripeKey, callVars, raced>>

-----------------------------------------------------------------------------
(* A call: a step's Execute down to the requests it sends.                 *)

\* The step looks its module up.  It returns an error when there is none, or
\* when a required parameter is missing.
Lookup(c, n, o) ==
  /\ pc[c] = "idle"
  /\ op' = [op EXCEPT ![c] = o]
  /\ prov' = [prov EXCEPT ![c] = GetProvider(n)]
  /\ \/ pc' = [pc EXCEPT ![c] = "done"]
     \/ GetProvider(n) # None /\ pc' = [pc EXCEPT ![c] = "enter"]
  /\ UNCHANGED <<state, registry, stripeKey, todo, got, left, sent, raced>>

\* The prologue of a provider method: check the key, then either publish it in
\* stripe.Key or build a client around it.
Enter(c) ==
  LET i == prov[c]
      o == op[c]
      stripe == KindOf[i] = "stripe" /\ ~Offline(o)
  IN
  /\ pc[c] = "enter"
  /\ \/ /\ KindOf[i] = "stripe" /\ (Offline(o) \/ KeyMissing(c))
        /\ pc' = [pc EXCEPT ![c] = "done"]
        /\ UNCHANGED <<todo, left>>
     \/ /\ KindOf[i] = "paypal" /\ PayPalLocal(o)
        /\ pc' = [pc EXCEPT ![c] = "done"]
        /\ UNCHANGED <<todo, left>>
     \/ /\ stripe /\ ~KeyMissing(c) /\ OwnClient(o)
        /\ pc' = [pc EXCEPT ![c] = "own"]
        /\ UNCHANGED <<todo, left>>
     \/ /\ KindOf[i] = "paypal" /\ ~PayPalLocal(o)
        /\ pc' = [pc EXCEPT ![c] = "own"]
        /\ UNCHANGED <<todo, left>>
     \/ /\ stripe /\ ~KeyMissing(c) /\ ~OwnClient(o)
        /\ pc' = [pc EXCEPT ![c] = "store"]
        /\ todo' = [todo EXCEPT ![c] = Words]
        /\ left' = [left EXCEPT ![c] = PackageCalls(o)]
  /\ UNCHANGED <<state, registry, stripeKey, op, prov, got, sent, raced>>

\* Word w is one call d has stored and may still load.
Exposed(d, w) ==
  \/ pc[d] = "store" /\ w \notin todo[d]
  \/ pc[d] = "load" /\ (w \in todo[d] \/ left[d] > 1)
  \/ pc[d] = "send" /\ left[d] > 1

\* Faulty variant of StoreKeyWord: the global key is set only once.
StoreKeyWordOnce(c, w) ==
  /\ pc[c] = "store"
  /\ w \in todo[c]
  /\ stripeKey' = IF stripeKey[w] = NoKey
                    THEN [stripeKey EXCEPT ![w] = KeyOf[prov[c]]] ELSE stripeKey
  /\ pc' = IF todo[c] = {w} THEN [pc EXCEPT ![c] = "load"] ELSE pc
  /\ todo' = [todo EXCEPT ![c] = IF todo[c] = {w} THEN Words ELSE @ \ {w}]
  /\ UNCHANGED <<state, registry, op, prov, got, left, sent, raced>>

\* setKey, one word of the string at a time.
StoreKeyWord(c, w) ==
  /\ pc[c] = "store"
  /\ w \in todo[c]
  /\ stripeKey' = [stripeKey EXCEPT ![w] = KeyOf[prov[c]]]
  /\ raced' = raced \cup {d \in Calls \ {c} : Exposed(d, w) /\ KeyOf[prov[d]] # KeyOf[prov[c]]}
  /\ pc' = IF todo[c] = {w} THEN [pc EXCEPT ![c] = "load"] ELSE pc
  /\ todo' = [todo EXCEPT ![c] = IF todo[c] = {w} THEN Words ELSE @ \ {w}]
  /\ UNCHANGED <<state, registry, op, prov, got, left, sent>>

\* A package-level function of the SDK copies stripe.Key into its client.
LoadKeyWord(c, w) ==
  /\ pc[c] = "load"
  /\ w \in todo[c]
  /\ got' = [got EXCEPT ![c][w] = stripeKey[w]]
  /\ pc' = IF todo[c] = {w} THEN [pc EXCEPT ![c] = "send"] ELSE pc
  /\ todo' = [todo EXCEPT ![c] = @ \ {w}]
  /\ UNCHANGED <<state, registry, stripeKey, op, prov, left, sent, raced>>

\* The method returns before it has sent anything: its arguments will not do, or
\* PayPal issues no token.
GiveUp(c) ==
  /\ \/ pc[c] = "own" /\ (KindOf[prov[c]] = "paypal" \/ ChecksArguments(op[c]))
     \/ pc[c] = "load" /\ todo[c] = Words /\ sent[c] = {} /\ ChecksArguments(op[c])
  /\ pc' = [pc EXCEPT ![c] = "done"]
  /\ UNCHANGED <<state, registry, stripeKey, op, prov, todo, got, left, sent, raced>>

\* The request goes out.  The method is over, or goes on to its next API call.
Send(c) ==
  /\ pc[c] = "send"
  /\ sent' = [sent EXCEPT ![c] = @ \cup {got[c]}]
  /\ left' = [left EXCEPT ![c] = @ - 1]
  /\ \/ /\ pc' = [pc EXCEPT ![c] = "done"]
        /\ UNCHANGED todo
     \/ /\ left[c] > 1
        /\ pc' = [pc EXCEPT ![c] = "load"]
        /\ todo' = [todo EXCEPT ![c] = Words]
  /\ UNCHANGED <<state, registry, stripeKey, op, prov, got, raced>>

\* All the requests of a method that has its own client (or of PayPal, whose
\* provider authenticates with its own credentials).
SendOwn(c) ==
  /\ pc[c] = "own"
  /\ sent' = [sent EXCEPT ![c] = @ \cup {OwnKey(c)}]
  /\ pc' = [pc EXCEPT ![c] = "done"]
  /\ UNCHANGED <<state, registry, stripeKey, op, prov, todo, got, left, raced>>

\* The step returns and its goroutine is free for another one.
Return(c) ==
  /\ pc[c] = "done"
  /\ pc' = [pc EXCEPT ![c] = "idle"]
  /\ op' = [op EXCEPT ![c] = None]
  /\ prov' = [prov EXCEPT ![c] = None]
  /\ sent' = [sent EXCEPT ![c] = {}]
  /\ todo' = [todo EXCEPT ![c] = {}]
  /\ left' = [left EXCEPT ![c] = 0]
  /\ got' = [got EXCEPT ![c] = [w \in Words |-> NoKey]]
  /\ raced' = raced \ {c}
  /\ UNCHANGED <<state, registry, stripeKey>>

-----------------------------------------------------------------------------
Init ==
  /\ state = [i \in Instances |-> "new"]
  /\ registry = [n \in Names |-> None]
  /\ stripeKey = [w \in Words |-> NoKey]
  /\ pc = [c \in Calls |-> "idle"]
  /\ op = [c \in Calls |-> None]
  /\ prov = [c \in Calls |-> None]
  /\ todo = [c \in Calls |-> {}]
  /\ got = [c \in Calls |-> [w \in Words |-> NoKey]]
  /\ left = [c \in Calls |-> 0]
  /\ sent = [c \in Calls |-> {}]
  /\ raced = {}

ModuleStep(i) == ModuleInit(i) \/ ModuleStop(i)

CallStep(c) ==
  \/ \E n \in Names, o \in Ops : Lookup(c, n, o)
  \/ Enter(c)
  \/ \E w \in Words : StoreKeyWord(c, w) \/ LoadKeyWord(c, w)
  \/ Send(c)
  \/ SendOwn(c)
  \/ GiveUp(c)
  \/ Return(c)

Next ==
  \/ \E i \in Instances : ModuleStep(i)
  \/ \E c \in Calls : CallStep(c)

Spec == Init /\ [][Next]_vars

-----------------------------------------------------------------------------
KeyStrings == [Words -> Keys \cup {NoKey}]

TypeOK ==
  /\ state \in [Instances -> {"new", "up", "failed", "stopped"}]
  /\ registry \in [Names -> Instances \cup {None}]
  /\ stripeKey \in KeyStrings
  /\ pc \in [Calls -> {"idle", "enter", "store", "load", "send", "own", "done"}]
  /\ op \in [Calls -> Ops \cup {None}]
  /\ prov \in [Calls -> Instances \cup {None}]
  /\ todo \in [Calls -> SUBSET Words]
  /\ got \in [Calls -> KeyStrings]
  /\ left \in [Calls -> 0..2]
  /\ sent \in [Calls -> SUBSET KeyStrings]
  /\ raced \subseteq Calls

\* No request ever carries an empty, or half-empty, key: a module configured
\* without a secret key (deferred config) neither sends a request nor disturbs
\* the key another module has published, whatever the interleaving.
NeverEmptyKey ==
  \A c \in Calls : \A k \in sent[c] : \A w \in Words : k[w] # NoKey

\* A request goes out under a key that is not its own module's only if the
\* method relies on stripe.Key and a call for a module with another key stored
\* a word of it between this call's store and load of that word.  Hence calls
\* with a client of their own, calls that run alone, and all calls of a process
\* whose modules share one key, are always charged to their own account.
ForeignKeyNeedsRace ==
  \A c \in Calls :
    (\E k \in sent[c] : k # OwnKey(c)) => c \in raced /\ ~OwnClient(op[c])

\* What SETUP.md offers, modules side by side in one process, and what setKey's
\* comment says ("sets the global stripe key for the call"): no request of a
\* call goes out under the whole, untorn key of another module.
CallUsesOwnKey ==
  \A c \in Calls : \A k \in sent[c] : \A i \in Instances :
    k = [w \in Words |-> KeyOf[i]] => k = OwnKey(c)

\* The registry never serves a provider whose module has been stopped, however
\* the host orders the Init and Stop of instances that share a name.
NoStoppedModuleServes ==
  \A n \in Names : registry[n] # None =>
    /\ state[registry[n]] = "up"
    /\ NameOf[registry[n]] = n

\* When the host stops an instance before it replaces it, a module that is up
\* can be reached under its name until it is stopped.
LiveModuleServes ==
  \A i \in Instances :
    (state[i] = "up" /\ NameOf[i] \notin Overlapping) => registry[NameOf[i]] = i

\* The registry leads to modules that are up, and to all that should be found:
\* through any order of Inits and Stops, failed Inits and shared names.
RegistryIsCurrent == NoStoppedModuleServes /\ LiveModuleServes
=============================================================================
