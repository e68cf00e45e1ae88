------------------------ MODULE ProviderDispatchProofs ------------------------
(***************************************************************************)
(* What holds of ProviderDispatch for any number of calls, modules and     *)
(* keys.  KeyInv is the inductive strengthening: it follows the key from   *)
(* the module to stripe.Key, to the words a call has loaded, to the        *)
(* requests it has sent.                                                   *)
(***************************************************************************)
EXTENDS ProviderDispatch, TLAPS

(* The registry and the providers calls hold are initialised modules'. *)
RegistryInv ==
  /\ \A n \in Names : registry[n] # None =>
        /\ state[registry[n]] = "up"
        /\ NameOf[registry[n]] = n
  /\ \A i \in Instances : state[i] = "up" => CanInit(i)
  /\ \A c \in Calls :
        /\ prov[c] # None => CanInit(prov[c])
        /\ pc[c] \notin {"idle", "done"} => prov[c] # None

(* A call between its first store and its last request is one whose module  *)
(* has a key, so whatever it has stored in stripe.Key, or anyone after it,   *)
(* is not empty.                                                             *)
Keyed(c) ==
  /\ pc[c] \in {"store", "load", "send", "own"} => KeyOf[prov[c]] # NoKey
  /\ pc[c] \in {"store", "load", "send"} =>
       left[c] > 0 /\ ~OwnClient(op[c]) /\ KindOf[prov[c]] = "stripe"
  /\ \A w \in Words :
       /\ pc[c] = "store" /\ w \notin todo[c] => stripeKey[w] # NoKey
       /\ pc[c] \in {"load", "send"} => stripeKey[w] # NoKey
       /\ pc[c] = "load" /\ w \notin todo[c] => got[c][w] # NoKey
       /\ pc[c] = "send" => got[c][w] # NoKey
  /\ \A k \in sent[c] : \A w \in Words : k[w] # NoKey

KeyedInv == \A c \in Calls : Keyed(c)

(* A call nobody raced finds its own key wherever it still has to look. *)
OwnKeyed(c) ==
  /\ pc[c] \in {"idle", "enter", "own"} => c \notin raced
  /\ pc[c] \in {"idle", "enter"} => sent[c] = {}
  /\ c \in raced => ~OwnClient(op[c])
  /\ c \notin raced =>
       /\ \A w \in Words :
            /\ Exposed(c, w) => stripeKey[w] = KeyOf[prov[c]]
            /\ pc[c] = "load" /\ w \notin todo[c] => got[c][w] = KeyOf[prov[c]]
            /\ pc[c] = "send" => got[c][w] = KeyOf[prov[c]]
       /\ \A k \in sent[c] : k = OwnKey(c)

OwnKeyInv == \A c \in Calls : OwnKeyed(c)

KeyInv == TypeOK /\ RegistryInv /\ KeyedInv /\ OwnKeyInv

(* Everything call d owns is as it was. *)
Untouched(d) ==
  /\ pc'[d] = pc[d] /\ op'[d] = op[d] /\ prov'[d] = prov[d]
  /\ todo'[d] = todo[d] /\ got'[d] = got[d]
  /\ left'[d] = left[d] /\ sent'[d] = sent[d]

-----------------------------------------------------------------------------
LEMMA PackageCallsRange == \A o : PackageCalls(o) \in 1..2
BY DEF PackageCalls

\* A Send either ends its method or goes on to the next API call.
LEMMA SendCases ==
  ASSUME NEW c \in Calls, Send(c)
  PROVE  /\ pc[c] = "send"
         /\ sent' = [sent EXCEPT ![c] = @ \cup {got[c]}]
         /\ left' = [left EXCEPT ![c] = @ - 1]
         /\ UNCHANGED <<state, registry, stripeKey, op, prov, got, raced>>
         /\ \/ pc' = [pc EXCEPT ![c] = "done"] /\ todo' = todo
            \/ /\ left[c] > 1
               /\ pc' = [pc EXCEPT ![c] = "load"]
               /\ todo' = [todo EXCEPT ![c] = Words]
BY DEF Send

\* A step of one call touches nothing another call owns; a step of a module
\* touches no call.
LEMMA OthersUntouched ==
  ASSUME TypeOK, NEW c \in Calls, CallStep(c), NEW d \in Calls, d # c
  PROVE  Untouched(d)
<1> USE DEF TypeOK, Untouched
<1>1. CASE \E n \in Names, o \in Ops : Lookup(c, n, o)
  BY <1>1 DEF Lookup
<1>2. CASE Enter(c)
  BY <1>2 DEF Enter
<1>3. CASE \E w \in Words : StoreKeyWord(c, w)
  BY <1>3 DEF StoreKeyWord
<1>4. CASE \E w \in Words : LoadKeyWord(c, w)
  BY <1>4 DEF LoadKeyWord
<1>5. CASE Send(c)
  BY <1>5, SendCases
<1>6. CASE SendOwn(c)
  BY <1>6 DEF SendOwn
<1>7. CASE Return(c)
  BY <1>7 DEF Return
<1>8. CASE GiveUp(c)
  BY <1>8 DEF GiveUp
<1> QED
  BY <1>1, <1>2, <1>3, <1>4, <1>5, <1>6, <1>7, <1>8 DEF CallStep

LEMMA ModuleStepsTouchNoCall ==
  ASSUME NEW i \in Instances, ModuleStep(i)
  PROVE  UNCHANGED <<stripeKey, raced, callVars>>
BY DEF ModuleStep, ModuleInit, ModuleStop, callVars

\* The initial state is well typed and satisfies the strengthening.
LEMMA InitKeyInv == Init => KeyInv
BY ConfigAssumption
   DEF Init, KeyInv, TypeOK, RegistryInv, KeyedInv, Keyed, OwnKeyInv, OwnKeyed, KeyStrings, Exposed, Words

\* Every step preserves the types.
LEMMA NextTypeOK == TypeOK /\ RegistryInv /\ KeyedInv /\ [Next]_vars => TypeOK'
<1> SUFFICES ASSUME TypeOK, RegistryInv, KeyedInv, [Next]_vars PROVE TypeOK'
  OBVIOUS
<1> USE ConfigAssumption DEF TypeOK
<1>1. ASSUME NEW i \in Instances, ModuleInit(i) PROVE TypeOK'
  <2>1. UNCHANGED <<stripeKey, pc, op, prov, todo, got, left, sent, raced>>
    BY <1>1 DEF ModuleInit, callVars
  <2>2. state' \in [Instances -> {"new", "up", "failed", "stopped"}]
    BY <1>1 DEF ModuleInit
  <2>3. registry' \in [Names -> Instances \cup {None}]
    BY <1>1 DEF ModuleInit, RegisterProvider
  <2> QED
    BY <2>1, <2>2, <2>3
<1>2. ASSUME NEW i \in Instances, ModuleStop(i) PROVE TypeOK'
  BY <1>2 DEF ModuleStop, UnregisterProvider, callVars
<1>3. ASSUME NEW c \in Calls, NEW n \in Names, NEW o \in Ops, Lookup(c, n, o) PROVE TypeOK'
  BY <1>3 DEF Lookup, GetProvider
<1>4. ASSUME NEW c \in Calls, Enter(c) PROVE TypeOK'
  <2>1. /\ pc' \in [Calls -> {"idle", "enter", "store", "load", "send", "own", "done"}]
        /\ UNCHANGED <<state, registry, stripeKey, op, prov, got, sent, raced>>
    BY <1>4 DEF Enter
  <2>2. todo' \in [Calls -> SUBSET Words]
    BY <1>4 DEF Enter
  <2>3. left' \in [Calls -> 0..2]
    <3>1. PackageCalls(op[c]) \in 0..2
      BY PackageCallsRange
    <3>2. left' = left \/ left' = [left EXCEPT ![c] = PackageCalls(op[c])]
      BY <1>4 DEF Enter
    <3> QED
      BY <3>1, <3>2
  <2> QED
    BY <2>1, <2>2, <2>3
<1>5. ASSUME NEW c \in Calls, NEW w \in Words, StoreKeyWord(c, w) PROVE TypeOK'
  <2>1. pc[c] = "store" /\ prov[c] \in Instances
    BY <1>5 DEF StoreKeyWord, RegistryInv
  <2>2. KeyOf[prov[c]] \in Keys \cup {NoKey}
    BY <2>1
  <2> QED
    BY <1>5, <2>2 DEF StoreKeyWord, KeyStrings
<1>6. ASSUME NEW c \in Calls, NEW w \in Words, LoadKeyWord(c, w) PROVE TypeOK'
  BY <1>6 DEF LoadKeyWord, KeyStrings
<1>7. ASSUME NEW c \in Calls, Send(c) PROVE TypeOK'
  <2>1. left[c] > 0
    BY <1>7, SendCases DEF KeyedInv, Keyed
  <2>2. left' \in [Calls -> 0..2]
    BY <1>7, <2>1, SendCases
  <2>3. sent' \in [Calls -> SUBSET KeyStrings]
    BY <1>7, SendCases
  <2>4. pc' \in [Calls -> {"idle", "enter", "store", "load", "send", "own", "done"}]
    BY <1>7, SendCases
  <2>5. todo' \in [Calls -> SUBSET Words]
    BY <1>7, SendCases
  <2>6. UNCHANGED <<state, registry, stripeKey, op, prov, got, raced>>
    BY <1>7, SendCases
  <2> QED
    BY <2>2, <2>3, <2>4, <2>5, <2>6
<1>8. ASSUME NEW c \in Calls, SendOwn(c) PROVE TypeOK'
  <2>1. prov[c] \in Instances
    BY <1>8 DEF SendOwn, RegistryInv
  <2>2. OwnKey(c) \in KeyStrings
    BY <2>1 DEF OwnKey, KeyStrings
  <2> QED
    BY <1>8, <2>2 DEF SendOwn
<1>9. ASSUME NEW c \in Calls, Return(c) PROVE TypeOK'
  BY <1>9 DEF Return, KeyStrings
<1>10. CASE UNCHANGED vars
  BY <1>10 DEF vars
<1>11. ASSUME NEW c \in Calls, GiveUp(c) PROVE TypeOK'
  BY <1>11 DEF GiveUp
<1> QED
  BY <1>1, <1>2, <1>3, <1>4, <1>5, <1>6, <1>7, <1>8, <1>9, <1>10, <1>11
     DEF Next, ModuleStep, CallStep

\* Every step preserves what is known of the registry.
LEMMA NextRegistryInv == TypeOK /\ RegistryInv /\ [Next]_vars => RegistryInv'
<1> SUFFICES ASSUME TypeOK, RegistryInv, [Next]_vars PROVE RegistryInv'
  OBVIOUS
<1> USE ConfigAssumption DEF TypeOK, RegistryInv
<1>1. ASSUME NEW i \in Instances, ModuleInit(i) PROVE RegistryInv'
  <2>1. UNCHANGED <<pc, prov>>
    BY <1>1 DEF ModuleInit, callVars
  <2>2. CASE CanInit(i)
    <3>1. registry' = [registry EXCEPT ![NameOf[i]] = i] /\ state' = [state EXCEPT ![i] = "up"]
      BY <1>1, <2>2 DEF ModuleInit, RegisterProvider
    <3> QED
      BY <2>1, <2>2, <3>1 DEF CanInit
  <2>3. CASE ~CanInit(i)
    <3>1. registry' = registry /\ state' = [state EXCEPT ![i] = "failed"] /\ state[i] = "new"
      BY <1>1, <2>3 DEF ModuleInit
    <3> QED
      BY <2>1, <2>3, <3>1 DEF CanInit
  <2> QED
    BY <2>2, <2>3
<1>2. ASSUME NEW i \in Instances, ModuleStop(i) PROVE RegistryInv'
  BY <1>2 DEF ModuleStop, UnregisterProvider, callVars, CanInit
<1>3. ASSUME NEW c \in Calls, NEW n \in Names, NEW o \in Ops, Lookup(c, n, o)
      PROVE  RegistryInv'
  BY <1>3 DEF Lookup, GetProvider, CanInit
<1>4. ASSUME NEW c \in Calls,
             \/ Enter(c) \/ Send(c) \/ SendOwn(c) \/ GiveUp(c)
             \/ \E w \in Words : StoreKeyWord(c, w) \/ LoadKeyWord(c, w)
      PROVE  RegistryInv'
  <2>1. UNCHANGED <<state, registry, prov>> /\ pc[c] \notin {"idle", "done"}
    BY <1>4 DEF Enter, Send, SendOwn, GiveUp, StoreKeyWord, LoadKeyWord
  <2>2. \A d \in Calls \ {c} : pc'[d] = pc[d]
    BY <1>4 DEF Enter, Send, SendOwn, GiveUp, StoreKeyWord, LoadKeyWord
  <2> QED
    BY <2>1, <2>2 DEF CanInit
<1>5. ASSUME NEW c \in Calls, Return(c) PROVE RegistryInv'
  BY <1>5 DEF Return, CanInit
<1>6. CASE UNCHANGED vars
  BY <1>6 DEF vars, CanInit
<1> QED
  BY <1>1, <1>2, <1>3, <1>4, <1>5, <1>6 DEF Next, ModuleStep, CallStep

\* Keyed and OwnKeyed of a call survive what does not touch the call, as long
\* as stripe.Key is only overwritten by non-empty keys, and by keys other than
\* the call's own only where the call is recorded as raced.
LEMMA KeyedFrame ==
  ASSUME NEW d \in Calls, Keyed(d), Untouched(d),
         \A w \in Words : stripeKey'[w] = stripeKey[w] \/ stripeKey'[w] # NoKey
  PROVE  Keyed(d)'
BY DEF Keyed, Untouched

LEMMA OwnKeyedFrame ==
  ASSUME NEW d \in Calls, Keyed(d), OwnKeyed(d), Untouched(d),
         d \in raced => d \in raced',
         d \in raced' /\ d \notin raced => \E w \in Words : Exposed(d, w),
         \A w \in Words : Exposed(d, w) =>
              stripeKey'[w] = stripeKey[w] \/ d \in raced' \/ stripeKey'[w] = KeyOf[prov[d]]
  PROVE  OwnKeyed(d)'
BY DEF Keyed, OwnKeyed, Untouched, Exposed, OwnKey

\* The call that takes the step stays Keyed.
LEMMA KeyedStep ==
  ASSUME TypeOK, RegistryInv, NEW c \in Calls, Keyed(c), CallStep(c)
  PROVE  /\ Keyed(c)'
         /\ \A w \in Words : stripeKey'[w] = stripeKey[w] \/ stripeKey'[w] # NoKey
<1> USE DEF TypeOK
<1>1. CASE \E n \in Names, o \in Ops : Lookup(c, n, o)
  BY <1>1 DEF Lookup, Keyed
<1>2. CASE Enter(c)
  <2>1. UNCHANGED <<stripeKey, op, prov, got, sent>> /\ pc[c] = "enter"
    BY <1>2 DEF Enter
  <2>2. CASE pc'[c] = "done"
    BY <2>1, <2>2 DEF Keyed
  <2>3. CASE pc'[c] = "own"
    <3>1. KeyOf[prov[c]] # NoKey
      BY <1>2, <2>3 DEF Enter, RegistryInv, CanInit, KeyMissing
    <3> QED
      BY <2>1, <2>3, <3>1 DEF Keyed
  <2>4. CASE pc'[c] = "store"
    <3>1. KeyOf[prov[c]] # NoKey /\ ~OwnClient(op[c]) /\ KindOf[prov[c]] = "stripe"
      BY <1>2, <2>4 DEF Enter, KeyMissing
    <3>2. todo'[c] = Words /\ left'[c] = PackageCalls(op[c])
      BY <1>2, <2>4 DEF Enter
    <3>3. PackageCalls(op[c]) > 0
      BY PackageCallsRange
    <3> QED
      BY <2>1, <2>4, <3>1, <3>2, <3>3 DEF Keyed
  <2> QED
    BY <1>2, <2>2, <2>3, <2>4 DEF Enter
<1>3. ASSUME NEW w \in Words, StoreKeyWord(c, w)
      PROVE  /\ Keyed(c)'
             /\ \A v \in Words : stripeKey'[v] = stripeKey[v] \/ stripeKey'[v] # NoKey
  <2>1. /\ pc[c] = "store" /\ w \in todo[c]
        /\ UNCHANGED <<op, prov, got, left, sent>>
        /\ stripeKey' = [stripeKey EXCEPT ![w] = KeyOf[prov[c]]]
    BY <1>3 DEF StoreKeyWord
  <2>2. /\ KeyOf[prov[c]] # NoKey /\ left[c] > 0 /\ ~OwnClient(op[c])
        /\ KindOf[prov[c]] = "stripe"
    BY <2>1 DEF Keyed
  <2>3. stripeKey'[w] # NoKey /\ \A v \in Words \ {w} : stripeKey'[v] = stripeKey[v]
    BY <2>1, <2>2 DEF KeyStrings
  <2>4. CASE todo[c] = {w}
    <3>1. pc'[c] = "load" /\ todo'[c] = Words
      BY <1>3, <2>4 DEF StoreKeyWord
    <3> QED
      BY <2>1, <2>2, <2>3, <2>4, <3>1 DEF Keyed
  <2>5. CASE todo[c] # {w}
    <3>1. pc'[c] = "store" /\ todo'[c] = todo[c] \ {w}
      BY <1>3, <2>5 DEF StoreKeyWord
    <3> QED
      BY <2>1, <2>2, <2>3, <3>1 DEF Keyed
  <2> QED
    BY <2>4, <2>5
<1>4. ASSUME NEW w \in Words, LoadKeyWord(c, w)
      PROVE  Keyed(c)' /\ stripeKey' = stripeKey
  <2>1. /\ pc[c] = "load" /\ w \in todo[c]
        /\ UNCHANGED <<stripeKey, op, prov, left, sent>>
        /\ todo'[c] = todo[c] \ {w}
        /\ IF todo[c] = {w} THEN pc'[c] = "send" ELSE pc'[c] = "load"
    BY <1>4 DEF LoadKeyWord
  <2>2. got'[c] = [got[c] EXCEPT ![w] = stripeKey[w]]
    BY <1>4 DEF LoadKeyWord
  <2>3. got'[c][w] = stripeKey[w] /\ \A v \in Words \ {w} : got'[c][v] = got[c][v]
    BY <2>2 DEF KeyStrings
  <2> QED
    BY <2>1, <2>3 DEF Keyed
<1>5. CASE Send(c)
  <2>1. sent'[c] = sent[c] \cup {got[c]} /\ left'[c] = left[c] - 1
    BY <1>5, SendCases
  <2>2. \A k \in sent'[c] : \A w \in Words : k[w] # NoKey
    BY <1>5, <2>1, SendCases DEF Keyed
  <2>3. \/ pc'[c] = "done"
        \/ left[c] > 1 /\ pc'[c] = "load" /\ todo'[c] = Words
    BY <1>5, SendCases
  <2>4. UNCHANGED <<stripeKey, op, prov, got>> /\ pc[c] = "send"
    BY <1>5, SendCases
  <2>5. CASE pc'[c] = "done"
    BY <2>2, <2>4, <2>5 DEF Keyed
  <2>6. CASE left[c] > 1 /\ pc'[c] = "load" /\ todo'[c] = Words
    BY <2>1, <2>2, <2>4, <2>6 DEF Keyed
  <2> QED
    BY <2>3, <2>4, <2>5, <2>6
<1>6. CASE SendOwn(c)
  <2>1. sent'[c] = sent[c] \cup {OwnKey(c)} /\ pc'[c] = "done" /\ pc[c] = "own"
    BY <1>6 DEF SendOwn
  <2>2. \A w \in Words : OwnKey(c)[w] # NoKey
    BY <2>1 DEF OwnKey, Keyed
  <2>3. stripeKey' = stripeKey
    BY <1>6 DEF SendOwn
  <2> QED
    BY <2>1, <2>2, <2>3 DEF Keyed
<1>7. CASE Return(c)
  BY <1>7 DEF Return, Keyed
<1>8. CASE GiveUp(c)
  <2>1. pc'[c] = "done" /\ UNCHANGED <<stripeKey, sent>>
    BY <1>8 DEF GiveUp
  <2> QED
    BY <2>1 DEF Keyed
<1> QED
  BY <1>1, <1>2, <1>3, <1>4, <1>5, <1>6, <1>7, <1>8 DEF CallStep, Lookup

\* The call that takes the step stays OwnKeyed.
LEMMA OwnKeyedStep ==
  ASSUME TypeOK, NEW c \in Calls, Keyed(c), OwnKeyed(c), CallStep(c)
  PROVE  OwnKeyed(c)'
<1> USE DEF TypeOK
<1>1. CASE \E n \in Names, o \in Ops : Lookup(c, n, o)
  <2>1. /\ pc[c] = "idle" /\ pc'[c] \in {"done", "enter"}
        /\ UNCHANGED <<stripeKey, sent, raced>>
    BY <1>1 DEF Lookup
  <2> QED
    BY <2>1 DEF OwnKeyed, Exposed
<1>2. CASE Enter(c)
  <2>1. /\ pc[c] = "enter" /\ pc'[c] \in {"done", "own", "store"}
        /\ pc'[c] = "store" => todo'[c] = Words
        /\ UNCHANGED <<stripeKey, op, prov, sent, raced>>
    BY <1>2 DEF Enter
  <2> QED
    BY <2>1 DEF OwnKeyed, Exposed
<1>3. ASSUME NEW w \in Words, StoreKeyWord(c, w) PROVE OwnKeyed(c)'
  <2>1. /\ pc[c] = "store" /\ w \in todo[c]
        /\ UNCHANGED <<op, prov, got, left, sent>>
        /\ stripeKey' = [stripeKey EXCEPT ![w] = KeyOf[prov[c]]]
    BY <1>3 DEF StoreKeyWord
  <2>2. c \in raced' <=> c \in raced
    BY <1>3 DEF StoreKeyWord
  <2>3. /\ stripeKey'[w] = KeyOf[prov[c]]
        /\ \A v \in Words \ {w} : stripeKey'[v] = stripeKey[v]
    BY <2>1 DEF KeyStrings
  <2>4. CASE todo[c] = {w}
    <3>1. pc'[c] = "load" /\ todo'[c] = Words
      BY <1>3, <2>4 DEF StoreKeyWord
    <3> QED
      BY <2>1, <2>2, <2>3, <2>4, <3>1 DEF OwnKeyed, Exposed, OwnKey
  <2>5. CASE todo[c] # {w}
    <3>1. pc'[c] = "store" /\ todo'[c] = todo[c] \ {w}
      BY <1>3, <2>5 DEF StoreKeyWord
    <3> QED
      BY <2>1, <2>2, <2>3, <3>1 DEF OwnKeyed, Exposed, OwnKey
  <2> QED
    BY <2>4, <2>5
<1>4. ASSUME NEW w \in Words, LoadKeyWord(c, w) PROVE OwnKeyed(c)'
  <2>1. /\ pc[c] = "load" /\ w \in todo[c]
        /\ UNCHANGED <<stripeKey, op, prov, left, sent, raced>>
        /\ todo'[c] = todo[c] \ {w}
        /\ IF todo[c] = {w} THEN pc'[c] = "send" ELSE pc'[c] = "load"
    BY <1>4 DEF LoadKeyWord
  <2>2. got'[c] = [got[c] EXCEPT ![w] = stripeKey[w]]
    BY <1>4 DEF LoadKeyWord
  <2>3. got'[c][w] = stripeKey[w] /\ \A v \in Words \ {w} : got'[c][v] = got[c][v]
    BY <2>2 DEF KeyStrings
  <2> QED
    BY <2>1, <2>3 DEF OwnKeyed, Exposed, OwnKey
<1>5. CASE Send(c)
  <2>1. /\ pc[c] = "send" /\ sent'[c] = sent[c] \cup {got[c]}
        /\ UNCHANGED <<stripeKey, op, prov, got, raced>>
    BY <1>5, SendCases
  <2>2. c \notin raced => got[c] = OwnKey(c)
    <3>1. got[c] \in [Words -> Keys \cup {NoKey}]
      BY DEF KeyStrings
    <3> QED
      BY <2>1, <3>1 DEF OwnKeyed, OwnKey
  <2>3. c \notin raced => \A k \in sent'[c] : k = OwnKey(c)'
    BY <2>1, <2>2 DEF OwnKeyed, OwnKey
  <2>4. \/ pc'[c] = "done"
        \/ left[c] > 1 /\ pc'[c] = "load" /\ todo'[c] = Words
    BY <1>5, SendCases
  <2> QED
    BY <2>1, <2>3, <2>4 DEF OwnKeyed, Exposed
<1>6. CASE SendOwn(c)
  <2>1. /\ sent'[c] = sent[c] \cup {OwnKey(c)} /\ pc'[c] = "done" /\ pc[c] = "own"
        /\ UNCHANGED <<stripeKey, op, prov, got, raced>>
    BY <1>6 DEF SendOwn
  <2> QED
    BY <2>1 DEF OwnKeyed, Exposed, OwnKey
<1>7. CASE Return(c)
  <2>1. pc'[c] = "idle" /\ sent'[c] = {} /\ c \notin raced'
    BY <1>7 DEF Return
  <2> QED
    BY <2>1 DEF OwnKeyed, Exposed
<1>8. CASE GiveUp(c)
  <2>1. pc'[c] = "done" /\ UNCHANGED <<stripeKey, op, prov, sent, raced>>
    BY <1>8 DEF GiveUp
  <2> QED
    BY <2>1 DEF OwnKeyed, Exposed, OwnKey
<1> QED
  BY <1>1, <1>2, <1>3, <1>4, <1>5, <1>6, <1>7, <1>8 DEF CallStep

\* What a step of call c does to stripe.Key and raced, seen by another call d.
LEMMA OtherCallStep ==
  ASSUME TypeOK, NEW c \in Calls, CallStep(c), NEW d \in Calls, d # c
  PROVE  /\ d \in raced => d \in raced'
         /\ d \in raced' /\ d \notin raced => \E w \in Words : Exposed(d, w)
         /\ \A w \in Words : Exposed(d, w) =>
                stripeKey'[w] = stripeKey[w] \/ d \in raced' \/ stripeKey'[w] = KeyOf[prov[d]]
<1>1. ASSUME NEW v \in Words, StoreKeyWord(c, v)
      PROVE  /\ d \in raced => d \in raced'
             /\ d \in raced' /\ d \notin raced => Exposed(d, v)
             /\ \A w \in Words : Exposed(d, w) =>
                    stripeKey'[w] = stripeKey[w] \/ d \in raced' \/ stripeKey'[w] = KeyOf[prov[d]]
  <2>1. raced' = raced \cup {e \in Calls \ {c} : Exposed(e, v) /\ KeyOf[prov[e]] # KeyOf[prov[c]]}
    BY <1>1 DEF StoreKeyWord
  <2>2. stripeKey' = [stripeKey EXCEPT ![v] = KeyOf[prov[c]]]
    BY <1>1 DEF StoreKeyWord
  <2>3. /\ stripeKey'[v] = KeyOf[prov[c]]
        /\ \A w \in Words \ {v} : stripeKey'[w] = stripeKey[w]
    BY <2>2 DEF TypeOK, KeyStrings
  <2>4. d \in raced' <=> \/ d \in raced
                         \/ Exposed(d, v) /\ KeyOf[prov[d]] # KeyOf[prov[c]]
    BY <2>1 DEF Exposed
  <2> QED
    BY <2>3, <2>4 DEF Exposed
<1>2. CASE Return(c)
  <2>1. raced' = raced \ {c} /\ UNCHANGED stripeKey
    BY <1>2 DEF Return
  <2> QED
    BY <2>1 DEF Exposed
<1>3. CASE /\ ~Return(c)
           /\ \A v \in Words : ~StoreKeyWord(c, v)
  <2>1. UNCHANGED <<stripeKey, raced>>
    BY <1>3 DEF CallStep, Lookup, Enter, LoadKeyWord, Send, SendOwn, GiveUp
  <2> QED
    BY <2>1 DEF Exposed
<1> QED
  BY <1>1, <1>2, <1>3 DEF Exposed

LEMMA NextKeyInv == KeyInv /\ [Next]_vars => KeyInv'
<1> SUFFICES ASSUME KeyInv, [Next]_vars PROVE KeyInv'
  OBVIOUS
<1>1. TypeOK' /\ RegistryInv'
  BY NextTypeOK, NextRegistryInv DEF KeyInv
<1>2. ASSUME NEW c \in Calls, CallStep(c), NEW d \in Calls
      PROVE  Keyed(d)' /\ OwnKeyed(d)'
  <2>1. TypeOK /\ RegistryInv /\ Keyed(c) /\ Keyed(d) /\ OwnKeyed(c) /\ OwnKeyed(d)
    BY DEF KeyInv, KeyedInv, OwnKeyInv
  <2>2. CASE d = c
    BY <1>2, <2>1, <2>2, KeyedStep, OwnKeyedStep
  <2>3. CASE d # c
    <3>1. Untouched(d)
      BY <1>2, <2>1, <2>3, OthersUntouched
    <3>2. Keyed(d)'
      BY <1>2, <2>1, <3>1, KeyedStep, KeyedFrame
    <3>3. OwnKeyed(d)'
      BY <1>2, <2>1, <2>3, <3>1, OtherCallStep, OwnKeyedFrame
    <3> QED
      BY <3>2, <3>3
  <2> QED
    BY <2>2, <2>3
<1>3. ASSUME UNCHANGED <<stripeKey, raced, callVars>>, NEW d \in Calls
      PROVE  Keyed(d)' /\ OwnKeyed(d)'
  <2>1. Untouched(d) /\ Keyed(d) /\ OwnKeyed(d)
    BY <1>3 DEF Untouched, callVars, KeyInv, KeyedInv, OwnKeyInv
  <2> QED
    BY <1>3, <2>1, KeyedFrame, OwnKeyedFrame
<1>4. CASE \E c \in Calls : CallStep(c)
  BY <1>1, <1>2, <1>4 DEF KeyInv, KeyedInv, OwnKeyInv
<1>5. CASE \E i \in Instances : ModuleStep(i)
  BY <1>1, <1>3, <1>5, ModuleStepsTouchNoCall DEF KeyInv, KeyedInv, OwnKeyInv
<1>6. CASE UNCHANGED vars
  BY <1>1, <1>3, <1>6 DEF vars, callVars, KeyInv, KeyedInv, OwnKeyInv
<1> QED
  BY <1>4, <1>5, <1>6 DEF Next

-----------------------------------------------------------------------------
THEOREM KeyInvariant == Spec => []KeyInv
BY InitKeyInv, NextKeyInv, PTL DEF Spec

\* Type correctness, for any set of calls, modules, names and keys.
THEOREM TypeCorrect == Spec => []TypeOK
<1>1. KeyInv => TypeOK
  BY DEF KeyInv
<1> QED
  BY <1>1, KeyInvariant, PTL

\* No request carries an empty key: checkKey keeps a module without a key from
\* ever blanking stripe.Key under a healthy one.
THEOREM NoRequestIsUnkeyed == Spec => []NeverEmptyKey
<1>1. KeyInv => NeverEmptyKey
  BY DEF KeyInv, KeyedInv, Keyed, NeverEmptyKey
<1> QED
  BY <1>1, KeyInvariant, PTL

\* A request leaves under another account's key only when a call for that other
\* account overlapped it, and never from a method with its own client.
THEOREM ForeignKeysComeFromRaces == Spec => []ForeignKeyNeedsRace
<1>1. KeyInv => ForeignKeyNeedsRace
  BY DEF KeyInv, OwnKeyInv, OwnKeyed, ForeignKeyNeedsRace
<1> QED
  BY <1>1, KeyInvariant, PTL

\* The registry serves no stopped module, even when instances overlap.
THEOREM RegistryServesLiveModules == Spec => []NoStoppedModuleServes
<1>1. KeyInv => NoStoppedModuleServes
  BY DEF KeyInv, RegistryInv, NoStoppedModuleServes
<1> QED
  BY <1>1, KeyInvariant, PTL

-----------------------------------------------------------------------------
\* Modules side by side are safe when they share one Stripe account, keyless
\* modules among them: no call is ever raced, and each uses its own key.
THEOREM OneAccountUsesOwnKey ==
  ASSUME \A i, j \in Instances :
           /\ KindOf[i] = "stripe" /\ KeyOf[i] # NoKey
           /\ KindOf[j] = "stripe" /\ KeyOf[j] # NoKey
           => KeyOf[i] = KeyOf[j]
  PROVE  Spec => []CallUsesOwnKey
<1> DEFINE Unraced == raced = {}
<1>1. Init => Unraced
  BY DEF Init
<1>2. Unraced /\ KeyInv /\ [Next]_vars => Unraced'
  <2> SUFFICES ASSUME raced = {}, KeyInv, [Next]_vars PROVE raced' = {}
    OBVIOUS
  <2>1. ASSUME NEW c \in Calls, NEW w \in Words, StoreKeyWord(c, w) PROVE raced' = {}
    <3>1. ASSUME NEW d \in Calls \ {c}, Exposed(d, w) PROVE KeyOf[prov[d]] = KeyOf[prov[c]]
      <4>1. Keyed(c) /\ Keyed(d) /\ pc[c] = "store" /\ pc[d] \in {"store", "load", "send"}
        BY <2>1, <3>1 DEF KeyInv, KeyedInv, Exposed, StoreKeyWord
      <4>2. /\ KindOf[prov[c]] = "stripe" /\ KeyOf[prov[c]] # NoKey
            /\ KindOf[prov[d]] = "stripe" /\ KeyOf[prov[d]] # NoKey
        BY <4>1 DEF Keyed
      <4>3. prov[c] \in Instances /\ prov[d] \in Instances
        BY <4>1 DEF KeyInv, TypeOK, RegistryInv
      <4> QED
        BY <4>2, <4>3
    <3>2. raced' = raced \cup {d \in Calls \ {c} : Exposed(d, w) /\ KeyOf[prov[d]] # KeyOf[prov[c]]}
      BY <2>1 DEF StoreKeyWord
    <3> QED
      BY <3>1, <3>2
  <2>2. CASE \E c \in Calls : CallStep(c) /\ \A w \in Words : ~StoreKeyWord(c, w)
    BY <2>2 DEF CallStep, Lookup, Enter, LoadKeyWord, Send, SendOwn, GiveUp, Return
  <2>3. CASE (\E i \in Instances : ModuleStep(i)) \/ UNCHANGED vars
    BY <2>3, ModuleStepsTouchNoCall DEF vars
  <2> QED
    BY <2>1, <2>2, <2>3 DEF Next
<1>3. Unraced /\ KeyInv => CallUsesOwnKey
  BY DEF KeyInv, OwnKeyInv, OwnKeyed, CallUsesOwnKey
<1> HIDE DEF Unraced
<1> QED
  BY <1>1, <1>2, <1>3, KeyInvariant, PTL DEF Spec

\* When the host stops an instance before it replaces it, every module that is
\* up is the one its name leads to.
THEOREM LiveModulesAreReachable == Spec => []LiveModuleServes
<1>1. Init => LiveModuleServes
  BY DEF Init, LiveModuleServes
<1>2. TypeOK /\ LiveModuleServes /\ [Next]_vars => LiveModuleServes'
  <2> SUFFICES ASSUME TypeOK, LiveModuleServes, [Next]_vars
               PROVE  LiveModuleServes'
    OBVIOUS
  <2>1. \A i \in Instances :
          (state[i] = "up" /\ NameOf[i] \notin Overlapping) => registry[NameOf[i]] = i
    BY DEF LiveModuleServes
  <2>2. ASSUME NEW i \in Instances, ModuleInit(i) PROVE LiveModuleServes'
    <3>1. \A j \in Instances :
            (state[j] = "up" /\ NameOf[j] \notin Overlapping) => NameOf[j] # NameOf[i]
      BY <2>2 DEF ModuleInit, HostMayInit
    <3>2. CASE state' = [state EXCEPT ![i] = "up"] /\ RegisterProvider(NameOf[i], i)
      BY <2>1, <3>1, <3>2, ConfigAssumption DEF TypeOK, RegisterProvider, LiveModuleServes
    <3>3. CASE state' = [state EXCEPT ![i] = "failed"] /\ registry' = registry
      BY <2>1, <3>3 DEF TypeOK, LiveModuleServes
    <3> QED
      BY <2>2, <3>2, <3>3 DEF ModuleInit
  <2>3. ASSUME NEW i \in Instances, ModuleStop(i) PROVE LiveModuleServes'
    <3>1. \A j \in Instances \ {i} :
            (state[j] = "up" /\ NameOf[j] \notin Overlapping) => NameOf[j] # NameOf[i]
      BY <2>1, <2>3 DEF ModuleStop
    <3> QED
      BY <2>1, <2>3, <3>1, ConfigAssumption
         DEF TypeOK, ModuleStop, UnregisterProvider, LiveModuleServes
  <2>4. CASE (\E c \in Calls : CallStep(c)) \/ UNCHANGED vars
    <3>1. UNCHANGED <<state, registry>>
      BY <2>4 DEF CallStep, Lookup, Enter, StoreKeyWord, LoadKeyWord, Send, SendOwn, GiveUp, Return, vars
    <3> QED
      BY <2>1, <3>1 DEF LiveModuleServes
  <2> QED
    BY <2>2, <2>3, <2>4 DEF Next, ModuleStep
<1> QED
  BY <1>1, <1>2, TypeCorrect, PTL DEF Spec

\* Both facts about the registry.
THEOREM RegistryStaysCurrent == Spec => []RegistryIsCurrent
BY RegistryServesLiveModules, LiveModulesAreReachable, PTL DEF RegistryIsCurrent
=============================================================================
