---------------------------- MODULE CheckoutProofs ----------------------------
(***************************************************************************)
(* That subscriptions keep one item at the price set last, that all of     *)
(* them are accounted for, and that customers get what workflows ask for,  *)
(* for any steps, pages, customers, replaced items and lost answers.       *)
(***************************************************************************)
EXTENDS Checkout, TLAPS

(* Subscriptions. *)

SubShape ==
  /\ provider \in Providers
  /\ sub \in [Subs -> Held \cup {None}]
  /\ call \in [Calls -> Requests \cup {None}]
  /\ last \in [Subs -> SetPrices \cup {None}]
  /\ told \subseteq Subs /\ lost \subseteq Subs /\ bought \subseteq Subs
  /\ faults \in 0..MaxFaults /\ replaced \in 0..MaxReplaced

(* What a step works on exists, unless it is to come to be; Stripe's update of *)
(* a price names an item.                                                      *)
CallOK(c) ==
  /\ call[c].op = "create" => call[c].price # None
  /\ call[c].op # "create" => sub[call[c].on] # None
  /\ (call[c].op = "create" /\ call[c].stage = "send") => sub[call[c].on] = None
  /\ (provider = "stripe" /\ call[c].op = "update" /\ call[c].stage = "send"
        /\ call[c].price # None) => call[c].item # None

CallInv == \A c \in Calls : Busy(c) => CallOK(c)

(* A subscription that is to come to be is known to its create step only.      *)
CreateInv ==
  \A c, d \in Calls :
    (Busy(c) /\ Busy(d) /\ call[c].on = call[d].on
       /\ call[c].op = "create" /\ call[c].stage = "send") => c = d

\* Authors write booleans in maps.
PlainUses ==
  \A use \in FlagUses : use[1] = "legacy" => use[2].kind # "string" /\ use[3].kind # "string"

FlagInv ==
  PlainUses => \A c \in Calls : (Busy(c) /\ call[c].op = "cancel") => call[c].atEnd = call[c].meant

DoneInv ==
  \A c \in Calls : At(c, "cancel", "accepted") =>
    call[c].did = IF EndsNow(c) THEN "canceled" ELSE "ending"

SubInv ==
  /\ SubShape /\ CallInv /\ CreateInv /\ FlagInv /\ DoneInv
  /\ OneItemAtLastPrice /\ SubscriptionsAccounted

\* What the goroutines wait for, apart from c.
Others(c) ==
  /\ call' \in [Calls -> Requests \cup {None}]
  /\ \A d \in Calls : d # c => call'[d] = call[d]

\* The accepted creations.
Fresh == {s \in Subs : \E c \in Calls : At(c, "create", "accepted") /\ call[c].on = s}

-----------------------------------------------------------------------------
(* A step begins. *)

LEMMA FlagsTyped ==
  ASSUME NEW f, NEW config \in Flags, NEW current \in Flags
  PROVE  /\ AtPeriodEnd(f, config, current) \in BOOLEAN
         /\ MeantAtPeriodEnd(f, config, current) \in BOOLEAN
<1>1. config.b \in BOOLEAN /\ current.b \in BOOLEAN
  BY DEF Flags
<1>2. LegacyFlag(config, current) \in BOOLEAN
  BY <1>1 DEF LegacyFlag
<1>3. TypedFlag(config, current) \in BOOLEAN
  BY <1>1 DEF TypedFlag
<1> QED
  BY <1>1, <1>2, <1>3 DEF AtPeriodEnd, MeantAtPeriodEnd

\* Either front end reads what the author means, if maps hold booleans.
LEMMA FlagMeant ==
  ASSUME NEW f \in {"legacy", "typed"}, NEW config \in Flags, NEW current \in Flags,
         Decodes(f, config, current),
         f = "legacy" => config.kind # "string" /\ current.kind # "string"
  PROVE  AtPeriodEnd(f, config, current) = MeantAtPeriodEnd(f, config, current)
<1>1. config.b \in BOOLEAN /\ current.b \in BOOLEAN
  BY DEF Flags
<1>2. CASE f = "legacy"
  BY <1>1, <1>2 DEF AtPeriodEnd, MeantAtPeriodEnd, LegacyFlag, Says
<1>3. CASE f = "typed"
  BY <1>1, <1>3 DEF AtPeriodEnd, MeantAtPeriodEnd, TypedFlag, Says, Decodes
<1> QED
  BY <1>2, <1>3

\* r is begun, and what it is about is as r needs it.
BeginsWith(c, r) ==
  /\ call[c] = None /\ call' = [call EXCEPT ![c] = r]
  /\ r.stage \in {"get", "send"}
  /\ r.op = "create" => /\ r.price # None /\ sub[r.on] = None
                        /\ \A d \in Calls : Busy(d) => call[d].on # r.on
  /\ r.op # "create" => sub[r.on] # None
  /\ (provider = "stripe" /\ r.op = "update" /\ r.stage = "send") => r.price = None
  /\ (PlainUses /\ r.op = "cancel") => r.atEnd = r.meant
  /\ UNCHANGED <<sub, last, told, lost, faults, replaced>>

LEMMA BeginIs ==
  ASSUME NEW c \in Calls, NEW op \in {"create", "update", "cancel"}, NEW s \in Subs,
         NEW stage \in {"get", "send"}, NEW price \in SetPrices \cup {None},
         NEW atEnd \in BOOLEAN, NEW meant \in BOOLEAN,
         Begin(c, op, s, stage, price, atEnd, meant)
  PROVE  \E r \in Requests :
           /\ call[c] = None /\ call' = [call EXCEPT ![c] = r]
           /\ r.stage = stage /\ r.op = op /\ r.on = s /\ r.price = price
           /\ r.atEnd = atEnd /\ r.meant = meant
           /\ UNCHANGED <<sub, last, told, lost, faults, replaced>>
<1> DEFINE r == [op |-> op, on |-> s, stage |-> stage, price |-> price, item |-> None,
                 atEnd |-> atEnd, meant |-> meant, did |-> "nothing"]
<1>1. r \in Requests
  BY DEF Requests
<1>2. /\ r.stage = stage /\ r.op = op /\ r.on = s /\ r.price = price
      /\ r.atEnd = atEnd /\ r.meant = meant
  OBVIOUS
<1>3. /\ call[c] = None /\ call' = [call EXCEPT ![c] = r]
      /\ UNCHANGED <<sub, last, told, lost, faults, replaced>>
  BY DEF Begin
<1> HIDE DEF r
<1> QED
  BY <1>1, <1>2, <1>3

LEMMA StartBegins ==
  ASSUME NEW c \in Calls, Start(c)
  PROVE  \E r \in Requests : BeginsWith(c, r)
<1>1. PICK s \in Subs :
        \/ \E price \in Prices \cup {Inline} : StartCreate(c, s, price)
        \/ \E price \in Prices \cup {None} : StartUpdate(c, s, price)
        \/ \E use \in FlagUses : StartCancel(c, s, use[1], use[2], use[3])
  BY DEF Start
<1>2. CASE \E price \in Prices \cup {Inline} : StartCreate(c, s, price)
  <2>1. PICK price \in Prices \cup {Inline} : StartCreate(c, s, price)
    BY <1>2
  <2>2. price \in SetPrices /\ price \in SetPrices \cup {None} /\ price # None
    BY SubscriptionsAssumption DEF SetPrices, SubscriptionsAssumption
  <2> DEFINE no == FALSE
  <2>3. /\ Begin(c, "create", s, "send", price, no, no) /\ sub[s] = None /\ no \in BOOLEAN
        /\ \A d \in Calls : Busy(d) => call[d].on # s
    BY <2>1 DEF StartCreate
  <2> HIDE DEF no
  <2>4. PICK r \in Requests :
          /\ call[c] = None /\ call' = [call EXCEPT ![c] = r]
          /\ r.stage = "send" /\ r.op = "create" /\ r.on = s /\ r.price = price
          /\ UNCHANGED <<sub, last, told, lost, faults, replaced>>
    BY <2>2, <2>3, BeginIs
  <2>5. BeginsWith(c, r)
    BY <2>2, <2>3, <2>4 DEF BeginsWith
  <2> QED
    BY <2>5
<1>3. CASE \E price \in Prices \cup {None} : StartUpdate(c, s, price)
  <2>1. PICK price \in Prices \cup {None} : StartUpdate(c, s, price)
    BY <1>3
  <2> DEFINE no == FALSE
             stage == IF provider = "stripe" /\ price # None THEN "get" ELSE "send"
  <2>2. Begin(c, "update", s, stage, price, no, no) /\ sub[s] # None /\ no \in BOOLEAN
    BY <2>1 DEF StartUpdate
  <2>3. /\ price \in SetPrices \cup {None} /\ stage \in {"get", "send"}
        /\ (provider = "stripe" /\ stage = "send") => price = None
    BY DEF SetPrices
  <2> HIDE DEF no, stage
  <2>4. PICK r \in Requests :
          /\ call[c] = None /\ call' = [call EXCEPT ![c] = r]
          /\ r.stage = stage /\ r.op = "update" /\ r.on = s /\ r.price = price
          /\ UNCHANGED <<sub, last, told, lost, faults, replaced>>
    BY <2>2, <2>3, BeginIs
  <2>5. BeginsWith(c, r)
    BY <2>2, <2>3, <2>4 DEF BeginsWith
  <2> QED
    BY <2>5
<1>4. CASE \E use \in FlagUses : StartCancel(c, s, use[1], use[2], use[3])
  <2>1. PICK use \in FlagUses : StartCancel(c, s, use[1], use[2], use[3])
    BY <1>4
  <2> DEFINE atEnd == AtPeriodEnd(use[1], use[2], use[3])
             meant == MeantAtPeriodEnd(use[1], use[2], use[3])
  <2>2. use[1] \in {"legacy", "typed"} /\ use[2] \in Flags /\ use[3] \in Flags
    BY SubscriptionsAssumption DEF SubscriptionsAssumption
  <2>3. /\ Begin(c, "cancel", s, "send", None, atEnd, meant) /\ sub[s] # None
        /\ Decodes(use[1], use[2], use[3])
    BY <2>1 DEF StartCancel
  <2>4. atEnd \in BOOLEAN /\ meant \in BOOLEAN
    BY <2>2, FlagsTyped
  <2>5. PlainUses => atEnd = meant
    BY <2>2, <2>3, FlagMeant DEF PlainUses
  <2> HIDE DEF atEnd, meant
  <2>6. PICK r \in Requests :
          /\ call[c] = None /\ call' = [call EXCEPT ![c] = r]
          /\ r.stage = "send" /\ r.op = "cancel" /\ r.on = s
          /\ r.atEnd = atEnd /\ r.meant = meant
          /\ UNCHANGED <<sub, last, told, lost, faults, replaced>>
    BY <2>3, <2>4, BeginIs
  <2>7. BeginsWith(c, r)
    BY <2>3, <2>5, <2>6 DEF BeginsWith
  <2> QED
    BY <2>7
<1> QED
  BY <1>1, <1>2, <1>3, <1>4

LEMMA BeginsKeeps ==
  ASSUME SubInv, NEW c \in Calls, NEW r \in Requests, BeginsWith(c, r), UNCHANGED <<provider, bought>>
  PROVE  SubInv'
<1>1. /\ Others(c) /\ call'[c] = r /\ call[c] = None /\ r # None
      /\ UNCHANGED <<provider, sub, last, told, lost, bought, faults, replaced>>
  BY RecordsAssumption DEF BeginsWith, SubInv, SubShape, Others, RecordsAssumption
<1>2. SubShape'
  BY <1>1 DEF SubInv, SubShape, Others
<1>3. CallInv'
  <2> SUFFICES ASSUME NEW d \in Calls, Busy(d)' PROVE CallOK(d)'
    BY DEF CallInv
  <2>1. CASE d = c
    BY <1>1, <2>1 DEF BeginsWith, CallOK
  <2>2. CASE d # c
    BY <1>1, <2>2 DEF SubInv, CallInv, CallOK, Others, Busy
  <2> QED
    BY <2>1, <2>2
<1>4. CreateInv'
  <2>1. \A d \in Calls : (Busy(d) /\ r.on = call[d].on) =>
          r.op # "create" /\ ~(call[d].op = "create" /\ call[d].stage = "send")
    BY DEF SubInv, CallInv, CallOK, BeginsWith
  <2> QED
    BY <1>1, <2>1 DEF SubInv, CreateInv, Others, Busy
<1>5. r.stage # "accepted"
  BY DEF BeginsWith
<1>6. FlagInv'
  BY <1>1 DEF SubInv, FlagInv, Others, Busy, BeginsWith, PlainUses
<1>7. DoneInv'
  BY <1>1, <1>5 DEF SubInv, DoneInv, Others, Busy, At, EndsNow
<1>8. OneItemAtLastPrice'
  BY <1>1 DEF SubInv, OneItemAtLastPrice
<1>9. SubscriptionsAccounted'
  <2>1. Fresh' = Fresh
    BY <1>1, <1>5 DEF Fresh, Others, At, Busy
  <2> QED
    BY <1>1, <2>1 DEF SubInv, SubscriptionsAccounted, Fresh
<1> QED
  BY <1>2, <1>3, <1>4, <1>6, <1>7, <1>8, <1>9 DEF SubInv
-----------------------------------------------------------------------------
(* A step goes on. *)

\* c's request changes its stage, what it names and what was done.
Turns(c, stage) ==
  /\ Others(c) /\ Busy(c) /\ call[c].stage \in {"get", "send"}
  /\ call'[c] \in Requests /\ call'[c].stage = stage
  /\ call'[c].op = call[c].op /\ call'[c].on = call[c].on /\ call'[c].price = call[c].price
  /\ call'[c].atEnd = call[c].atEnd /\ call'[c].meant = call[c].meant

\* What the provider holds after a step of c.
Holds(c) ==
  /\ sub' \in [Subs -> Held \cup {None}] /\ last' \in [Subs -> SetPrices \cup {None}]
  /\ OneItemAtLastPrice'
  /\ \A s \in Subs : sub[s] # None => sub'[s] # None
  /\ \A s \in Subs : (sub[s] = None /\ sub'[s] # None) =>
       At(c, "create", "send") /\ call[c].on = s /\ call'[c].stage = "accepted"
  /\ (call[c].op = "create" /\ call'[c].stage = "accepted") => sub'[call[c].on] # None

Goes(c) ==
  /\ \E stage \in {"send", "accepted", "refused"} : Turns(c, stage)
  /\ Holds(c)
  /\ call'[c].stage = "send" => call[c].op = "update" /\ call'[c].item # None
  /\ At(c, "cancel", "accepted")' => call'[c].did = IF EndsNow(c) THEN "canceled" ELSE "ending"
  /\ UNCHANGED <<told, lost, faults, replaced>>

LEMMA GoesKeeps ==
  ASSUME SubInv, NEW c \in Calls, Goes(c), UNCHANGED <<provider, bought>>
  PROVE  SubInv'
<1>1. /\ Others(c) /\ Busy(c) /\ call[c].stage \in {"get", "send"}
      /\ call'[c] \in Requests /\ call'[c].stage \in {"send", "accepted", "refused"}
      /\ call'[c].op = call[c].op /\ call'[c].on = call[c].on /\ call'[c].price = call[c].price
      /\ call'[c].atEnd = call[c].atEnd /\ call'[c].meant = call[c].meant
      /\ Holds(c) /\ UNCHANGED <<provider, told, lost, bought, faults, replaced>>
  BY DEF Goes, Turns
<1>2. \A d \in Calls : /\ Busy(d)' <=> Busy(d)
                       /\ d # c => call'[d] = call[d]
  BY <1>1, RecordsAssumption DEF Others, Busy, RecordsAssumption
<1>3. \A d \in Calls : Busy(d) => call[d] \in Requests /\ call[d].on \in Subs
  BY DEF SubInv, SubShape, Busy, Requests
<1>4. SubShape'
  BY <1>1 DEF SubInv, SubShape, Others, Holds
<1>5. CallInv'
  <2> SUFFICES ASSUME NEW d \in Calls, Busy(d)' PROVE CallOK(d)'
    BY DEF CallInv
  <2>1. CASE d = c
    BY <1>1, <1>2, <1>3, <2>1 DEF SubInv, CallInv, CallOK, Goes, Holds
  <2>2. CASE d # c
    <3>1. Busy(d) /\ call'[d] = call[d] /\ CallOK(d) /\ call[d].on \in Subs
      BY <1>2, <1>3, <2>2 DEF SubInv, CallInv
    <3>2. (call[d].op = "create" /\ call[d].stage = "send") => sub'[call[d].on] = None
      <4> SUFFICES ASSUME call[d].op = "create", call[d].stage = "send",
                          sub'[call[d].on] # None
                   PROVE  FALSE
        OBVIOUS
      <4>1. call[c].on = call[d].on
        BY <1>1, <3>1 DEF CallOK, Holds
      <4> QED
        BY <1>1, <2>2, <3>1, <4>1 DEF SubInv, CreateInv
    <3> QED
      BY <1>1, <3>1, <3>2 DEF CallOK, Holds
  <2> QED
    BY <2>1, <2>2
<1>6. CreateInv'
  BY <1>1, <1>2 DEF SubInv, CreateInv, Goes
<1>7. FlagInv'
  BY <1>1, <1>2 DEF SubInv, FlagInv, PlainUses
<1>8. DoneInv'
  <2> SUFFICES ASSUME NEW d \in Calls, At(d, "cancel", "accepted")'
               PROVE  call'[d].did = IF EndsNow(d)' THEN "canceled" ELSE "ending"
    BY DEF DoneInv
  <2>1. CASE d = c
    BY <1>1, <2>1 DEF Goes, EndsNow
  <2>2. CASE d # c
    BY <1>1, <1>2, <2>2 DEF SubInv, DoneInv, At, EndsNow
  <2> QED
    BY <2>1, <2>2
<1>9. OneItemAtLastPrice'
  BY <1>1 DEF Holds
<1>10. SubscriptionsAccounted'
  <2>1. Fresh' = Fresh \cup (IF call[c].op = "create" /\ call'[c].stage = "accepted"
                               THEN {call[c].on} ELSE {})
    <3>1. ASSUME NEW s \in Fresh PROVE s \in Fresh'
      <4>1. PICK d \in Calls : At(d, "create", "accepted") /\ call[d].on = s
        BY <3>1 DEF Fresh
      <4>2. d # c
        BY <1>1, <4>1 DEF At
      <4> QED
        BY <1>2, <4>1, <4>2 DEF Fresh, At
    <3>2. ASSUME NEW s \in Fresh'
          PROVE  s \in Fresh \/ (call[c].op = "create" /\ call'[c].stage = "accepted"
                                 /\ s = call[c].on)
      BY <1>1, <1>2, <3>2 DEF Fresh, At
    <3>3. (call[c].op = "create" /\ call'[c].stage = "accepted") => call[c].on \in Fresh'
      BY <1>1, <1>2, <1>3 DEF Fresh, At
    <3> QED
      BY <3>1, <3>2, <3>3
  <2>2. {s \in Subs : sub'[s] # None} =
          {s \in Subs : sub[s] # None} \cup
            (IF call[c].op = "create" /\ call'[c].stage = "accepted" THEN {call[c].on} ELSE {})
    BY <1>1, <1>3 DEF Holds, At
  <2>3. {s \in Subs : sub[s] # None} = bought \cup told \cup lost \cup Fresh
    BY DEF SubInv, SubscriptionsAccounted, Fresh
  <2>4. {s \in Subs : sub'[s] # None} = bought' \cup told' \cup lost' \cup Fresh'
    BY <1>1, <2>1, <2>2, <2>3
  <2> QED
    BY <2>4 DEF SubscriptionsAccounted, Fresh
<1> QED
  BY <1>4, <1>5, <1>6, <1>7, <1>8, <1>9, <1>10 DEF SubInv

LEMMA CallTyped ==
  ASSUME SubInv, NEW c \in Calls, Busy(c)
  PROVE  /\ call[c] \in Requests /\ call[c].on \in Subs
         /\ sub[call[c].on] # None => sub[call[c].on] \in Held
         /\ call[c].price \in SetPrices \cup {None}
BY DEF SubInv, SubShape, Busy, Requests

LEMMA AcceptedTurns ==
  ASSUME SubInv, NEW c \in Calls, Busy(c), call[c].stage = "send",
         NEW did \in {"nothing", "created", "updated", "ending", "canceled"}, Accepted(c, did)
  PROVE  Turns(c, "accepted") /\ call'[c].did = did /\ UNCHANGED <<told, lost, faults, replaced>>
BY DEF Accepted, Turns, Others, Busy, SubInv, SubShape, Requests

\* Nothing changes at the provider.
LEMMA StillHolds ==
  ASSUME SubInv, NEW c \in Calls, Busy(c), UNCHANGED <<sub, last>>,
         call[c].op # "create" \/ call'[c].stage # "accepted"
  PROVE  Holds(c)
BY DEF SubInv, SubShape, OneItemAtLastPrice, Holds

LEMMA GetGoes ==
  ASSUME SubInv, NEW c \in Calls, Get(c)
  PROVE  Goes(c)
<1>1. PICK i \in sub[call[c].on].items :
        call' = [call EXCEPT ![c].stage = "send", ![c].item = i.id]
  BY DEF Get
<1>2. /\ Busy(c) /\ call[c].op = "update" /\ call[c].stage = "get"
      /\ UNCHANGED <<sub, last, told, lost, faults, replaced>>
  BY DEF Get, At
<1>3. sub[call[c].on] \in Held
  BY <1>2, CallTyped DEF SubInv, CallInv, CallOK
<1>4. i.id \in Items /\ i.id # None
  BY <1>3, SubscriptionsAssumption DEF Held, SubscriptionsAssumption
<1> DEFINE id == i.id
<1>5. id \in Items /\ call' = [call EXCEPT ![c].stage = "send", ![c].item = id]
  BY <1>1, <1>4
<1>6. id # None
  BY <1>4
<1> HIDE DEF id
<1>7. Turns(c, "send") /\ call'[c].item = id
  BY <1>2, <1>5 DEF Turns, Others, Busy, SubInv, SubShape, Requests
<1>8. Holds(c)
  BY <1>2, StillHolds
<1> QED
  BY <1>2, <1>6, <1>7, <1>8 DEF Goes, Turns, At

LEMMA RefuseGoes ==
  ASSUME SubInv, NEW c \in Calls, Refuse(c)
  PROVE  Goes(c)
<1>1. Turns(c, "refused") /\ UNCHANGED <<sub, last, told, lost, faults, replaced>>
  BY DEF Refuse, Turns, Others, Busy, SubInv, SubShape, Requests
<1>2. Holds(c)
  BY <1>1, StillHolds DEF Turns
<1> QED
  BY <1>1, <1>2 DEF Goes, Turns, At

LEMMA CreateGoes ==
  ASSUME SubInv, NEW c \in Calls, NEW i \in Items, CreateSubscription(c, i)
  PROVE  Goes(c)
<1> DEFINE s == call[c].on
           q == call[c].price
           h == [status |-> "active", items |-> {[id |-> i, price |-> q]}]
<1>1. /\ Busy(c) /\ call[c].op = "create" /\ call[c].stage = "send" /\ At(c, "create", "send")
      /\ sub' = [sub EXCEPT ![s] = h] /\ last' = [last EXCEPT ![s] = q] /\ Accepted(c, "created")
  BY DEF CreateSubscription, At
<1>2. s \in Subs /\ q \in SetPrices
  BY <1>1, CallTyped DEF SubInv, CallInv, CallOK
<1>3. Turns(c, "accepted") /\ UNCHANGED <<told, lost, faults, replaced>>
  BY <1>1, AcceptedTurns
<1> HIDE DEF q
<1>4. h \in Held /\ h.items = {[id |-> i, price |-> q]}
  BY <1>2 DEF Held
<1>5. h # None
  BY <1>4, RecordsAssumption DEF RecordsAssumption
<1> HIDE DEF h
<1>6. /\ sub' \in [Subs -> Held \cup {None}] /\ last' \in [Subs -> SetPrices \cup {None}]
      /\ sub'[s] = h /\ last'[s] = q
      /\ \A t \in Subs : t # s => sub'[t] = sub[t] /\ last'[t] = last[t]
  BY <1>1, <1>2, <1>4 DEF SubInv, SubShape
<1>7. OneItemAtLastPrice'
  <2> SUFFICES ASSUME NEW t \in Subs, sub'[t] # None
               PROVE  \E k \in sub'[t].items : sub'[t].items = {k} /\ k.price = last'[t]
    BY DEF OneItemAtLastPrice
  <2>1. CASE t = s
    <3> DEFINE k == [id |-> i, price |-> q]
    <3>1. sub'[t].items = {k} /\ k.price = last'[t]
      BY <1>4, <1>6, <2>1
    <3> HIDE DEF k
    <3> QED
      BY <3>1
  <2>2. CASE t # s
    BY <1>6, <2>2 DEF SubInv, OneItemAtLastPrice
  <2> QED
    BY <2>1, <2>2
<1>8. Holds(c)
  BY <1>1, <1>3, <1>5, <1>6, <1>7 DEF Holds, Turns
<1> QED
  BY <1>1, <1>3, <1>8 DEF Goes, Turns, At

LEMMA UpdateGoes ==
  ASSUME SubInv, NEW c \in Calls, UpdateSubscription(c)
  PROVE  Goes(c)
<1> DEFINE s == call[c].on
           q == call[c].price
<1>1. /\ Busy(c) /\ call[c].op = "update" /\ call[c].stage = "send" /\ Accepts(c)
      /\ sub' = [sub EXCEPT ![s].items = Updated(c)]
      /\ last' = IF q = None THEN last ELSE [last EXCEPT ![s] = q]
      /\ Accepted(c, "updated")
  BY DEF UpdateSubscription, At
<1>2. s \in Subs /\ sub[s] # None /\ sub[s] \in Held /\ q \in SetPrices \cup {None}
  BY <1>1, CallTyped DEF SubInv, CallInv, CallOK
<1>3. Turns(c, "accepted") /\ UNCHANGED <<told, lost, faults, replaced>>
  BY <1>1, AcceptedTurns
<1>4. PICK i \in sub[s].items : sub[s].items = {i} /\ i.price = last[s]
  BY <1>2 DEF SubInv, OneItemAtLastPrice
<1>5. i \in [id : Items, price : SetPrices]
  BY <1>2, <1>4 DEF Held
<1> DEFINE j == [id |-> i.id, price |-> IF q = None THEN last[s] ELSE q]
<1>6. Updated(c) = {j}
  <2>1. [i EXCEPT !.price = q] = [id |-> i.id, price |-> q]
    BY <1>5
  <2>2. i = [id |-> i.id, price |-> i.price]
    BY <1>5
  <2>3. CASE q = None
    BY <1>4, <2>2, <2>3 DEF Updated
  <2>4. CASE q # None
    <3>1. provider = "paypal" \/ i.id = call[c].item
      BY <1>1, <1>2, <1>4, <2>4, SubscriptionsAssumption
      DEF Accepts, ItemIds, SubInv, SubShape, SubscriptionsAssumption
    <3> QED
      BY <1>4, <2>1, <2>4, <3>1 DEF Updated
  <2> QED
    BY <2>3, <2>4
<1>7. j \in [id : Items, price : SetPrices] /\ j.price = IF q = None THEN last[s] ELSE q
  BY <1>2, <1>4, <1>5
<1> HIDE DEF j, q
<1>8. /\ sub' \in [Subs -> Held \cup {None}] /\ last' \in [Subs -> SetPrices \cup {None}]
      /\ sub'[s] \in Held /\ sub'[s].items = {j} /\ last'[s] = j.price
      /\ \A t \in Subs : t # s => sub'[t] = sub[t] /\ last'[t] = last[t]
  BY <1>1, <1>2, <1>6, <1>7 DEF SubInv, SubShape, Held, q
<1>9. sub'[s] # None
  BY <1>8, RecordsAssumption DEF RecordsAssumption
<1>10. OneItemAtLastPrice'
  BY <1>8 DEF SubInv, OneItemAtLastPrice
<1>11. Holds(c)
  BY <1>1, <1>2, <1>8, <1>9, <1>10 DEF Holds
<1> QED
  BY <1>1, <1>3, <1>11 DEF Goes, Turns, At

LEMMA CancelGoes ==
  ASSUME SubInv, NEW c \in Calls, CancelSubscription(c)
  PROVE  Goes(c)
<1> DEFINE s == call[c].on
           to == IF EndsNow(c) THEN "canceled" ELSE "ending"
<1>1. /\ Busy(c) /\ call[c].op = "cancel" /\ call[c].stage = "send"
      /\ sub' = [sub EXCEPT ![s].status = to] /\ UNCHANGED last /\ Accepted(c, to)
  BY DEF CancelSubscription, At
<1>2. s \in Subs /\ sub[s] # None /\ sub[s] \in Held /\ to \in {"ending", "canceled"}
  BY <1>1, CallTyped DEF SubInv, CallInv, CallOK
<1> HIDE DEF to
<1>3. Turns(c, "accepted") /\ call'[c].did = to /\ UNCHANGED <<told, lost, faults, replaced>>
  BY <1>1, <1>2, AcceptedTurns
<1>4. /\ sub' \in [Subs -> Held \cup {None}] /\ sub'[s] \in Held /\ sub'[s].items = sub[s].items
      /\ \A t \in Subs : t # s => sub'[t] = sub[t]
  BY <1>1, <1>2 DEF SubInv, SubShape, Held
<1>5. sub'[s] # None
  BY <1>4, RecordsAssumption DEF RecordsAssumption
<1>6. OneItemAtLastPrice'
  BY <1>1, <1>2, <1>4 DEF SubInv, OneItemAtLastPrice
<1>7. Holds(c)
  BY <1>1, <1>2, <1>4, <1>5, <1>6 DEF Holds, SubInv, SubShape
<1> QED
  BY <1>1, <1>3, <1>7 DEF Goes, Turns, to, At

-----------------------------------------------------------------------------
(* A step ends, and what is done apart from steps. *)

Ends(c) ==
  /\ Busy(c) /\ call' = [call EXCEPT ![c] = None]
  /\ told' \subseteq Subs /\ lost' \subseteq Subs
  /\ told' \cup lost' =
       told \cup lost \cup (IF At(c, "create", "accepted") THEN {call[c].on} ELSE {})
  /\ faults' \in 0..MaxFaults
  /\ UNCHANGED <<sub, last, replaced>>

LEMMA EndsKeeps ==
  ASSUME SubInv, NEW c \in Calls, Ends(c), UNCHANGED <<provider, bought>>
  PROVE  SubInv'
<1>1. /\ Others(c) /\ call'[c] = None /\ Busy(c)
      /\ UNCHANGED <<provider, sub, last, bought, replaced>>
  BY DEF Ends, Others, SubInv, SubShape
<1>2. \A d \in Calls : Busy(d)' => Busy(d) /\ d # c /\ call'[d] = call[d]
  BY <1>1 DEF Others, Busy
<1>3. SubShape'
  BY <1>1 DEF SubInv, SubShape, Others, Ends
<1>4. CallInv'
  BY <1>1, <1>2 DEF SubInv, CallInv, CallOK
<1>5. CreateInv'
  BY <1>2 DEF SubInv, CreateInv
<1>6. FlagInv'
  BY <1>2 DEF SubInv, FlagInv, PlainUses
<1>7. DoneInv'
  BY <1>1, <1>2 DEF SubInv, DoneInv, At, EndsNow
<1>8. OneItemAtLastPrice'
  BY <1>1 DEF SubInv, OneItemAtLastPrice
<1>9. SubscriptionsAccounted'
  <2>1. Fresh \cup told \cup lost = Fresh' \cup told' \cup lost'
    <3>1. Fresh \subseteq Fresh' \cup (IF At(c, "create", "accepted") THEN {call[c].on} ELSE {})
      <4> SUFFICES ASSUME NEW s \in Fresh
                   PROVE  s \in Fresh' \/ (At(c, "create", "accepted") /\ s = call[c].on)
        OBVIOUS
      <4>1. PICK d \in Calls : At(d, "create", "accepted") /\ call[d].on = s
        BY DEF Fresh
      <4>2. CASE d # c
        <5>1. call'[d] = call[d]
          BY <1>1, <4>2 DEF Others
        <5> QED
          BY <4>1, <5>1 DEF Fresh, At, Busy
      <4> QED
        BY <4>1, <4>2
    <3>2. Fresh' \subseteq Fresh
      BY <1>2 DEF Fresh, At
    <3>3. At(c, "create", "accepted") => call[c].on \in Fresh
      BY <1>1, CallTyped DEF Fresh
    <3> QED
      BY <3>1, <3>2, <3>3 DEF Ends
  <2>2. {s \in Subs : sub[s] # None} = bought \cup told \cup lost \cup Fresh
    BY DEF SubInv, SubscriptionsAccounted, Fresh
  <2>3. {s \in Subs : sub'[s] # None} = bought' \cup told' \cup lost' \cup Fresh'
    BY <1>1, <2>1, <2>2
  <2> QED
    BY <2>3 DEF SubscriptionsAccounted, Fresh
<1> QED
  BY <1>3, <1>4, <1>5, <1>6, <1>7, <1>8, <1>9 DEF SubInv

LEMMA ReportEnds ==
  ASSUME SubInv, NEW c \in Calls, Report(c)
  PROVE  Ends(c)
<1>1. Busy(c) /\ call[c].on \in Subs
  BY CallTyped DEF Report
<1> QED
  BY <1>1 DEF Report, Ends, At, IsError, SubInv, SubShape

LEMMA LoseEnds ==
  ASSUME SubInv, NEW c \in Calls, Lose(c)
  PROVE  Ends(c)
<1>1. Busy(c) /\ call[c].on \in Subs
  BY CallTyped DEF Lose
<1>2. faults' \in 0..MaxFaults
  BY SubscriptionsAssumption DEF Lose, SubInv, SubShape, SubscriptionsAssumption
<1> QED
  BY <1>1, <1>2 DEF Lose, Ends, At, SubInv, SubShape

\* No step of a goroutine.
Apart ==
  /\ UNCHANGED <<provider, call, told, lost>>
  /\ sub' \in [Subs -> Held \cup {None}] /\ last' \in [Subs -> SetPrices \cup {None}]
  /\ faults' \in 0..MaxFaults /\ replaced' \in 0..MaxReplaced
  /\ OneItemAtLastPrice'
  /\ bought' = bought \cup {s \in Subs : sub[s] = None /\ sub'[s] # None}
  /\ \A s \in Subs : sub[s] # None => sub'[s] # None
  /\ \A s \in Subs, d \in Calls : (sub[s] = None /\ sub'[s] # None /\ Busy(d)) => call[d].on # s

LEMMA ApartKeeps ==
  ASSUME SubInv, Apart
  PROVE  SubInv'
<1>1. UNCHANGED <<provider, call, told, lost>>
  BY DEF Apart
<1>2. SubShape'
  BY DEF SubInv, SubShape, Apart
<1>3. CallInv'
  <2> SUFFICES ASSUME NEW d \in Calls, Busy(d)' PROVE CallOK(d)'
    BY DEF CallInv
  <2>1. Busy(d) /\ call'[d] = call[d] /\ CallOK(d) /\ call[d].on \in Subs
    BY <1>1, CallTyped DEF SubInv, CallInv, Busy
  <2> QED
    BY <1>1, <2>1 DEF Apart, CallOK
<1>4. CreateInv'
  BY <1>1 DEF SubInv, CreateInv, Busy
<1>5. FlagInv'
  BY <1>1 DEF SubInv, FlagInv, PlainUses, Busy
<1>6. DoneInv'
  BY <1>1 DEF SubInv, DoneInv, At, EndsNow, Busy
<1>7. OneItemAtLastPrice'
  BY DEF Apart
<1>8. SubscriptionsAccounted'
  <2>1. Fresh' = Fresh
    BY <1>1 DEF Fresh, At, Busy
  <2>2. {s \in Subs : sub[s] # None} = bought \cup told \cup lost \cup Fresh
    BY DEF SubInv, SubscriptionsAccounted, Fresh
  <2>3. {s \in Subs : sub'[s] # None} = bought' \cup told' \cup lost' \cup Fresh'
    BY <1>1, <2>1, <2>2 DEF Apart
  <2> QED
    BY <2>3 DEF SubscriptionsAccounted, Fresh
<1> QED
  BY <1>2, <1>3, <1>4, <1>5, <1>6, <1>7, <1>8 DEF SubInv

\* Of one subscription there is, the status or the item changes.
LEMMA OneChanges ==
  ASSUME SubInv, NEW s \in Subs, sub[s] # None, UNCHANGED <<provider, call, told, lost, bought>>,
         sub' \in [Subs -> Held \cup {None}], sub'[s] \in Held,
         last' \in [Subs -> SetPrices \cup {None}],
         \A t \in Subs : t # s => sub'[t] = sub[t] /\ last'[t] = last[t],
         \E k \in sub'[s].items : sub'[s].items = {k} /\ k.price = last'[s],
         faults' \in 0..MaxFaults, replaced' \in 0..MaxReplaced
  PROVE  Apart
<1>1. sub'[s] # None
  BY RecordsAssumption DEF RecordsAssumption
<1>2. OneItemAtLastPrice'
  BY DEF SubInv, OneItemAtLastPrice
<1>3. {t \in Subs : sub[t] = None /\ sub'[t] # None} = {}
  OBVIOUS
<1> QED
  BY <1>1, <1>2, <1>3 DEF Apart

LEMMA StatusApart ==
  ASSUME SubInv, NEW s \in Subs, NEW to \in {"active", "ending", "canceled"}, sub[s] # None,
         sub' = [sub EXCEPT ![s].status = to],
         UNCHANGED <<provider, call, last, told, lost, bought, faults, replaced>>
  PROVE  Apart
<1>1. sub[s] \in Held
  BY DEF SubInv, SubShape
<1>2. /\ sub' \in [Subs -> Held \cup {None}] /\ sub'[s] \in Held /\ sub'[s].items = sub[s].items
      /\ \A t \in Subs : t # s => sub'[t] = sub[t]
  BY <1>1 DEF SubInv, SubShape, Held
<1>3. \E k \in sub[s].items : sub[s].items = {k} /\ k.price = last[s]
  BY DEF SubInv, OneItemAtLastPrice
<1>4. \E k \in sub'[s].items : sub'[s].items = {k} /\ k.price = last'[s]
  BY <1>2, <1>3
<1>5. last' \in [Subs -> SetPrices \cup {None}] /\ faults' \in 0..MaxFaults /\ replaced' \in 0..MaxReplaced
  BY DEF SubInv, SubShape
<1> QED
  BY <1>2, <1>4, <1>5, OneChanges

\* The item is replaced by k, at the price set last.
LEMMA ItemApart ==
  ASSUME SubInv, NEW s \in Subs, NEW k \in [id : Items, price : SetPrices], sub[s] # None,
         sub' = [sub EXCEPT ![s].items = {k}],
         last' = [last EXCEPT ![s] = k.price],
         UNCHANGED <<provider, call, told, lost, bought>>,
         faults' \in 0..MaxFaults, replaced' \in 0..MaxReplaced
  PROVE  Apart
<1>1. sub[s] \in Held
  BY DEF SubInv, SubShape
<1>2. /\ sub' \in [Subs -> Held \cup {None}] /\ sub'[s] \in Held /\ sub'[s].items = {k}
      /\ \A t \in Subs : t # s => sub'[t] = sub[t]
  BY <1>1 DEF SubInv, SubShape, Held
<1>3. /\ last' \in [Subs -> SetPrices \cup {None}] /\ last'[s] = k.price
      /\ \A t \in Subs : t # s => last'[t] = last[t]
  BY DEF SubInv, SubShape
<1>4. \E j \in sub'[s].items : sub'[s].items = {j} /\ j.price = last'[s]
  BY <1>2, <1>3
<1> QED
  BY <1>2, <1>3, <1>4, OneChanges

LEMMA ReplaceItemApart ==
  ASSUME SubInv, NEW s \in Subs, NEW i \in Items, ReplaceItem(s, i), UNCHANGED <<provider, bought>>
  PROVE  Apart
<1>1. sub[s] # None /\ sub[s] \in Held
  BY DEF ReplaceItem, SubInv, SubShape
<1>2. PICK j \in sub[s].items : sub[s].items = {j} /\ j.price = last[s]
  BY <1>1 DEF SubInv, OneItemAtLastPrice
<1>3. j.price \in SetPrices
  BY <1>1 DEF Held
<1> DEFINE k == [id |-> i, price |-> j.price]
<1>4. k \in [id : Items, price : SetPrices] /\ k.price = last[s]
  BY <1>2, <1>3
<1>5. {[id |-> i, price |-> x.price] : x \in sub[s].items} = {k}
  BY <1>2
<1>6. sub' = [sub EXCEPT ![s].items = {[id |-> i, price |-> x.price] : x \in sub[s].items}]
  BY DEF ReplaceItem
<1>7. sub' = [sub EXCEPT ![s].items = {k}]
  BY <1>5, <1>6
<1> HIDE DEF k
<1>8. last' = [last EXCEPT ![s] = k.price]
  BY <1>4 DEF ReplaceItem, SubInv, SubShape
<1>9. replaced' \in 0..MaxReplaced /\ faults' \in 0..MaxFaults
  BY SubscriptionsAssumption DEF ReplaceItem, SubInv, SubShape, SubscriptionsAssumption
<1> QED
  BY <1>1, <1>4, <1>7, <1>8, <1>9, ItemApart DEF ReplaceItem

LEMMA SwitchPriceApart ==
  ASSUME SubInv, NEW s \in Subs, NEW price \in Prices, SwitchPrice(s, price)
  PROVE  Apart
<1>1. sub[s] # None /\ sub[s] \in Held /\ price \in SetPrices
  BY DEF SwitchPrice, SubInv, SubShape, SetPrices
<1>2. PICK j \in sub[s].items : sub[s].items = {j}
  BY <1>1 DEF SubInv, OneItemAtLastPrice
<1>3. j \in [id : Items, price : SetPrices]
  BY <1>1 DEF Held
<1> DEFINE k == [j EXCEPT !.price = price]
<1>4. k \in [id : Items, price : SetPrices] /\ k.price = price
  BY <1>1, <1>3
<1>5. {[x EXCEPT !.price = price] : x \in sub[s].items} = {k}
  BY <1>2
<1>6. sub' = [sub EXCEPT ![s].items = {[x EXCEPT !.price = price] : x \in sub[s].items}]
  BY DEF SwitchPrice
<1>7. sub' = [sub EXCEPT ![s].items = {k}]
  BY <1>5, <1>6
<1> HIDE DEF k
<1>8. last' = [last EXCEPT ![s] = k.price]
  BY <1>4 DEF SwitchPrice
<1>9. replaced' \in 0..MaxReplaced /\ faults' \in 0..MaxFaults
  BY DEF SwitchPrice, SubInv, SubShape
<1> QED
  BY <1>1, <1>4, <1>7, <1>8, <1>9, ItemApart DEF SwitchPrice

\* A sale that brings a subscription.
LEMMA BuyApart ==
  ASSUME SubInv, NEW s \in Subs, NEW i \in Items, NEW q \in SetPrices,
         sub[s] = None, \A d \in Calls : Busy(d) => call[d].on # s,
         sub' = [sub EXCEPT ![s] = [status |-> "active", items |-> {[id |-> i, price |-> q]}]],
         last' = [last EXCEPT ![s] = q], bought' = bought \cup {s},
         UNCHANGED <<provider, call, told, lost, faults, replaced>>
  PROVE  Apart
<1> DEFINE k == [id |-> i, price |-> q]
           h == [status |-> "active", items |-> {k}]
<1>1. h \in Held /\ h.items = {k} /\ k.price = q
  BY DEF Held
<1>2. sub' = [sub EXCEPT ![s] = h]
  OBVIOUS
<1> HIDE DEF h, k
<1>3. h # None
  BY <1>1, RecordsAssumption DEF RecordsAssumption
<1>4. /\ sub' \in [Subs -> Held \cup {None}] /\ last' \in [Subs -> SetPrices \cup {None}]
      /\ sub'[s] = h /\ last'[s] = q
      /\ \A t \in Subs : t # s => sub'[t] = sub[t] /\ last'[t] = last[t]
  BY <1>1, <1>2 DEF SubInv, SubShape
<1>5. OneItemAtLastPrice'
  BY <1>1, <1>4 DEF SubInv, OneItemAtLastPrice
<1>6. {t \in Subs : sub[t] = None /\ sub'[t] # None} = {s}
  BY <1>3, <1>4
<1>7. faults' \in 0..MaxFaults /\ replaced' \in 0..MaxReplaced
  BY DEF SubInv, SubShape
<1> QED
  BY <1>4, <1>5, <1>6, <1>7, <1>3 DEF Apart

\* The goroutines' steps and the dashboard.
LEMMA NextKeeps ==
  ASSUME SubInv, Next
  PROVE  SubInv'
<1> USE DEF Next
<1>1. ASSUME NEW c \in Calls, Start(c) PROVE SubInv'
  BY <1>1, StartBegins, BeginsKeeps
<1>2. ASSUME NEW c \in Calls, Serve(c) PROVE SubInv'
  <2>1. Goes(c)
    BY <1>2, CreateGoes, GetGoes, UpdateGoes, CancelGoes, RefuseGoes DEF Serve
  <2> QED
    BY <2>1, GoesKeeps
<1>3. ASSUME NEW c \in Calls, Report(c) PROVE SubInv'
  BY <1>3, ReportEnds, EndsKeeps
<1>4. ASSUME NEW c \in Calls, Lose(c) PROVE SubInv'
  BY <1>4, LoseEnds, EndsKeeps
<1>5. ASSUME NEW s \in Subs, PeriodEnds(s) PROVE SubInv'
  <2>1. Apart
    BY <1>5, StatusApart DEF PeriodEnds
  <2> QED
    BY <2>1, ApartKeeps
<1>6. ASSUME NEW s \in Subs, NEW i \in Items, ReplaceItem(s, i) PROVE SubInv'
  BY <1>6, ReplaceItemApart, ApartKeeps
<1> QED
  BY <1>1, <1>2, <1>3, <1>4, <1>5, <1>6
-----------------------------------------------------------------------------
(* Pages. *)

Sales == [session : Sessions, mode : {"subscription", "payment"}, price : PagePrices,
          metadata : BOOLEAN]

PageShape ==
  /\ visit \in [Visits -> Steps \cup {None}]
  /\ session \in [Sessions -> Pages \cup {None}]
  /\ links \subseteq {k \in Sessions : session[k] # None}
  /\ sales \subseteq Sales
  /\ portal \in BOOLEAN

\* A page as its author means it.
Fits(p) ==
  /\ p.price = p.meant.price
  /\ (p.mode = "subscription") = p.meant.recurring
  /\ p.metadata => p.mode = "subscription"

InCheckout(v) == visit[v] # None /\ visit[v].op = "checkout"

VisitInv ==
  \A v \in Visits : InCheckout(v) =>
    /\ visit[v].on \in Sessions
    /\ visit[v].stage = "send" => session[visit[v].on] = None
    /\ visit[v].stage = "accepted" => session[visit[v].on] # None
    /\ provider = "stripe" => visit[v].price # None /\ Fits(visit[v])

(* A session that is to come to be is known to one step only.                  *)
OneVisit ==
  \A v, w \in Visits : (InCheckout(v) /\ InCheckout(w) /\ visit[v].on = visit[w].on) => v = w

PageInv ==
  \A k \in Sessions : session[k] # None =>
    Fits(session[k]) /\ (session[k].mode = "subscription" => session[k].price \in SetPrices)

(* What was sold is what the page showed, which is closed.                     *)
SaleInv ==
  \A x \in sales :
    LET p == session[x.session] IN
    p # None /\ ~p.open /\ x.mode = p.mode /\ x.price = p.price /\ x.metadata = p.metadata

PagesInv == PageShape /\ VisitInv /\ OneVisit /\ PageInv /\ SaleInv

Inv == SubInv /\ PagesInv

\* The line item is what the author means, if there is one.
LEMMA OfferMeant ==
  ASSUME NEW f, NEW config \in Offers, NEW current \in Offers
  PROVE  LET o == OfferOf(f, config, current) IN
         /\ LineItem(o) \in PagePrices \cup {None} /\ EffectiveMode(o) \in Modes
         /\ o.metadata \in BOOLEAN
         /\ MeantPrice(f, config, current) \in PagePrices
         /\ MeantRecurring(f, config, current) \in BOOLEAN
         /\ LineItem(o) # None => LineItem(o) = MeantPrice(f, config, current)
         /\ (EffectiveMode(o) = "subscription") = MeantRecurring(f, config, current)
<1> DEFINE a == IF f = "legacy" THEN current ELSE config
           b == IF f = "legacy" THEN config ELSE current
           o == OfferOf(f, config, current)
<1>1. o = Either(a, b)
  BY DEF OfferOf, LegacyOffer, TypedOffer
<1>2. a \in Offers /\ b \in Offers
  OBVIOUS
<1>3. /\ MeantPrice(f, config, current) =
           (CASE a.price # None -> a.price
              [] a.price = None /\ b.price # None -> b.price
              [] OTHER -> Inline)
      /\ MeantRecurring(f, config, current) =
           (a.mode = "subscription" \/ (a.mode = None /\ b.mode \in {None, "subscription"}))
  BY DEF MeantPrice, MeantRecurring
<1> HIDE DEF a, b
<1>4. /\ a.price \in Prices \cup OneTime \cup {None} /\ b.price \in Prices \cup OneTime \cup {None}
      /\ a.mode \in Modes /\ b.mode \in Modes /\ a.metadata \in BOOLEAN /\ b.metadata \in BOOLEAN
  BY <1>2 DEF Offers
<1>5. /\ o.price = (IF a.price # None THEN a.price ELSE b.price)
      /\ o.mode = (IF a.mode # None THEN a.mode ELSE b.mode)
      /\ o.metadata = (a.metadata \/ b.metadata)
  BY <1>1 DEF Either, Text
<1> HIDE DEF o
<1>6. LineItem(o) \in {o.price, Inline, None} /\ (o.price # None => LineItem(o) = o.price)
      /\ (o.price = None => LineItem(o) \in {Inline, None})
  BY DEF LineItem
<1>7. MeantPrice(f, config, current) \in PagePrices
  BY <1>3, <1>4 DEF PagePrices, SetPrices
<1>8. LineItem(o) \in PagePrices \cup {None}
  BY <1>4, <1>5, <1>6 DEF PagePrices, SetPrices
<1>9. LineItem(o) # None => LineItem(o) = MeantPrice(f, config, current)
  BY <1>3, <1>5, <1>6
<1>10. /\ EffectiveMode(o) \in Modes
       /\ (EffectiveMode(o) = "subscription") = MeantRecurring(f, config, current)
  BY <1>3, <1>4, <1>5, CheckoutAssumption DEF EffectiveMode, Modes, CheckoutAssumption
<1>11. MeantRecurring(f, config, current) \in BOOLEAN
  BY <1>3
<1>12. o.metadata \in BOOLEAN
  BY <1>4, <1>5
<1> QED
  BY <1>7, <1>8, <1>9, <1>10, <1>11, <1>12 DEF o

LEMMA SubStays ==
  ASSUME SubInv, UNCHANGED <<provider, sub, call, last, told, lost, bought, replaced>>,
         faults' \in 0..MaxFaults
  PROVE  SubInv'
<1>1. Apart
  BY DEF Apart, SubInv, SubShape, OneItemAtLastPrice
<1> QED
  BY <1>1, ApartKeeps

LEMMA PagesStay ==
  ASSUME PagesInv, UNCHANGED provider, UNCHANGED checkoutVars
  PROVE  PagesInv'
BY DEF checkoutVars, PagesInv, PageShape, VisitInv, OneVisit, PageInv, SaleInv, InCheckout, Fits

\* A step begins.
Comes(v, r) ==
  /\ visit[v] = None /\ visit' = [visit EXCEPT ![v] = r]
  /\ r.op = "checkout" =>
       /\ r.on \in Sessions /\ session[r.on] = None /\ r.stage = "send"
       /\ provider = "stripe" => r.price # None /\ Fits(r)
       /\ \A w \in Visits : visit[w] # None => visit[w].on # r.on

LEMMA ComesKeeps ==
  ASSUME PagesInv, NEW v \in Visits, NEW r \in Steps, Comes(v, r),
         UNCHANGED <<provider, session, links, sales, portal>>
  PROVE  PagesInv'
<1>1. /\ visit'[v] = r /\ r # None /\ visit[v] = None
      /\ \A w \in Visits : w # v => visit'[w] = visit[w]
  BY CheckoutRecords DEF Comes, PagesInv, PageShape, CheckoutRecords
<1>2. PageShape'
  BY <1>1 DEF PagesInv, PageShape, Comes
<1>3. VisitInv'
  <2> SUFFICES ASSUME NEW w \in Visits, InCheckout(w)'
               PROVE  /\ visit'[w].on \in Sessions
                      /\ visit'[w].stage = "send" => session[visit'[w].on] = None
                      /\ visit'[w].stage = "accepted" => session[visit'[w].on] # None
                      /\ provider = "stripe" => visit'[w].price # None /\ Fits(visit'[w])
    BY DEF VisitInv, Fits
  <2>1. CASE w = v
    BY <1>1, <2>1 DEF InCheckout, Comes
  <2>2. CASE w # v
    BY <1>1, <2>2 DEF PagesInv, VisitInv, InCheckout
  <2> QED
    BY <2>1, <2>2
<1>4. OneVisit'
  BY <1>1 DEF PagesInv, OneVisit, InCheckout, Comes
<1> QED
  BY <1>2, <1>3, <1>4 DEF PagesInv, PageInv, SaleInv, Fits

LEMMA StartCheckoutKeeps ==
  ASSUME PagesInv, NEW v \in Visits, NEW k \in Sessions, NEW use \in OfferUses,
         StartCheckout(v, k, use[1], use[2], use[3])
  PROVE  PagesInv' /\ UNCHANGED vars
<1> DEFINE f == use[1]
           config == use[2]
           current == use[3]
           o == OfferOf(f, config, current)
           line == LineItem(o)
           mode == EffectiveMode(o)
           metadata == o.metadata /\ mode = "subscription"
           price == MeantPrice(f, config, current)
           recurring == MeantRecurring(f, config, current)
           r == [op |-> "checkout", stage |-> "send", on |-> k, mode |-> mode, price |-> line,
                 metadata |-> metadata, meant |-> [price |-> price, recurring |-> recurring]]
<1>1. config \in Offers /\ current \in Offers
  BY CheckoutAssumption DEF CheckoutAssumption
<1>2. /\ session[k] = None /\ \A w \in Visits : visit[w] # None => visit[w].on # k
      /\ provider = "stripe" => line # None
      /\ Begins(v, r)
  BY DEF StartCheckout
<1> HIDE DEF f, config, current
<1>3. /\ line \in PagePrices \cup {None} /\ mode \in Modes /\ o.metadata \in BOOLEAN
      /\ price \in PagePrices /\ recurring \in BOOLEAN
      /\ line # None => line = price
      /\ (mode = "subscription") = recurring
  BY <1>1, OfferMeant
<1>4. metadata \in BOOLEAN /\ (metadata => mode = "subscription")
  BY <1>3
<1> HIDE DEF o, line, mode, metadata, price, recurring
<1>5. r \in Steps
  BY <1>3, <1>4 DEF Steps, Meant
<1>6. /\ r.op = "checkout" /\ r.on = k /\ r.stage = "send" /\ r.price = line
      /\ line # None => Fits(r)
  BY <1>3, <1>4 DEF Fits
<1> HIDE DEF r
<1>7. Comes(v, r) /\ UNCHANGED <<vars, session, links, sales, portal>>
  BY <1>2, <1>6 DEF Begins, Comes
<1> QED
  BY <1>5, <1>7, ComesKeeps DEF vars

LEMMA StartPortalKeeps ==
  ASSUME PagesInv, NEW v \in Visits, StartPortal(v)
  PROVE  PagesInv' /\ UNCHANGED vars
<1> DEFINE no == FALSE
           r == [op |-> "portal", stage |-> "send", on |-> None, mode |-> None,
                 price |-> None, metadata |-> no, meant |-> [price |-> None, recurring |-> no]]
<1>1. Begins(v, r) /\ no \in BOOLEAN
  BY DEF StartPortal, NoSale
<1> HIDE DEF no
<1>2. r \in Steps /\ r.op = "portal"
  BY <1>1 DEF Steps, Meant, Modes
<1> HIDE DEF r
<1>3. Comes(v, r) /\ UNCHANGED <<vars, session, links, sales, portal>>
  BY <1>1, <1>2 DEF Begins, Comes
<1> QED
  BY <1>2, <1>3, ComesKeeps DEF vars

LEMMA VisitTyped ==
  ASSUME PagesInv, NEW v \in Visits, visit[v] # None
  PROVE  visit[v] \in Steps
BY DEF PagesInv, PageShape

\* A step is answered, or ends.
Proceeds(v) ==
  /\ visit[v] # None /\ visit' \in [Visits -> Steps \cup {None}]
  /\ \A w \in Visits : w # v => visit'[w] = visit[w]
  /\ visit'[v] # None =>
       /\ visit'[v].op = visit[v].op /\ visit'[v].on = visit[v].on
       /\ visit'[v].mode = visit[v].mode /\ visit'[v].price = visit[v].price
       /\ visit'[v].metadata = visit[v].metadata /\ visit'[v].meant = visit[v].meant
       /\ visit'[v].stage # "send"

LEMMA AnsweredProceeds ==
  ASSUME PagesInv, NEW v \in Visits, NEW stage \in {"accepted", "refused"}, Answered(v, stage)
  PROVE  /\ Proceeds(v) /\ visit'[v] # None /\ visit'[v].stage = stage /\ visit[v].stage = "send"
         /\ UNCHANGED <<vars, links, sales, portal>>
<1>1. /\ visit[v] # None /\ visit[v] \in Steps /\ visit[v].stage = "send"
      /\ visit' = [visit EXCEPT ![v].stage = stage] /\ UNCHANGED <<vars, links, sales, portal>>
  BY VisitTyped DEF Answered
<1>2. /\ visit' \in [Visits -> Steps \cup {None}] /\ visit'[v] \in Steps
      /\ visit'[v].stage = stage
      /\ visit'[v].op = visit[v].op /\ visit'[v].on = visit[v].on
      /\ visit'[v].mode = visit[v].mode /\ visit'[v].price = visit[v].price
      /\ visit'[v].metadata = visit[v].metadata /\ visit'[v].meant = visit[v].meant
      /\ \A w \in Visits : w # v => visit'[w] = visit[w]
  BY <1>1 DEF PagesInv, PageShape, Steps
<1>3. visit'[v] # None
  BY <1>2, CheckoutRecords DEF CheckoutRecords
<1> QED
  BY <1>1, <1>2, <1>3 DEF Proceeds

\* No session comes to be.
LEMMA ProceedsKeeps ==
  ASSUME PagesInv, NEW v \in Visits, Proceeds(v), UNCHANGED <<provider, session, sales>>,
         InCheckout(v)' => visit'[v].stage # "accepted",
         links' \subseteq {k \in Sessions : session[k] # None}, portal' \in BOOLEAN
  PROVE  PagesInv'
<1>1. PageShape'
  BY DEF PagesInv, PageShape, Proceeds
<1>2. VisitInv'
  <2> SUFFICES ASSUME NEW w \in Visits, InCheckout(w)'
               PROVE  /\ visit'[w].on \in Sessions
                      /\ visit'[w].stage = "send" => session[visit'[w].on] = None
                      /\ visit'[w].stage = "accepted" => session[visit'[w].on] # None
                      /\ provider = "stripe" => visit'[w].price # None /\ Fits(visit'[w])
    BY DEF VisitInv, Fits
  <2>1. CASE w = v
    BY <2>1 DEF PagesInv, VisitInv, InCheckout, Proceeds, Fits
  <2>2. CASE w # v
    BY <2>2 DEF PagesInv, VisitInv, InCheckout, Proceeds, Fits
  <2> QED
    BY <2>1, <2>2
<1>3. OneVisit'
  BY DEF PagesInv, OneVisit, InCheckout, Proceeds
<1> QED
  BY <1>1, <1>2, <1>3 DEF PagesInv, PageInv, SaleInv, Fits

LEMMA RefuseVisitKeeps ==
  ASSUME PagesInv, NEW v \in Visits, RefuseVisit(v)
  PROVE  PagesInv' /\ UNCHANGED vars
<1>1. /\ Proceeds(v) /\ visit'[v].stage = "refused"
      /\ UNCHANGED <<vars, session, links, sales, portal>>
  BY AnsweredProceeds DEF RefuseVisit
<1> QED
  BY <1>1, ProceedsKeeps DEF vars, PagesInv, PageShape

LEMMA CreatePortalSessionKeeps ==
  ASSUME PagesInv, NEW v \in Visits, CreatePortalSession(v)
  PROVE  PagesInv' /\ UNCHANGED vars
<1>1. /\ Proceeds(v) /\ visit'[v].op = "portal"
      /\ UNCHANGED <<vars, session, links, sales, portal>>
  BY AnsweredProceeds DEF CreatePortalSession, Proceeds
<1> QED
  BY <1>1, ProceedsKeeps DEF vars, PagesInv, PageShape, InCheckout

LEMMA EndedProceeds ==
  ASSUME PagesInv, NEW v \in Visits, visit[v] # None, visit' = [visit EXCEPT ![v] = None]
  PROVE  Proceeds(v) /\ ~InCheckout(v)'
BY DEF PagesInv, PageShape, Proceeds, InCheckout

LEMMA ReportVisitKeeps ==
  ASSUME PagesInv, NEW v \in Visits, ReportVisit(v)
  PROVE  PagesInv' /\ UNCHANGED vars
<1>1. Proceeds(v) /\ ~InCheckout(v)'
  BY EndedProceeds DEF ReportVisit
<1>2. links' \subseteq {k \in Sessions : session[k] # None}
  BY DEF ReportVisit, PagesInv, PageShape, VisitInv, InCheckout
<1>3. portal' \in BOOLEAN
  BY DEF ReportVisit
<1> QED
  BY <1>1, <1>2, <1>3, ProceedsKeeps DEF ReportVisit, vars

LEMMA LoseVisitKeeps ==
  ASSUME SubInv, PagesInv, NEW v \in Visits, LoseVisit(v)
  PROVE  SubInv' /\ PagesInv'
<1>1. Proceeds(v) /\ ~InCheckout(v)'
  BY EndedProceeds DEF LoseVisit
<1>2. PagesInv'
  BY <1>1, ProceedsKeeps DEF LoseVisit, PagesInv, PageShape
<1>3. faults' \in 0..MaxFaults
  BY SubscriptionsAssumption DEF LoseVisit, SubInv, SubShape, SubscriptionsAssumption
<1> QED
  BY <1>2, <1>3, SubStays DEF LoseVisit

\* The provider accepts a page with a price that fits the mode.
LEMMA SellsFitting ==
  ASSUME PagesInv, NEW v \in Visits, InCheckout(v), Sells(v)
  PROVE  /\ visit[v].mode \in {"subscription", "payment"} /\ visit[v].price \in PagePrices
         /\ Fits(visit[v])
         /\ visit[v].mode = "subscription" => visit[v].price \in SetPrices
<1>1. visit[v].price \in PagePrices \cup {None}
  BY VisitTyped DEF InCheckout, Steps
<1>2. visit[v].price # None /\ Fits(visit[v])
  BY DEF Sells, PagesInv, VisitInv
<1> QED
  BY <1>1, <1>2 DEF Sells, InCheckout, PagePrices, SetPrices

LEMMA CreateCheckoutSessionKeeps ==
  ASSUME PagesInv, NEW v \in Visits, CreateCheckoutSession(v)
  PROVE  PagesInv' /\ UNCHANGED vars
<1> DEFINE on == visit[v].on
           mode == visit[v].mode
           price == visit[v].price
           metadata == visit[v].metadata
           meant == visit[v].meant
           yes == TRUE
           p == [mode |-> mode, price |-> price, metadata |-> metadata, meant |-> meant, open |-> yes]
<1>1. /\ Answered(v, "accepted") /\ Sells(v) /\ visit[v].op = "checkout"
      /\ session' = [session EXCEPT ![on] = p]
  BY DEF CreateCheckoutSession
<1>2. /\ Proceeds(v) /\ visit'[v] # None /\ visit[v].stage = "send" /\ visit'[v].stage = "accepted"
      /\ UNCHANGED <<vars, links, sales, portal>> /\ InCheckout(v) /\ visit[v] \in Steps
  BY <1>1, AnsweredProceeds, VisitTyped DEF Proceeds, InCheckout
<1>3. /\ on \in Sessions /\ session[on] = None /\ Fits(visit[v])
      /\ mode \in {"subscription", "payment"} /\ price \in PagePrices
      /\ mode = "subscription" => price \in SetPrices
  BY <1>1, <1>2, SellsFitting DEF PagesInv, VisitInv
<1>4. metadata \in BOOLEAN /\ meant \in Meant
  BY <1>2 DEF Steps
<1>5. yes \in BOOLEAN
  OBVIOUS
<1>6. price = meant.price /\ (mode = "subscription") = meant.recurring /\ (metadata => mode = "subscription")
  BY <1>3 DEF Fits
<1> HIDE DEF mode, price, metadata, meant, yes
<1>7. p \in Pages /\ Fits(p) /\ (p.mode = "subscription" => p.price \in SetPrices)
  BY <1>3, <1>4, <1>5, <1>6 DEF Pages, Fits
<1>8. p # None
  BY <1>7, CheckoutRecords DEF CheckoutRecords
<1> HIDE DEF p
<1>9. /\ session' \in [Sessions -> Pages \cup {None}] /\ session'[on] = p
      /\ \A k \in Sessions : k # on => session'[k] = session[k]
  BY <1>1, <1>3, <1>7 DEF PagesInv, PageShape
<1>10. PageShape'
  BY <1>2, <1>3, <1>9 DEF PagesInv, PageShape, Proceeds
<1>11. VisitInv'
  <2> SUFFICES ASSUME NEW w \in Visits, InCheckout(w)'
               PROVE  /\ visit'[w].on \in Sessions
                      /\ visit'[w].stage = "send" => session'[visit'[w].on] = None
                      /\ visit'[w].stage = "accepted" => session'[visit'[w].on] # None
                      /\ provider' = "stripe" => visit'[w].price # None /\ Fits(visit'[w])
    BY DEF VisitInv, Fits
  <2>1. UNCHANGED provider
    BY <1>2 DEF vars
  <2>2. CASE w = v
    BY <1>2, <1>3, <1>8, <1>9, <2>1, <2>2 DEF PagesInv, VisitInv, InCheckout, Proceeds, Fits
  <2>3. CASE w # v
    <3>1. visit'[w] = visit[w] /\ InCheckout(w)
      BY <1>2, <2>3 DEF Proceeds, InCheckout
    <3>2. visit[w].on # on
      BY <1>2, <2>3, <3>1 DEF PagesInv, OneVisit
    <3> QED
      BY <1>9, <2>1, <3>1, <3>2 DEF PagesInv, VisitInv
  <2> QED
    BY <2>2, <2>3
<1>12. OneVisit'
  BY <1>2 DEF PagesInv, OneVisit, InCheckout, Proceeds
<1>13. PageInv'
  <2> SUFFICES ASSUME NEW k \in Sessions, session'[k] # None
               PROVE  Fits(session'[k]) /\ (session'[k].mode = "subscription" => session'[k].price \in SetPrices)
    BY DEF PageInv, Fits
  <2> QED
    BY <1>7, <1>9 DEF PagesInv, PageInv
<1>14. SaleInv'
  <2> SUFFICES ASSUME NEW x \in sales
               PROVE  LET q == session'[x.session] IN
                      q # None /\ ~q.open /\ x.mode = q.mode /\ x.price = q.price /\ x.metadata = q.metadata
    BY <1>2 DEF SaleInv
  <2>1. x.session \in Sessions /\ session[x.session] # None
    BY DEF PagesInv, SaleInv, PageShape, Sales
  <2>2. session'[x.session] = session[x.session]
    BY <1>3, <1>9, <2>1
  <2> QED
    BY <2>2 DEF PagesInv, SaleInv
<1> QED
  BY <1>2, <1>10, <1>11, <1>12, <1>13, <1>14 DEF PagesInv

\* A page closes, and nothing but that page is sold.
Closes(k) ==
  /\ session[k] # None /\ session[k].open
  /\ session' = [session EXCEPT ![k].open = FALSE]
  /\ UNCHANGED <<provider, visit, links, portal>>
  /\ sales' \subseteq Sales
  /\ \A x \in sales' : x \in sales \/
       (x.session = k /\ x.mode = session[k].mode /\ x.price = session[k].price
          /\ x.metadata = session[k].metadata)

LEMMA ClosesKeeps ==
  ASSUME PagesInv, NEW k \in Sessions, Closes(k)
  PROVE  PagesInv'
<1>1. session[k] # None /\ session[k] \in Pages /\ session[k].open
  BY DEF PagesInv, PageShape, Closes
<1>2. /\ session' \in [Sessions -> Pages \cup {None}]
      /\ \A j \in Sessions : j # k => session'[j] = session[j]
      /\ session'[k] \in Pages /\ ~session'[k].open
      /\ session'[k].mode = session[k].mode /\ session'[k].price = session[k].price
      /\ session'[k].metadata = session[k].metadata /\ session'[k].meant = session[k].meant
  BY <1>1 DEF PagesInv, PageShape, Closes, Pages
<1>3. \A j \in Sessions : session'[j] # None <=> session[j] # None
  BY <1>1, <1>2, CheckoutRecords DEF CheckoutRecords
<1>4. PageShape'
  BY <1>2, <1>3 DEF PagesInv, PageShape, Closes
<1>5. VisitInv'
  BY <1>3 DEF PagesInv, VisitInv, InCheckout, Closes, Fits
<1>6. OneVisit'
  BY DEF PagesInv, OneVisit, InCheckout, Closes
<1>7. PageInv'
  <2> SUFFICES ASSUME NEW j \in Sessions, session'[j] # None
               PROVE  Fits(session'[j]) /\ (session'[j].mode = "subscription" => session'[j].price \in SetPrices)
    BY DEF PageInv, Fits
  <2> QED
    BY <1>2, <1>3 DEF PagesInv, PageInv, Fits
<1>8. SaleInv'
  <2> SUFFICES ASSUME NEW x \in sales'
               PROVE  LET q == session'[x.session] IN
                      q # None /\ ~q.open /\ x.mode = q.mode /\ x.price = q.price /\ x.metadata = q.metadata
    BY DEF SaleInv
  <2>1. CASE x \in sales
    <3>1. /\ x.session \in Sessions /\ session[x.session] # None /\ ~session[x.session].open
          /\ x.mode = session[x.session].mode /\ x.price = session[x.session].price
          /\ x.metadata = session[x.session].metadata
      BY <2>1 DEF PagesInv, SaleInv, PageShape, Sales
    <3>2. session'[x.session] = session[x.session]
      BY <1>1, <1>2, <3>1
    <3> QED
      BY <3>1, <3>2
  <2>2. CASE x \notin sales
    BY <1>1, <1>2, <1>3, <2>2 DEF Closes
  <2> QED
    BY <2>1, <2>2
<1> QED
  BY <1>4, <1>5, <1>6, <1>7, <1>8 DEF PagesInv

LEMMA ExpireKeeps ==
  ASSUME PagesInv, NEW k \in Sessions, Expire(k)
  PROVE  PagesInv' /\ UNCHANGED vars
<1>1. Closes(k) /\ UNCHANGED vars
  BY DEF Expire, Closes, vars, PagesInv, PageShape
<1> QED
  BY <1>1, ClosesKeeps

LEMMA BuyKeeps ==
  ASSUME SubInv, PagesInv, NEW k \in Sessions, NEW s \in Subs, NEW i \in Items, Buy(k, s, i)
  PROVE  SubInv' /\ PagesInv'
<1>1. session[k] # None /\ session[k] \in Pages /\ session[k].open
  BY DEF Buy, PagesInv, PageShape
<1> DEFINE mode == session[k].mode
           price == session[k].price
           metadata == session[k].metadata
           x == [session |-> k, mode |-> mode, price |-> price, metadata |-> metadata]
<1>2. /\ sales' = sales \cup {x}
      /\ session' = [session EXCEPT ![k].open = FALSE]
      /\ UNCHANGED <<provider, call, told, lost, faults, replaced, visit, links, portal>>
  BY DEF Buy
<1>3. mode \in {"subscription", "payment"} /\ price \in PagePrices /\ metadata \in BOOLEAN
  BY <1>1 DEF Pages
<1>4. mode = "subscription" => price \in SetPrices
  BY <1>1 DEF PagesInv, PageInv
<1>5. /\ mode = "payment" => UNCHANGED <<sub, last, bought>>
      /\ mode # "payment" =>
           /\ sub[s] = None /\ \A d \in Calls : Busy(d) => call[d].on # s
           /\ sub' = [sub EXCEPT ![s] =
                [status |-> "active", items |-> {[id |-> i, price |-> price]}]]
           /\ last' = [last EXCEPT ![s] = price]
           /\ bought' = bought \cup {s}
  BY DEF Buy
<1>6. PagesInv'
  <2> HIDE DEF mode, price, metadata
  <2>1. x \in Sales /\ x.session = k /\ x.mode = mode /\ x.price = price /\ x.metadata = metadata
    BY <1>3 DEF Sales
  <2> HIDE DEF x
  <2>2. Closes(k)
    BY <1>1, <1>2, <2>1 DEF Closes, PagesInv, PageShape, mode, price, metadata
  <2> QED
    BY <2>2, ClosesKeeps
<1>7. SubInv'
  <2> HIDE DEF mode, price
  <2>1. CASE mode = "payment"
    <3>1. faults' \in 0..MaxFaults
      BY <1>2 DEF SubInv, SubShape
    <3> QED
      BY <1>2, <1>5, <2>1, <3>1, SubStays
  <2>2. CASE mode # "payment"
    <3>1. price \in SetPrices
      BY <1>3, <1>4, <2>2
    <3>2. Apart
      BY <1>2, <1>5, <2>2, <3>1, BuyApart
    <3> QED
      BY <3>2, ApartKeeps
  <2> QED
    BY <2>1, <2>2
<1> QED
  BY <1>6, <1>7

-----------------------------------------------------------------------------
(* The specification. *)

LEMMA InitInv ==
  ASSUME CheckoutInit
  PROVE  Inv
<1> USE DEF CheckoutInit, Init
<1>1. SubShape
  BY SubscriptionsAssumption DEF SubShape, SubscriptionsAssumption
<1>2. CallInv /\ CreateInv /\ FlagInv /\ DoneInv
  BY DEF CallInv, CreateInv, FlagInv, DoneInv, Busy, At
<1>3. OneItemAtLastPrice
  BY DEF OneItemAtLastPrice
<1>4. SubscriptionsAccounted
  BY DEF SubscriptionsAccounted, At, Busy
<1>5. PageShape
  BY DEF PageShape
<1>6. VisitInv /\ OneVisit /\ PageInv /\ SaleInv
  BY DEF VisitInv, OneVisit, PageInv, SaleInv, InCheckout
<1> QED
  BY <1>1, <1>2, <1>3, <1>4, <1>5, <1>6 DEF Inv, SubInv, PagesInv

LEMMA NextInv ==
  ASSUME Inv, [CheckoutNext]_allVars
  PROVE  Inv'
<1> USE DEF Inv
<1>1. ASSUME UNCHANGED vars PROVE SubInv'
  BY <1>1, SubStays DEF vars, SubInv, SubShape
<1>2. CASE Next /\ UNCHANGED checkoutVars
  <2>1. UNCHANGED provider
    BY <1>2 DEF Next
  <2> QED
    BY <1>2, <2>1, NextKeeps, PagesStay
<1>3. CASE Visiting
  <2>1. PICK v \in Visits :
          \/ \E k \in Sessions, use \in OfferUses : StartCheckout(v, k, use[1], use[2], use[3])
          \/ StartPortal(v)
          \/ CreateCheckoutSession(v) \/ CreatePortalSession(v) \/ RefuseVisit(v)
          \/ ReportVisit(v) \/ LoseVisit(v)
    BY <1>3 DEF Visiting
  <2>2. CASE \E k \in Sessions, use \in OfferUses : StartCheckout(v, k, use[1], use[2], use[3])
    BY <1>1, <2>2, StartCheckoutKeeps
  <2>3. CASE StartPortal(v)
    BY <1>1, <2>3, StartPortalKeeps
  <2>4. CASE CreateCheckoutSession(v) \/ CreatePortalSession(v) \/ RefuseVisit(v)
    BY <1>1, <2>4, CreateCheckoutSessionKeeps, CreatePortalSessionKeeps, RefuseVisitKeeps
  <2>5. CASE ReportVisit(v)
    BY <1>1, <2>5, ReportVisitKeeps
  <2>6. CASE LoseVisit(v)
    BY <2>6, LoseVisitKeeps
  <2> QED
    BY <2>1, <2>2, <2>3, <2>4, <2>5, <2>6
<1>4. CASE Customer
  <2>1. CASE \E k \in Sessions, s \in Subs, i \in Items : Buy(k, s, i)
    BY <2>1, BuyKeeps
  <2>2. CASE \E k \in Sessions : Expire(k)
    BY <1>1, <2>2, ExpireKeeps
  <2>3. ASSUME NEW s \in Subs, EndInPortal(s) PROVE Inv'
    <3>1. Apart
      BY <2>3, StatusApart DEF EndInPortal
    <3> QED
      BY <2>3, <3>1, ApartKeeps, PagesStay DEF EndInPortal
  <2>4. ASSUME NEW s \in Subs, NEW price \in Prices, SwitchPrice(s, price) PROVE Inv'
    <3>1. Apart
      BY <2>4, SwitchPriceApart
    <3> QED
      BY <2>4, <3>1, ApartKeeps, PagesStay DEF SwitchPrice
  <2> QED
    BY <1>4, <2>1, <2>2, <2>3, <2>4 DEF Customer
<1>5. CASE UNCHANGED allVars
  <2>1. UNCHANGED vars /\ UNCHANGED checkoutVars /\ UNCHANGED provider
    BY <1>5 DEF allVars, vars
  <2> QED
    BY <1>1, <2>1, PagesStay
<1> QED
  BY <1>2, <1>3, <1>4, <1>5 DEF CheckoutNext

LEMMA Invariance == CheckoutSpec => []Inv
<1>1. CheckoutInit => Inv
  BY InitInv
<1>2. Inv /\ [CheckoutNext]_allVars => Inv'
  BY NextInv
<1> QED
  BY <1>1, <1>2, PTL DEF CheckoutSpec

\* Every variable keeps its type, and Stripe's update of a price names an item
\* (UpdateSubscription).
THEOREM TypeCorrect == CheckoutSpec => []CheckoutTypeOK
<1>1. Inv => TypeOK
  BY DEF Inv, SubInv, SubShape, CallInv, CallOK, TypeOK, At, Busy
<1>2. Inv => CheckoutTypeOK
  BY <1>1 DEF Inv, PagesInv, PageShape, CheckoutTypeOK, Sales
<1> QED
  BY <1>2, Invariance, PTL

\* Whatever happens between the read and the write of UpdateSubscription, at the
\* dashboard and in the portal, a subscription has one item, at the price set last.
THEOREM OneItemStays == CheckoutSpec => []OneItemAtLastPrice
<1>1. Inv => OneItemAtLastPrice
  BY DEF Inv, SubInv
<1> QED
  BY <1>1, Invariance, PTL

\* No subscription comes to be but from a purchase or a create step, one for one,
\* though answers are lost (CreateSubscription, the checkout page).
THEOREM AllAccounted == CheckoutSpec => []SubscriptionsAccounted
<1>1. Inv => SubscriptionsAccounted
  BY DEF Inv, SubInv
<1> QED
  BY <1>1, Invariance, PTL

\* If the maps of legacy steps hold booleans for cancel_at_period_end, customers get
\* what workflows ask for (subscriptionCancelStep, parseConfigBool, the offer's fields).
THEOREM CustomersGetWhatIsAsked == ASSUME PlainUses PROVE CheckoutSpec => []AsAsked
<1>1. ASSUME Inv, PlainUses PROVE CancelsWhenAsked
  <2> SUFFICES ASSUME NEW c \in Calls, At(c, "cancel", "accepted")
               PROVE  call[c].did = IF provider = "stripe" /\ call[c].meant THEN "ending" ELSE "canceled"
    BY DEF CancelsWhenAsked
  <2>1. Busy(c) /\ call[c].op = "cancel" /\ call[c].atEnd = call[c].meant
    BY <1>1 DEF At, Inv, SubInv, FlagInv
  <2>2. provider \in {"stripe", "paypal"}
    BY <1>1, SubscriptionsAssumption DEF Inv, SubInv, SubShape, SubscriptionsAssumption
  <2>3. call[c].did = IF EndsNow(c) THEN "canceled" ELSE "ending"
    BY <1>1 DEF Inv, SubInv, DoneInv
  <2> QED
    BY <2>1, <2>2, <2>3 DEF EndsNow
<1>2. ASSUME Inv PROVE SoldAsAsked
  <2>1. ASSUME NEW x \in sales
        PROVE  /\ x.price = session[x.session].meant.price
               /\ (x.mode = "subscription") = session[x.session].meant.recurring
               /\ x.metadata => x.mode = "subscription"
    BY <1>2 DEF Inv, PagesInv, PageShape, Sales, PageInv, SaleInv, Fits
  <2>2. ASSUME NEW x \in sales, NEW y \in sales, x.session = y.session PROVE x = y
    <3>1. x.mode = y.mode /\ x.price = y.price /\ x.metadata = y.metadata
      BY <1>2, <2>2 DEF Inv, PagesInv, SaleInv
    <3>2. x \in Sales /\ y \in Sales
      BY <1>2 DEF Inv, PagesInv, PageShape
    <3> QED
      BY <2>2, <3>1, <3>2 DEF Sales
  <2> QED
    BY <2>1, <2>2 DEF SoldAsAsked
<1>3. ASSUME PlainUses PROVE Inv => AsAsked
  BY <1>1, <1>2, <1>3 DEF AsAsked
<1>4. Inv => AsAsked
  BY <1>3
<1> QED
  BY <1>4, Invariance, PTL
=============================================================================
