----------------------------- MODULE ChargesProofs -----------------------------
(***************************************************************************)
(* That the books balance and that money moves by the amounts workflows    *)
(* state, for any calls, payments, texts and number of lost answers.       *)
(***************************************************************************)
EXTENDS Charges, TLAPS

Shape ==
  /\ provider \in Providers
  /\ pay \in [Payments -> Held \cup {NoPayment}]
  /\ call \in [Calls -> Requests \cup {NoCall}]
  /\ made \subseteq Effects /\ told \subseteq Effects /\ lost \subseteq Effects
  /\ faults \in 0..MaxFaults

(* Nothing is refunded that was not captured, nothing captured beyond the      *)
(* amount, and only a payment in state "captured" has captured anything.       *)
PayInv ==
  \A p \in Payments : pay[p] # NoPayment =>
    /\ 0 <= pay[p].refunded /\ pay[p].refunded <= pay[p].captured
    /\ pay[p].captured <= pay[p].amount
    /\ pay[p].state # "captured" => pay[p].captured = 0

(* What a request names exists, unless it is to come to be.                    *)
CallOK(c) ==
  /\ call[c].op \in {"charge", "capture"} => call[c].id = call[c].on
  /\ call[c].op = "refund" => call[c].id \in Refunds
  /\ (call[c].op = "charge" /\ call[c].phase = "sent") => pay[call[c].on] = NoPayment
  /\ call[c].op # "charge" => pay[call[c].on] # NoPayment
  /\ (call[c].op # "charge" /\ call[c].phase = "accepted") => pay[call[c].on].state = "captured"
  /\ call[c].ref = "capture" => provider = "paypal"

CallInv == \A c \in Calls : Busy(c) => CallOK(c)

(* Ids of charges and refunds are used once; a payment is captured once.       *)
FreshInv ==
  /\ \A c, d \in Calls :
       (Busy(c) /\ Busy(d) /\ call[c].op # "capture" /\ Effect(c) = Effect(d)) => c = d
  /\ \A c \in Calls :
       (Busy(c) /\ call[c].op # "capture" /\ call[c].phase = "sent") => Effect(c) \notin made
  /\ \A p \in Payments : <<"capture", p>> \in made =>
       pay[p] # NoPayment /\ pay[p].state = "captured"

(* A request that was carried out and not answered yet is nobody else's.       *)
FlightInv ==
  \A c \in Calls : (Busy(c) /\ call[c].phase = "accepted") =>
    /\ Effect(c) \notin told \cup lost
    /\ \A d \in Calls :
         (Busy(d) /\ call[d].phase = "accepted" /\ Effect(d) = Effect(c)) => d = c

(* What is asked for is what is meant.                                         *)
MeantInv ==
  \A c \in Calls : (Busy(c) /\ call[c].meant # NotAnAmount) =>
    Positive(call[c].asked) = call[c].meant

IInv ==
  /\ Shape /\ PayInv /\ CallInv /\ FreshInv /\ FlightInv /\ MeantInv
  /\ BooksBalance /\ AmountsAsStated

-----------------------------------------------------------------------------
(* Amounts. *)

LEMMA TextsAre == ASSUME NEW t \in Texts PROVE t.kind \in TextKinds /\ t.n \in Int
BY ChargesAssumption DEF ChargesAssumption

\* Either front end arrives at a number ...
LEMMA AmountInt ==
  ASSUME NEW f \in Frontends, NEW config \in Texts, NEW current \in Texts
  PROVE  AmountOf(f, config, current) \in Int
BY TextsAre DEF AmountOf, LegacyAmount, TypedAmount, Lenient, Strict

\* ... which is the one its author means, if that is an amount.
LEMMA AmountMeant ==
  ASSUME NEW f \in Frontends, NEW config \in Texts, NEW current \in Texts,
         Meant(f, config, current) # NotAnAmount
  PROVE  Positive(AmountOf(f, config, current)) = Meant(f, config, current)
<1> DEFINE first == IF f = "legacy" THEN current ELSE config
           second == IF f = "legacy" THEN config ELSE current
           number(t) == IF f = "legacy" THEN Lenient(t) ELSE Strict(t)
<1>1. AmountOf(f, config, current) = IF number(first) # 0 THEN number(first) ELSE number(second)
  BY DEF AmountOf, LegacyAmount, TypedAmount
<1>2. first \in Texts /\ second \in Texts
  OBVIOUS
<1>3. \A t \in Texts : /\ t.kind = "blank" => number(t) = 0
                       /\ t.kind = "integer" => number(t) = t.n
  BY DEF Lenient, Strict
<1>4. Meant(f, config, current) =
        IF first.kind # "blank" THEN Number(first)
        ELSE IF second.kind = "blank" THEN NoAmount ELSE Number(second)
  BY DEF Meant
<1> HIDE DEF first, second, number
<1>5. CASE first.kind # "blank"
  <2>1. first.kind = "integer" /\ first.n > 0 /\ Meant(f, config, current) = first.n
    BY <1>4, <1>5 DEF Number
  <2>2. number(first) = first.n /\ first.n \in Int
    BY <1>2, <1>3, <2>1, TextsAre
  <2> QED
    BY <1>1, <2>1, <2>2 DEF Positive
<1>6. CASE first.kind = "blank" /\ second.kind = "blank"
  BY <1>1, <1>2, <1>3, <1>4, <1>6 DEF Positive
<1>7. CASE first.kind = "blank" /\ second.kind # "blank"
  <2>1. second.kind = "integer" /\ second.n > 0 /\ Meant(f, config, current) = second.n
    BY <1>4, <1>7 DEF Number
  <2>2. number(first) = 0 /\ number(second) = second.n /\ second.n \in Int
    BY <1>2, <1>3, <1>7, <2>1, TextsAre
  <2> QED
    BY <1>1, <2>1, <2>2 DEF Positive
<1> QED
  BY <1>5, <1>6, <1>7

LEMMA MeantTyped ==
  ASSUME NEW f \in Frontends, NEW config \in Texts, NEW current \in Texts
  PROVE  Meant(f, config, current) \in Int \cup {NoAmount, NotAnAmount}
BY TextsAre DEF Meant, Number

-----------------------------------------------------------------------------
(* A step begins. *)

\* A request r is sent whose id is free, if it is for a charge or a refund.
Begins(c, r) ==
  /\ call[c] = NoCall /\ call' = [call EXCEPT ![c] = r]
  /\ r \in Requests /\ r.phase = "sent"
  /\ r.op \in {"charge", "capture"} => r.id = r.on
  /\ r.op = "charge" => pay[r.on] = NoPayment /\ Free("charge", r.id)
  /\ r.op = "capture" => pay[r.on] # NoPayment
  /\ r.op = "refund" => pay[r.on] # NoPayment /\ r.id \in Refunds /\ Free("refund", r.id)
  /\ r.ref = "capture" => provider = "paypal"
  /\ r.meant # NotAnAmount => Positive(r.asked) = r.meant
  /\ UNCHANGED <<pay, made, told, lost, faults>>

LEMMA AskBegins ==
  ASSUME NEW c \in Calls, NEW op \in {"charge", "capture", "refund"}, NEW p \in Payments,
         NEW id \in Payments \cup Refunds, NEW ref \in {"charge", "capture"},
         NEW manual \in BOOLEAN, NEW currency \in Currencies \cup {DefaultCurrency},
         NEW f \in Frontends, NEW config \in Texts, NEW current \in Texts,
         Ask(c, op, p, id, ref, manual, currency, f, config, current)
  PROVE  \E r \in Requests :
           /\ call[c] = NoCall /\ call' = [call EXCEPT ![c] = r]
           /\ r.phase = "sent" /\ r.op = op /\ r.on = p /\ r.id = id /\ r.ref = ref
           /\ r.meant # NotAnAmount => Positive(r.asked) = r.meant
           /\ UNCHANGED <<pay, made, told, lost, faults>>
<1> DEFINE a == AmountOf(f, config, current)
           m == Meant(f, config, current)
           r == [op |-> op, on |-> p, id |-> id, ref |-> ref, manual |-> manual,
                 currency |-> currency, asked |-> a, meant |-> m, phase |-> "sent", moved |-> 0]
<1>1. a \in Int /\ m \in Int \cup {NoAmount, NotAnAmount}
  BY AmountInt, MeantTyped
<1>2. m # NotAnAmount => Positive(a) = m
  BY AmountMeant
<1>3. call[c] = NoCall /\ call' = [call EXCEPT ![c] = r] /\ UNCHANGED <<pay, made, told, lost, faults>>
  BY DEF Ask
<1> HIDE DEF a, m
<1>4. r \in Requests
  BY <1>1 DEF Requests
<1>5. /\ r.phase = "sent" /\ r.op = op /\ r.on = p /\ r.id = id /\ r.ref = ref
      /\ r.asked = a /\ r.meant = m
  OBVIOUS
<1> HIDE DEF r
<1> QED
  BY <1>2, <1>3, <1>4, <1>5

LEMMA StartBegins ==
  ASSUME NEW c \in Calls, Start(c)
  PROVE  \E r \in Requests : Begins(c, r)
<1>1. PICK f \in Frontends, config \in Texts, current \in Texts, p \in Payments :
        \/ \E mn \in BOOLEAN, u \in Currencies : StartCharge(c, p, f, config, current, mn, u)
        \/ StartCapture(c, p, f, config, current)
        \/ \E ref \in RefundRefs, x \in Refunds : StartRefund(c, p, x, ref, f, config, current)
  BY DEF Start
<1>2. CASE \E mn \in BOOLEAN, u \in Currencies : StartCharge(c, p, f, config, current, mn, u)
  <2>1. PICK mn \in BOOLEAN, u \in Currencies : StartCharge(c, p, f, config, current, mn, u)
    BY <1>2
  <2>2. PICK v \in Currencies \cup {DefaultCurrency} :
          /\ Ask(c, "charge", p, p, "charge", mn, v, f, config, current)
          /\ pay[p] = NoPayment /\ Free("charge", p)
    BY <2>1 DEF StartCharge
  <2>3. PICK r \in Requests :
          /\ call[c] = NoCall /\ call' = [call EXCEPT ![c] = r]
          /\ r.phase = "sent" /\ r.op = "charge" /\ r.on = p /\ r.id = p /\ r.ref = "charge"
          /\ r.meant # NotAnAmount => Positive(r.asked) = r.meant
          /\ UNCHANGED <<pay, made, told, lost, faults>>
    BY <2>2, AskBegins
  <2>4. Begins(c, r)
    BY <2>2, <2>3 DEF Begins
  <2> QED
    BY <2>4
<1>3. CASE StartCapture(c, p, f, config, current)
  <2>1. /\ Ask(c, "capture", p, p, "charge", FALSE, DefaultCurrency, f, config, current)
        /\ pay[p] # NoPayment
    BY <1>3 DEF StartCapture
  <2>2. PICK r \in Requests :
          /\ call[c] = NoCall /\ call' = [call EXCEPT ![c] = r]
          /\ r.phase = "sent" /\ r.op = "capture" /\ r.on = p /\ r.id = p /\ r.ref = "charge"
          /\ r.meant # NotAnAmount => Positive(r.asked) = r.meant
          /\ UNCHANGED <<pay, made, told, lost, faults>>
    BY <2>1, AskBegins
  <2>3. Begins(c, r)
    BY <2>1, <2>2 DEF Begins
  <2> QED
    BY <2>3
<1>4. CASE \E ref \in RefundRefs, x \in Refunds : StartRefund(c, p, x, ref, f, config, current)
  <2>1. PICK ref \in RefundRefs, x \in Refunds : StartRefund(c, p, x, ref, f, config, current)
    BY <1>4
  <2>2. /\ Ask(c, "refund", p, x, ref, FALSE, DefaultCurrency, f, config, current)
        /\ pay[p] # NoPayment /\ Free("refund", x) /\ (ref = "capture" => provider = "paypal")
    BY <2>1 DEF StartRefund
  <2>3. ref \in {"charge", "capture"}
    BY ChargesAssumption DEF ChargesAssumption
  <2>4. PICK r \in Requests :
          /\ call[c] = NoCall /\ call' = [call EXCEPT ![c] = r]
          /\ r.phase = "sent" /\ r.op = "refund" /\ r.on = p /\ r.id = x /\ r.ref = ref
          /\ r.meant # NotAnAmount => Positive(r.asked) = r.meant
          /\ UNCHANGED <<pay, made, told, lost, faults>>
    BY <2>2, <2>3, AskBegins
  <2>5. Begins(c, r)
    BY <2>2, <2>4 DEF Begins
  <2> QED
    BY <2>5
<1> QED
  BY <1>1, <1>2, <1>3, <1>4

\* What the goroutines wait for, apart from c.
Others(c) ==
  /\ call' \in [Calls -> Requests \cup {NoCall}]
  /\ \A d \in Calls : d # c => call'[d] = call[d]

LEMMA BeginsKeeps ==
  ASSUME IInv, NEW c \in Calls, NEW r \in Requests, Begins(c, r), UNCHANGED provider
  PROVE  IInv'
<1>1. /\ Others(c) /\ call'[c] = r /\ call[c] = NoCall /\ r # NoCall
      /\ UNCHANGED <<provider, pay, made, told, lost, faults>>
  BY RecordsAssumption DEF Begins, IInv, Shape, Others, RecordsAssumption
<1>2. Shape' /\ PayInv'
  BY <1>1 DEF IInv, Shape, PayInv, Others
<1>3. CallInv'
  <2> SUFFICES ASSUME NEW d \in Calls, Busy(d)' PROVE CallOK(d)'
    BY DEF CallInv
  <2>1. CASE d = c
    BY <1>1, <2>1 DEF Begins, CallOK, Requests
  <2>2. CASE d # c
    BY <1>1, <2>2 DEF IInv, CallInv, CallOK, Others, Busy
  <2> QED
    BY <2>1, <2>2
<1>4. FreshInv'
  <2>1. r.op # "capture" =>
          <<r.op, r.id>> \notin made /\ \A d \in Calls : Busy(d) => Effect(d) # <<r.op, r.id>>
    BY DEF Begins, Free, Requests
  <2> QED
    BY <1>1, <2>1 DEF IInv, FreshInv, Others, Busy, Effect
<1>5. r.phase = "sent"
  BY DEF Begins
<1>6. FlightInv'
  BY <1>1, <1>5 DEF IInv, FlightInv, Others, Busy, Effect
<1>7. MeantInv'
  BY <1>1 DEF IInv, MeantInv, Others, Busy, Begins
<1>8. BooksBalance'
  <2>1. InFlight' = InFlight
    BY <1>1, <1>5 DEF InFlight, Others, Busy, Effect
  <2> QED
    BY <1>1, <2>1 DEF IInv, BooksBalance
<1>9. AmountsAsStated'
  BY <1>1, <1>5 DEF IInv, AmountsAsStated, RefundsAsStated, CapturesAsStated, Accepted,
                    Others, Busy, Left
<1> QED
  BY <1>2, <1>3, <1>4, <1>6, <1>7, <1>8, <1>9 DEF IInv

-----------------------------------------------------------------------------
(* A step ends: its report or a lost answer. *)

Ends(c) ==
  /\ Busy(c) /\ call' = [call EXCEPT ![c] = NoCall]
  /\ \/ UNCHANGED <<told, lost>> /\ call[c].phase # "accepted"
     \/ told' = told \cup {Effect(c)} /\ UNCHANGED lost /\ call[c].phase = "accepted"
     \/ lost' = lost \cup {Effect(c)} /\ UNCHANGED told /\ call[c].phase = "accepted"
  /\ faults' \in 0..MaxFaults
  /\ UNCHANGED <<pay, made>>

LEMMA ReportEnds ==
  ASSUME IInv, NEW c \in Calls, Report(c)
  PROVE  Ends(c)
BY DEF Report, Ends, IsError, IInv, Shape

LEMMA LoseEnds ==
  ASSUME IInv, NEW c \in Calls, Lose(c)
  PROVE  Ends(c)
BY ChargesAssumption DEF Lose, Ends, IInv, Shape, ChargesAssumption

LEMMA EndsKeeps ==
  ASSUME IInv, NEW c \in Calls, Ends(c), UNCHANGED provider
  PROVE  IInv'
<1>1. Others(c) /\ call'[c] = NoCall /\ UNCHANGED <<provider, pay, made>>
  BY DEF Ends, IInv, Shape, Others
<1>2. \A d \in Calls : Busy(d)' => d # c /\ Busy(d) /\ call'[d] = call[d] /\ Effect(d)' = Effect(d)
  BY <1>1 DEF Others, Busy, Effect
<1>3. /\ call[c].phase = "accepted" => Effect(c) \in InFlight
      /\ InFlight' \subseteq InFlight
      /\ \A e \in InFlight : e \in InFlight' \/ (e = Effect(c) /\ call[c].phase = "accepted")
  <2>1. call[c].phase = "accepted" => Effect(c) \in InFlight
    BY DEF Ends, InFlight
  <2>2. InFlight' \subseteq InFlight
    BY <1>2 DEF InFlight
  <2>3. ASSUME NEW d \in Calls, Busy(d), call[d].phase = "accepted", d # c
        PROVE  Effect(d) \in InFlight'
    <3>1. Busy(d)' /\ Effect(d)' = Effect(d) /\ call'[d].phase = "accepted"
      BY <1>1, <2>3 DEF Others, Busy, Effect
    <3> QED
      BY <3>1 DEF InFlight
  <2> QED
    BY <2>1, <2>2, <2>3 DEF InFlight
<1>4. Shape'
  <2>1. call[c].phase = "accepted" => Effect(c) \in Effects
    BY <1>3 DEF IInv, Shape, BooksBalance
  <2> QED
    BY <1>1, <2>1 DEF IInv, Shape, Ends, Others
<1>5. PayInv'
  BY <1>1 DEF IInv, PayInv
<1>6. CallInv'
  BY <1>1, <1>2 DEF IInv, CallInv, CallOK
<1>7. FreshInv'
  BY <1>1, <1>2 DEF IInv, FreshInv
<1>8. FlightInv'
  BY <1>2 DEF IInv, FlightInv, Ends
<1>9. MeantInv'
  BY <1>2 DEF IInv, MeantInv
<1>10. BooksBalance'
  BY <1>1, <1>3 DEF IInv, BooksBalance, FlightInv, Ends
<1>11. AmountsAsStated'
  BY <1>1, <1>2 DEF IInv, AmountsAsStated, RefundsAsStated, CapturesAsStated, Accepted, Left
<1> QED
  BY <1>4, <1>5, <1>6, <1>7, <1>8, <1>9, <1>10, <1>11 DEF IInv

-----------------------------------------------------------------------------
(* The provider answers. *)

\* c's request turns into one that differs in its phase and what it moved.
Answered(c, phase) ==
  /\ Others(c) /\ Busy(c) /\ call[c].phase = "sent"
  /\ call'[c] \in Requests /\ call'[c].phase = phase
  /\ call'[c].op = call[c].op /\ call'[c].on = call[c].on /\ call'[c].id = call[c].id
  /\ call'[c].ref = call[c].ref
  /\ call'[c].asked = call[c].asked /\ call'[c].meant = call[c].meant

LEMMA RefuseKeeps ==
  ASSUME IInv, NEW c \in Calls, Refuse(c), UNCHANGED provider
  PROVE  IInv'
<1>1. UNCHANGED <<provider, pay, made, told, lost, faults>>
  BY DEF Refuse
<1>2. Answered(c, "refused")
  BY DEF Refuse, Sent, Answered, Others, Busy, IInv, Shape, Requests
<1>3. \A d \in Calls : /\ Busy(d)' => Busy(d) /\ Effect(d)' = Effect(d)
                       /\ Busy(d)' /\ d # c => call'[d] = call[d]
  BY <1>2, RecordsAssumption DEF Answered, Others, Busy, Effect
<1>4. Shape' /\ PayInv'
  BY <1>1, <1>2 DEF IInv, Shape, PayInv, Answered, Others
<1>5. CallInv'
  BY <1>1, <1>2, <1>3 DEF IInv, CallInv, CallOK, Answered
<1>6. FreshInv'
  BY <1>1, <1>2, <1>3 DEF IInv, FreshInv, Answered
<1>7. FlightInv'
  BY <1>1, <1>2, <1>3 DEF IInv, FlightInv, Answered
<1>8. MeantInv'
  BY <1>2, <1>3 DEF IInv, MeantInv, Answered
<1>9. BooksBalance'
  <2>1. InFlight' = InFlight
    BY <1>2, <1>3, RecordsAssumption DEF InFlight, Answered, Others, Busy, Effect
  <2> QED
    BY <1>1, <2>1 DEF IInv, BooksBalance
<1>10. AmountsAsStated'
  BY <1>1, <1>2, <1>3 DEF IInv, AmountsAsStated, RefundsAsStated, CapturesAsStated, Accepted,
                          Answered, Left
<1> QED
  BY <1>4, <1>5, <1>6, <1>7, <1>8, <1>9, <1>10 DEF IInv

(* What a payment is never undone: one that was captured stays, with its      *)
(* amounts, and nothing is refunded of it when nothing is left.                *)
PayGrows ==
  \A p \in Payments : pay[p] # NoPayment =>
    /\ pay'[p] # NoPayment
    /\ pay[p].state = "captured" =>
         /\ pay'[p].state = "captured"
         /\ pay'[p].amount = pay[p].amount /\ pay'[p].captured = pay[p].captured
         /\ pay[p].refunded = pay[p].captured => pay'[p].refunded = pay[p].refunded

\* Payments keep to their type, and nothing comes to be but what c asks for.
PayStep(c) ==
  /\ PayGrows /\ PayInv'
  /\ pay' \in [Payments -> Held \cup {NoPayment}]
  /\ \A p \in Payments : (pay[p] = NoPayment /\ pay'[p] # NoPayment) =>
       call[c].op = "charge" /\ call[c].on = p

\* What c asked for is done, as far as what moved is as stated.
Done(c) ==
  /\ Answered(c, "accepted") /\ PayStep(c)
  /\ made' = made \cup {Effect(c)} /\ UNCHANGED <<told, lost, faults>>
  /\ call[c].op = "charge" => pay'[call[c].on] # NoPayment
  /\ call[c].op = "capture" =>
       /\ pay[call[c].on].state # "captured"
       /\ call[c].meant # NotAnAmount =>
            call'[c].moved = IF provider = "paypal" \/ call[c].meant = NoAmount
                               THEN pay'[call[c].on].amount ELSE call[c].meant
  /\ call[c].op # "charge" => pay'[call[c].on].state = "captured"
  /\ (call[c].op = "refund" /\ call[c].meant # NotAnAmount) =>
       IF call[c].meant = NoAmount
         THEN pay'[call[c].on].refunded = pay'[call[c].on].captured
         ELSE call'[c].moved = call[c].meant

LEMMA DoneKeeps ==
  ASSUME IInv, NEW c \in Calls, Done(c), UNCHANGED provider
  PROVE  IInv'
<1> DEFINE p == call[c].on
<1>1. Answered(c, "accepted") /\ PayStep(c) /\ UNCHANGED <<provider, told, lost, faults>>
      /\ made' = made \cup {Effect(c)}
  BY DEF Done
<1>2. \A d \in Calls : /\ Busy(d)' <=> Busy(d)
                       /\ Busy(d) => Effect(d)' = Effect(d)
                       /\ d # c => call'[d] = call[d]
  BY <1>1, RecordsAssumption DEF Answered, Others, Busy, Effect, RecordsAssumption
<1>3. /\ Busy(c) /\ call[c] \in Requests /\ p \in Payments /\ call[c].phase = "sent"
      /\ \A d \in Calls : Busy(d) => call[d] \in Requests /\ call[d].on \in Payments
  BY <1>1 DEF IInv, Shape, Answered, Busy, Requests
<1>4. Effect(c) \notin made /\ Effect(c) \in Effects
  <2>1. call[c].op \in {"charge", "capture"} => Effect(c) = <<call[c].op, p>>
    BY <1>3 DEF IInv, CallInv, CallOK, Effect
  <2>2. CASE call[c].op = "capture"
    BY <1>3, <2>1, <2>2 DEF IInv, FreshInv, Done, Effects
  <2>3. CASE call[c].op = "charge"
    BY <1>3, <2>1, <2>3 DEF IInv, FreshInv, Effects
  <2>4. CASE call[c].op = "refund"
    BY <1>3, <2>4 DEF IInv, FreshInv, CallInv, CallOK, Effect, Effects
  <2> QED
    BY <1>3, <2>2, <2>3, <2>4 DEF Requests
<1>5. Shape'
  BY <1>1, <1>4 DEF IInv, Shape, Answered, Others, PayStep
<1>6. PayInv'
  BY <1>1 DEF PayStep
<1>7. CallInv'
  <2> SUFFICES ASSUME NEW d \in Calls, Busy(d)' PROVE CallOK(d)'
    BY DEF CallInv
  <2>1. CASE d = c
    BY <1>1, <1>3, <2>1 DEF IInv, CallInv, CallOK, Answered, Done, PayStep, PayGrows
  <2>2. CASE d # c
    <3>1. call'[d] = call[d] /\ Busy(d) /\ CallOK(d) /\ call[d].on \in Payments
      BY <1>2, <1>3, <2>2 DEF IInv, CallInv
    <3>2. (call[d].op = "charge" /\ call[d].phase = "sent") => pay'[call[d].on] = NoPayment
      <4> SUFFICES ASSUME call[d].op = "charge", call[d].phase = "sent",
                          pay'[call[d].on] # NoPayment
                   PROVE  FALSE
        OBVIOUS
      <4>1. call[c].op = "charge" /\ call[c].on = call[d].on
        BY <1>1, <3>1 DEF CallOK, PayStep
      <4>2. Effect(c) = Effect(d)
        BY <1>3, <3>1, <4>1 DEF IInv, CallInv, CallOK, Effect
      <4> QED
        BY <1>3, <2>2, <3>1, <4>1, <4>2 DEF IInv, FreshInv
    <3> QED
      BY <1>1, <3>1, <3>2 DEF CallOK, PayStep, PayGrows
  <2> QED
    BY <2>1, <2>2
<1>8. FreshInv'
  <2>1. \A d, e \in Calls :
          (Busy(d) /\ Busy(e) /\ call[d].op # "capture" /\ Effect(d) = Effect(e)) => d = e
    BY DEF IInv, FreshInv
  <2>2. ASSUME NEW d \in Calls, Busy(d)', call'[d].op # "capture", call'[d].phase = "sent"
        PROVE  Effect(d)' \notin made'
    BY <1>1, <1>2, <1>3, <2>1, <2>2 DEF IInv, FreshInv, Answered
  <2>3. ASSUME NEW q \in Payments, <<"capture", q>> \in made'
        PROVE  pay'[q] # NoPayment /\ pay'[q].state = "captured"
    <3>1. CASE <<"capture", q>> \in made
      BY <1>1, <3>1 DEF IInv, FreshInv, PayStep, PayGrows
    <3>2. CASE <<"capture", q>> = Effect(c)
      <4>1. call[c].op = "capture" /\ call[c].on = q /\ pay[q] # NoPayment
        BY <1>3, <3>2 DEF IInv, CallInv, CallOK, Effect
      <4> QED
        BY <1>1, <4>1 DEF Done, PayStep, PayGrows
    <3> QED
      BY <1>1, <2>3, <3>1, <3>2
  <2>4. \A d, e \in Calls :
          (Busy(d)' /\ Busy(e)' /\ call'[d].op # "capture" /\ Effect(d)' = Effect(e)') => d = e
    BY <1>1, <1>2, <2>1 DEF Answered
  <2> QED
    BY <2>2, <2>3, <2>4 DEF FreshInv
<1>9. InFlight \subseteq made /\ told \subseteq made /\ lost \subseteq made
  BY DEF IInv, BooksBalance
<1>10. \A d \in Calls : (Busy(d) /\ call[d].phase = "accepted") => Effect(d) \in InFlight
  BY DEF InFlight
<1>11. FlightInv'
  BY <1>1, <1>2, <1>3, <1>4, <1>9, <1>10 DEF IInv, FlightInv
<1>12. MeantInv'
  BY <1>1, <1>2 DEF IInv, MeantInv, Answered
<1>13. BooksBalance'
  <2>1. InFlight' = InFlight \cup {Effect(c)}
    BY <1>1, <1>2, <1>3 DEF InFlight, Answered
  <2> QED
    BY <1>1, <2>1 DEF IInv, BooksBalance
<1>14. AmountsAsStated'
  <2>1. ASSUME NEW d \in Calls, Accepted(d, "refund")', call'[d].meant # NotAnAmount
        PROVE  IF call'[d].meant = NoAmount
                 THEN pay'[call'[d].on].captured - pay'[call'[d].on].refunded = 0
                 ELSE call'[d].moved = call'[d].meant
    <3>1. PICK q \in Payments : q = call'[d].on /\ q = call[d].on
      BY <1>1, <1>2, <1>3, <2>1 DEF Accepted, Answered
    <3>2. pay[q] # NoPayment /\ pay'[q] # NoPayment
      BY <1>1, <1>2, <1>3, <2>1, <3>1
      DEF IInv, CallInv, CallOK, Accepted, Answered, PayStep, PayGrows
    <3>3. pay[q] \in Held /\ pay'[q] \in Held
      BY <1>1, <3>2 DEF PayStep, IInv, Shape
    <3>4. /\ pay[q].captured \in Int /\ pay[q].refunded \in Int
          /\ pay'[q].captured \in Int /\ pay'[q].refunded \in Int
      BY <3>3 DEF Held
    <3>5. CASE d = c
      BY <1>1, <1>3, <2>1, <3>1, <3>4, <3>5 DEF Accepted, Answered, Done
    <3>6. CASE d # c
      <4>1. call'[d] = call[d] /\ Accepted(d, "refund") /\ pay[q].state = "captured"
        BY <1>2, <2>1, <3>1, <3>6 DEF IInv, CallInv, CallOK, Accepted
      <4>2. IF call[d].meant = NoAmount THEN pay[q].captured - pay[q].refunded = 0
            ELSE call[d].moved = call[d].meant
        BY <2>1, <3>1, <4>1 DEF IInv, AmountsAsStated, RefundsAsStated, Left
      <4>3. /\ pay'[q].captured = pay[q].captured
            /\ pay[q].refunded = pay[q].captured => pay'[q].refunded = pay[q].refunded
        BY <1>1, <3>2, <4>1 DEF PayStep, PayGrows
      <4> QED
        BY <3>1, <3>4, <4>1, <4>2, <4>3
    <3> QED
      BY <3>5, <3>6
  <2>2. ASSUME NEW d \in Calls, Accepted(d, "capture")', call'[d].meant # NotAnAmount
        PROVE  call'[d].moved = IF provider' = "paypal" \/ call'[d].meant = NoAmount
                                  THEN pay'[call'[d].on].amount ELSE call'[d].meant
    <3>1. CASE d = c
      BY <1>1, <1>3, <2>2, <3>1 DEF Accepted, Answered, Done
    <3>2. CASE d # c
      BY <1>1, <1>2, <1>3, <2>2, <3>2
      DEF IInv, AmountsAsStated, CapturesAsStated, CallInv, CallOK, Accepted, PayStep, PayGrows
    <3> QED
      BY <3>1, <3>2
  <2>3. RefundsAsStated'
    BY <2>1 DEF RefundsAsStated, Left
  <2>4. CapturesAsStated'
    BY <2>2 DEF CapturesAsStated
  <2> QED
    BY <2>3, <2>4 DEF AmountsAsStated
<1> QED
  BY <1>5, <1>6, <1>7, <1>8, <1>11, <1>12, <1>13, <1>14 DEF IInv

-----------------------------------------------------------------------------
(* Each of the provider's steps does what c asked for. *)

LEMMA AcceptAnswers ==
  ASSUME IInv, NEW c \in Calls, Busy(c), call[c].phase = "sent", NEW moved \in Int,
         call' = [call EXCEPT ![c].phase = "accepted", ![c].moved = moved]
  PROVE  Answered(c, "accepted") /\ call'[c].moved = moved
BY DEF Answered, Others, Busy, IInv, Shape, Requests

LEMMA CallTyped ==
  ASSUME IInv, NEW c \in Calls, Busy(c)
  PROVE  /\ call[c] \in Requests /\ call[c].on \in Payments /\ call[c].asked \in Int
         /\ pay[call[c].on] # NoPayment => pay[call[c].on] \in Held
BY DEF IInv, Shape, Busy, Requests

LEMMA CreateDone ==
  ASSUME IInv, NEW c \in Calls, CreateCharge(c)
  PROVE  Done(c)
<1> DEFINE p == call[c].on
           h == [amount |-> call[c].asked, currency |-> call[c].currency,
                 manual |-> call[c].manual, state |-> "open", captured |-> 0, refunded |-> 0]
<1>1. /\ Busy(c) /\ call[c].op = "charge" /\ call[c].phase = "sent" /\ call[c].asked >= 1
      /\ pay' = [pay EXCEPT ![p] = h]
      /\ call' = [call EXCEPT ![c].phase = "accepted", ![c].moved = 0]
      /\ made' = made \cup {Effect(c)} /\ UNCHANGED <<told, lost, faults>>
  BY DEF CreateCharge, Sent, AcceptsCharge, SentAmount, Accept
<1>2. Answered(c, "accepted")
  <2>1. 0 \in Int
    OBVIOUS
  <2> QED
    BY <1>1, <2>1, AcceptAnswers
<1>3. p \in Payments /\ pay[p] = NoPayment /\ call[c].asked \in Int
  BY <1>1, CallTyped DEF IInv, CallInv, CallOK
<1>4. h \in Held
  BY <1>1, <1>3, CallTyped DEF Held, Requests, States
<1>5. h.captured = 0 /\ h.refunded = 0 /\ h.amount >= 1 /\ h.amount \in Int /\ h.state = "open"
  BY <1>1, <1>3
<1> HIDE DEF h
<1>6. h # NoPayment
  BY <1>4, RecordsAssumption DEF RecordsAssumption
<1>7. PayInv' /\ PayGrows /\ pay' \in [Payments -> Held \cup {NoPayment}]
  BY <1>1, <1>3, <1>4, <1>5 DEF IInv, Shape, PayInv, PayGrows
<1>8. PayStep(c) /\ pay'[p] # NoPayment
  BY <1>1, <1>3, <1>6, <1>7 DEF PayStep, IInv, Shape
<1> QED
  BY <1>1, <1>2, <1>8 DEF Done

LEMMA CaptureDone ==
  ASSUME IInv, NEW c \in Calls, CaptureCharge(c)
  PROVE  Done(c)
<1> DEFINE p == call[c].on
           moved == Moves(c, pay[p].amount)
<1>1. /\ Busy(c) /\ call[c].op = "capture" /\ call[c].phase = "sent"
      /\ pay[p].state = "authorised" /\ Within(SentAmount(c), pay[p].amount)
      /\ pay' = [pay EXCEPT ![p].state = "captured", ![p].captured = moved]
      /\ call' = [call EXCEPT ![c].phase = "accepted", ![c].moved = moved]
      /\ made' = made \cup {Effect(c)} /\ UNCHANGED <<told, lost, faults>>
  BY DEF CaptureCharge, Sent, AcceptsCapture, Accept
<1>2. p \in Payments /\ pay[p] # NoPayment /\ pay[p] \in Held /\ call[c].asked \in Int
  BY <1>1, CallTyped DEF IInv, CallInv, CallOK
<1>3. /\ pay[p].captured = 0 /\ pay[p].refunded = 0 /\ pay[p].amount >= 0
      /\ pay[p].amount \in Int
  BY <1>1, <1>2 DEF IInv, PayInv, Held
<1>4. SentAmount(c) = NoAmount \/ SentAmount(c) \in Int
  BY <1>1, <1>2 DEF SentAmount, Positive
<1>5. moved \in Int /\ 0 <= moved /\ moved <= pay[p].amount
  BY <1>1, <1>3, <1>4 DEF Moves, Within
<1>6. call[c].meant # NotAnAmount =>
        moved = IF provider = "paypal" \/ call[c].meant = NoAmount
                  THEN pay[p].amount ELSE call[c].meant
  BY <1>1 DEF IInv, MeantInv, Moves, SentAmount
<1> HIDE DEF moved
<1>7. Answered(c, "accepted") /\ call'[c].moved = moved
  BY <1>1, <1>5, AcceptAnswers
<1>8. /\ pay' \in [Payments -> Held \cup {NoPayment}] /\ pay'[p] \in Held
      /\ \A q \in Payments : q # p => pay'[q] = pay[q]
      /\ pay'[p].state = "captured" /\ pay'[p].captured = moved
      /\ pay'[p].amount = pay[p].amount /\ pay'[p].refunded = pay[p].refunded
  BY <1>1, <1>2, <1>5 DEF IInv, Shape, Held, States
<1>9. pay'[p] # NoPayment
  BY <1>8, RecordsAssumption DEF RecordsAssumption
<1>10. PayInv'
  BY <1>3, <1>5, <1>8 DEF IInv, PayInv
<1>11. PayGrows
  BY <1>1, <1>8, <1>9 DEF PayGrows
<1> QED
  BY <1>1, <1>2, <1>6, <1>7, <1>8, <1>9, <1>10, <1>11 DEF Done, PayStep

LEMMA RefundDone ==
  ASSUME IInv, NEW c \in Calls, RefundCharge(c)
  PROVE  Done(c)
<1> DEFINE p == call[c].on
           moved == Moves(c, Left(p))
<1>1. /\ Busy(c) /\ call[c].op = "refund" /\ call[c].phase = "sent"
      /\ Left(p) > 0 /\ Within(SentAmount(c), Left(p))
      /\ pay' = [pay EXCEPT ![p].refunded = @ + moved]
      /\ call' = [call EXCEPT ![c].phase = "accepted", ![c].moved = moved]
      /\ made' = made \cup {Effect(c)} /\ UNCHANGED <<told, lost, faults>>
  BY DEF RefundCharge, Sent, AcceptsRefund, Accept
<1>2. p \in Payments /\ pay[p] # NoPayment /\ pay[p] \in Held /\ call[c].asked \in Int
  BY <1>1, CallTyped DEF IInv, CallInv, CallOK
<1>3. /\ pay[p].captured \in Int /\ pay[p].refunded \in Int /\ pay[p].amount \in Int
      /\ 0 <= pay[p].refunded /\ pay[p].captured <= pay[p].amount
      /\ pay[p].state # "captured" => pay[p].captured = 0
      /\ pay[p].captured - pay[p].refunded > 0 /\ Left(p) = pay[p].captured - pay[p].refunded
  BY <1>1, <1>2 DEF IInv, PayInv, Held, Left
<1>4. pay[p].state = "captured"
  BY <1>3
<1>5. SentAmount(c) = Positive(call[c].asked)
  BY <1>1 DEF SentAmount
<1>6. moved \in Int /\ 0 < moved /\ moved <= Left(p)
  BY <1>1, <1>2, <1>3, <1>5 DEF Moves, Within, Positive
<1>7. call[c].meant # NotAnAmount =>
        moved = IF call[c].meant = NoAmount THEN Left(p) ELSE call[c].meant
  BY <1>1, <1>5 DEF IInv, MeantInv, Moves
<1> HIDE DEF moved
<1>8. Answered(c, "accepted") /\ call'[c].moved = moved
  BY <1>1, <1>6, AcceptAnswers
<1>9. /\ pay' \in [Payments -> Held \cup {NoPayment}] /\ pay'[p] \in Held
      /\ \A q \in Payments : q # p => pay'[q] = pay[q]
      /\ pay'[p].state = pay[p].state /\ pay'[p].captured = pay[p].captured
      /\ pay'[p].amount = pay[p].amount /\ pay'[p].refunded = pay[p].refunded + moved
  BY <1>1, <1>2, <1>3, <1>6 DEF IInv, Shape, Held
<1>10. pay'[p] # NoPayment
  BY <1>9, RecordsAssumption DEF RecordsAssumption
<1>11. PayInv'
  BY <1>3, <1>4, <1>6, <1>9 DEF IInv, PayInv
<1>12. PayGrows
  BY <1>3, <1>9, <1>10 DEF PayGrows
<1>13. (call[c].meant # NotAnAmount /\ call[c].meant = NoAmount) =>
         pay'[p].refunded = pay'[p].captured
  BY <1>3, <1>7, <1>9
<1> QED
  BY <1>1, <1>2, <1>4, <1>7, <1>8, <1>9, <1>10, <1>11, <1>12, <1>13 DEF Done, PayStep

LEMMA PayerPaysKeeps ==
  ASSUME IInv, NEW p \in Payments, PayerPays(p), UNCHANGED provider
  PROVE  IInv'
<1>1. UNCHANGED <<provider, made, call, told, lost, faults>>
  BY DEF PayerPays
<1>2. pay[p] \in Held /\ pay[p].state = "open" /\ pay[p].amount \in Int
  BY DEF PayerPays, IInv, Shape, Held
<1>3. /\ pay[p].captured = 0 /\ pay[p].refunded = 0 /\ pay[p].amount >= 0
  BY <1>2 DEF IInv, PayInv, Held, PayerPays
<1>4. /\ pay' \in [Payments -> Held \cup {NoPayment}] /\ pay'[p] \in Held
      /\ \A q \in Payments : q # p => pay'[q] = pay[q]
      /\ pay'[p].amount = pay[p].amount /\ pay'[p].refunded = 0
      /\ pay'[p].captured = 0 \/ (pay'[p].captured = pay[p].amount /\ pay'[p].state = "captured")
  <2>1. CASE pay' = [pay EXCEPT ![p].state = "captured", ![p].captured = pay[p].amount]
    BY <1>2, <1>3, <2>1 DEF IInv, Shape, Held, States
  <2>2. CASE pay' = [pay EXCEPT ![p].state = "authorised"]
    BY <1>2, <1>3, <2>2 DEF IInv, Shape, Held, States
  <2> QED
    BY <2>1, <2>2 DEF PayerPays
<1>5. pay'[p] # NoPayment
  BY <1>4, RecordsAssumption DEF RecordsAssumption
<1>6. \A q \in Payments : /\ pay[q] = NoPayment => pay'[q] = NoPayment
                          /\ pay[q] # NoPayment => pay'[q] # NoPayment
                          /\ (pay[q] # NoPayment /\ pay[q].state = "captured") => pay'[q] = pay[q]
  <2> TAKE q \in Payments
  <2>1. CASE q = p
    BY <1>2, <1>5, <2>1 DEF PayerPays
  <2>2. CASE q # p
    BY <1>4, <2>2
  <2> QED
    BY <2>1, <2>2
<1>7. Shape' /\ PayInv'
  <2>1. Shape'
    BY <1>1, <1>4 DEF IInv, Shape
  <2>2. \A q \in Payments : q # p => pay'[q] = pay[q]
    BY <1>4
  <2>3. /\ 0 <= pay'[p].refunded /\ pay'[p].refunded <= pay'[p].captured
        /\ pay'[p].captured <= pay'[p].amount
        /\ pay'[p].state # "captured" => pay'[p].captured = 0
    BY <1>2, <1>3, <1>4
  <2> QED
    BY <2>1, <2>2, <2>3 DEF IInv, PayInv
<1>8. \A c \in Calls : Busy(c) => call[c].on \in Payments
  BY CallTyped
<1>9. CallInv'
  BY <1>1, <1>6, <1>8 DEF IInv, CallInv, CallOK, Busy
<1>10. FreshInv' /\ FlightInv' /\ MeantInv' /\ BooksBalance'
  BY <1>1, <1>6 DEF IInv, FreshInv, FlightInv, MeantInv, BooksBalance, Busy, Effect, InFlight
<1>11. AmountsAsStated'
  <2>1. \A c \in Calls : (Accepted(c, "refund") \/ Accepted(c, "capture")) =>
          pay'[call[c].on] = pay[call[c].on]
    BY <1>6, <1>8 DEF IInv, CallInv, CallOK, Accepted
  <2> QED
    BY <1>1, <2>1 DEF IInv, AmountsAsStated, RefundsAsStated, CapturesAsStated, Accepted,
                      Busy, Left
<1> QED
  BY <1>7, <1>9, <1>10, <1>11 DEF IInv

-----------------------------------------------------------------------------
LEMMA InitInv == Init => IInv
<1> SUFFICES ASSUME Init PROVE IInv
  OBVIOUS
<1>1. Shape
  BY ChargesAssumption DEF Init, Shape, ChargesAssumption
<1>2. PayInv /\ CallInv /\ FreshInv /\ FlightInv /\ MeantInv
  BY DEF Init, PayInv, CallInv, FreshInv, FlightInv, MeantInv, Busy
<1>3. BooksBalance /\ AmountsAsStated
  BY DEF Init, BooksBalance, InFlight, AmountsAsStated, RefundsAsStated, CapturesAsStated,
         Accepted, Busy
<1> QED
  BY <1>1, <1>2, <1>3 DEF IInv

LEMMA NextInv == IInv /\ [Next]_vars => IInv'
<1> SUFFICES ASSUME IInv, [Next]_vars PROVE IInv'
  OBVIOUS
<1>1. CASE UNCHANGED vars
  BY <1>1 DEF vars, IInv, Shape, PayInv, CallInv, CallOK, FreshInv, FlightInv, MeantInv,
              BooksBalance, AmountsAsStated, RefundsAsStated, CapturesAsStated, Accepted,
              InFlight, Busy, Effect, Left
<1>2. ASSUME NEW c \in Calls, Start(c), UNCHANGED provider PROVE IInv'
  BY <1>2, StartBegins, BeginsKeeps
<1>3. ASSUME NEW c \in Calls, Serve(c), UNCHANGED provider PROVE IInv'
  BY <1>3, CreateDone, CaptureDone, RefundDone, DoneKeeps, RefuseKeeps DEF Serve
<1>4. ASSUME NEW c \in Calls, Report(c) \/ Lose(c), UNCHANGED provider PROVE IInv'
  BY <1>4, ReportEnds, LoseEnds, EndsKeeps
<1>5. ASSUME NEW p \in Payments, PayerPays(p), UNCHANGED provider PROVE IInv'
  BY <1>5, PayerPaysKeeps
<1> QED
  BY <1>1, <1>2, <1>3, <1>4, <1>5 DEF Next

LEMMA TypeFollows == IInv => TypeOK
<1> SUFFICES ASSUME IInv PROVE TypeOK
  OBVIOUS
<1>1. \A c \in Calls : Busy(c) => call[c] \in Requests /\ Effect(c) \in Effects
  BY DEF IInv, Shape, CallInv, CallOK, Busy, Effect, Effects, Requests
<1>2. \A p \in Payments : pay[p] = NoPayment \/
        (pay[p] \in Held /\ 0 <= pay[p].refunded /\ pay[p].refunded <= pay[p].captured
                         /\ pay[p].captured <= pay[p].amount)
  BY DEF IInv, Shape, PayInv
<1> QED
  BY <1>1, <1>2 DEF TypeOK, IInv, Shape

\* The provider's books and the steps' requests are well formed: nothing is refunded
\* beyond what was captured, nothing captured beyond what was authorised.
THEOREM TypeCorrect == Spec => []TypeOK
<1>1. Init => IInv
  BY InitInv
<1>2. IInv /\ [Next]_vars => IInv'
  BY NextInv
<1>3. IInv => TypeOK
  BY TypeFollows
<1> QED
  BY <1>1, <1>2, <1>3, PTL DEF Spec

\* What the provider carried out is what steps reported, are about to report, or lost.
THEOREM BooksAlwaysBalance == Spec => []BooksBalance
<1>1. Init => IInv
  BY InitInv
<1>2. IInv /\ [Next]_vars => IInv'
  BY NextInv
<1>3. IInv => BooksBalance
  BY DEF IInv
<1> QED
  BY <1>1, <1>2, <1>3, PTL DEF Spec

\* Money moves by the amounts workflows state, whichever front end reads them.
THEOREM MoneyMovesAsStated == Spec => []AmountsAsStated
<1>1. Init => IInv
  BY InitInv
<1>2. IInv /\ [Next]_vars => IInv'
  BY NextInv
<1>3. IInv => AmountsAsStated
  BY DEF IInv
<1> QED
  BY <1>1, <1>2, <1>3, PTL DEF Spec

-----------------------------------------------------------------------------
(* Why the provider refuses. *)

LEMMA RefuseHasCause ==
  ASSUME IInv, NEW c \in Calls, Refuse(c)
  PROVE  RefusalHasCause(c)
<1> DEFINE p == call[c].on
<1> SUFFICES ASSUME RefusedNow(c, "capture") \/ RefusedNow(c, "refund") PROVE RefusalHasCause(c)
  BY DEF RefusalHasCause
<1>1. Busy(c) /\ call[c].phase = "sent" /\ call[c].op \in {"capture", "refund"}
  BY DEF RefusedNow, Sent
<1>2. /\ p \in Payments /\ pay[p] # NoPayment /\ pay[p] \in Held
      /\ call[c] \in Requests /\ call[c].asked \in Int
  BY <1>1, CallTyped DEF IInv, CallInv, CallOK
<1>3. /\ pay[p].amount \in Int /\ pay[p].captured \in Int /\ pay[p].refunded \in Int
      /\ pay[p].refunded <= pay[p].captured
  BY <1>2 DEF Held, IInv, PayInv
<1>4. CASE call[c].op = "capture"
  <2>1. ~AcceptsCapture(c)
    BY <1>4 DEF Refuse, Sent
  <2>2. CASE ~Within(SentAmount(c), pay[p].amount)
    <3>1. SentAmount(c) = Positive(call[c].asked)
      BY <1>4, <2>2 DEF SentAmount, Within
    <3>2. call[c].asked > pay[p].amount
      BY <1>2, <1>3, <2>2, <3>1, ChargesAssumption DEF Within, Positive, ChargesAssumption
    <3> QED
      BY <1>4, <3>2 DEF RefusalHasCause, RefusedNow, Sent
  <2> QED
    BY <1>4, <2>1, <2>2 DEF AcceptsCapture, RefusalHasCause, RefusedNow, Sent
<1>5. CASE call[c].op = "refund"
  <2>1. ~AcceptsRefund(c) /\ SentAmount(c) = Positive(call[c].asked)
    BY <1>5 DEF Refuse, Sent, SentAmount
  <2>2. CASE ~Within(SentAmount(c), Left(p))
    <3>1. call[c].asked > Left(p)
      BY <1>2, <1>3, <2>1, <2>2, ChargesAssumption DEF Within, Positive, Left, ChargesAssumption
    <3> QED
      BY <1>5, <3>1 DEF RefusalHasCause, RefusedNow, Sent
  <2>3. CASE ~(Left(p) > 0)
    <3>1. Left(p) = 0
      BY <1>3, <2>3 DEF Left
    <3> QED
      BY <1>5, <3>1 DEF RefusalHasCause, RefusedNow, Sent
  <2>4. CASE call[c].ref # RefundableBy
    <3>1. provider = "paypal" /\ call[c].ref = "charge"
      BY <1>1, <1>2, <2>4 DEF RefundableBy, IInv, CallInv, CallOK, Requests
    <3> QED
      BY <1>5, <3>1 DEF RefusalHasCause, RefusedNow, Sent
  <2>5. CASE provider = "paypal" /\ pay[p].currency # "USD"
    BY <1>5, <2>5 DEF RefusalHasCause, RefusedNow, Sent
  <2> QED
    BY <2>1, <2>2, <2>3, <2>4, <2>5 DEF AcceptsRefund
<1> QED
  BY <1>1, <1>4, <1>5

\* Only the provider's refusal makes a request refused.
LEMMA OnlyRefuse ==
  ASSUME IInv, Next, NEW c \in Calls, NEW op \in {"capture", "refund"}, RefusedNow(c, op)
  PROVE  Refuse(c)
<1> USE DEF RefusedNow, Sent
<1>1. ASSUME NEW d \in Calls, NEW r \in Requests, Begins(d, r) PROVE FALSE
  BY <1>1 DEF Begins, IInv, Shape
<1>2. ASSUME NEW d \in Calls, Done(d) PROVE FALSE
  BY <1>2 DEF Done, Answered, Others
<1>3. ASSUME NEW d \in Calls, Ends(d) PROVE FALSE
  BY <1>3 DEF Ends, IInv, Shape
<1>4. ASSUME NEW d \in Calls, Refuse(d), d # c PROVE FALSE
  BY <1>4 DEF Refuse, IInv, Shape
<1>5. ASSUME NEW p \in Payments, PayerPays(p) PROVE FALSE
  BY <1>5 DEF PayerPays
<1>6. PICK d \in Calls : Refuse(d)
  BY <1>1, <1>2, <1>3, <1>5, StartBegins, CreateDone, CaptureDone, RefundDone, ReportEnds,
     LoseEnds DEF Next, Serve
<1> QED
  BY <1>4, <1>6

\* Captures and refunds are refused for the named causes only, at any interleaving.
THEOREM RefusalsAreCaused == Spec => RefusalsHaveCause
<1>1. Init => IInv
  BY InitInv
<1>2. IInv /\ [Next]_vars => IInv'
  BY NextInv
<1>3. IInv /\ [Next]_vars => [\A c \in Calls : RefusalHasCause(c)]_vars
  <2> SUFFICES ASSUME IInv, Next, NEW c \in Calls PROVE RefusalHasCause(c)
    OBVIOUS
  <2>1. CASE RefusedNow(c, "capture") \/ RefusedNow(c, "refund")
    BY <2>1, OnlyRefuse, RefuseHasCause
  <2> QED
    BY <2>1 DEF RefusalHasCause
<1> QED
  BY <1>1, <1>2, <1>3, PTL DEF Spec, RefusalsHaveCause
=============================================================================
