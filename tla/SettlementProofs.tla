--------------------------- MODULE SettlementProofs ---------------------------
(***************************************************************************)
(* That fees cover what they are for, that what was paid is what was told  *)
(* or may have been paid unseen, and that no run pays a share too often,   *)
(* for any payments, runs, tries and lost answers.                         *)
(***************************************************************************)
EXTENDS Settlement, FiniteSetTheorems, TLAPS

Shape == TypeOK /\ job \in JobRecords

(* A run that is past its fee step has the breakdown of the payment.           *)
QuoteInv ==
  \A r \in Runs :
    /\ quote[r] = NoQuote \/ quote[r] = CalculateFees(job)
    /\ phase[r] = "fee" => quote[r] = NoQuote
    /\ phase[r] \in Kinds => quote[r] # NoQuote

\* The gross amount is not where a step finds it first.
Wired == job.wiring = "input" \/ ~job.context

(* A request is for the step the run is at and, if wired, for its share.       *)
RequestInv ==
  \A r \in Runs : request[r] # NoRequest =>
    /\ request[r].kind = phase[r] /\ try[r] >= 1
    /\ Wired => request[r].amount = Share(r, request[r].kind)
    /\ job.provider = "paypal" => request[r].currency # NoCurrency

\* Entries of payments made, told or maybe made unseen.
Seen == told \cup lost \cup {b.entry : b \in books}

(* Entries are of the step a run is at, or of one before it, and of tries      *)
(* before the one that is under way.                                           *)
EntryInv ==
  \A e \in Seen :
    /\ phase[e.run] # "fee"
    /\ phase[e.run] = "transfer" => e.kind = "transfer"
    /\ phase[e.run] = e.kind =>
         e.try <= try[e.run] /\ (request[e.run] # NoRequest => e.try < try[e.run])

(* A run goes on when a payment is told, and so tells each kind once.          *)
ToldInv ==
  /\ \A e \in told : phase[e.run] # e.kind
  /\ \A e, f \in told : (e.run = f.run /\ e.kind = f.kind) => e = f

(* An entry is booked once, and if wired for no more than its share.           *)
BookInv ==
  /\ \A a, b \in books : a.entry = b.entry => a = b
  /\ \A b \in books : quote[b.entry.run] # NoQuote
  /\ Wired => \A b \in books : b.amount <= Share(b.entry.run, b.entry.kind)

IInv == Shape /\ QuoteInv /\ RequestInv /\ EntryInv /\ ToldInv /\ BookInv /\ BooksBalance

-----------------------------------------------------------------------------
(* Fees. *)

LEMMA CeilingIsLeast ==
  ASSUME NEW n \in Int, NEW d \in {1000, 10000}
  PROVE  Ceiling(n, d) \in Int /\ d * Ceiling(n, d) >= n /\ d * (Ceiling(n, d) - 1) < n
BY DEF Ceiling

LEMMA GrossNat == ASSUME NEW j \in JobRecords PROVE Gross(j) \in Nat /\ j.percent \in Nat
BY DEF Gross, LegacyGross, TypedGross, JobRecords

LEMMA ProductNat == ASSUME NEW a \in Nat, NEW b \in Nat PROVE a * b \in Nat /\ a * b = b * a
OBVIOUS

\* The exact platform fee, in thousandths.
Exact(a, percent) == percent * a

\* Neither fee is below its exact value, nor far above it.
Bounded(a, percent) ==
  /\ StripeFee(a) \in Int /\ PayPalFee(a) \in Int /\ PlatformFee(a, percent) \in Int
  /\ 10000 * StripeFee(a) >= 290 * a + 300000
  /\ 10000 * (StripeFee(a) - 1) < 290 * a + 300000
  /\ 10000 * PayPalFee(a) >= 299 * a + 490000
  /\ 10000 * (PayPalFee(a) - 1) < 299 * a + 490000
  /\ 1000 * PlatformFee(a, percent) >= Exact(a, percent)
  /\ 1000 * (PlatformFee(a, percent) - 2) < Exact(a, percent)

LEMMA FeeBounds ==
  ASSUME NEW a \in Nat, NEW percent \in Nat
  PROVE  Bounded(a, percent)
<1>1. /\ Ceiling(a * 29, 1000) \in Int
      /\ 1000 * Ceiling(a * 29, 1000) >= a * 29 /\ 1000 * (Ceiling(a * 29, 1000) - 1) < a * 29
  BY CeilingIsLeast
<1>2. /\ Ceiling(a * 299, 10000) \in Int
      /\ 10000 * Ceiling(a * 299, 10000) >= a * 299
      /\ 10000 * (Ceiling(a * 299, 10000) - 1) < a * 299
  BY CeilingIsLeast
<1> DEFINE x == a * percent
           y == percent * a
<1>3. x \in Nat /\ x = y
  BY ProductNat
<1>4. PlatformFee(a, percent) = Ceiling(x, 1000) + IF <<a, percent>> \in Carries THEN 1 ELSE 0
  BY DEF PlatformFee
<1> HIDE DEF x, y
<1>5. /\ Ceiling(x, 1000) \in Int
      /\ 1000 * Ceiling(x, 1000) >= x /\ 1000 * (Ceiling(x, 1000) - 1) < x
  BY <1>3, CeilingIsLeast
<1>6. /\ PlatformFee(a, percent) \in Int
      /\ 1000 * PlatformFee(a, percent) >= y /\ 1000 * (PlatformFee(a, percent) - 2) < y
  BY <1>3, <1>4, <1>5
<1>7. /\ 1000 * PlatformFee(a, percent) >= Exact(a, percent)
      /\ 1000 * (PlatformFee(a, percent) - 2) < Exact(a, percent)
  BY <1>6 DEF y, Exact
<1> QED
  BY <1>1, <1>2, <1>6, <1>7 DEF Bounded, StripeFee, PayPalFee

ProcessingFee(j) == IF j.provider = "stripe" THEN StripeFee(Gross(j)) ELSE PayPalFee(Gross(j))

LEMMA FeesAre ==
  ASSUME NEW j \in JobRecords
  PROVE  CalculateFees(j) =
           FeeBreakdown(Gross(j), ProcessingFee(j), PlatformFee(Gross(j), j.percent))
BY DEF CalculateFees, StripeCalculateFees, PayPalCalculateFees, ProcessingFee

LEMMA FeesAreInt ==
  ASSUME NEW a \in Nat, NEW percent \in Nat
  PROVE  StripeFee(a) \in Int /\ PayPalFee(a) \in Int /\ PlatformFee(a, percent) \in Int
<1>1. Bounded(a, percent)
  BY FeeBounds
<1> QED
  BY <1>1 DEF Bounded

LEMMA FeesTyped ==
  ASSUME NEW j \in JobRecords
  PROVE  CalculateFees(j) \in Breakdowns /\ CalculateFees(j) # NoQuote
<1>1. Gross(j) \in Nat /\ j.percent \in Nat
  BY GrossNat
<1>2. ProcessingFee(j) \in Int /\ PlatformFee(Gross(j), j.percent) \in Int
  BY <1>1, FeesAreInt DEF ProcessingFee
<1>3. \A g, f, p \in Int : FeeBreakdown(g, f, p) \in Breakdowns
  BY DEF FeeBreakdown, Breakdowns
<1>4. CalculateFees(j) \in Breakdowns
  BY <1>1, <1>2, <1>3, FeesAre
<1> QED
  BY <1>4, RecordsAssumption DEF RecordsAssumption

LEMMA FeesCoverFollows == IInv => FeesCover
<1> SUFFICES ASSUME IInv, NEW r \in Runs, quote[r] # NoQuote
             PROVE  LET q == quote[r]
                        exact == IF job.provider = "stripe" THEN 290 * q.total + 300000
                                                            ELSE 299 * q.total + 490000
                    IN  /\ q.contribution + q.processing + q.platform = q.total
                        /\ 10000 * q.processing >= exact /\ 10000 * (q.processing - 1) < exact
                        /\ 1000 * q.platform >= job.percent * q.total
                        /\ 1000 * (q.platform - 2) < job.percent * q.total
  BY DEF FeesCover
<1> DEFINE a == Gross(job)
           pc == job.percent
           fee == ProcessingFee(job)
           plat == PlatformFee(a, pc)
<1>1. a \in Nat /\ pc \in Nat
  BY GrossNat DEF IInv, Shape
<1>2. quote[r] = FeeBreakdown(a, fee, plat)
  BY FeesAre DEF IInv, QuoteInv, Shape
<1>3. fee = IF job.provider = "stripe" THEN StripeFee(a) ELSE PayPalFee(a)
  BY DEF ProcessingFee
<1> HIDE DEF a, pc, fee
<1>4. /\ plat \in Int /\ 1000 * plat >= Exact(a, pc) /\ 1000 * (plat - 2) < Exact(a, pc)
      /\ StripeFee(a) \in Int /\ PayPalFee(a) \in Int
      /\ 10000 * StripeFee(a) >= 290 * a + 300000 /\ 10000 * (StripeFee(a) - 1) < 290 * a + 300000
      /\ 10000 * PayPalFee(a) >= 299 * a + 490000 /\ 10000 * (PayPalFee(a) - 1) < 299 * a + 490000
  <2>1. Bounded(a, pc)
    BY <1>1, FeeBounds
  <2> QED
    BY <2>1 DEF Bounded
<1> HIDE DEF plat
<1>5. /\ quote[r].total = a /\ quote[r].processing = fee /\ quote[r].platform = plat
      /\ quote[r].contribution = a - fee - plat
  BY <1>2 DEF FeeBreakdown
<1>6. fee \in Int /\ (a - fee - plat) + fee + plat = a
  BY <1>1, <1>3, <1>4
<1>7. /\ job.provider = "stripe" =>
           10000 * fee >= 290 * a + 300000 /\ 10000 * (fee - 1) < 290 * a + 300000
      /\ job.provider # "stripe" =>
           10000 * fee >= 299 * a + 490000 /\ 10000 * (fee - 1) < 299 * a + 490000
  BY <1>3, <1>4
<1>8. 1000 * plat >= job.percent * a /\ 1000 * (plat - 2) < job.percent * a
  BY <1>4 DEF pc, Exact
<1> QED
  BY <1>5, <1>6, <1>7, <1>8

-----------------------------------------------------------------------------
(* A run takes a step before its requests, or ends. *)

LEMMA SeenTyped ==
  ASSUME IInv
  PROVE  /\ \A e \in Seen : e.run \in Runs /\ e.kind \in Kinds /\ e.try \in Nat
         /\ \A b \in books : b.entry \in Seen /\ b.amount \in Nat
         /\ \A r \in Runs : try[r] \in Nat
         /\ job.provider \in {"stripe", "paypal"} /\ job.currency \in Currencies
BY SettlementAssumption
DEF IInv, Shape, TypeOK, Seen, Entries, JobRecords, SettlementAssumption

LEMMA SharesTyped ==
  ASSUME IInv, NEW r \in Runs, NEW kind \in Kinds, quote[r] # NoQuote
  PROVE  Share(r, kind) \in Int
BY DEF IInv, Shape, TypeOK, Share, Breakdowns

LEMMA FeeKeeps ==
  ASSUME IInv, NEW r \in Runs, FeeCalculate(r)
  PROVE  IInv'
<1>1. /\ phase[r] = "fee" /\ quote[r] = NoQuote
      /\ UNCHANGED <<job, request, try, books, told, lost>>
  BY DEF FeeCalculate, IInv, QuoteInv
<1>2. /\ phase' \in [Runs -> {"fee", "transfer", "payout", "over"}]
      /\ quote' \in [Runs -> Breakdowns \cup {NoQuote}]
      /\ \A q \in Runs : q # r => phase'[q] = phase[q] /\ quote'[q] = quote[q]
      /\ \/ phase'[r] = "over" /\ quote'[r] = NoQuote
         \/ phase'[r] = "transfer" /\ quote'[r] = CalculateFees(job) /\ quote'[r] # NoQuote
  BY <1>1, FeesTyped DEF FeeCalculate, IInv, Shape, TypeOK
<1>3. Shape'
  BY <1>1, <1>2 DEF IInv, Shape, TypeOK
<1>4. QuoteInv'
  BY <1>1, <1>2 DEF IInv, QuoteInv, Kinds
<1>5. \A e \in Seen : e.run # r /\ e.run \in Runs
  BY <1>1, SeenTyped DEF IInv, EntryInv
<1>6. request[r] = NoRequest
  BY <1>1 DEF IInv, RequestInv, Shape, TypeOK, Requests, Kinds
<1>7. RequestInv'
  BY <1>1, <1>2, <1>6 DEF IInv, RequestInv, Wired, Share
<1>8. Seen' = Seen
  BY <1>1 DEF Seen
<1>9. EntryInv'
  BY <1>1, <1>2, <1>5, <1>8 DEF IInv, EntryInv
<1>10. ToldInv'
  BY <1>1, <1>2, <1>5 DEF IInv, ToldInv, Seen
<1>11. BookInv'
  BY <1>1, <1>2, <1>5, SeenTyped DEF IInv, BookInv, Wired, Share
<1>12. BooksBalance'
  BY <1>1 DEF IInv, BooksBalance
<1> QED
  BY <1>3, <1>4, <1>7, <1>9, <1>10, <1>11, <1>12 DEF IInv

LEMMA GiveUpKeeps ==
  ASSUME IInv, NEW r \in Runs, GiveUp(r)
  PROVE  IInv'
<1>1. /\ request[r] = NoRequest /\ UNCHANGED <<job, quote, request, try, books, told, lost>>
      /\ phase' \in [Runs -> {"fee", "transfer", "payout", "over"}]
      /\ phase'[r] = "over" /\ \A q \in Runs : q # r => phase'[q] = phase[q]
  BY DEF GiveUp, IInv, Shape, TypeOK
<1>2. Shape'
  BY <1>1 DEF IInv, Shape, TypeOK
<1>3. QuoteInv'
  BY <1>1 DEF IInv, QuoteInv, Kinds
<1>4. RequestInv'
  BY <1>1 DEF IInv, RequestInv, Wired, Share
<1>5. Seen' = Seen
  BY <1>1 DEF Seen
<1>6. EntryInv'
  BY <1>1, <1>5, SeenTyped DEF IInv, EntryInv, Kinds
<1>7. ToldInv'
  BY <1>1, SeenTyped DEF IInv, ToldInv, Seen, Kinds
<1>8. BookInv' /\ BooksBalance'
  BY <1>1 DEF IInv, BookInv, BooksBalance, Wired, Share
<1> QED
  BY <1>2, <1>3, <1>4, <1>6, <1>7, <1>8 DEF IInv

-----------------------------------------------------------------------------
(* A request. *)

Asks(r, kind) == \E to \in BOOLEAN : CanAsk(r, kind) /\ Ask(r, kind, to)

LEMMA AsksAre ==
  ASSUME IInv, NEW r \in Runs,
         LegacyTransfer(r) \/ TypedTransfer(r) \/ LegacyPayout(r) \/ TypedPayout(r)
  PROVE  \E kind \in Kinds : Asks(r, kind)
BY SettlementAssumption
DEF IInv, Shape, JobRecords, LegacyTransfer, TypedTransfer, LegacyPayout, TypedPayout, Asks, Kinds

LEMMA PaidIsShare ==
  ASSUME IInv, NEW r \in Runs, NEW kind \in Kinds, quote[r] # NoQuote, Paid(r, kind) # 0
  PROVE  Paid(r, kind) \in Int /\ (Wired => Paid(r, kind) = Share(r, kind))
<1>1. Share(r, kind) \in Int
  BY SharesTyped
<1>2. Gross(job) \in Nat
  BY GrossNat DEF IInv, Shape
<1> QED
  BY <1>1, <1>2 DEF Paid, LegacyPaid, TypedPaid, Current, Wired

LEMMA AsksKeeps ==
  ASSUME IInv, NEW r \in Runs, NEW kind \in Kinds, Asks(r, kind)
  PROVE  IInv'
<1>1. PICK to \in BOOLEAN : CanAsk(r, kind) /\ Ask(r, kind, to)
  BY DEF Asks
<1>2. /\ phase[r] = kind /\ request[r] = NoRequest /\ try[r] < MaxTries
      /\ UNCHANGED <<job, phase, quote, books, told, lost>> /\ Paid(r, kind) # 0
  BY <1>1 DEF CanAsk, Ask
<1>3. quote[r] # NoQuote
  BY <1>2 DEF IInv, QuoteInv
<1> DEFINE n == Paid(r, kind)
           q == [kind |-> kind, amount |-> n, currency |-> SentCurrency, to |-> to]
<1>4. n \in Int /\ (Wired => n = Share(r, kind))
  BY <1>2, <1>3, PaidIsShare
<1>5. SentCurrency \in Currencies /\ (job.provider = "paypal" => SentCurrency # NoCurrency)
  BY SeenTyped, SettlementAssumption DEF SentCurrency, Currencies, SettlementAssumption
<1>6. request' = [request EXCEPT ![r] = q] /\ try' = [try EXCEPT ![r] = @ + 1]
  BY <1>1 DEF Ask
<1> HIDE DEF n
<1>7. q \in Requests
  BY <1>4, <1>5 DEF Requests
<1>8. q.kind = kind /\ q.amount = n /\ q.currency = SentCurrency
  OBVIOUS
<1> HIDE DEF q
<1>9. /\ request' \in [Runs -> Requests \cup {NoRequest}] /\ request'[r] = q
      /\ \A p \in Runs : p # r => request'[p] = request[p] /\ try'[p] = try[p]
      /\ try' \in [Runs -> 0..MaxTries] /\ try'[r] = try[r] + 1 /\ try'[r] >= 1
  BY <1>2, <1>6, <1>7, SettlementAssumption DEF IInv, Shape, TypeOK, SettlementAssumption
<1>10. Shape'
  BY <1>2, <1>9 DEF IInv, Shape, TypeOK
<1>11. QuoteInv'
  BY <1>2 DEF IInv, QuoteInv
<1>12. RequestInv'
  BY <1>2, <1>4, <1>5, <1>8, <1>9 DEF IInv, RequestInv, Wired, Share
<1>13. Seen' = Seen
  BY <1>2 DEF Seen
<1>14. EntryInv'
  <2> SUFFICES ASSUME NEW e \in Seen
               PROVE  /\ phase[e.run] # "fee"
                      /\ phase[e.run] = "transfer" => e.kind = "transfer"
                      /\ phase[e.run] = e.kind =>
                           /\ e.try <= try'[e.run]
                           /\ request'[e.run] # NoRequest => e.try < try'[e.run]
    BY <1>2, <1>13 DEF EntryInv
  <2>1. CASE e.run = r
    BY <1>2, <1>9, <2>1, SeenTyped DEF IInv, EntryInv
  <2>2. CASE e.run # r
    BY <1>9, <2>2, SeenTyped DEF IInv, EntryInv
  <2> QED
    BY <2>1, <2>2
<1>15. ToldInv' /\ BookInv' /\ BooksBalance'
  BY <1>2 DEF IInv, ToldInv, BookInv, BooksBalance, Wired, Share
<1> QED
  BY <1>10, <1>11, <1>12, <1>14, <1>15 DEF IInv

-----------------------------------------------------------------------------
(* A request is over: it was answered, refused or lost. *)

\* The entry of r's request and what would be booked for it.
LEMMA RequestIs ==
  ASSUME IInv, NEW r \in Runs, request[r] # NoRequest
  PROVE  /\ request[r] \in Requests /\ request[r].kind = phase[r] /\ phase[r] \in Kinds
         /\ Entry(r) \in Entries
         /\ Entry(r).run = r /\ Entry(r).kind = phase[r] /\ Entry(r).try = try[r]
         /\ Entry(r) \notin Seen /\ quote[r] # NoQuote
<1>1. /\ request[r] \in Requests /\ request[r].kind = phase[r] /\ phase[r] \in Kinds
      /\ try[r] \in 0..MaxTries /\ try[r] >= 1
  BY DEF IInv, Shape, TypeOK, RequestInv, Requests
<1>2. Entry(r).run = r /\ Entry(r).kind = phase[r] /\ Entry(r).try = try[r]
  BY <1>1 DEF Entry
<1>3. Entry(r) \in Entries
  BY <1>1, SettlementAssumption DEF Entry, Entries, SettlementAssumption
<1>4. Entry(r) \notin Seen
  BY <1>1, <1>2, SeenTyped DEF IInv, EntryInv
<1> QED
  BY <1>1, <1>2, <1>3, <1>4 DEF IInv, QuoteInv

Booking(r) ==
  [entry |-> Entry(r), amount |-> Value(request[r]), currency |-> request[r].currency]

LEMMA BookingIs ==
  ASSUME IInv, NEW r \in Runs, request[r] # NoRequest, Takes(request[r])
  PROVE  /\ Booking(r) \in [entry : Entries, amount : Nat \ {0}, currency : Currencies \ {NoCurrency}]
         /\ Booking(r).entry = Entry(r)
         /\ Wired => Booking(r).amount <= Share(r, phase[r])
         /\ Booked(r) = books \cup {Booking(r)}
<1> DEFINE q == request[r]
           n == request[r].amount
<1>1. q \in Requests /\ n \in Int /\ q.currency \in Currencies /\ Entry(r) \in Entries
  BY RequestIs DEF Requests
<1>2. (Wired => n = Share(r, phase[r])) /\ (job.provider = "paypal" => q.currency # NoCurrency)
  BY RequestIs DEF IInv, RequestInv
<1>3. job.provider \in {"stripe", "paypal"}
  BY SeenTyped
<1>4. n > 0 /\ q.currency # NoCurrency
  BY <1>2, <1>3 DEF Takes, StripeTakes, PayPalTakes
<1>5. (job.provider # "stripe" /\ q.currency \in Hundredless) => n % 100 = 0
  BY DEF Takes, PayPalTakes
<1>6. Value(q) = IF job.provider # "stripe" /\ q.currency \in Hundredless THEN n \div 100 ELSE n
  BY DEF Value, PayPalValue
<1> HIDE DEF n, q
<1>7. (n % 100 = 0) => n \div 100 \in Nat \ {0} /\ n \div 100 <= n
  BY <1>1, <1>4
<1>8. Value(q) \in Nat \ {0} /\ Value(q) <= n
  BY <1>1, <1>4, <1>5, <1>6, <1>7
<1>9. Booking(r) = [entry |-> Entry(r), amount |-> Value(q), currency |-> q.currency]
  BY DEF Booking, q
<1>10. /\ Booking(r).entry = Entry(r) /\ Booking(r).amount = Value(q)
       /\ Booking(r) \in [entry : Entries, amount : Nat \ {0}, currency : Currencies \ {NoCurrency}]
  BY <1>1, <1>4, <1>8, <1>9
<1>11. Wired => Booking(r).amount <= Share(r, phase[r])
  BY <1>2, <1>8, <1>10
<1> QED
  BY <1>10, <1>11 DEF Booked, Booking

\* r's request is gone; the books may have its booking.
Over(r) ==
  /\ request[r] # NoRequest /\ request' = [request EXCEPT ![r] = NoRequest]
  /\ UNCHANGED <<job, quote>>
  /\ \/ books' = books
     \/ Takes(request[r]) /\ books' = Booked(r)

\* The request paid and told: the run goes on.
Goes(r) ==
  /\ Over(r) /\ books' = Booked(r) /\ told' = told \cup {Entry(r)} /\ UNCHANGED lost
  /\ phase' = [phase EXCEPT ![r] = NextStep(phase[r])]
  /\ try' = [try EXCEPT ![r] = 0]

\* The request was refused, or lost and maybe paid: the run stays.
Stays(r) ==
  /\ Over(r) /\ UNCHANGED <<told, phase, try>>
  /\ \/ UNCHANGED lost /\ UNCHANGED books
     \/ lost' = lost \cup {Entry(r)}

LEMMA PaysGoes ==
  ASSUME IInv, NEW r \in Runs, StripePays(r) \/ PayPalPays(r)
  PROVE  Goes(r)
BY RequestIs DEF StripePays, PayPalPays, Answer, IsError, Goes, Over

LEMMA RefuseStays ==
  ASSUME IInv, NEW r \in Runs, Refuse(r)
  PROVE  Stays(r)
BY DEF Refuse, Answer, IsError, Stays, Over

LEMMA LoseStays ==
  ASSUME IInv, NEW r \in Runs, Lose(r)
  PROVE  Stays(r)
BY DEF Lose, Stays, Over

LEMMA OverKeeps ==
  ASSUME IInv, NEW r \in Runs, Over(r)
  PROVE  /\ BookInv' /\ UNCHANGED <<job, quote>>
         /\ books' \subseteq [entry : Entries, amount : Nat \ {0}, currency : Currencies \ {NoCurrency}]
         /\ request' \in [Runs -> Requests \cup {NoRequest}] /\ request'[r] = NoRequest
         /\ \A q \in Runs : q # r => request'[q] = request[q]
         /\ {b.entry : b \in books'} \in
              {{b.entry : b \in books}, {b.entry : b \in books} \cup {Entry(r)}}
         /\ books' = Booked(r) => Entry(r) \in {b.entry : b \in books'}
<1>1. /\ request' \in [Runs -> Requests \cup {NoRequest}] /\ request'[r] = NoRequest
      /\ \A q \in Runs : q # r => request'[q] = request[q]
      /\ UNCHANGED <<job, quote>> /\ request[r] # NoRequest
  BY DEF Over, IInv, Shape, TypeOK
<1>2. CASE books' = books
  <2>1. BookInv'
    BY <1>1, <1>2 DEF IInv, BookInv, Wired, Share
  <2>2. books' # Booked(r) \/ Entry(r) \in {b.entry : b \in books'}
    <3>1. Booking(r) \in Booked(r) /\ Booking(r).entry = Entry(r)
      BY DEF Booked, Booking
    <3> QED
      BY <3>1
  <2> QED
    BY <1>1, <1>2, <2>1, <2>2 DEF IInv, Shape, TypeOK
<1>3. CASE Takes(request[r]) /\ books' = Booked(r)
  <2> DEFINE k == Booking(r)
  <2>1. /\ k \in [entry : Entries, amount : Nat \ {0}, currency : Currencies \ {NoCurrency}]
        /\ k.entry = Entry(r) /\ books' = books \cup {k}
        /\ Wired => k.amount <= Share(r, phase[r])
    BY <1>1, <1>3, BookingIs
  <2> HIDE DEF k
  <2>2. Entry(r) \notin Seen /\ Entry(r).run = r /\ Entry(r).kind = phase[r] /\ quote[r] # NoQuote
    BY <1>1, RequestIs
  <2>3. \A b \in books : b.entry # k.entry
    BY <2>1, <2>2 DEF Seen
  <2>4. BookInv'
    <3>1. \A a, b \in books' : a.entry = b.entry => a = b
      BY <2>1, <2>3 DEF IInv, BookInv
    <3>2. \A b \in books' : quote'[b.entry.run] # NoQuote
      BY <1>1, <2>1, <2>2 DEF IInv, BookInv
    <3>3. Wired => \A b \in books' : b.amount <= Share(b.entry.run, b.entry.kind)
      BY <2>1, <2>2 DEF IInv, BookInv
    <3>4. Wired' = Wired /\ \A q, kind : Share(q, kind)' = Share(q, kind)
      BY <1>1 DEF Wired, Share
    <3> QED
      BY <3>1, <3>2, <3>3, <3>4 DEF BookInv
  <2>5. {b.entry : b \in books'} = {b.entry : b \in books} \cup {Entry(r)}
    BY <2>1
  <2>6. books' \subseteq [entry : Entries, amount : Nat \ {0}, currency : Currencies \ {NoCurrency}]
    BY <2>1 DEF IInv, Shape, TypeOK
  <2> QED
    BY <1>1, <2>4, <2>5, <2>6
<1> QED
  BY <1>2, <1>3 DEF Over

LEMMA StaysKeeps ==
  ASSUME IInv, NEW r \in Runs, Stays(r)
  PROVE  IInv'
<1> DEFINE made == {b.entry : b \in books}
           e0 == Entry(r)
<1>1. /\ BookInv' /\ UNCHANGED <<job, quote, told, phase, try>>
      /\ books' \subseteq [entry : Entries, amount : Nat \ {0}, currency : Currencies \ {NoCurrency}]
      /\ request' \in [Runs -> Requests \cup {NoRequest}] /\ request'[r] = NoRequest
      /\ \A q \in Runs : q # r => request'[q] = request[q]
      /\ made' \in {made, made \cup {e0}}
  BY OverKeeps DEF Stays
<1>2. /\ e0 \in Entries /\ e0 \notin Seen /\ e0.run = r
      /\ e0.kind = phase[r] /\ phase[r] \in Kinds /\ e0.try = try[r]
  BY RequestIs DEF Stays, Over
<1>3. (lost' = lost /\ books' = books) \/ lost' = lost \cup {e0}
  BY DEF Stays
<1> HIDE DEF e0
<1>4. Shape'
  BY <1>1, <1>2, <1>3 DEF IInv, Shape, TypeOK
<1>5. QuoteInv'
  BY <1>1 DEF IInv, QuoteInv
<1>6. RequestInv'
  BY <1>1 DEF IInv, RequestInv, Wired, Share
<1>7. Seen' \subseteq Seen \cup {e0}
  BY <1>1, <1>3 DEF Seen
<1> HIDE DEF made
<1>8. EntryInv'
  <2> SUFFICES ASSUME NEW e \in Seen \cup {e0}
               PROVE  /\ phase[e.run] # "fee"
                      /\ phase[e.run] = "transfer" => e.kind = "transfer"
                      /\ phase[e.run] = e.kind =>
                           /\ e.try <= try[e.run]
                           /\ request'[e.run] # NoRequest => e.try < try[e.run]
    BY <1>1, <1>7 DEF EntryInv
  <2>1. CASE e = e0
    BY <1>1, <1>2, <2>1, SeenTyped DEF Kinds
  <2>2. CASE e \in Seen
    BY <1>1, <2>2, SeenTyped DEF IInv, EntryInv
  <2> QED
    BY <2>1, <2>2
<1>9. ToldInv'
  BY <1>1 DEF IInv, ToldInv
<1>10. BooksBalance'
  BY <1>1, <1>3 DEF IInv, BooksBalance, made
<1> QED
  BY <1>1, <1>4, <1>5, <1>6, <1>8, <1>9, <1>10 DEF IInv

LEMMA GoesKeeps ==
  ASSUME IInv, NEW r \in Runs, Goes(r)
  PROVE  IInv'
<1> DEFINE made == {b.entry : b \in books}
           e0 == Entry(r)
           next == NextStep(phase[r])
<1>1. /\ BookInv' /\ UNCHANGED <<job, quote, lost>> /\ told' = told \cup {e0}
      /\ books' \subseteq [entry : Entries, amount : Nat \ {0}, currency : Currencies \ {NoCurrency}]
      /\ request' \in [Runs -> Requests \cup {NoRequest}] /\ request'[r] = NoRequest
      /\ \A q \in Runs : q # r => request'[q] = request[q]
      /\ made' \in {made, made \cup {e0}} /\ e0 \in made'
  BY OverKeeps DEF Goes
<1>2. /\ e0 \in Entries /\ e0 \notin Seen /\ e0.run = r
      /\ e0.kind = phase[r] /\ phase[r] \in Kinds /\ quote[r] # NoQuote
  BY RequestIs DEF Goes, Over
<1>3. next \in {"payout", "over"} /\ (next = "payout" <=> phase[r] = "transfer")
  BY <1>2 DEF NextStep, Kinds
<1>4. /\ phase' = [phase EXCEPT ![r] = next] /\ try' = [try EXCEPT ![r] = 0]
  BY DEF Goes
<1> HIDE DEF e0, next
<1>5. /\ phase' \in [Runs -> {"fee", "transfer", "payout", "over"}] /\ phase'[r] = next
      /\ try' \in [Runs -> 0..MaxTries]
      /\ \A q \in Runs : q # r => phase'[q] = phase[q] /\ try'[q] = try[q]
  BY <1>3, <1>4, SettlementAssumption DEF IInv, Shape, TypeOK, SettlementAssumption
<1>6. Shape'
  BY <1>1, <1>2, <1>5 DEF IInv, Shape, TypeOK
<1>7. QuoteInv'
  BY <1>1, <1>2, <1>3, <1>5 DEF IInv, QuoteInv
<1>8. RequestInv'
  BY <1>1, <1>5 DEF IInv, RequestInv, Wired, Share
<1>9. Seen' \subseteq Seen \cup {e0}
  BY <1>1 DEF Seen
<1> HIDE DEF made
<1>10. \A e \in Seen \cup {e0} : /\ e.run \in Runs /\ e.kind \in Kinds
                                 /\ e.run = r => phase'[r] # e.kind
  BY <1>2, <1>3, <1>5, SeenTyped DEF IInv, EntryInv, Kinds, Entries
<1>11. EntryInv'
  <2> SUFFICES ASSUME NEW e \in Seen \cup {e0}
               PROVE  /\ phase'[e.run] # "fee"
                      /\ phase'[e.run] = "transfer" => e.kind = "transfer"
                      /\ phase'[e.run] = e.kind =>
                           /\ e.try <= try'[e.run]
                           /\ request'[e.run] # NoRequest => e.try < try'[e.run]
    BY <1>9 DEF EntryInv
  <2>1. CASE e.run = r
    BY <1>3, <1>5, <1>10, <2>1
  <2>2. CASE e.run # r
    <3>1. e \in Seen /\ e.run \in Runs
      BY <1>2, <1>10, <2>2
    <3> QED
      BY <1>1, <1>5, <2>2, <3>1 DEF IInv, EntryInv
  <2> QED
    BY <2>1, <2>2
<1>12. ToldInv'
  <2>1. \A e \in told : e \in Seen /\ phase[e.run] # e.kind
    BY DEF Seen, IInv, ToldInv
  <2>2. ASSUME NEW e \in told' PROVE phase'[e.run] # e.kind
    <3>1. e \in told \/ e = e0
      BY <1>1, <2>2
    <3>2. CASE e.run = r
      BY <1>10, <2>1, <3>1, <3>2
    <3>3. CASE e.run # r
      BY <1>2, <1>5, <1>10, <2>1, <3>1, <3>3
    <3> QED
      BY <3>2, <3>3
  <2>3. \A e, f \in told' : (e.run = f.run /\ e.kind = f.kind) => e = f
    BY <1>1, <1>2, <2>1 DEF IInv, ToldInv
  <2> QED
    BY <2>2, <2>3 DEF ToldInv
<1>13. BooksBalance'
  BY <1>1 DEF IInv, BooksBalance, made
<1> QED
  BY <1>1, <1>6, <1>7, <1>8, <1>11, <1>12, <1>13 DEF IInv

-----------------------------------------------------------------------------
LEMMA InitInv == Init => IInv
<1> SUFFICES ASSUME Init PROVE IInv
  OBVIOUS
<1>1. Shape
  BY SettlementAssumption DEF Init, Shape, TypeOK, SettlementAssumption
<1>2. Seen = {}
  BY DEF Init, Seen
<1>3. QuoteInv /\ RequestInv
  BY DEF Init, QuoteInv, RequestInv, Kinds
<1>4. EntryInv /\ ToldInv /\ BookInv /\ BooksBalance
  BY <1>2 DEF Init, EntryInv, ToldInv, BookInv, BooksBalance
<1> QED
  BY <1>1, <1>3, <1>4 DEF IInv

LEMMA NextInv == IInv /\ [Next]_vars => IInv'
<1> SUFFICES ASSUME IInv, [Next]_vars PROVE IInv'
  OBVIOUS
<1>1. CASE UNCHANGED vars
  BY <1>1 DEF vars, IInv, Shape, TypeOK, QuoteInv, RequestInv, EntryInv, ToldInv, BookInv,
              BooksBalance, Seen, Wired, Share
<1>2. ASSUME NEW r \in Runs, RunStep(r) PROVE IInv'
  <2>1. CASE LegacyTransfer(r) \/ TypedTransfer(r) \/ LegacyPayout(r) \/ TypedPayout(r)
    BY <2>1, AsksAre, AsksKeeps
  <2>2. CASE StripePays(r) \/ PayPalPays(r)
    BY <2>2, PaysGoes, GoesKeeps
  <2> QED
    BY <1>2, <2>1, <2>2, FeeKeeps, GiveUpKeeps, RefuseStays, LoseStays, StaysKeeps DEF RunStep
<1> QED
  BY <1>1, <1>2 DEF Next

-----------------------------------------------------------------------------
(* What the invariant says of a run's payments. *)

LEMMA PaymentsBounded ==
  ASSUME IInv, NEW r \in Runs, NEW kind \in Kinds
  PROVE  Cardinality({b \in books : b.entry.run = r /\ b.entry.kind = kind})
           <= 1 + Cardinality({e \in lost : e.run = r /\ e.kind = kind})
<1> DEFINE P == {b \in books : b.entry.run = r /\ b.entry.kind = kind}
           L == {e \in lost : e.run = r /\ e.kind = kind}
           T == {e \in told : e.run = r /\ e.kind = kind}
<1>1. IsFiniteSet(L)
  <2> DEFINE f == [e \in L |-> e.try]
  <2>1. f \in [L -> 0..MaxTries]
    BY SettlementAssumption DEF IInv, Shape, TypeOK, Entries, SettlementAssumption
  <2>2. \A e, g \in L : e.try = g.try => e = g
    BY DEF IInv, Shape, TypeOK, Entries
  <2>3. f \in Injection(L, 0..MaxTries)
    BY <2>1, <2>2 DEF Injection, IsInjective
  <2>4. IsFiniteSet(0..MaxTries)
    BY FS_Interval, SettlementAssumption DEF SettlementAssumption
  <2> QED
    BY <2>3, <2>4, FS_Injection
<1>2. \E x : T \subseteq {x}
  <2>1. CASE T = {}
    BY <2>1
  <2>2. CASE T # {}
    <3>1. PICK x : x \in T
      BY <2>2
    <3>2. \A e \in T : e = x
      BY <3>1 DEF IInv, ToldInv
    <3> QED
      BY <3>2
  <2> QED
    BY <2>1, <2>2
<1>3. PICK x : T \subseteq {x}
  BY <1>2
<1>4. IsFiniteSet(L \cup {x}) /\ Cardinality(L \cup {x}) <= 1 + Cardinality(L)
  <2> HIDE DEF L
  <2>1. Cardinality(L) \in Nat
    BY <1>1, FS_CardinalityType
  <2>2. /\ IsFiniteSet(L \cup {x})
        /\ Cardinality(L \cup {x}) = IF x \in L THEN Cardinality(L) ELSE Cardinality(L) + 1
    BY <1>1, FS_AddElement
  <2> QED
    BY <2>1, <2>2
<1>5. Cardinality(P) <= Cardinality(L \cup {x})
  <2> DEFINE g == [b \in P |-> b.entry]
  <2>1. \A b \in P : b.entry \in L \cup {x}
    BY <1>3 DEF IInv, BooksBalance
  <2>2. \A a, b \in P : a.entry = b.entry => a = b
    BY DEF IInv, BookInv
  <2>3. g \in Injection(P, L \cup {x})
    BY <2>1, <2>2 DEF Injection, IsInjective
  <2> HIDE DEF P, L
  <2> QED
    BY <1>4, <2>3, FS_Injection
<1>6. Cardinality(L) \in Nat /\ Cardinality(L \cup {x}) \in Nat /\ IsFiniteSet(P)
  <2> DEFINE g == [b \in P |-> b.entry]
  <2>1. \A b \in P : b.entry \in L \cup {x}
    BY <1>3 DEF IInv, BooksBalance
  <2>2. \A a, b \in P : a.entry = b.entry => a = b
    BY DEF IInv, BookInv
  <2>3. g \in Injection(P, L \cup {x})
    BY <2>1, <2>2 DEF Injection, IsInjective
  <2> HIDE DEF P, L
  <2> QED
    BY <1>1, <1>4, <2>3, FS_Injection, FS_CardinalityType
<1>7. Cardinality(P) \in Nat
  BY <1>6, FS_CardinalityType
<1> HIDE DEF P, L
<1>8. Cardinality(P) <= 1 + Cardinality(L)
  BY <1>4, <1>5, <1>6, <1>7
<1> QED
  BY <1>8 DEF P, L

LEMMA NeverBeyondFollows == IInv => NeverPaysBeyond
<1> SUFFICES ASSUME IInv, NEW r \in Runs, NEW kind \in Kinds
             PROVE  /\ Cardinality({b \in books : b.entry.run = r /\ b.entry.kind = kind})
                         <= 1 + Cardinality({e \in lost : e.run = r /\ e.kind = kind})
                    /\ (job.wiring = "input" \/ ~job.context) =>
                         \A b \in {b \in books : b.entry.run = r /\ b.entry.kind = kind} :
                           b.amount <= Share(r, kind)
  BY DEF NeverPaysBeyond
<1> QED
  BY PaymentsBounded DEF IInv, BookInv, Wired

\* Quotes, requests and bookings are well formed; no provider books nothing, or in no
\* currency.
THEOREM TypeCorrect == Spec => []TypeOK
<1>1. Init => IInv
  BY InitInv
<1>2. IInv /\ [Next]_vars => IInv'
  BY NextInv
<1>3. IInv => TypeOK
  BY DEF IInv, Shape
<1> QED
  BY <1>1, <1>2, <1>3, PTL DEF Spec

\* The shares of a payment add up, and neither fee is rounded away from its payee or
\* more than a cent too far, for any amount, percentage and set of inexact products.
THEOREM FeesAlwaysCover == Spec => []FeesCover
<1>1. Init => IInv
  BY InitInv
<1>2. IInv /\ [Next]_vars => IInv'
  BY NextInv
<1>3. IInv => FeesCover
  BY FeesCoverFollows
<1> QED
  BY <1>1, <1>2, <1>3, PTL DEF Spec

\* What providers paid was told, or its answer lost; what was told was paid.
THEOREM BooksAlwaysBalance == Spec => []BooksBalance
<1>1. Init => IInv
  BY InitInv
<1>2. IInv /\ [Next]_vars => IInv'
  BY NextInv
<1>3. IInv => BooksBalance
  BY DEF IInv
<1> QED
  BY <1>1, <1>2, <1>3, PTL DEF Spec

\* Without idempotency keys a run still pays a share at most once more than it lost
\* answers, and no more than the share if the gross amount is not in the way.
THEOREM RunsNeverPayBeyond == Spec => []NeverPaysBeyond
<1>1. Init => IInv
  BY InitInv
<1>2. IInv /\ [Next]_vars => IInv'
  BY NextInv
<1>3. IInv => NeverPaysBeyond
  BY NeverBeyondFollows
<1> QED
  BY <1>1, <1>2, <1>3, PTL DEF Spec
=============================================================================
