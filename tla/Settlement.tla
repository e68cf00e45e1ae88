------------------------------ MODULE Settlement ------------------------------
(***************************************************************************)
(* A settlement workflow: step.payment_fee_calculate divides what a        *)
(* customer paid, step.payment_transfer sends the contribution to the      *)
(* connected account, step.payment_payout sends the platform's share to    *)
(* its bank.  The trigger may come twice, answers get lost, and a workflow *)
(* repeats a step that failed; no request carries an idempotency key.      *)
(***************************************************************************)
EXTENDS Integers, FiniteSets

CONSTANTS
  Runs,       \* executions of the workflow for one payment
  NoRequest, NoQuote, NoCurrency,
  Jobs,       \* the payments and wirings the workflow is written for
  Carries,    \* <<amount, percent>> whose floating-point product is above a
              \* whole number of cents that it should equal
  Hundredless,  \* currencies without minor units
  MaxTries,   \* how often a run tries a step
  MaxLost     \* lost requests and answers

Kinds == {"transfer", "payout"}
Currencies == {NoCurrency, "USD"} \cup Hundredless

\* percents are in tenths.  "context": the run's data carries the gross amount
\* under "amount"; "wiring": the step's configuration or its input carries what
\* the workflow's author wants paid.
JobRecords ==
  [provider : {"stripe", "paypal"}, frontend : {"legacy", "typed"},
   config : Nat, input : Nat, percent : Nat, currency : Currencies,
   destination : BOOLEAN, bank : BOOLEAN,
   wiring : {"config", "input"}, context : BOOLEAN]

ASSUME SettlementAssumption ==
  /\ Jobs \subseteq JobRecords
  /\ NoCurrency \notin Hundredless \cup {"USD"}
  /\ MaxTries \in Nat /\ MaxLost \in Nat

VARIABLES
  job,      \* the payment
  phase,    \* run -> the step it is at
  quote,    \* run -> what the fee step returned
  request,  \* run -> the request it waits for
  try,      \* run -> tries of the step it is at
  books,    \* what providers have paid out: run, kind, try, amount, currency
  told,     \* run, kind and try of payments reported as made
  lost      \* run, kind and try of requests whose answer never came

vars == <<job, phase, quote, request, try, books, told, lost>>

-----------------------------------------------------------------------------
(* Fees.  Amounts are in the smallest unit. *)

\* The least integer not below n/d.
Ceiling(n, d) == -((-n) \div d)

\* The gross amount: legacy steps read the run's data first, typed steps their
\* configuration.  Neither tells a 0 from nothing.
LegacyGross(j) == IF j.input # 0 THEN j.input ELSE j.config
TypedGross(j) == IF j.config # 0 THEN j.config ELSE j.input
Gross(j) == IF j.frontend = "legacy" THEN LegacyGross(j) ELSE TypedGross(j)

\* Faulty variant of PlatformFee: rounded down.
PlatformFeeFloor(amount, percent) == (amount * percent) \div 1000

\* math.Ceil of a product of floats: at worst a cent above the exact one.
PlatformFee(amount, percent) ==
  Ceiling(amount * percent, 1000) + IF <<amount, percent>> \in Carries THEN 1 ELSE 0

\* What the provider keeps: 2.9% and 30 cents, 2.99% and 49 cents.
StripeFee(amount) == Ceiling(amount * 29, 1000) + 30
PayPalFee(amount) == Ceiling(amount * 299, 10000) + 49

FeeBreakdown(amount, processing, platform) ==
  [contribution |-> amount - processing - platform, processing |-> processing,
   platform |-> platform, total |-> amount]

StripeCalculateFees(amount, percent) ==
  FeeBreakdown(amount, StripeFee(amount), PlatformFee(amount, percent))
PayPalCalculateFees(amount, percent) ==
  FeeBreakdown(amount, PayPalFee(amount), PlatformFee(amount, percent))

CalculateFees(j) ==
  IF j.provider = "stripe" THEN StripeCalculateFees(Gross(j), j.percent)
                           ELSE PayPalCalculateFees(Gross(j), j.percent)

\* The fee step: "amount is required", else the breakdown.
FeeCalculate(r) ==
  /\ phase[r] = "fee"
  /\ IF Gross(job) = 0
       THEN phase' = [phase EXCEPT ![r] = "over"] /\ UNCHANGED quote
       ELSE /\ phase' = [phase EXCEPT ![r] = "transfer"]
            /\ quote' = [quote EXCEPT ![r] = CalculateFees(job)]
  /\ UNCHANGED <<job, request, try, books, told, lost>>

-----------------------------------------------------------------------------
(* Transfers and payouts. *)

\* What the author wants paid.
Share(r, kind) == IF kind = "transfer" THEN quote[r].contribution ELSE quote[r].platform

\* The amount under "amount" in the run's data.
Current(r, kind) ==
  IF job.wiring = "input" THEN Share(r, kind) ELSE IF job.context THEN Gross(job) ELSE 0

\* The legacy steps read the run's data, then their configuration.  The typed
\* ones have no such configuration.
LegacyPaid(r, kind) ==
  IF Current(r, kind) # 0 THEN Current(r, kind)
  ELSE IF job.wiring = "config" THEN Share(r, kind) ELSE 0
TypedPaid(r, kind) == Current(r, kind)

\* Faulty variant of Paid: as the fee step, a step that is given no amount takes
\* the payment's.
PaidOrGross(r, kind) == IF Current(r, kind) # 0 THEN Current(r, kind) ELSE Gross(job)

Paid(r, kind) == IF job.frontend = "legacy" THEN LegacyPaid(r, kind) ELSE TypedPaid(r, kind)

\* Faulty variant of SentCurrency: no default.
SentCurrencyGiven == job.currency

\* PayPal's default; Stripe wants a currency.
SentCurrency ==
  IF job.provider = "paypal" /\ job.currency = NoCurrency THEN "USD" ELSE job.currency

Ask(r, kind, to) ==
  /\ Paid(r, kind) # 0
  /\ request' = [request EXCEPT ![r] =
       [kind |-> kind, amount |-> Paid(r, kind), currency |-> SentCurrency, to |-> to]]
  /\ try' = [try EXCEPT ![r] = @ + 1]
  /\ UNCHANGED <<job, phase, quote, books, told, lost>>

CanAsk(r, kind) == phase[r] = kind /\ request[r] = NoRequest /\ try[r] < MaxTries

\* The transfer step wants a destination, the payout step does not.
LegacyTransfer(r) ==
  /\ job.frontend = "legacy" /\ job.destination
  /\ CanAsk(r, "transfer") /\ Ask(r, "transfer", TRUE)
TypedTransfer(r) ==
  /\ job.frontend = "typed" /\ job.destination
  /\ CanAsk(r, "transfer") /\ Ask(r, "transfer", TRUE)
LegacyPayout(r) ==
  /\ job.frontend = "legacy"
  /\ CanAsk(r, "payout") /\ Ask(r, "payout", job.bank)
TypedPayout(r) ==
  /\ job.frontend = "typed"
  /\ CanAsk(r, "payout") /\ Ask(r, "payout", job.bank)

Entry(r) == [run |-> r, kind |-> request[r].kind, try |-> try[r]]

\* PayPal's amounts are hundredths, and currencies without minor units have none.
PayPalValue(n, currency) == IF currency \in Hundredless THEN n \div 100 ELSE n
PayPalTakes(n, currency) == n > 0 /\ (currency \in Hundredless => n % 100 = 0)

\* Stripe: a positive amount of a currency; without a bank, the default one.
StripeTakes(q) == q.amount > 0 /\ q.currency # NoCurrency

Takes(q) ==
  IF job.provider = "stripe" THEN StripeTakes(q)
  ELSE q.to /\ PayPalTakes(q.amount, q.currency)

Value(q) == IF job.provider = "stripe" THEN q.amount ELSE PayPalValue(q.amount, q.currency)

Booked(r) ==
  books \cup {[entry |-> Entry(r), amount |-> Value(request[r]),
               currency |-> request[r].currency]}

\* Faulty variant of IsError: only 200 counts, and PayPal answers 201.
IsErrorCreated(q, taken) == ~taken \/ job.provider = "paypal"

\* An error of the SDK, or a status from 400 up.
IsError(q, taken) == ~taken

NextStep(kind) == IF kind = "transfer" THEN "payout" ELSE "over"

\* The step's output after the provider's answer: the run goes on after a
\* success; after an error the workflow repeats the step or ends.
Answer(r, taken) ==
  IF IsError(request[r], taken)
    THEN UNCHANGED <<phase, try, told>>
    ELSE /\ phase' = [phase EXCEPT ![r] = NextStep(request[r].kind)]
         /\ try' = [try EXCEPT ![r] = 0]
         /\ told' = told \cup {Entry(r)}

\* The provider pays: Stripe's Transfer and Payout, PayPal's payout batch of one
\* item for both.
StripePays(r) ==
  /\ request[r] # NoRequest /\ job.provider = "stripe" /\ Takes(request[r])
  /\ books' = Booked(r)
  /\ Answer(r, TRUE)
  /\ request' = [request EXCEPT ![r] = NoRequest]
  /\ UNCHANGED <<job, quote, lost>>

PayPalPays(r) ==
  /\ request[r] # NoRequest /\ job.provider = "paypal" /\ Takes(request[r])
  /\ books' = Booked(r)
  /\ Answer(r, TRUE)
  /\ request' = [request EXCEPT ![r] = NoRequest]
  /\ UNCHANGED <<job, quote, lost>>

\* It refuses: the request is not one it takes, or funds are missing.
Refuse(r) ==
  /\ request[r] # NoRequest
  /\ Answer(r, FALSE)
  /\ request' = [request EXCEPT ![r] = NoRequest]
  /\ UNCHANGED <<job, quote, books, lost>>

\* The request or the answer is lost: the step reports an error either way.
Lose(r) ==
  /\ request[r] # NoRequest
  /\ Cardinality(lost) < MaxLost
  /\ lost' = lost \cup {Entry(r)}
  /\ books' \in {books} \cup (IF Takes(request[r]) THEN {Booked(r)} ELSE {})
  /\ request' = [request EXCEPT ![r] = NoRequest]
  /\ UNCHANGED <<job, phase, quote, try, told>>

\* The workflow ends after a failed step.
GiveUp(r) ==
  /\ phase[r] \in Kinds /\ request[r] = NoRequest
  /\ phase' = [phase EXCEPT ![r] = "over"]
  /\ UNCHANGED <<job, quote, request, try, books, told, lost>>

-----------------------------------------------------------------------------
Init ==
  /\ job \in Jobs
  /\ phase = [r \in Runs |-> "fee"]
  /\ quote = [r \in Runs |-> NoQuote]
  /\ request = [r \in Runs |-> NoRequest]
  /\ try = [r \in Runs |-> 0]
  /\ books = {}
  /\ told = {}
  /\ lost = {}

RunStep(r) ==
  \/ FeeCalculate(r)
  \/ LegacyTransfer(r) \/ TypedTransfer(r)
  \/ LegacyPayout(r) \/ TypedPayout(r)
  \/ StripePays(r) \/ PayPalPays(r)
  \/ Refuse(r) \/ Lose(r) \/ GiveUp(r)

Next == \E r \in Runs : RunStep(r)

Spec == Init /\ [][Next]_vars

-----------------------------------------------------------------------------
Breakdowns == [contribution : Int, processing : Int, platform : Int, total : Int]
Requests == [kind : Kinds, amount : Int, currency : Currencies, to : BOOLEAN]
Entries == [run : Runs, kind : Kinds, try : 1..MaxTries]

ASSUME RecordsAssumption == NoRequest \notin Requests /\ NoQuote \notin Breakdowns

TypeOK ==
  /\ job \in Jobs
  /\ phase \in [Runs -> {"fee", "transfer", "payout", "over"}]
  /\ quote \in [Runs -> Breakdowns \cup {NoQuote}]
  /\ request \in [Runs -> Requests \cup {NoRequest}]
  /\ try \in [Runs -> 0..MaxTries]
  /\ books \subseteq [entry : Entries, amount : Nat \ {0}, currency : Currencies \ {NoCurrency}]
  /\ told \subseteq Entries
  /\ lost \subseteq Entries

\* The parts of a payment add up to it; neither fee is below its exact value, and
\* neither is more than a cent above that value rounded up, whatever the
\* floating-point product; so the payer of the shares never loses to rounding.
FeesCover ==
  \A r \in Runs : quote[r] # NoQuote =>
    LET q == quote[r]
        exact == IF job.provider = "stripe" THEN 290 * q.total + 300000
                                            ELSE 299 * q.total + 490000
    IN  /\ q.contribution + q.processing + q.platform = q.total
        /\ 10000 * q.processing >= exact /\ 10000 * (q.processing - 1) < exact
        /\ 1000 * q.platform >= job.percent * q.total
        /\ 1000 * (q.platform - 2) < job.percent * q.total

\* What providers paid is what steps reported, and requests that got no answer:
\* no payment is claimed that was not made, none is hidden by a refusal.
BooksBalance ==
  /\ told \subseteq {b.entry : b \in books}
  /\ {b.entry : b \in books} \subseteq told \cup lost

\* One run pays a share at most once, and once more for each answer it lost; and
\* it pays no more than the share, unless the gross amount stands in its data
\* where the step looks first.
NeverPaysBeyond ==
  \A r \in Runs, kind \in Kinds :
    LET payments == {b \in books : b.entry.run = r /\ b.entry.kind = kind}
        blanks == {e \in lost : e.run = r /\ e.kind = kind}
    IN  /\ Cardinality(payments) <= 1 + Cardinality(blanks)
        /\ (job.wiring = "input" \/ ~job.context) =>
             \A b \in payments : b.amount <= Share(r, kind)
=============================================================================
