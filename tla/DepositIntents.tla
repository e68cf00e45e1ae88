---------------------------- MODULE DepositIntents ----------------------------
(***************************************************************************)
(* Stablecoin deposit intents: one request creates and confirms a          *)
(* PaymentIntent, and only then is the evidence in the answer, a map from  *)
(* networks to addresses and tokens, validated.  Steps are repeated and    *)
(* overlap; an idempotency key ties the repetitions together.              *)
(***************************************************************************)
EXTENDS Integers, SequencesExt

CONSTANTS
  Calls,
  Orders,       \* what workflows ask for, and the default currency of the module they ask
  Keys,         \* idempotency keys
  Canon,        \* spelling of a network -> the trimmed, lower-case name
  Code,         \* spelling of a currency -> the trimmed, lower-case code
  Ids,          \* PaymentIntent ids
  Evidence,     \* the evidence Stripe may answer with
  None,
  Malformed,    \* evidence that is missing or does not decode
  MaxFaults,    \* lost requests and answers
  MaxUnkeyed    \* steps without a key; each that is served adds an intent

Allowed == {"base", "solana", "tempo"}

\* The order of sort.Slice.
Alphabet == [base |-> 1, solana |-> 2, tempo |-> 3]

ASSUME DepositAssumption ==
  /\ Canon \in [DOMAIN Canon -> Allowed \cup {"", "ethereum"}]
  /\ "" \in DOMAIN Canon /\ Canon[""] = ""
  /\ Code \in [DOMAIN Code -> STRING]
  /\ "" \in DOMAIN Code /\ Code[""] = ""
  /\ None \notin Keys \cup Ids /\ Malformed \notin Evidence
  /\ MaxFaults \in Nat /\ MaxUnkeyed \in Nat

\* Of the lists of networks an order has both places, of the rest what its front end
\* takes from them.
ASSUME OrdersAssumption ==
  Orders \subseteq [frontend : {"typed", "legacy"}, key : Keys \cup {None},
                    amount : Int, stablecoin : STRING, description : STRING,
                    currency : DOMAIN Code, defaultCurrency : STRING \ {""},
                    config : Seq(DOMAIN Canon), input : Seq(DOMAIN Canon)]

VARIABLES
  intents,   \* what Stripe holds
  memory,    \* under each idempotency key, the request first made and its intent
  call,      \* goroutine -> the step it runs
  told,      \* what steps have output
  rejected,  \* orders whose evidence was turned down, with the intent
  unkeyed,   \* steps without a key so far
  faults

vars == <<intents, memory, call, told, rejected, unkeyed, faults>>

-----------------------------------------------------------------------------
(* Lists of networks, each once. *)

Lists ==
  {list \in UNION {[1..k -> Allowed] : k \in 1..3} :
     \A i, j \in DOMAIN list : list[i] = list[j] => i = j}

\* The lists of the networks in S, by rank: there is one, if ranks differ.
Ranked(S, rank) ==
  {list \in Lists :
     /\ ToSet(list) = S
     /\ \A i, j \in DOMAIN list : i < j => rank[list[i]] < rank[list[j]]}

-----------------------------------------------------------------------------
(* Before the request. *)

\* toStringSlice drops empty strings, not blank ones.  What becomes of a list that
\* is left is the same with them: blanks are dropped below.
HasText(list) == \E i \in DOMAIN list : list[i] # ""
NotEmpty(list) == IF HasText(list) THEN list ELSE <<>>

\* The message's configuration comes first, the map's current value does.
Networks(o) ==
  CASE o.frontend = "typed" -> IF o.config # <<>> THEN o.config ELSE o.input
    [] o.frontend = "legacy" ->
         IF NotEmpty(o.input) # <<>> THEN NotEmpty(o.input) ELSE NotEmpty(o.config)

\* The default of normalizeStablecoinDepositNetworks.
Given(o) == IF Networks(o) = <<>> THEN <<"base", "tempo", "solana">> ELSE Networks(o)

Names(o) == LET list == Given(o) IN [i \in DOMAIN list |-> Canon[list[i]]]

Named(o) == ToSet(Names(o)) \ {""}

\* Where a name is met first.
First(list, n) == CHOOSE i \in DOMAIN list : list[i] = n /\ \A j \in 1..(i - 1) : list[j] # n

\* Faulty variant of Normalized: a network that is given twice is sent twice.
NormalizedTwice(o) == SelectSeq(Names(o), LAMBDA n : n # "")

\* Blanks dropped, and of repeated networks the first is kept.
Normalized(o) ==
  CHOOSE list \in Ranked(Named(o), [n \in Named(o) |-> First(Names(o), n)]) : TRUE

Sendable(o) ==
  /\ o.amount > 0
  /\ o.stablecoin \in {"", "usdc"}
  /\ Named(o) # {}
  /\ Named(o) \subseteq Allowed

\* Faulty variant of Currency: neither trimmed nor lowered.
CurrencyAsGiven(o) == IF o.currency # "" THEN o.currency ELSE o.defaultCurrency

\* The default is what the module was configured with, in its spelling.
Currency(o) == IF Code[o.currency] # "" THEN Code[o.currency] ELSE o.defaultCurrency

\* What tells one request from another; all else in it is fixed.
Body(o) ==
  [amount |-> o.amount, currency |-> Currency(o), description |-> o.description,
   networks |-> Normalized(o)]

Start(c, o) ==
  /\ call[c] = None
  /\ Sendable(o)
  /\ o.key = None => unkeyed < MaxUnkeyed
  /\ unkeyed' = IF o.key = None THEN unkeyed + 1 ELSE unkeyed
  /\ call' = [call EXCEPT ![c] = [order |-> o, stage |-> "send", intent |-> None]]
  /\ UNCHANGED <<intents, memory, told, rejected, faults>>

-----------------------------------------------------------------------------
(* Stripe. *)

Busy(c) == call[c] # None

\* Faulty variant of SentKey: the header is forgotten.
SentKeyNever(o) == None

\* SetIdempotencyKey, if there is one.
SentKey(o) == o.key

\* What Stripe knows of the request's key.
UnderKey(o) == {m \in memory : m.key = SentKey(o)}

Fresh(id) == \A i \in intents : i.id # id

Answered(c, i) == call' = [call EXCEPT ![c].stage = "answered", ![c].intent = i]

Create(c, id, e) ==
  LET o == call[c].order
      i == [id |-> id, key |-> o.key, body |-> Body(o), evidence |-> e]
  IN  /\ Busy(c) /\ call[c].stage = "send"
      /\ UnderKey(o) = {}
      /\ Fresh(id)
      /\ intents' = intents \cup {i}
      /\ memory' = IF SentKey(o) = None THEN memory
                   ELSE memory \cup {[key |-> SentKey(o), body |-> Body(o), intent |-> i]}
      /\ Answered(c, i)
      /\ UNCHANGED <<told, rejected, unkeyed, faults>>

\* The same request under the same key: the first answer again.
Replay(c) ==
  LET o == call[c].order IN
  /\ Busy(c) /\ call[c].stage = "send"
  /\ \E m \in UnderKey(o) : m.body = Body(o) /\ Answered(c, m.intent)
  /\ UNCHANGED <<intents, memory, told, rejected, unkeyed, faults>>

\* Another request under the same key.
Refuse(c) ==
  LET o == call[c].order IN
  /\ Busy(c) /\ call[c].stage = "send"
  /\ \E m \in UnderKey(o) : m.body # Body(o)
  /\ call' = [call EXCEPT ![c].stage = "refused"]
  /\ UNCHANGED <<intents, memory, told, rejected, unkeyed, faults>>

-----------------------------------------------------------------------------
(* After the request. *)

\* The networks with a USDC token.  Of a network's tokens only the first in USDC
\* counts; token says what that one is like.
Usable(e) == IF e = Malformed THEN {} ELSE {n \in DOMAIN e : e[n].token # "none"}

Complete(a) == a.address /\ a.token = "contract"

\* Faulty variant of Valid: networks nobody asked for are accepted.
ValidAny(o, e) == Usable(e) # {} /\ \A n \in Usable(e) : Complete(e[n])

Valid(o, e) ==
  /\ e # Malformed => DOMAIN e \subseteq ToSet(Normalized(o))
  /\ Usable(e) # {}
  /\ \A n \in Usable(e) : Complete(e[n])

\* Faulty variant of Sorted: the order in which Go ranged over the map is kept.
SortedNot(S) == {list \in Lists : ToSet(list) = S}

\* What sort.Slice makes of the addresses, whatever order the loop met them in.
Sorted(S) == Ranked(S, Alphabet)

\* The step outputs the intent and the addresses it validated.
Tell(c) ==
  LET i == call[c].intent IN
  /\ Busy(c) /\ call[c].stage = "answered"
  /\ Valid(call[c].order, i.evidence)
  /\ \E list \in Sorted(Usable(i.evidence)) :
       told' = told \cup {[order |-> call[c].order, intent |-> i, networks |-> list]}
  /\ call' = [call EXCEPT ![c] = None]
  /\ UNCHANGED <<intents, memory, rejected, unkeyed, faults>>

\* The step outputs an error; the intent is there.
Reject(c) ==
  LET i == call[c].intent IN
  /\ Busy(c) /\ call[c].stage = "answered"
  /\ ~Valid(call[c].order, i.evidence)
  /\ rejected' = rejected \cup {[order |-> call[c].order, intent |-> i]}
  /\ call' = [call EXCEPT ![c] = None]
  /\ UNCHANGED <<intents, memory, told, unkeyed, faults>>

\* The step outputs Stripe's refusal.
GiveUp(c) ==
  /\ Busy(c) /\ call[c].stage = "refused"
  /\ call' = [call EXCEPT ![c] = None]
  /\ UNCHANGED <<intents, memory, told, rejected, unkeyed, faults>>

\* The request or its answer is lost: the step outputs an error.
Lose(c) ==
  /\ Busy(c) /\ faults < MaxFaults
  /\ faults' = faults + 1
  /\ call' = [call EXCEPT ![c] = None]
  /\ UNCHANGED <<intents, memory, told, rejected, unkeyed>>

-----------------------------------------------------------------------------
Init ==
  /\ intents = {}
  /\ memory = {}
  /\ call = [c \in Calls |-> None]
  /\ told = {} /\ rejected = {}
  /\ unkeyed = 0 /\ faults = 0

Next ==
  \E c \in Calls :
    \/ \E o \in Orders : Start(c, o)
    \/ \E id \in Ids, e \in Evidence \cup {Malformed} : Create(c, id, e)
    \/ Replay(c) \/ Refuse(c) \/ Tell(c) \/ Reject(c) \/ GiveUp(c) \/ Lose(c)

Spec == Init /\ [][Next]_vars

-----------------------------------------------------------------------------
\* Requests name supported networks, each once (Lists): "Unsupported networks ... fail before
\* any provider API request" (docs/SETUP.md).
Bodies ==
  [amount : {o.amount : o \in Orders} \ {0}, currency : STRING \ {""},
   description : {o.description : o \in Orders}, networks : Lists]
Intents ==
  [id : Ids, key : Keys \cup {None}, body : Bodies, evidence : Evidence \cup {Malformed}]

TypeOK ==
  /\ intents \subseteq Intents
  /\ memory \subseteq [key : Keys, body : Bodies, intent : intents]
  /\ \A c \in Calls : Busy(c) =>
       call[c] \in [order : Orders, stage : {"send", "answered", "refused"},
                    intent : intents \cup {None}]
  /\ told \subseteq [order : Orders, intent : intents, networks : Lists]
  /\ rejected \subseteq [order : Orders, intent : intents]
  /\ unkeyed \in 0..MaxUnkeyed /\ faults \in 0..MaxFaults

\* However often steps with one idempotency key are repeated, overlap or lose an
\* answer, there is one PaymentIntent under the key.
OneIntentPerKey == \A i, j \in intents : (i.key # None /\ i.key = j.key) => i = j

\* All runs under a key that succeed output the same intent and the same list of
\* addresses in the same order, whatever order Go ranges over the map in.
AnswersAgree ==
  \A t, u \in told : (t.order.key # None /\ t.order.key = u.order.key) =>
    t.intent = u.intent /\ t.networks = u.networks

\* Evidence is judged alike by every run that sees it: no intent is both given to
\* a workflow and turned down, so a repetition does not turn an error into a success.
VerdictsAgree == \A t \in told, r \in rejected : t.intent # r.intent

\* A repetition, an overlapping run or another front end never sees another outcome.
RepetitionsAgree == AnswersAgree /\ VerdictsAgree

\* A step that succeeds outputs only networks its author named (any, if none was),
\* at least one, each with an address and a USDC contract: "fails closed outside the
\* documented USDC networks" (README).
AnswersCoverRequest ==
  \A t \in told :
    LET named == {Canon[s] : s \in ToSet(t.order.config \o t.order.input)} \ {""}
        shown == ToSet(t.networks)
    IN  /\ shown # {} /\ shown \subseteq Allowed
        /\ named # {} => shown \subseteq named
        /\ \A n \in shown : t.intent.evidence[n].address /\ t.intent.evidence[n].token = "contract"

\* Spelling, blanks and repetitions do not matter to a repeated order, nor whether its
\* currency is given or the default of its module: it is refused under its key only if
\* the first one was for another amount, in another currency, with another description,
\* for other networks, or for the same in another order.
RefusalsAreConflicts ==
  \A c \in Calls : (Busy(c) /\ call[c].stage = "refused") =>
    \E m \in memory :
    LET o == call[c].order
        first == m.body
        given == Code[o.currency]
        At(n) == First(Names(o), n)
    IN  /\ m.key = o.key
        /\ \/ first.amount # o.amount \/ first.description # o.description
           \/ given # "" /\ first.currency # given
           \/ given = "" /\ first.currency # o.defaultCurrency
           \/ ToSet(first.networks) # Named(o)
           \/ \E i, j \in DOMAIN first.networks :
                i < j /\ At(first.networks[i]) > At(first.networks[j])
=============================================================================
