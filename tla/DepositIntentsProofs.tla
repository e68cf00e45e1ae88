------------------------- MODULE DepositIntentsProofs -------------------------
(***************************************************************************)
(* That an idempotency key stands for one PaymentIntent, one verdict and   *)
(* one list of addresses, for any orders, any spelling of networks, any    *)
(* repetitions and any lost answers.                                       *)
(***************************************************************************)
EXTENDS DepositIntents, WellFoundedInduction, TLAPS

LEMMA LeastExists ==
  ASSUME NEW S, S \subseteq Nat, S # {}
  PROVE  \E n \in S : \A k \in S : n <= k
<1> DEFINE R == {ss \in Nat \X Nat : ss[1] < ss[2]}
<1>1. IsWellFoundedOn(R, Nat)
  BY NatLessThanWellFounded DEF OpToRel
<1>2. \A n, k \in Nat : <<k, n>> \in R <=> k < n
  OBVIOUS
<1> HIDE DEF R
<1>3. PICK n \in S : \A k \in S : ~(<<k, n>> \in R)
  BY <1>1, WFMin
<1>4. \A k \in S : ~(k < n)
  BY <1>2, <1>3
<1> QED
  BY <1>4

LEMMA Constants ==
  /\ None \notin Keys \cup Ids /\ Malformed \notin Evidence
  /\ Canon \in [DOMAIN Canon -> Allowed \cup {"", "ethereum"}] /\ Canon[""] = ""
  /\ Code \in [DOMAIN Code -> STRING]
BY DepositAssumption DEF DepositAssumption

LEMMA Bounds == MaxFaults \in Nat /\ MaxUnkeyed \in Nat
BY DepositAssumption DEF DepositAssumption

-----------------------------------------------------------------------------
(* Lists of networks. *)

\* Two lists of the same networks by the same rank are the same.
LEMMA RankedUnique ==
  ASSUME NEW S, NEW rank, \A n \in S : rank[n] \in Int,
         NEW l \in Ranked(S, rank), NEW m \in Ranked(S, rank)
  PROVE  l = m
<1>1. PICK p \in 1..3 : l \in [1..p -> Allowed]
  BY DEF Ranked, Lists
<1>2. PICK q \in 1..3 : m \in [1..q -> Allowed]
  BY DEF Ranked, Lists
<1>3. /\ S = {l[i] : i \in 1..p} /\ S = {m[i] : i \in 1..q}
      /\ \A i, j \in 1..p : i < j => rank[l[i]] < rank[l[j]]
      /\ \A i, j \in 1..q : i < j => rank[m[i]] < rank[m[j]]
  BY <1>1, <1>2 DEF Ranked, ToSet
<1>4. /\ \A i \in 1..p : rank[l[i]] \in Int /\ \E j \in 1..q : l[i] = m[j]
      /\ \A i \in 1..q : rank[m[i]] \in Int /\ \E j \in 1..p : m[i] = l[j]
  BY <1>3
<1>5. l[1] = m[1]
  <2>1. PICK j \in 1..q : l[1] = m[j]
    BY <1>4
  <2>2. PICK k \in 1..p : m[1] = l[k]
    BY <1>4
  <2>3. j # 1 => rank[m[1]] < rank[m[j]]
    BY <1>3
  <2>4. k # 1 => rank[l[1]] < rank[l[k]]
    BY <1>3
  <2> QED
    BY <1>4, <2>1, <2>2, <2>3, <2>4
<1>6. \A i \in 2..p : rank[l[1]] < rank[l[i]]
  BY <1>3
<1>7. \A i \in 2..q : rank[m[1]] < rank[m[i]]
  BY <1>3
<1>8. p >= 2 <=> q >= 2
  BY <1>4, <1>5, <1>6, <1>7
<1>9. p >= 2 => l[2] = m[2]
  <2> SUFFICES ASSUME p >= 2 PROVE l[2] = m[2]
    OBVIOUS
  <2>1. PICK j \in 1..q : l[2] = m[j]
    BY <1>4
  <2>2. PICK k \in 1..p : m[2] = l[k]
    BY <1>4, <1>8
  <2>3. j # 1 /\ k # 1
    BY <1>4, <1>5, <1>6, <1>7, <1>8, <2>1, <2>2
  <2>4. j # 2 => rank[m[2]] < rank[m[j]]
    BY <1>3, <1>8, <2>3
  <2>5. k # 2 => rank[l[2]] < rank[l[k]]
    BY <1>3, <2>3
  <2> QED
    BY <1>4, <1>8, <2>1, <2>2, <2>4, <2>5
<1>10. p = 3 => rank[l[2]] < rank[l[3]]
  BY <1>3
<1>11. q = 3 => rank[m[2]] < rank[m[3]]
  BY <1>3
<1>12. p = 3 => q = 3 /\ l[3] = m[3]
  <2> SUFFICES ASSUME p = 3 PROVE q = 3 /\ l[3] = m[3]
    OBVIOUS
  <2>1. PICK j \in 1..q : l[3] = m[j]
    BY <1>4
  <2>2. j # 1 /\ j # 2
    BY <1>4, <1>5, <1>6, <1>8, <1>9, <1>10, <2>1
  <2> QED
    BY <2>1, <2>2
<1>13. q = 3 => p = 3
  <2> SUFFICES ASSUME q = 3 PROVE p = 3
    OBVIOUS
  <2>1. PICK j \in 1..p : m[3] = l[j]
    BY <1>4
  <2>2. j # 1 /\ j # 2
    BY <1>4, <1>5, <1>7, <1>8, <1>9, <1>11, <2>1
  <2> QED
    BY <2>1, <2>2
<1> QED
  BY <1>1, <1>2, <1>5, <1>8, <1>9, <1>12, <1>13

LEMMA ListsNameOnce ==
  ASSUME NEW l \in Lists, NEW i \in DOMAIN l, NEW j \in DOMAIN l, i < j
  PROVE  l[i] # l[j]
<1>1. \A p, q \in DOMAIN l : l[p] = l[q] => p = q
  BY DEF Lists
<1>2. DOMAIN l \subseteq Int
  BY DEF Lists
<1> QED
  BY <1>1, <1>2

LEMMA RankedOf ==
  ASSUME NEW S, NEW rank, NEW p \in 1..3, NEW l \in [1..p -> Allowed],
         S = {l[i] : i \in 1..p},
         \A i \in 1..p : rank[l[i]] \in Int,
         \A i, j \in 1..p : i < j => rank[l[i]] < rank[l[j]]
  PROVE  l \in Ranked(S, rank)
<1>1. \A i, j \in 1..p : l[i] = l[j] => i = j
  OBVIOUS
<1> QED
  BY <1>1 DEF Ranked, Lists, ToSet

\* Networks of different ranks have a list.
LEMMA RankedExists ==
  ASSUME NEW S \in SUBSET Allowed, S # {}, NEW rank, \A n \in S : rank[n] \in Int,
         \A n, k \in S : rank[n] = rank[k] => n = k
  PROVE  Ranked(S, rank) # {}
<1>1. ASSUME NEW a \in Allowed, S = {a}
      PROVE  Ranked(S, rank) # {}
  <2> DEFINE l == <<a>>
  <2>1. l \in [1..1 -> Allowed] /\ l[1] = a
    OBVIOUS
  <2> HIDE DEF l
  <2> QED
    BY <1>1, <2>1, RankedOf
<1>2. ASSUME NEW a \in Allowed, NEW b \in Allowed, S = {a, b}, rank[a] < rank[b]
      PROVE  Ranked(S, rank) # {}
  <2> DEFINE l == <<a, b>>
  <2>1. l \in [1..2 -> Allowed] /\ l[1] = a /\ l[2] = b
    OBVIOUS
  <2> HIDE DEF l
  <2>2. /\ S = {l[i] : i \in 1..2} /\ \A i \in 1..2 : rank[l[i]] \in Int
        /\ \A i, j \in 1..2 : i < j => rank[l[i]] < rank[l[j]]
    BY <1>2, <2>1
  <2> QED
    BY <2>1, <2>2, RankedOf
<1>3. ASSUME NEW a \in Allowed, NEW b \in Allowed, NEW c \in Allowed, S = {a, b, c},
             rank[a] < rank[b], rank[b] < rank[c]
      PROVE  Ranked(S, rank) # {}
  <2> DEFINE l == <<a, b, c>>
  <2>1. l \in [1..3 -> Allowed] /\ l[1] = a /\ l[2] = b /\ l[3] = c
    OBVIOUS
  <2> HIDE DEF l
  <2>2. /\ S = {l[i] : i \in 1..3} /\ \A i \in 1..3 : rank[l[i]] \in Int
        /\ \A i, j \in 1..3 : i < j => rank[l[i]] < rank[l[j]]
    BY <1>3, <2>1
  <2> QED
    BY <2>1, <2>2, RankedOf
<1>4. \/ \E a \in Allowed : S = {a}
      \/ S = {"base", "solana"} \/ S = {"base", "tempo"} \/ S = {"solana", "tempo"}
      \/ S = {"base", "solana", "tempo"}
  <2>1. \A n \in S : n = "base" \/ n = "solana" \/ n = "tempo"
    BY DEF Allowed
  <2>2. CASE "base" \in S /\ "solana" \in S /\ "tempo" \in S
    BY <2>1, <2>2
  <2>3. CASE "base" \in S /\ "solana" \in S /\ "tempo" \notin S
    BY <2>1, <2>3
  <2>4. CASE "base" \in S /\ "solana" \notin S /\ "tempo" \in S
    BY <2>1, <2>4
  <2>5. CASE "base" \notin S /\ "solana" \in S /\ "tempo" \in S
    BY <2>1, <2>5
  <2>6. CASE "base" \in S /\ "solana" \notin S /\ "tempo" \notin S
    <3>1. S = {"base"}
      BY <2>1, <2>6
    <3> QED
      BY <3>1 DEF Allowed
  <2>7. CASE "base" \notin S /\ "solana" \in S /\ "tempo" \notin S
    <3>1. S = {"solana"}
      BY <2>1, <2>7
    <3> QED
      BY <3>1 DEF Allowed
  <2>8. CASE "base" \notin S /\ "solana" \notin S /\ "tempo" \in S
    <3>1. S = {"tempo"}
      BY <2>1, <2>8
    <3> QED
      BY <3>1 DEF Allowed
  <2>9. "base" \in S \/ "solana" \in S \/ "tempo" \in S
    BY <2>1
  <2> QED
    BY <2>2, <2>3, <2>4, <2>5, <2>6, <2>7, <2>8, <2>9
<1>5. ASSUME NEW a \in Allowed, NEW b \in Allowed, a # b, S = {a, b}
      PROVE  Ranked(S, rank) # {}
  <2>1. rank[a] < rank[b] \/ rank[b] < rank[a]
    BY <1>5
  <2>2. S = {b, a}
    BY <1>5
  <2> QED
    BY <1>2, <1>5, <2>1, <2>2
<1>6. CASE S = {"base", "solana", "tempo"}
  <2> DEFINE a == rank["base"]
             b == rank["solana"]
             c == rank["tempo"]
  <2>1. a \in Int /\ b \in Int /\ c \in Int /\ a # b /\ b # c /\ a # c
    BY <1>6
  <2>2. /\ S = {"base", "tempo", "solana"} /\ S = {"solana", "base", "tempo"}
        /\ S = {"solana", "tempo", "base"} /\ S = {"tempo", "base", "solana"}
        /\ S = {"tempo", "solana", "base"}
        /\ {"base", "solana", "tempo"} \subseteq Allowed
    BY <1>6 DEF Allowed
  <2>3. \/ (a < b /\ b < c) \/ (a < c /\ c < b) \/ (b < a /\ a < c)
        \/ (b < c /\ c < a) \/ (c < a /\ a < b) \/ (c < b /\ b < a)
    BY <2>1
  <2> QED
    BY <1>3, <1>6, <2>2, <2>3
<1> QED
  BY <1>1, <1>4, <1>5, <1>6 DEF Allowed

LEMMA SortedUnique ==
  ASSUME NEW S \in SUBSET Allowed, NEW l \in Sorted(S), NEW m \in Sorted(S)
  PROVE  l = m
<1>1. \A n \in S : Alphabet[n] \in Int
  BY DEF Allowed, Alphabet
<1> QED
  BY <1>1, RankedUnique DEF Sorted

-----------------------------------------------------------------------------
(* What becomes of an order's list. *)

LEMMA OrderTyped ==
  ASSUME NEW o \in Orders
  PROVE  /\ o.frontend \in {"typed", "legacy"} /\ o.key \in Keys \cup {None}
         /\ o.amount \in Int
         /\ o.currency \in DOMAIN Code /\ o.defaultCurrency \in STRING \ {""}
         /\ o.config \in Seq(DOMAIN Canon) /\ o.input \in Seq(DOMAIN Canon)
BY OrdersAssumption DEF OrdersAssumption

\* A currency is sent, and it is the one given, or the module's default.
LEMMA CurrencyIs ==
  ASSUME NEW o \in Orders
  PROVE  /\ Currency(o) \in STRING \ {""}
         /\ Code[o.currency] # "" => Currency(o) = Code[o.currency]
         /\ Code[o.currency] = "" => Currency(o) = o.defaultCurrency
BY OrderTyped, Constants DEF Currency

\* The list taken is one of those the author wrote, or the default if both are empty
\* of text.
LEMMA NoText ==
  ASSUME NEW l, ~HasText(l)
  PROVE  \A s \in ToSet(l) : s = ""
BY DEF HasText, ToSet

LEMMA TextIsNotEmpty ==
  ASSUME NEW l, HasText(l)
  PROVE  l # <<>>
<1>1. DOMAIN << >> = {}
  OBVIOUS
<1>2. PICK i \in DOMAIN l : l[i] # ""
  BY DEF HasText
<1> QED
  BY <1>1, <1>2

LEMMA NetworksFrom ==
  ASSUME NEW o \in Orders
  PROVE  \/ Networks(o) \in {o.config, o.input} /\ Networks(o) # <<>>
         \/ /\ Networks(o) = <<>>
            /\ \A s \in ToSet(o.config) \cup ToSet(o.input) : s = ""
<1>1. CASE o.frontend = "typed"
  <2>1. Networks(o) = IF o.config # <<>> THEN o.config ELSE o.input
    BY <1>1 DEF Networks
  <2>2. \A l : l = <<>> => \A s \in ToSet(l) : s = ""
    BY NoText, TextIsNotEmpty
  <2>3. CASE o.config = <<>> /\ o.input = <<>>
    BY <2>1, <2>2, <2>3
  <2> QED
    BY <2>1, <2>3
<1>2. CASE o.frontend = "legacy"
  <2>1. \A l : (NotEmpty(l) = IF HasText(l) THEN l ELSE <<>>) /\ (NotEmpty(l) # <<>> <=> HasText(l))
    BY TextIsNotEmpty DEF NotEmpty
  <2>2. Networks(o) = IF NotEmpty(o.input) # <<>> THEN NotEmpty(o.input) ELSE NotEmpty(o.config)
    BY <1>2 DEF Networks
  <2>3. Networks(o) = IF HasText(o.input) THEN o.input
                      ELSE IF HasText(o.config) THEN o.config ELSE <<>>
    BY <2>1, <2>2
  <2>4. CASE HasText(o.input) \/ HasText(o.config)
    BY <2>3, <2>4, TextIsNotEmpty
  <2>5. CASE ~HasText(o.input) /\ ~HasText(o.config)
    BY <2>3, <2>5, NoText
  <2> QED
    BY <2>4, <2>5
<1> QED
  BY <1>1, <1>2, OrderTyped

LEMMA NamesTyped ==
  ASSUME NEW o \in Orders
  PROVE  \E k \in Nat : DOMAIN Names(o) = 1..k
<1>1. Given(o) \in Seq(DOMAIN Canon) \/ Given(o) = <<"base", "tempo", "solana">>
  BY NetworksFrom, OrderTyped DEF Given
<1>2. \E k \in Nat : DOMAIN Given(o) = 1..k
  <2>1. CASE Given(o) \in Seq(DOMAIN Canon)
    BY <2>1
  <2>2. CASE Given(o) = <<"base", "tempo", "solana">>
    <3>1. DOMAIN Given(o) = 1..3
      BY <2>2
    <3> QED
      BY <3>1
  <2> QED
    BY <1>1, <2>1, <2>2
<1> QED
  BY <1>2 DEF Names

LEMMA FirstIsThere ==
  ASSUME NEW list, NEW k \in Nat, DOMAIN list = 1..k, NEW n \in ToSet(list)
  PROVE  First(list, n) \in 1..k /\ list[First(list, n)] = n
<1> DEFINE S == {i \in 1..k : list[i] = n}
<1>1. S \subseteq Nat /\ S # {}
  BY DEF ToSet
<1>2. PICK i \in S : \A j \in S : i <= j
  BY <1>1, LeastExists
<1>3. i \in DOMAIN list /\ list[i] = n /\ \A j \in 1..(i - 1) : list[j] # n
  <2>1. ASSUME NEW j \in 1..(i - 1) PROVE list[j] # n
    <3>1. j \in 1..k /\ ~(i <= j)
      OBVIOUS
    <3> QED
      BY <1>2, <3>1
  <2> QED
    BY <2>1
<1> QED
  BY <1>3 DEF First

\* A sendable order's list: the networks it names, each once, by first mention.
LEMMA NormalizedIsRanked ==
  ASSUME NEW o \in Orders, Named(o) # {}, Named(o) \subseteq Allowed
  PROVE  LET rank == [n \in Named(o) |-> First(Names(o), n)] IN
         /\ \A n \in Named(o) : rank[n] \in Int
         /\ Normalized(o) \in Ranked(Named(o), rank)
<1> DEFINE rank == [n \in Named(o) |-> First(Names(o), n)]
<1>1. PICK k \in Nat : DOMAIN Names(o) = 1..k
  BY NamesTyped
<1>2. ASSUME NEW n \in Named(o)
      PROVE  rank[n] \in Int /\ Names(o)[rank[n]] = n
  <2>1. First(Names(o), n) \in 1..k /\ Names(o)[First(Names(o), n)] = n
    BY <1>1, FirstIsThere DEF Named
  <2> QED
    BY <2>1
<1>3. Normalized(o) = CHOOSE list \in Ranked(Named(o), rank) : TRUE
  BY DEF Normalized
<1> HIDE DEF rank
<1>4. \A n, m \in Named(o) : rank[n] = rank[m] => n = m
  BY <1>2
<1>5. Ranked(Named(o), rank) # {}
  BY <1>2, <1>4, RankedExists
<1>6. Normalized(o) \in Ranked(Named(o), rank)
  BY <1>3, <1>5
<1> QED
  BY <1>2, <1>6 DEF rank

LEMMA NormalizedIs ==
  ASSUME NEW o \in Orders, Sendable(o)
  PROVE  Normalized(o) \in Lists /\ ToSet(Normalized(o)) = Named(o) /\ Body(o) \in Bodies
<1>1. Named(o) # {} /\ Named(o) \subseteq Allowed /\ o.amount > 0 /\ o.amount \in Int
  BY OrderTyped DEF Sendable
<1>2. Normalized(o) \in Lists /\ ToSet(Normalized(o)) = Named(o)
  BY <1>1, NormalizedIsRanked DEF Ranked
<1>3. Currency(o) \in STRING \ {""}
  BY CurrencyIs
<1>4. o.amount \in {p.amount : p \in Orders} \ {0}
  BY <1>1
<1>5. o.description \in {p.description : p \in Orders}
  OBVIOUS
<1>6. Body(o) \in Bodies
  BY <1>2, <1>3, <1>4, <1>5 DEF Body, Bodies
<1> QED
  BY <1>2, <1>6

-----------------------------------------------------------------------------
(* The invariant, in terms of what Stripe holds: ints and mem stand for    *)
(* intents and memory, which only grow.                                    *)

\* The intent i is an answer to the order o.
Answers(o, i, ints, mem) ==
  /\ i \in ints /\ i.body = Body(o)
  /\ o.key # None => \E m \in mem : m.key = o.key /\ m.intent = i

\* Another request was made first under o's key.
Conflict(o, mem) == \E m \in mem : m.key = o.key /\ m.body # Body(o)

CallOK(r, ints, mem) ==
  /\ r \in [order : Orders, stage : {"send", "answered", "refused"}, intent : ints \cup {None}]
  /\ Sendable(r.order)
  /\ r.stage = "answered" => Answers(r.order, r.intent, ints, mem)
  /\ r.stage = "refused" => Conflict(r.order, mem)

ToldOK(t, ints, mem) ==
  /\ t \in [order : Orders, intent : ints, networks : Lists]
  /\ Sendable(t.order) /\ Answers(t.order, t.intent, ints, mem)
  /\ Valid(t.order, t.intent.evidence)
  /\ t.networks \in Sorted(Usable(t.intent.evidence))

RejectedOK(t, ints, mem) ==
  /\ t \in [order : Orders, intent : ints]
  /\ Sendable(t.order) /\ Answers(t.order, t.intent, ints, mem)
  /\ ~Valid(t.order, t.intent.evidence)

\* Stripe remembers the one intent under each key, and the request it was made for.
StripeInv ==
  /\ intents \subseteq Intents
  /\ memory \subseteq [key : Keys, body : Bodies, intent : intents]
  /\ \A m \in memory : m.intent.body = m.body
  /\ \A m, n \in memory : m.key = n.key => m = n
  /\ \A i \in intents : i.key # None => \E m \in memory : m.key = i.key /\ m.intent = i

StepsInv ==
  /\ call = [c \in Calls |-> call[c]]
  /\ \A c \in Calls : Busy(c) => CallOK(call[c], intents, memory)
  /\ \A t \in told : ToldOK(t, intents, memory)
  /\ \A t \in rejected : RejectedOK(t, intents, memory)

Inv == StripeInv /\ StepsInv /\ unkeyed \in 0..MaxUnkeyed /\ faults \in 0..MaxFaults

LEMMA InitInv == Init => Inv
<1> SUFFICES ASSUME Init PROVE Inv
  OBVIOUS
<1>1. StripeInv
  BY DEF Init, StripeInv
<1>2. StepsInv
  BY DEF Init, StepsInv, Busy
<1>3. unkeyed \in 0..MaxUnkeyed /\ faults \in 0..MaxFaults
  BY Bounds DEF Init
<1> QED
  BY <1>1, <1>2, <1>3 DEF Inv

LEMMA GrowthKeeps ==
  ASSUME NEW ints, NEW mem, NEW ints2, NEW mem2, ints \subseteq ints2, mem \subseteq mem2
  PROVE  /\ \A o, i : Answers(o, i, ints, mem) => Answers(o, i, ints2, mem2)
         /\ \A r : CallOK(r, ints, mem) => CallOK(r, ints2, mem2)
         /\ \A t : ToldOK(t, ints, mem) => ToldOK(t, ints2, mem2)
         /\ \A t : RejectedOK(t, ints, mem) => RejectedOK(t, ints2, mem2)
<1>1. \A o, i : Answers(o, i, ints, mem) => Answers(o, i, ints2, mem2)
  BY DEF Answers
<1>2. \A o : Conflict(o, mem) => Conflict(o, mem2)
  BY DEF Conflict
<1>3. \A r : CallOK(r, ints, mem) => CallOK(r, ints2, mem2)
  <2> SUFFICES ASSUME NEW r, CallOK(r, ints, mem) PROVE CallOK(r, ints2, mem2)
    OBVIOUS
  <2>1. r \in [order : Orders, stage : {"send", "answered", "refused"}, intent : ints2 \cup {None}]
    BY DEF CallOK
  <2> QED
    BY <1>1, <1>2, <2>1 DEF CallOK
<1>4. \A t : ToldOK(t, ints, mem) => ToldOK(t, ints2, mem2)
  <2> SUFFICES ASSUME NEW t, ToldOK(t, ints, mem) PROVE ToldOK(t, ints2, mem2)
    OBVIOUS
  <2>1. t \in [order : Orders, intent : ints2, networks : Lists]
    BY DEF ToldOK
  <2> QED
    BY <1>1, <2>1 DEF ToldOK
<1>5. \A t : RejectedOK(t, ints, mem) => RejectedOK(t, ints2, mem2)
  <2> SUFFICES ASSUME NEW t, RejectedOK(t, ints, mem) PROVE RejectedOK(t, ints2, mem2)
    OBVIOUS
  <2>1. t \in [order : Orders, intent : ints2]
    BY DEF RejectedOK
  <2> QED
    BY <1>1, <2>1 DEF RejectedOK
<1> QED
  BY <1>1, <1>3, <1>4, <1>5

\* c goes on with r, or ends; Stripe may have added to what it holds.
LEMMA StepsKeep ==
  ASSUME StepsInv, NEW c \in Calls, NEW r, call' = [call EXCEPT ![c] = r],
         intents \subseteq intents', memory \subseteq memory',
         r # None => CallOK(r, intents', memory'),
         \A t \in told' : t \in told \/ ToldOK(t, intents', memory'),
         \A t \in rejected' : t \in rejected \/ RejectedOK(t, intents', memory')
  PROVE  StepsInv'
<1>1. /\ call' = [d \in Calls |-> call'[d]] /\ call'[c] = r
      /\ \A d \in Calls : d # c => call'[d] = call[d]
  BY DEF StepsInv
<1>2. ASSUME NEW d \in Calls, call'[d] # None
      PROVE  CallOK(call'[d], intents', memory')
  <2>1. CASE d = c
    BY <1>1, <1>2, <2>1
  <2>2. CASE d # c
    <3>1. call'[d] = call[d] /\ CallOK(call[d], intents, memory)
      BY <1>1, <1>2, <2>2 DEF StepsInv, Busy
    <3> QED
      BY <3>1, GrowthKeeps
  <2> QED
    BY <2>1, <2>2
<1>3. \A t \in told' : ToldOK(t, intents', memory')
  BY GrowthKeeps DEF StepsInv
<1>4. \A t \in rejected' : RejectedOK(t, intents', memory')
  BY GrowthKeeps DEF StepsInv
<1> QED
  BY <1>1, <1>2, <1>3, <1>4 DEF StepsInv, Busy

LEMMA QuietKeeps ==
  ASSUME Inv, UNCHANGED <<intents, memory>>
  PROVE  StripeInv'
BY DEF Inv, StripeInv

LEMMA StartKeeps ==
  ASSUME Inv, NEW c \in Calls, NEW o \in Orders, Start(c, o)
  PROVE  Inv'
<1> DEFINE r == [order |-> o, stage |-> "send", intent |-> None]
<1>1. CallOK(r, intents', memory')
  BY DEF Start, CallOK
<1>2. call' = [call EXCEPT ![c] = r]
      /\ UNCHANGED <<intents, memory, told, rejected, faults>>
  BY DEF Start
<1>3. unkeyed' \in 0..MaxUnkeyed
  BY Bounds DEF Start, Inv
<1> HIDE DEF r
<1>4. StepsInv'
  BY <1>1, <1>2, StepsKeep DEF Inv
<1> QED
  BY <1>2, <1>3, <1>4, QuietKeeps DEF Inv

\* A step that has its verdict, or has lost its answer, is over.
LEMMA EndKeeps ==
  ASSUME Inv, NEW c \in Calls, Tell(c) \/ Reject(c) \/ GiveUp(c) \/ Lose(c)
  PROVE  Inv'
<1>1. call' = [call EXCEPT ![c] = None] /\ UNCHANGED <<intents, memory, unkeyed>>
  BY DEF Tell, Reject, GiveUp, Lose
<1>2. faults' \in 0..MaxFaults
  BY Bounds DEF Tell, Reject, GiveUp, Lose, Inv
<1>3. call[c] # None => CallOK(call[c], intents, memory)
  BY DEF Inv, StepsInv, Busy
<1>4. \A t \in told' : t \in told \/ ToldOK(t, intents', memory')
  <2>1. CASE Tell(c)
    <3> DEFINE o == call[c].order
               i == call[c].intent
    <3>1. /\ call[c].stage = "answered" /\ Busy(c) /\ Valid(o, i.evidence)
          /\ \E list \in Sorted(Usable(i.evidence)) :
               told' = told \cup {[order |-> o, intent |-> i, networks |-> list]}
      BY <2>1 DEF Tell
    <3>2. o \in Orders /\ Sendable(o) /\ Answers(o, i, intents, memory)
      BY <1>3, <3>1 DEF CallOK, Busy
    <3> HIDE DEF o, i
    <3>3. PICK list \in Sorted(Usable(i.evidence)) :
            told' = told \cup {[order |-> o, intent |-> i, networks |-> list]}
      BY <3>1
    <3> DEFINE t == [order |-> o, intent |-> i, networks |-> list]
    <3>4. list \in Lists /\ i \in intents
      BY <3>2 DEF Sorted, Ranked, Answers
    <3>5. t \in [order : Orders, intent : intents, networks : Lists]
      BY <3>2, <3>4
    <3>6. t.order = o /\ t.intent = i /\ t.networks = list
      OBVIOUS
    <3>7. told' = told \cup {t}
      BY <3>3
    <3> HIDE DEF t
    <3>8. ToldOK(t, intents, memory)
      BY <3>1, <3>2, <3>5, <3>6 DEF ToldOK
    <3> QED
      BY <1>1, <3>7, <3>8
  <2>2. CASE UNCHANGED told
    BY <2>2
  <2> QED
    BY <2>1, <2>2 DEF Reject, GiveUp, Lose
<1>5. \A t \in rejected' : t \in rejected \/ RejectedOK(t, intents', memory')
  <2>1. CASE Reject(c)
    <3> DEFINE o == call[c].order
               i == call[c].intent
               t == [order |-> o, intent |-> i]
    <3>1. /\ call[c].stage = "answered" /\ Busy(c) /\ ~Valid(o, i.evidence)
          /\ rejected' = rejected \cup {t}
      BY <2>1 DEF Reject
    <3>2. o \in Orders /\ Sendable(o) /\ Answers(o, i, intents, memory)
      BY <1>3, <3>1 DEF CallOK, Busy
    <3> HIDE DEF o, i
    <3>3. t \in [order : Orders, intent : intents] /\ t.order = o /\ t.intent = i
      BY <3>2 DEF Answers
    <3> HIDE DEF t
    <3>4. RejectedOK(t, intents, memory)
      BY <3>1, <3>2, <3>3 DEF RejectedOK
    <3> QED
      BY <1>1, <3>1, <3>4
  <2>2. CASE UNCHANGED rejected
    BY <2>2
  <2> QED
    BY <2>1, <2>2 DEF Tell, GiveUp, Lose
<1>6. StepsInv'
  BY <1>1, <1>4, <1>5, StepsKeep DEF Inv
<1> QED
  BY <1>1, <1>2, <1>6, QuietKeeps DEF Inv

\* A repetition learns what is remembered.
LEMMA ReplayKeeps ==
  ASSUME Inv, NEW c \in Calls, Replay(c)
  PROVE  Inv'
<1> DEFINE o == call[c].order
<1>1. Busy(c) /\ UNCHANGED <<intents, memory, told, rejected, unkeyed, faults>>
  BY DEF Replay
<1>2. PICK m \in memory : m.key = o.key /\ m.body = Body(o) /\ Answered(c, m.intent)
  BY DEF Replay, UnderKey, SentKey
<1> DEFINE i == m.intent
           r == [call[c] EXCEPT !.stage = "answered", !.intent = i]
<1>3. i \in intents /\ i.body = Body(o)
  BY <1>2 DEF Inv, StripeInv
<1>4. call' = [call EXCEPT ![c] = r]
  BY <1>2 DEF Answered
<1>5. Answers(o, i, intents, memory)
  BY <1>2, <1>3 DEF Answers
<1> HIDE DEF i, r
<1>6. /\ r \in [order : Orders, stage : {"answered", "refused"}, intent : intents \cup {None}]
      /\ r.order = o /\ r.stage = "answered" /\ r.intent = i /\ Sendable(o)
  <2>1. CallOK(call[c], intents, memory)
    BY <1>1 DEF Inv, StepsInv, Busy
  <2> QED
    BY <1>3, <2>1 DEF r, CallOK
<1> HIDE DEF o
<1>7. CallOK(r, intents, memory)
  BY <1>5, <1>6 DEF CallOK
<1>8. StepsInv'
  BY <1>1, <1>4, <1>7, StepsKeep DEF Inv
<1> QED
  BY <1>1, <1>8, QuietKeeps DEF Inv

\* A request that differs from the one remembered is refused.
LEMMA RefuseKeeps ==
  ASSUME Inv, NEW c \in Calls, Refuse(c)
  PROVE  Inv'
<1> DEFINE o == call[c].order
           i == call[c].intent
           r == [call[c] EXCEPT !.stage = "refused", !.intent = i]
<1>1. /\ Busy(c) /\ UNCHANGED <<intents, memory, told, rejected, unkeyed, faults>>
      /\ call' = [call EXCEPT ![c].stage = "refused"]
  BY DEF Refuse
<1>2. Conflict(o, memory)
  BY DEF Refuse, UnderKey, SentKey, Conflict
<1>3. CallOK(call[c], intents, memory)
  BY <1>1 DEF Inv, StepsInv, Busy
<1>4. i \in intents \cup {None} /\ [call[c] EXCEPT !.stage = "refused"] = r
  BY <1>3 DEF CallOK
<1>5. call' = [call EXCEPT ![c] = r]
  BY <1>1, <1>4
<1> HIDE DEF i, r
<1>6. /\ r \in [order : Orders, stage : {"answered", "refused"}, intent : intents \cup {None}]
      /\ r.order = o /\ r.stage = "refused" /\ r.intent = i /\ Sendable(o)
  BY <1>3, <1>4 DEF r, CallOK
<1> HIDE DEF o
<1>7. CallOK(r, intents, memory)
  BY <1>2, <1>6 DEF CallOK
<1>8. StepsInv'
  BY <1>1, <1>5, <1>7, StepsKeep DEF Inv
<1> QED
  BY <1>1, <1>8, QuietKeeps DEF Inv

\* A first request: its key was not known, and is now that of the new intent.
LEMMA CreateKeeps ==
  ASSUME Inv, NEW c \in Calls, NEW id \in Ids, NEW e \in Evidence \cup {Malformed},
         Create(c, id, e)
  PROVE  Inv'
<1> DEFINE o == call[c].order
           body == Body(o)
           i == [id |-> id, key |-> o.key, body |-> body, evidence |-> e]
           m == [key |-> o.key, body |-> body, intent |-> i]
           r == [call[c] EXCEPT !.stage = "answered", !.intent = i]
<1>1. /\ Busy(c) /\ intents' = intents \cup {i}
      /\ memory' = IF o.key = None THEN memory ELSE memory \cup {m}
      /\ \A n \in memory : n.key # o.key
      /\ call' = [call EXCEPT ![c].stage = "answered", ![c].intent = i]
      /\ UNCHANGED <<told, rejected, unkeyed, faults>>
  BY DEF Create, SentKey, UnderKey, Answered
<1>2. call' = [call EXCEPT ![c] = r]
  BY <1>1
<1>3. i.key = o.key /\ i.body = body /\ m.key = o.key /\ m.intent = i /\ m.body = body
  OBVIOUS
<1>4. CallOK(call[c], intents, memory)
  BY <1>1 DEF Inv, StepsInv, Busy
<1>5. o \in Orders /\ o.key \in Keys \cup {None} /\ body \in Bodies
  BY <1>4, NormalizedIs, OrderTyped DEF CallOK
<1>6. i \in Intents
  BY <1>5 DEF Intents
<1>7. o.key # None => m \in [key : Keys, body : Bodies, intent : intents']
  BY <1>1, <1>5
<1>8. body = Body(o)
  OBVIOUS
<1> HIDE DEF i, m, body, r
<1>9. /\ r \in [order : Orders, stage : {"answered", "refused"}, intent : intents' \cup {None}]
      /\ r.order = o /\ r.stage = "answered" /\ r.intent = i /\ Sendable(o)
  BY <1>1, <1>4 DEF r, CallOK
<1> HIDE DEF o
<1>10. StripeInv'
  <2>1. intents' \subseteq Intents
    BY <1>1, <1>6 DEF Inv, StripeInv
  <2>2. memory' \subseteq [key : Keys, body : Bodies, intent : intents']
    <3>1. [key : Keys, body : Bodies, intent : intents]
            \subseteq [key : Keys, body : Bodies, intent : intents']
      BY <1>1
    <3> QED
      BY <1>1, <1>7, <3>1 DEF Inv, StripeInv
  <2>3. \A n \in memory' : n.intent.body = n.body
    BY <1>1, <1>3 DEF Inv, StripeInv
  <2>4. \A n, k \in memory' : n.key = k.key => n = k
    BY <1>1, <1>3 DEF Inv, StripeInv
  <2>5. \A j \in intents' : j.key # None => \E n \in memory' : n.key = j.key /\ n.intent = j
    BY <1>1, <1>3 DEF Inv, StripeInv
  <2> QED
    BY <2>1, <2>2, <2>3, <2>4, <2>5 DEF StripeInv
<1>11. Answers(o, i, intents', memory')
  BY <1>1, <1>3, <1>8 DEF Answers
<1>12. CallOK(r, intents', memory')
  BY <1>9, <1>11 DEF CallOK
<1>13. StepsInv'
  BY <1>1, <1>2, <1>12, StepsKeep DEF Inv
<1> QED
  BY <1>1, <1>10, <1>13 DEF Inv

LEMMA NextInv == Inv /\ [Next]_vars => Inv'
<1> SUFFICES ASSUME Inv, [Next]_vars PROVE Inv'
  OBVIOUS
<1>1. ASSUME NEW c \in Calls,
             \/ \E o \in Orders : Start(c, o)
             \/ \E id \in Ids, e \in Evidence \cup {Malformed} : Create(c, id, e)
             \/ Replay(c) \/ Refuse(c) \/ Tell(c) \/ Reject(c) \/ GiveUp(c) \/ Lose(c)
      PROVE  Inv'
  BY <1>1, StartKeeps, CreateKeeps, ReplayKeeps, RefuseKeeps, EndKeeps
<1>2. CASE UNCHANGED vars
  BY <1>2 DEF vars, Inv, StripeInv, StepsInv, Busy
<1> QED
  BY <1>1, <1>2 DEF Next

LEMMA Invariance == Spec => []Inv
BY InitInv, NextInv, PTL DEF Spec

\* Requests name supported networks, each once, and what steps know, output and turn
\* down is about PaymentIntents that exist (normalizeStablecoinDepositNetworks).
THEOREM TypeCorrect == Spec => []TypeOK
<1>1. Inv => TypeOK
  <2> SUFFICES ASSUME Inv PROVE TypeOK
    OBVIOUS
  <2>1. ASSUME NEW c \in Calls, Busy(c)
        PROVE  call[c] \in [order : Orders, stage : {"send", "answered", "refused"},
                            intent : intents \cup {None}]
    BY <2>1 DEF Inv, StepsInv, CallOK
  <2>2. told \subseteq [order : Orders, intent : intents, networks : Lists]
    BY DEF Inv, StepsInv, ToldOK
  <2>3. rejected \subseteq [order : Orders, intent : intents]
    BY DEF Inv, StepsInv, RejectedOK
  <2> QED
    BY <2>1, <2>2, <2>3 DEF Inv, StripeInv, TypeOK
<1> QED
  BY <1>1, Invariance, PTL

\* However often keyed steps are repeated, overlap or lose an answer, there is one
\* PaymentIntent under a key (CreateStablecoinDepositIntent, SetIdempotencyKey).
THEOREM KeysStandForOneIntent == Spec => []OneIntentPerKey
<1>1. Inv => OneIntentPerKey
  BY DEF Inv, StripeInv, OneIntentPerKey
<1> QED
  BY <1>1, Invariance, PTL

\* Whatever runs under one key output or turn down, it is about one intent.
AnswersShareIntent ==
  \A t, u \in told \cup rejected :
    (t.order.key # None /\ t.order.key = u.order.key) => t.intent = u.intent

LEMMA SharedIntent == Inv => AnswersShareIntent
<1> SUFFICES ASSUME Inv, NEW t \in told \cup rejected, NEW u \in told \cup rejected,
                    t.order.key # None, t.order.key = u.order.key
             PROVE  t.intent = u.intent
  BY DEF AnswersShareIntent
<1>1. /\ Answers(t.order, t.intent, intents, memory)
      /\ Answers(u.order, u.intent, intents, memory)
  BY DEF Inv, StepsInv, ToldOK, RejectedOK
<1> QED
  BY <1>1 DEF Answers, Inv, StripeInv

\* Runs under one key that succeed, or reject the evidence, all do so for the same
\* PaymentIntent (CreateStablecoinDepositIntent).
THEOREM RunsShareTheIntent == Spec => []AnswersShareIntent
BY SharedIntent, Invariance, PTL

\* Evidence that is accepted is about networks that were sent.
LEMMA UsableRequested ==
  ASSUME NEW o \in Orders, Sendable(o), NEW e, Valid(o, e)
  PROVE  Usable(e) # {} /\ Usable(e) \subseteq Named(o) /\ Usable(e) \subseteq Allowed
<1>1. ToSet(Normalized(o)) = Named(o) /\ Named(o) \subseteq Allowed
  BY NormalizedIs DEF Sendable
<1>2. Usable(e) # {} /\ e # Malformed
  BY DEF Valid, Usable
<1>3. DOMAIN e \subseteq Named(o)
  BY <1>1, <1>2 DEF Valid
<1> QED
  BY <1>1, <1>2, <1>3 DEF Usable

\* Repetitions under a key output the same list in the same order, whatever order Go
\* ranges over the map in, and no intent is both output and turned down
\* (stripeStablecoinDepositAddresses).
THEOREM RepetitionsNeverDiffer == Spec => []RepetitionsAgree
<1>1. Inv => AnswersAgree
  <2> SUFFICES ASSUME Inv, NEW t \in told, NEW u \in told,
                      t.order.key # None, t.order.key = u.order.key
               PROVE  t.intent = u.intent /\ t.networks = u.networks
    BY DEF AnswersAgree
  <2>1. t.intent = u.intent
    BY SharedIntent DEF AnswersShareIntent
  <2>2. ToldOK(t, intents, memory) /\ ToldOK(u, intents, memory)
    BY DEF Inv, StepsInv
  <2> DEFINE S == Usable(t.intent.evidence)
  <2>3. t.networks \in Sorted(S) /\ u.networks \in Sorted(S)
    BY <2>1, <2>2 DEF ToldOK
  <2>4. S \subseteq Allowed
    BY <2>2, UsableRequested DEF ToldOK
  <2> HIDE DEF S
  <2>5. t.networks = u.networks
    BY <2>3, <2>4, SortedUnique
  <2> QED
    BY <2>1, <2>5
<1>2. Inv => VerdictsAgree
  <2> SUFFICES ASSUME Inv, NEW t \in told, NEW r \in rejected, t.intent = r.intent
               PROVE  FALSE
    BY DEF VerdictsAgree
  <2>1. ToldOK(t, intents, memory) /\ RejectedOK(r, intents, memory)
    BY DEF Inv, StepsInv
  <2>2. Body(t.order) = Body(r.order)
    BY <2>1 DEF ToldOK, RejectedOK, Answers
  <2>3. Normalized(t.order) = Normalized(r.order)
    BY <2>2 DEF Body
  <2> QED
    BY <2>1, <2>3 DEF ToldOK, RejectedOK, Valid
<1>3. Inv => RepetitionsAgree
  BY <1>1, <1>2 DEF RepetitionsAgree
<1> QED
  BY <1>3, Invariance, PTL

LEMMA BothLists ==
  ASSUME NEW X, NEW s \in Seq(X), NEW t \in Seq(X)
  PROVE  ToSet(s \o t) = ToSet(s) \cup ToSet(t)
<1> DEFINE p == Len(s)
           q == Len(t)
           u == s \o t
<1>1. p \in Nat /\ q \in Nat /\ DOMAIN s = 1..p /\ DOMAIN t = 1..q
  OBVIOUS
<1>2. u \in Seq(X) /\ Len(u) = p + q
  OBVIOUS
<1>3. DOMAIN u = 1..(p + q)
  BY <1>2
<1>4. \A i \in 1..(p + q) : u[i] = IF i <= p THEN s[i] ELSE t[i - p]
  OBVIOUS
<1> HIDE DEF p, q, u
<1>5. \A i \in DOMAIN s : s[i] = u[i] /\ i \in DOMAIN u
  BY <1>1, <1>3, <1>4
<1>6. \A i \in DOMAIN t : t[i] = u[i + p] /\ i + p \in DOMAIN u
  BY <1>1, <1>3, <1>4
<1>7. \A i \in DOMAIN u :
        (i \in DOMAIN s /\ u[i] = s[i]) \/ (i - p \in DOMAIN t /\ u[i] = t[i - p])
  BY <1>1, <1>3, <1>4
<1>8. {u[i] : i \in DOMAIN u} = {s[i] : i \in DOMAIN s} \cup {t[i] : i \in DOMAIN t}
  BY <1>5, <1>6, <1>7
<1> QED
  BY <1>8 DEF ToSet, u

\* What an order's list names is what its author wrote, if that names anything.
LEMMA NamedIsWritten ==
  ASSUME NEW o \in Orders
  PROVE  LET written == {Canon[s] : s \in ToSet(o.config \o o.input)} \ {""}
         IN  written # {} => Named(o) \subseteq written
<1> DEFINE texts == ToSet(o.config \o o.input)
           written == {Canon[s] : s \in texts} \ {""}
<1> SUFFICES ASSUME written # {} PROVE Named(o) \subseteq written
  OBVIOUS
<1>1. o.config \in Seq(DOMAIN Canon) /\ o.input \in Seq(DOMAIN Canon)
  BY OrderTyped
<1>2. texts = ToSet(o.config) \cup ToSet(o.input)
  <2> DEFINE X == DOMAIN Canon
             a == o.config
             b == o.input
  <2>1. a \in Seq(X) /\ b \in Seq(X)
    BY <1>1
  <2> HIDE DEF X, a, b
  <2>2. ToSet(a \o b) = ToSet(a) \cup ToSet(b)
    BY <2>1, BothLists
  <2> QED
    BY <2>2 DEF a, b
<1> HIDE DEF texts
<1>3. \E s \in texts : s # ""
  BY Constants
<1>4. Networks(o) \in {o.config, o.input} /\ Networks(o) # <<>>
  BY <1>2, <1>3, NetworksFrom
<1>5. Given(o) = Networks(o)
  BY <1>4 DEF Given
<1>6. ToSet(Given(o)) \subseteq texts
  BY <1>2, <1>4, <1>5
<1>7. \A n \in ToSet(Names(o)) : \E s \in ToSet(Given(o)) : n = Canon[s]
  BY DEF Names, ToSet
<1> QED
  BY <1>6, <1>7 DEF Named

\* A step that succeeds outputs only networks its author named, at least one, each
\* with an address and a USDC contract (stripeStablecoinDepositAddresses).
THEOREM OutputsCoverRequest == Spec => []AnswersCoverRequest
<1>1. Inv => AnswersCoverRequest
  <2> SUFFICES ASSUME Inv, NEW t \in told
               PROVE  LET named == {Canon[s] : s \in ToSet(t.order.config \o t.order.input)} \ {""}
                          shown == ToSet(t.networks)
                      IN  /\ shown # {} /\ shown \subseteq Allowed
                          /\ named # {} => shown \subseteq named
                          /\ \A n \in shown : /\ t.intent.evidence[n].address
                                              /\ t.intent.evidence[n].token = "contract"
    BY DEF AnswersCoverRequest
  <2>1. ToldOK(t, intents, memory)
    BY DEF Inv, StepsInv
  <2>2. t.order \in Orders /\ Sendable(t.order) /\ Valid(t.order, t.intent.evidence)
    BY <2>1 DEF ToldOK
  <2>3. ToSet(t.networks) = Usable(t.intent.evidence)
    BY <2>1 DEF ToldOK, Sorted, Ranked
  <2>4. /\ ToSet(t.networks) # {} /\ ToSet(t.networks) \subseteq Allowed
        /\ ToSet(t.networks) \subseteq Named(t.order)
    BY <2>2, <2>3, UsableRequested
  <2>5. \A n \in ToSet(t.networks) : Complete(t.intent.evidence[n])
    BY <2>2, <2>3 DEF Valid
  <2> QED
    BY <2>2, <2>4, <2>5, NamedIsWritten DEF Complete
<1> QED
  BY <1>1, Invariance, PTL

\* A list of the networks an order names, in the order of their first mentions, is the
\* one that is sent.
LEMMA SameList ==
  ASSUME NEW o \in Orders, Named(o) # {}, Named(o) \subseteq Allowed,
         NEW l \in Lists, ToSet(l) = Named(o),
         \A i, j \in DOMAIN l :
           ~(i < j /\ First(Names(o), l[i]) > First(Names(o), l[j]))
  PROVE  l = Normalized(o)
<1> DEFINE rank == [n \in Named(o) |-> First(Names(o), n)]
<1>1. (\A n \in Named(o) : rank[n] \in Int) /\ Normalized(o) \in Ranked(Named(o), rank)
  BY NormalizedIsRanked
<1>2. PICK k \in Nat : DOMAIN Names(o) = 1..k
  BY NamesTyped
<1>3. ASSUME NEW i \in DOMAIN l, NEW j \in DOMAIN l, i < j
      PROVE  rank[l[i]] < rank[l[j]]
  <2>1. l[i] \in Named(o) /\ l[j] \in Named(o)
    BY DEF ToSet
  <2>2. l[i] # l[j]
    BY <1>3, ListsNameOnce
  <2>3. /\ Names(o)[First(Names(o), l[i])] = l[i]
        /\ Names(o)[First(Names(o), l[j])] = l[j]
    BY <1>2, <2>1, FirstIsThere DEF Named
  <2>4. /\ rank[l[i]] = First(Names(o), l[i]) /\ rank[l[j]] = First(Names(o), l[j])
        /\ rank[l[i]] \in Int /\ rank[l[j]] \in Int
    BY <1>1, <2>1
  <2> QED
    BY <1>3, <2>2, <2>3, <2>4
<1>4. l \in Ranked(Named(o), rank)
  BY <1>3 DEF Ranked
<1> HIDE DEF rank
<1> QED
  BY <1>1, <1>4, RankedUnique

\* A repeated order is refused under its key only if the first was for another amount,
\* in another currency, given or the module's default, with another description, for
\* other networks or another order of them: spelling, blanks and repetitions do not
\* matter (CreateStablecoinDepositIntent, normalizeStablecoinDepositNetworks).
THEOREM OnlyConflictsAreRefused == Spec => []RefusalsAreConflicts
<1>1. Inv => RefusalsAreConflicts
  <2> SUFFICES ASSUME Inv, NEW c \in Calls, Busy(c), call[c].stage = "refused"
               PROVE  \E m \in memory :
                        LET o == call[c].order
                            first == m.body
                            given == Code[o.currency]
                            At(n) == First(Names(o), n)
                        IN  /\ m.key = o.key
                            /\ \/ first.amount # o.amount
                               \/ first.description # o.description
                               \/ given # "" /\ first.currency # given
                               \/ given = "" /\ first.currency # o.defaultCurrency
                               \/ ToSet(first.networks) # Named(o)
                               \/ \E i, j \in DOMAIN first.networks :
                                    i < j /\ At(first.networks[i]) > At(first.networks[j])
    BY DEF RefusalsAreConflicts
  <2> DEFINE o == call[c].order
  <2>1. o \in Orders /\ Sendable(o) /\ Conflict(o, memory)
    BY DEF Inv, StepsInv, CallOK
  <2>2. PICK m \in memory : m.key = o.key /\ m.body # Body(o)
    BY <2>1 DEF Conflict
  <2> DEFINE l == m.body.networks
  <2>3. m.body \in Bodies
    BY DEF Inv, StripeInv
  <2> SUFFICES ASSUME m.body.amount = o.amount, m.body.description = o.description,
                      Code[o.currency] # "" => m.body.currency = Code[o.currency],
                      Code[o.currency] = "" => m.body.currency = o.defaultCurrency,
                      ToSet(l) = Named(o),
                      \A i, j \in DOMAIN l :
                        ~(i < j /\ First(Names(o), l[i]) > First(Names(o), l[j]))
               PROVE  FALSE
    BY <2>2
  <2>4. Named(o) # {} /\ Named(o) \subseteq Allowed
    BY <2>1 DEF Sendable
  <2>5. l \in Lists
    BY <2>3 DEF Bodies
  <2>6. l = Normalized(o)
    BY <2>1, <2>4, <2>5, SameList
  <2>7. m.body.currency = Currency(o)
    BY <2>1, CurrencyIs
  <2>8. m.body = [amount |-> m.body.amount, currency |-> m.body.currency,
                   description |-> m.body.description, networks |-> l]
    BY <2>3 DEF Bodies
  <2> QED
    BY <2>2, <2>6, <2>7, <2>8 DEF Body
<1> QED
  BY <1>1, Invariance, PTL
=============================================================================
