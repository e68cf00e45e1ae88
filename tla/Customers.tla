------------------------------ MODULE Customers ------------------------------
(***************************************************************************)
(* Stripe's EnsureCustomer: list the customers with an e-mail address,     *)
(* take the first, and create one if there is none.  Between the two       *)
(* requests others may do the same, and answers get lost.                  *)
(***************************************************************************)
EXTENDS Naturals, FiniteSets

CONSTANTS
  Calls,       \* goroutines and processes that run the step
  Emails,      \* resolved and not empty: the step insists on one
  Ids, NoId,   \* customer ids
  Turns,       \* the addresses whose calls take turns
  MaxFaults    \* lost requests and answers

ASSUME CustomersAssumption ==
  /\ NoId \notin Ids
  /\ Turns \subseteq Emails
  /\ MaxFaults \in Nat

VARIABLES
  customers,  \* what Stripe holds
  pc,         \* call -> "idle", the request it waits for, or "done"
  email,      \* call -> the address it works for
  answer,     \* call -> the customer it will output
  told,       \* address -> the customers steps have output for it
  faults

vars == <<customers, pc, email, answer, told, faults>>

-----------------------------------------------------------------------------
With(e) == {k \in customers : k.email = e}

Start(c, e) ==
  /\ pc[c] = "idle"
  /\ e \in Turns => \A d \in Calls : pc[d] = "idle" \/ email[d] # e
  /\ pc' = [pc EXCEPT ![c] = "list"]
  /\ email' = [email EXCEPT ![c] = e]
  /\ UNCHANGED <<customers, answer, told, faults>>

\* Faulty variant of Found: the list request does not filter.
FoundAny(c) == customers

\* The list request filters by address; EnsureCustomer takes the first customer.
Found(c) == With(email[c])

ListHit(c) ==
  /\ pc[c] = "list"
  /\ \E k \in Found(c) : answer' = [answer EXCEPT ![c] = k.id]
  /\ pc' = [pc EXCEPT ![c] = "done"]
  /\ UNCHANGED <<customers, email, told, faults>>

\* Faulty variant of ListMiss: the step outputs a customer without an id.
ListMissReturns(c) ==
  /\ pc[c] = "list"
  /\ Found(c) = {}
  /\ pc' = [pc EXCEPT ![c] = "done"]
  /\ answer' = [answer EXCEPT ![c] = NoId]
  /\ UNCHANGED <<customers, email, told, faults>>

\* Faulty variant of ListMiss: a failed list request counts as an empty list.
ListMissOnError(c) ==
  /\ pc[c] = "list"
  /\ pc' = [pc EXCEPT ![c] = "create"]
  /\ UNCHANGED <<customers, email, answer, told, faults>>

ListMiss(c) ==
  /\ pc[c] = "list"
  /\ Found(c) = {}
  /\ pc' = [pc EXCEPT ![c] = "create"]
  /\ UNCHANGED <<customers, email, answer, told, faults>>

Fresh(id) == \A k \in customers : k.id # id

Create(c, id) ==
  /\ pc[c] = "create"
  /\ Fresh(id)
  /\ customers' = customers \cup {[id |-> id, email |-> email[c]]}
  /\ answer' = [answer EXCEPT ![c] = id]
  /\ pc' = [pc EXCEPT ![c] = "done"]
  /\ UNCHANGED <<email, told, faults>>

\* The step outputs customer_id.
Return(c) ==
  /\ pc[c] = "done"
  /\ told' = [told EXCEPT ![email[c]] = @ \cup {answer[c]}]
  /\ pc' = [pc EXCEPT ![c] = "idle"]
  /\ UNCHANGED <<customers, email, answer, faults>>

\* The request or its answer is lost; the step outputs an error.
Lose(c) ==
  /\ pc[c] # "idle"
  /\ faults < MaxFaults
  /\ faults' = faults + 1
  /\ pc' = [pc EXCEPT ![c] = "idle"]
  /\ UNCHANGED <<customers, email, answer, told>>

-----------------------------------------------------------------------------
Init ==
  /\ customers = {}
  /\ pc = [c \in Calls |-> "idle"]
  /\ email \in [Calls -> Emails]
  /\ answer = [c \in Calls |-> NoId]
  /\ told = [e \in Emails |-> {}]
  /\ faults = 0

Step(c) ==
  \/ \E e \in Emails : Start(c, e)
  \/ ListHit(c) \/ ListMiss(c)
  \/ \E id \in Ids : Create(c, id)
  \/ Return(c) \/ Lose(c)

Next == \E c \in Calls : Step(c)

Spec == Init /\ [][Next]_vars

-----------------------------------------------------------------------------
TypeOK ==
  /\ customers \subseteq [id : Ids, email : Emails]
  /\ pc \in [Calls -> {"idle", "list", "create", "done"}]
  /\ email \in [Calls -> Emails]
  /\ answer \in [Calls -> Ids \cup {NoId}]
  /\ told \in [Emails -> SUBSET Ids]
  /\ faults \in 0..MaxFaults

\* An address whose calls take turns has at most one customer, however often calls
\* are repeated and their answers lost, and whatever calls for other addresses do
\* ("idempotent upsert", plugin.json).
OneCustomerPerEmail == \A e \in Turns : \A k, l \in With(e) : k = l

\* Every customer id a step outputs is that of a customer with the address it was
\* given, which no other address shares.
AnswersAreTheirs ==
  \A e \in Emails :
    /\ \A id \in told[e] : \E k \in customers : k.id = id /\ k.email = e
    /\ \A f \in Emails : f # e => told[e] \cap told[f] = {}

\* However often steps are repeated, an address never gets more customers than
\* there are calls that can overlap: once it has one, only calls that had looked
\* before can still add another.
DuplicatesAreBounded == \A e \in Emails : Cardinality(With(e)) <= Cardinality(Calls)

\* An address is given a second customer only by calls that overlap.
DuplicatesNeedOverlap == OneCustomerPerEmail /\ DuplicatesAreBounded

\* For addresses whose calls take turns the account is a directory.
IdOf(found) == IF found = {} THEN NoId ELSE (CHOOSE k \in found : TRUE).id
DirectoryEntry == [e \in Turns |-> IdOf(With(e))]
DirectoryAnswered == [e \in Turns |-> told[e]]
Directory == INSTANCE CustomerDirectory
               WITH Emails <- Turns, entry <- DirectoryEntry, answered <- DirectoryAnswered
ImplementsDirectory == Directory!Spec
=============================================================================
