---------------------------- MODULE CustomersProofs ----------------------------
(***************************************************************************)
(* That addresses whose calls take turns have one customer, that the step  *)
(* implements the directory for them, and that duplicates of the others    *)
(* are bounded, for any calls, addresses and number of lost answers; and   *)
(* that accounts implement the customer step, that a listing of what hangs *)
(* on a customer is faithful, and that what is attached is found again.    *)
(***************************************************************************)
EXTENDS Accounts, FiniteSetTheorems, WellFoundedInduction, TLAPS

UniqueIds == \A k, l \in customers : k.id = l.id => k = l

(* A call that is about to answer has a customer of its address. *)
DoneInv ==
  \A c \in Calls : pc[c] = "done" =>
    \E k \in customers : k.id = answer[c] /\ k.email = email[c]

(* With turns, a call that is about to create is the only one for its address, *)
(* and what it saw is still so.  Neither part is inductive without the other.  *)
TurnInv ==
  \A c, d \in Calls :
    (pc[c] # "idle" /\ pc[d] # "idle" /\ email[c] = email[d] /\ email[c] \in Turns) => c = d

MissInv ==
  \A c \in Calls : (pc[c] = "create" /\ email[c] \in Turns) => With(email[c]) = {}

IInv == /\ TypeOK /\ UniqueIds /\ DoneInv /\ TurnInv /\ MissInv
        /\ OneCustomerPerEmail /\ AnswersAreTheirs

LEMMA Constants == NoId \notin Ids /\ Turns \subseteq Emails /\ MaxFaults \in Nat
BY CustomersAssumption DEF CustomersAssumption

LEMMA InitInv == Init => IInv
<1> SUFFICES ASSUME Init PROVE IInv
  OBVIOUS
<1>1. TypeOK
  BY Constants DEF Init, TypeOK
<1>2. UniqueIds /\ DoneInv /\ TurnInv /\ MissInv
  BY DEF Init, UniqueIds, DoneInv, TurnInv, MissInv
<1>3. OneCustomerPerEmail /\ AnswersAreTheirs
  BY DEF Init, OneCustomerPerEmail, AnswersAreTheirs, With
<1> QED
  BY <1>1, <1>2, <1>3 DEF IInv

LEMMA StepType ==
  ASSUME IInv, NEW c \in Calls, Step(c)
  PROVE  TypeOK'
<1> USE Constants DEF IInv
<1>1. CASE \E e \in Emails : Start(c, e)
  BY <1>1 DEF Start, TypeOK
<1>2. CASE ListHit(c)
  <2>1. PICK k \in customers : answer' = [answer EXCEPT ![c] = k.id]
    BY <1>2 DEF ListHit, Found, With
  <2>2. k.id \in Ids
    BY DEF TypeOK
  <2> QED
    BY <1>2, <2>1, <2>2 DEF ListHit, TypeOK
<1>3. CASE ListMiss(c)
  BY <1>3 DEF ListMiss, TypeOK
<1>4. CASE \E id \in Ids : Create(c, id)
  BY <1>4 DEF Create, TypeOK
<1>5. CASE Return(c)
  <2>1. answer[c] \in Ids
    BY <1>5 DEF Return, DoneInv, TypeOK
  <2>2. email[c] \in Emails
    BY DEF TypeOK
  <2>3. told' \in [Emails -> SUBSET Ids]
    BY <1>5, <2>1, <2>2 DEF Return, TypeOK
  <2> QED
    BY <1>5, <2>3 DEF Return, TypeOK
<1>6. CASE Lose(c)
  BY <1>6 DEF Lose, TypeOK
<1> QED
  BY <1>1, <1>2, <1>3, <1>4, <1>5, <1>6 DEF Step

\* Only Create changes what Stripe holds; it adds a customer with a new id.
LEMMA StepCustomers ==
  ASSUME TypeOK, NEW c \in Calls, Step(c)
  PROVE  \/ UNCHANGED customers
         \/ \E id \in Ids : Create(c, id) /\ Fresh(id)
BY DEF Step, Start, ListHit, ListMiss, Create, Return, Lose

LEMMA StepGrows ==
  ASSUME TypeOK, NEW c \in Calls, Step(c)
  PROVE  customers \subseteq customers'
BY StepCustomers DEF Create

\* What a step of one call leaves alone.
LEMMA OthersUntouched ==
  ASSUME TypeOK, NEW c \in Calls, Step(c), NEW d \in Calls, d # c
  PROVE  pc'[d] = pc[d] /\ email'[d] = email[d] /\ answer'[d] = answer[d]
BY DEF TypeOK, Step, Start, ListHit, ListMiss, Create, Return, Lose

\* A step that is not Create leaves every address's customers as they are.
LEMMA CreateAdds ==
  ASSUME TypeOK, NEW c \in Calls, NEW id \in Ids, Create(c, id), NEW e
  PROVE  With(e)' = IF e = email[c] THEN With(e) \cup {[id |-> id, email |-> email[c]]}
                                    ELSE With(e)
<1> DEFINE new == [id |-> id, email |-> email[c]]
<1>1. customers' = customers \cup {new} /\ new.email = email[c]
  BY DEF Create
<1> HIDE DEF new
<1>2. With(e)' = {k \in customers \cup {new} : k.email = e}
  BY <1>1 DEF With
<1>3. CASE e = email[c]
  <2>1. With(e)' = With(e) \cup {new}
    BY <1>1, <1>2, <1>3 DEF With
  <2> QED
    BY <1>3, <2>1 DEF new
<1>4. CASE e # email[c]
  BY <1>1, <1>2, <1>4 DEF With
<1> QED
  BY <1>3, <1>4

LEMMA StepUnique ==
  ASSUME IInv, NEW c \in Calls, Step(c)
  PROVE  UniqueIds'
<1> USE DEF IInv
<1>1. CASE UNCHANGED customers
  BY <1>1 DEF UniqueIds
<1>2. CASE \E id \in Ids : Create(c, id) /\ Fresh(id)
  BY <1>2 DEF UniqueIds, Create, Fresh
<1> QED
  BY <1>1, <1>2, StepCustomers

LEMMA StepDone ==
  ASSUME IInv, NEW c \in Calls, Step(c)
  PROVE  DoneInv'
<1> SUFFICES ASSUME NEW d \in Calls, pc'[d] = "done"
             PROVE  \E k \in customers' : k.id = answer'[d] /\ k.email = email'[d]
  BY DEF DoneInv
<1> USE DEF IInv
<1>1. customers \subseteq customers'
  BY StepGrows
<1>2. CASE d # c
  <2>1. pc[d] = "done" /\ email'[d] = email[d] /\ answer'[d] = answer[d]
    BY <1>2, OthersUntouched
  <2>2. PICK k \in customers : k.id = answer[d] /\ k.email = email[d]
    BY <2>1 DEF DoneInv
  <2> QED
    BY <1>1, <2>1, <2>2
<1>3. CASE d = c
  <2>1. CASE ListHit(c)
    <3>1. PICK k \in customers : k.email = email[c] /\ answer' = [answer EXCEPT ![c] = k.id]
      BY <2>1 DEF ListHit, Found, With
    <3>2. answer'[c] = k.id /\ email'[c] = email[c]
      BY <2>1, <3>1 DEF ListHit, TypeOK
    <3> QED
      BY <1>1, <1>3, <3>1, <3>2
  <2>2. CASE \E id \in Ids : Create(c, id)
    <3>1. PICK id \in Ids : Create(c, id)
      BY <2>2
    <3>2. answer'[c] = id /\ email'[c] = email[c]
      BY <3>1 DEF Create, TypeOK
    <3>3. [id |-> id, email |-> email[c]] \in customers'
      BY <3>1 DEF Create
    <3> QED
      BY <1>3, <3>2, <3>3
  <2>3. pc'[c] # "done" \/ ListHit(c) \/ \E id \in Ids : Create(c, id)
    BY DEF Step, Start, ListMiss, Return, Lose, TypeOK
  <2> QED
    BY <1>3, <2>1, <2>2, <2>3
<1> QED
  BY <1>2, <1>3

LEMMA StepTurn ==
  ASSUME IInv, NEW c \in Calls, Step(c)
  PROVE  TurnInv'
<1> USE DEF IInv
<1>1. CASE \E e \in Emails : Start(c, e)
  <2>1. PICK e \in Emails : Start(c, e)
    BY <1>1
  <2>2. email'[c] = e /\ pc[c] = "idle"
    BY <2>1 DEF Start, TypeOK
  <2>3. e \in Turns => \A d \in Calls : pc[d] = "idle" \/ email[d] # e
    BY <2>1 DEF Start
  <2> QED
    BY <2>2, <2>3, OthersUntouched DEF TurnInv
<1>2. CASE ~ \E e \in Emails : Start(c, e)
  <2>1. email' = email /\ (pc'[c] # "idle" => pc[c] # "idle")
    BY <1>2 DEF Step, ListHit, ListMiss, Create, Return, Lose, TypeOK
  <2> QED
    BY <2>1, OthersUntouched DEF TurnInv
<1> QED
  BY <1>1, <1>2

LEMMA StepMiss ==
  ASSUME IInv, NEW c \in Calls, Step(c)
  PROVE  MissInv'
<1> SUFFICES ASSUME NEW d \in Calls, NEW e \in Turns, pc'[d] = "create", email'[d] = e
             PROVE  With(e)' = {}
  BY DEF MissInv, With
<1> USE DEF IInv
<1>1. email[d] = e /\ With(e) = {}
  <2>1. CASE d = c
    <3>1. ListMiss(c)
      BY <2>1 DEF Step, Start, ListHit, Create, Return, Lose, TypeOK
    <3> QED
      BY <2>1, <3>1 DEF ListMiss, Found
  <2>2. CASE d # c
    <3>1. pc[d] = "create" /\ email[d] = e
      BY <2>2, OthersUntouched
    <3> QED
      BY <3>1 DEF MissInv
  <2> QED
    BY <2>1, <2>2
<1>2. CASE UNCHANGED customers
  BY <1>1, <1>2 DEF With
<1>3. CASE \E id \in Ids : Create(c, id)
  <2>1. PICK id \in Ids : Create(c, id)
    BY <1>3
  <2>2. pc[c] = "create" /\ pc'[c] = "done"
    BY <2>1 DEF Create, TypeOK
  <2>3. d # c /\ pc[d] = "create"
    BY <2>2, OthersUntouched
  <2>4. email[c] # e
    BY <1>1, <2>2, <2>3 DEF TurnInv
  <2>5. With(e)' = With(e)
    BY <2>1, <2>4, CreateAdds
  <2> QED
    BY <1>1, <2>5
<1> QED
  BY <1>2, <1>3, StepCustomers

LEMMA StepOne ==
  ASSUME IInv, NEW c \in Calls, Step(c)
  PROVE  OneCustomerPerEmail'
<1> SUFFICES ASSUME NEW e \in Turns PROVE \A k, l \in With(e)' : k = l
  BY DEF OneCustomerPerEmail
<1> USE DEF IInv
<1>1. CASE UNCHANGED customers
  BY <1>1 DEF OneCustomerPerEmail, With
<1>2. CASE \E id \in Ids : Create(c, id)
  <2>1. PICK id \in Ids : Create(c, id)
    BY <1>2
  <2>2. CASE e = email[c]
    <3>1. With(e) = {}
      BY <2>1, <2>2 DEF Create, MissInv
    <3> QED
      BY <2>1, <2>2, <3>1, CreateAdds
  <2>3. CASE e # email[c]
    BY <2>1, <2>3, CreateAdds DEF OneCustomerPerEmail
  <2> QED
    BY <2>2, <2>3
<1> QED
  BY <1>1, <1>2, StepCustomers

LEMMA StepTheirs ==
  ASSUME IInv, NEW c \in Calls, Step(c)
  PROVE  AnswersAreTheirs'
<1> USE DEF IInv
<1>1. \A e \in Emails : \A id \in told'[e] : \E k \in customers' : k.id = id /\ k.email = e
  <2> SUFFICES ASSUME NEW e \in Emails, NEW id \in told'[e]
               PROVE  \E k \in customers' : k.id = id /\ k.email = e
    OBVIOUS
  <2>1. id \in told[e] \/ (Return(c) /\ e = email[c] /\ id = answer[c])
    BY DEF Step, Start, ListHit, ListMiss, Create, Return, Lose, TypeOK
  <2>2. \E k \in customers : k.id = id /\ k.email = e
    BY <2>1 DEF AnswersAreTheirs, DoneInv, Return
  <2> QED
    BY <2>2, StepGrows
<1>2. UniqueIds'
  BY StepUnique
<1>3. \A e, f \in Emails : f # e => told'[e] \cap told'[f] = {}
  BY <1>1, <1>2 DEF UniqueIds
<1> QED
  BY <1>1, <1>3 DEF AnswersAreTheirs

LEMMA NextInv == IInv /\ [Next]_vars => IInv'
<1> SUFFICES ASSUME IInv, [Next]_vars PROVE IInv'
  OBVIOUS
<1>1. CASE UNCHANGED vars
  BY <1>1 DEF IInv, vars, TypeOK, UniqueIds, DoneInv, TurnInv, MissInv,
              OneCustomerPerEmail, AnswersAreTheirs, With
<1>2. CASE Next
  <2>1. PICK c \in Calls : Step(c)
    BY <1>2 DEF Next
  <2>2. TypeOK' /\ UniqueIds' /\ DoneInv'
    BY <2>1, StepType, StepUnique, StepDone
  <2>3. TurnInv' /\ MissInv' /\ OneCustomerPerEmail' /\ AnswersAreTheirs'
    BY <2>1, StepTurn, StepMiss, StepOne, StepTheirs
  <2> QED
    BY <2>2, <2>3 DEF IInv
<1> QED
  BY <1>1, <1>2

LEMMA Invariance == Spec => []IInv
BY InitInv, NextInv, PTL DEF Spec

\* Every state is well typed.
THEOREM TypeCorrect == Spec => []TypeOK
<1>1. IInv => TypeOK
  BY DEF IInv
<1> QED
  BY <1>1, Invariance, PTL

\* An address whose calls take turns has at most one customer, whatever is lost and
\* however often steps are repeated.
THEOREM TurnsMakeOneCustomer == Spec => []OneCustomerPerEmail
<1>1. IInv => OneCustomerPerEmail
  BY DEF IInv
<1> QED
  BY <1>1, Invariance, PTL

\* A step never outputs a customer of another address, with turns or without.
THEOREM AnswersNameOwnCustomers == Spec => []AnswersAreTheirs
<1>1. IInv => AnswersAreTheirs
  BY DEF IInv
<1> QED
  BY <1>1, Invariance, PTL

-----------------------------------------------------------------------------
LEMMA IdOfSingleton ==
  ASSUME NEW S, NEW k \in S, \A x, y \in S : x = y
  PROVE  IdOf(S) = k.id
<1>1. (CHOOSE x \in S : TRUE) \in S
  OBVIOUS
<1> QED
  BY <1>1 DEF IdOf

LEMMA InitDirectory == Init => Directory!Init
<1> SUFFICES ASSUME Init PROVE Directory!Init
  OBVIOUS
<1>1. \A e : With(e) = {}
  BY DEF Init, With
<1>2. DirectoryEntry = [e \in Turns |-> NoId]
  BY <1>1 DEF DirectoryEntry, IdOf
<1>3. DirectoryAnswered = [e \in Turns |-> {}]
  BY Constants DEF Init, DirectoryAnswered
<1> QED
  BY <1>2, <1>3 DEF Directory!Init

\* Creating is entering the customer, if the address's calls take turns.
LEMMA CreateRefines ==
  ASSUME IInv, NEW c \in Calls, NEW id \in Ids, Create(c, id)
  PROVE  Directory!Next \/ UNCHANGED <<DirectoryEntry, DirectoryAnswered>>
<1> USE DEF IInv
<1>1. DirectoryAnswered' = DirectoryAnswered
  BY DEF Create, DirectoryAnswered
<1>2. \A f \in Turns : f # email[c] => With(f)' = With(f)
  BY CreateAdds
<1>3. CASE email[c] \notin Turns
  <2>1. DirectoryEntry' = DirectoryEntry
    BY <1>2, <1>3 DEF DirectoryEntry
  <2> QED
    BY <1>1, <2>1
<1>4. CASE email[c] \in Turns
  <2>1. PICK e \in Turns : e = email[c]
    BY <1>4
  <2>2. With(e) = {}
    BY <2>1 DEF Create, MissInv
  <2>3. With(e)' = {[id |-> id, email |-> e]}
    BY <2>1, <2>2, CreateAdds
  <2>4. IdOf(With(e)') = id
    <3>1. \A k \in With(e)' : k.id = id /\ k = [id |-> id, email |-> e]
      BY <2>3
    <3>2. PICK k \in With(e)' : TRUE
      BY <2>3
    <3> QED
      BY <3>1, <3>2, IdOfSingleton
  <2>5. DirectoryEntry' = [DirectoryEntry EXCEPT ![e] = id]
    BY <1>2, <2>1, <2>4 DEF DirectoryEntry
  <2>6. DirectoryEntry[e] = NoId
    BY <2>2 DEF DirectoryEntry, IdOf
  <2>7. \A f \in Turns : DirectoryEntry[f] # id
    <3> SUFFICES ASSUME NEW f \in Turns PROVE IdOf(With(f)) # id
      BY DEF DirectoryEntry
    <3>1. CASE With(f) = {}
      BY <3>1, Constants DEF IdOf
    <3>2. CASE With(f) # {}
      <4>1. PICK k \in With(f) : TRUE
        BY <3>2
      <4>2. IdOf(With(f)) = k.id
        BY <4>1, IdOfSingleton DEF OneCustomerPerEmail
      <4> QED
        BY <4>2 DEF Create, Fresh, With
    <3> QED
      BY <3>1, <3>2
  <2> QED
    BY <1>1, <2>5, <2>6, <2>7 DEF Directory!Next, Directory!Enter
<1> QED
  BY <1>3, <1>4

\* Returning is answering.
LEMMA ReturnRefines ==
  ASSUME IInv, NEW c \in Calls, Return(c)
  PROVE  Directory!Next \/ UNCHANGED <<DirectoryEntry, DirectoryAnswered>>
<1> USE DEF IInv
<1>1. DirectoryEntry' = DirectoryEntry
  BY DEF Return, DirectoryEntry, With
<1>2. told' = [told EXCEPT ![email[c]] = @ \cup {answer[c]}]
  BY DEF Return
<1>3. CASE email[c] \notin Turns
  <2>1. DirectoryAnswered' = DirectoryAnswered
    BY <1>2, <1>3, Constants DEF DirectoryAnswered, TypeOK
  <2> QED
    BY <1>1, <2>1
<1>4. CASE email[c] \in Turns
  <2>1. PICK e \in Turns : e = email[c]
    BY <1>4
  <2>2. PICK k \in With(e) : k.id = answer[c]
    BY <2>1 DEF Return, DoneInv, With
  <2>3. DirectoryEntry[e] = answer[c]
    BY <2>2, IdOfSingleton DEF OneCustomerPerEmail, DirectoryEntry
  <2>4. DirectoryEntry[e] # NoId
    BY <2>2, <2>3, Constants DEF TypeOK, With
  <2>5. DirectoryAnswered' = [DirectoryAnswered EXCEPT ![e] = @ \cup {DirectoryEntry[e]}]
    BY <1>2, <2>1, <2>3, Constants DEF DirectoryAnswered, TypeOK
  <2> QED
    BY <1>1, <2>4, <2>5 DEF Directory!Next, Directory!Answer
<1> QED
  BY <1>3, <1>4

LEMMA NextDirectory ==
  IInv /\ [Next]_vars => [Directory!Next]_<<DirectoryEntry, DirectoryAnswered>>
<1> SUFFICES ASSUME IInv, [Next]_vars
             PROVE  Directory!Next \/ UNCHANGED <<DirectoryEntry, DirectoryAnswered>>
  OBVIOUS
<1>1. CASE UNCHANGED <<customers, told>>
  BY <1>1 DEF DirectoryEntry, DirectoryAnswered, With
<1>2. CASE \E c \in Calls : Return(c) \/ \E id \in Ids : Create(c, id)
  BY <1>2, CreateRefines, ReturnRefines
<1>3. \/ UNCHANGED <<customers, told>>
      \/ \E c \in Calls : Return(c) \/ \E id \in Ids : Create(c, id)
  BY DEF vars, Next, Step, Start, ListHit, ListMiss, Lose
<1> QED
  BY <1>1, <1>2, <1>3

\* For addresses whose calls take turns, list-then-create is the "idempotent upsert"
\* that plugin.json promises: it implements the directory.
THEOREM EnsureImplementsDirectory == Spec => ImplementsDirectory
<1>1. Init => Directory!Init
  BY InitDirectory
<1>2. IInv /\ [Next]_vars => [Directory!Next]_<<DirectoryEntry, DirectoryAnswered>>
  BY NextDirectory
<1> QED
  BY <1>1, <1>2, Invariance, PTL DEF Spec, ImplementsDirectory, Directory!Spec

-----------------------------------------------------------------------------
(* Calls that saw no customer for an address and have not created one yet. *)
Creators(e) == {c \in Calls : pc[c] = "create" /\ email[c] = e}

(* A customer takes the place of the call that creates it, and nobody becomes a *)
(* creator any more once there is a customer. *)
BoundInv ==
  \A e \in Emails :
    /\ IsFiniteSet(With(e))
    /\ Cardinality(With(e)) + Cardinality(Creators(e)) <= Cardinality(Calls)

LEMMA CreatorsFinite ==
  ASSUME IsFiniteSet(Calls)
  PROVE  /\ \A e : /\ IsFiniteSet(Creators(e)) /\ Cardinality(Creators(e)) \in Nat
                   /\ Cardinality(Creators(e)) <= Cardinality(Calls)
         /\ Cardinality(Calls) \in Nat
<1>1. \A e : Creators(e) \in SUBSET Calls
  BY DEF Creators
<1> QED
  BY <1>1, FS_Subset, FS_CardinalityType

LEMMA InitBound ==
  ASSUME IsFiniteSet(Calls), Init
  PROVE  BoundInv
<1>1. \A e : With(e) = {}
  BY DEF Init, With
<1> QED
  BY <1>1, CreatorsFinite, FS_EmptySet DEF BoundInv

LEMMA StepBound ==
  ASSUME IsFiniteSet(Calls), TypeOK, BoundInv, NEW c \in Calls, Step(c)
  PROVE  BoundInv'
<1> SUFFICES ASSUME NEW e \in Emails
             PROVE  /\ IsFiniteSet(With(e)')
                    /\ Cardinality(With(e)') + Cardinality(Creators(e)') <= Cardinality(Calls)
  BY DEF BoundInv
<1>1. /\ IsFiniteSet(With(e)) /\ Cardinality(With(e)) \in Nat
      /\ IsFiniteSet(Creators(e)) /\ Cardinality(Creators(e)) \in Nat
      /\ Cardinality(Calls) \in Nat
      /\ Cardinality(With(e)) + Cardinality(Creators(e)) <= Cardinality(Calls)
  BY CreatorsFinite, FS_CardinalityType DEF BoundInv
<1>2. Creators(e)' \in SUBSET Calls
  BY DEF Creators
<1>3. CASE ListMiss(c) /\ email[c] = e
  <2>1. With(e)' = {}
    BY <1>3 DEF ListMiss, Found, With
  <2>2. Cardinality(Creators(e)') \in Nat /\ Cardinality(Creators(e)') <= Cardinality(Calls)
    BY <1>2, FS_Subset, FS_CardinalityType
  <2> QED
    BY <1>1, <2>1, <2>2, FS_EmptySet
<1>4. CASE \E id \in Ids : Create(c, id) /\ email[c] = e
  <2>1. PICK id \in Ids : Create(c, id) /\ email[c] = e
    BY <1>4
  <2>2. PICK k : With(e)' = With(e) \cup {k}
    BY <2>1, CreateAdds
  <2>3. Creators(e)' = Creators(e) \ {c} /\ c \in Creators(e)
    BY <2>1 DEF Create, Creators, TypeOK
  <2>4. /\ IsFiniteSet(With(e)')
        /\ Cardinality(With(e)') \in Nat
        /\ Cardinality(With(e)') <= Cardinality(With(e)) + 1
    <3>1. /\ IsFiniteSet(With(e) \cup {k})
          /\ \/ Cardinality(With(e) \cup {k}) = Cardinality(With(e))
             \/ Cardinality(With(e) \cup {k}) = Cardinality(With(e)) + 1
      BY <1>1, FS_AddElement
    <3> QED
      BY <1>1, <2>2, <3>1
  <2>5. Cardinality(Creators(e)') = Cardinality(Creators(e)) - 1
    BY <1>1, <2>3, FS_RemoveElement
  <2> QED
    BY <1>1, <2>4, <2>5
<1>5. CASE /\ ~(ListMiss(c) /\ email[c] = e)
           /\ ~ \E id \in Ids : Create(c, id) /\ email[c] = e
  <2>1. With(e)' = With(e)
    <3>1. CASE UNCHANGED customers
      BY <3>1 DEF With
    <3>2. CASE \E id \in Ids : Create(c, id) /\ Fresh(id)
      BY <1>5, <3>2, CreateAdds
    <3> QED
      BY <3>1, <3>2, StepCustomers
  <2>2. \A d \in Calls : pc'[d] = "create" /\ email'[d] = e => pc[d] = "create" /\ email[d] = e
    <3>1. pc'[c] = "create" /\ email'[c] = e => FALSE
      BY <1>5 DEF Step, Start, ListHit, ListMiss, Create, Return, Lose, TypeOK
    <3> QED
      BY <3>1, OthersUntouched
  <2>3. Creators(e)' \in SUBSET Creators(e)
    BY <2>2 DEF Creators
  <2>4. Cardinality(Creators(e)') \in Nat /\ Cardinality(Creators(e)') <= Cardinality(Creators(e))
    BY <1>1, <2>3, FS_Subset, FS_CardinalityType
  <2> QED
    BY <1>1, <2>1, <2>4
<1> QED
  BY <1>3, <1>4, <1>5

LEMMA NextBound ==
  ASSUME IsFiniteSet(Calls), TypeOK, BoundInv, [Next]_vars
  PROVE  BoundInv'
<1>1. CASE UNCHANGED vars
  BY <1>1 DEF vars, BoundInv, With, Creators
<1>2. CASE Next
  BY <1>2, StepBound DEF Next
<1> QED
  BY <1>1, <1>2

\* With or without turns: an address gets at most as many customers as there are
\* calls, however often they are repeated.
THEOREM OverlapBoundsDuplicates ==
  ASSUME IsFiniteSet(Calls)
  PROVE  Spec => []DuplicatesAreBounded
<1>1. Init => BoundInv
  BY InitBound
<1>2. TypeOK /\ BoundInv /\ [Next]_vars => BoundInv'
  BY NextBound
<1>3. BoundInv => DuplicatesAreBounded
  <2> SUFFICES ASSUME BoundInv, NEW e \in Emails
               PROVE  Cardinality(With(e)) <= Cardinality(Calls)
    BY DEF DuplicatesAreBounded
  <2> QED
    BY CreatorsFinite, FS_CardinalityType DEF BoundInv
<1> QED
  BY <1>1, <1>2, <1>3, TypeCorrect, PTL DEF Spec

\* Duplicates need overlap, whatever is lost or repeated.
THEOREM DuplicatesComeFromOverlap ==
  ASSUME IsFiniteSet(Calls)
  PROVE  Spec => []DuplicatesNeedOverlap
BY TurnsMakeOneCustomer, OverlapBoundsDuplicates, PTL DEF DuplicatesNeedOverlap

-----------------------------------------------------------------------------
(* Accounts: what hangs on customers, and listings of it. *)

LEMMA LeastExists ==
  ASSUME NEW S, S \subseteq Nat, S # {}
  PROVE  \E n \in S : \A k \in S : n <= k
<1> DEFINE R == {ss \in Nat \X Nat : ss[1] < ss[2]}
<1>1. IsWellFoundedOn(R, Nat)
  BY NatLessThanWellFounded DEF OpToRel
<1>2. \A n, k \in Nat : <<k, n>> \in R <=> k < n
  OBVIOUS
<1> HIDE DEF R
<1>3. PICK n \in S : \A k \in S : ~(<<k, n>> \in R)
  BY <1>1, WFMin
<1>4. \A k \in S : ~(k < n)
  BY <1>2, <1>3
<1> QED
  BY <1>4

LEMMA ItemConstants ==
  /\ Items \subseteq Nat /\ NoItem \notin Items /\ NoItem \notin ItemRecords
  /\ Attachable \subseteq Items
BY AccountsAssumption DEF AccountsAssumption, ItemRecords

\* Steps of the account are the customer step's, or leave customers alone.
LEMMA AccountsStepIsNext == AccountsNext => [Next]_vars
BY DEF AccountsNext, Ensuring, ItemsChange, Listing, Attach, AttachPaymentMethod, Detach,
       Issue, Proceed, ItemStep, ListPaymentMethods, ListInvoices, PayPalListInvoices,
       NextPage, PageFails, Forget, Quiet, vars

\* The customer step keeps its promises whatever is attached, listed and changed
\* meanwhile: an account implements the specification of the customer step.
THEOREM AccountsImplementCustomers == AccountsSpec => Spec
<1>1. AccountsInit => Init
  BY DEF AccountsInit
<1>2. UNCHANGED allVars => UNCHANGED vars
  BY DEF allVars, vars
<1>3. [AccountsNext]_allVars => [Next]_vars
  BY <1>2, AccountsStepIsNext
<1> QED
  BY <1>1, <1>3, PTL DEF AccountsSpec, Spec

\* Without the customers below.
ItemsTyped ==
  /\ provider \in Providers /\ kind \in Kinds
  /\ item \in [Items -> ItemRecords \cup {NoItem}]
  /\ attached \subseteq Items \X Emails
  /\ list \in Listings \cup {NoList}

\* An attached method hangs on a customer that steps were told for the address.
AttachedInv ==
  /\ attached # {} => kind = "customer"
  /\ \A a \in attached : item[a[1]] # NoItem /\ item[a[1]].owner \in told[a[2]]

\* Pages are behind what was there from the start, and of what they passed they
\* have got it all.
PagesInv ==
  (list # NoList /\ list.state = "pages") =>
    /\ list.always \subseteq Wanted(item, list) /\ Wanted(item, list) \subseteq list.ever
    /\ \A n \in Items :
         IF list.after # NoItem /\ list.after <= n
         THEN /\ list.got[n] <= 1
              /\ list.got[n] = 1 => n \in list.ever
              /\ n \in list.always => list.got[n] = 1
         ELSE list.got[n] = 0

AccountsInv ==
  IInv /\ ItemsTyped /\ AttachedInv /\ PagesInv /\ ListingsAreFaithful

LEMMA InitAccounts == AccountsInit => AccountsInv
<1> SUFFICES ASSUME AccountsInit PROVE AccountsInv
  OBVIOUS
<1>1. IInv
  BY InitInv DEF AccountsInit
<1>2. ItemsTyped
  BY DEF AccountsInit, ItemsTyped
<1>3. AttachedInv /\ PagesInv /\ ListingsAreFaithful
  BY DEF AccountsInit, AttachedInv, PagesInv, ListingsAreFaithful
<1> QED
  BY <1>1, <1>2, <1>3 DEF AccountsInv

\* The customer step only adds to what was told.
LEMMA ToldGrows ==
  ASSUME TypeOK, [Next]_vars, NEW e \in Emails
  PROVE  told[e] \subseteq told'[e]
<1>1. ASSUME NEW c \in Calls, Step(c)
      PROVE  told[e] \subseteq told'[e]
  BY <1>1 DEF Step, Start, ListHit, ListMiss, Create, Return, Lose, TypeOK
<1> QED
  BY <1>1 DEF Next, vars

\* Seen changes what a listing has noted, for the items as they are now.
LEMMA SeenKeeps ==
  ASSUME NEW l \in Listings \cup {NoList}, NEW items,
         NEW k, k = Seen(l, items)
  PROVE  /\ k \in Listings \cup {NoList}
         /\ (l = NoList \/ l.state = "done") => k = l
         /\ (l # NoList /\ l.state = "pages") =>
              /\ k \in Listings
              /\ k.state = "pages" /\ k.after = l.after /\ k.got = l.got
              /\ k.owner = l.owner /\ k.tag = l.tag
              /\ k.always = l.always \cap Wanted(items, l)
              /\ k.ever = l.ever \cup Wanted(items, l)
<1>1. Wanted(items, l) \subseteq Items
  BY DEF Wanted
<1>2. CASE l = NoList \/ l.state = "done"
  <2>1. k = l
    BY <1>2 DEF Seen
  <2>2. l # NoList => l.state = "done"
    BY <1>2
  <2> QED
    BY <2>1, <2>2
<1>3. CASE l # NoList /\ l.state # "done"
  <2>1. k = [l EXCEPT !.always = l.always \cap Wanted(items, l),
                      !.ever = l.ever \cup Wanted(items, l)]
    BY <1>3 DEF Seen
  <2> QED
    BY <1>1, <1>3, <2>1 DEF Listings
<1> QED
  BY <1>2, <1>3

LEMMA WantedAlike ==
  ASSUME NEW items, NEW k, NEW l, k.owner = l.owner, k.tag = l.tag
  PROVE  Wanted(items, k) = Wanted(items, l)
BY DEF Wanted, Matches

\* However an item changes, a listing under way stays one that misses nothing.
LEMMA ItemStepListing ==
  ASSUME ItemsTyped, PagesInv, ListingsAreFaithful,
         NEW n \in Items, NEW i \in ItemRecords \cup {NoItem}, ItemStep(n, i)
  PROVE  /\ item' \in [Items -> ItemRecords \cup {NoItem}]
         /\ list' \in Listings \cup {NoList}
         /\ PagesInv' /\ ListingsAreFaithful'
<1>1. item' = [item EXCEPT ![n] = i] /\ list' = Seen(list, item') /\ provider' = provider
  BY DEF ItemStep
<1>2. list \in Listings \cup {NoList}
  BY DEF ItemsTyped
<1>3. item' \in [Items -> ItemRecords \cup {NoItem}]
  BY <1>1 DEF ItemsTyped
<1>4. /\ list' \in Listings \cup {NoList}
      /\ (list = NoList \/ list.state = "done") => list' = list
      /\ (list # NoList /\ list.state = "pages") =>
           /\ list' \in Listings
           /\ list'.state = "pages" /\ list'.after = list.after /\ list'.got = list.got
           /\ list'.owner = list.owner /\ list'.tag = list.tag
           /\ list'.always = list.always \cap Wanted(item', list)
           /\ list'.ever = list.ever \cup Wanted(item', list)
  BY <1>1, <1>2, SeenKeeps
<1>5. CASE list = NoList \/ list.state = "done"
  <2>1. list' = list
    BY <1>4, <1>5
  <2> QED
    BY <1>1, <1>3, <1>4, <1>5, <2>1 DEF PagesInv, ListingsAreFaithful
<1>6. CASE list # NoList /\ list.state = "pages"
  <2>1. Wanted(item', list') = Wanted(item', list)
    BY <1>4, <1>6, WantedAlike
  <2>2. PagesInv'
    BY <1>4, <1>6, <2>1 DEF PagesInv
  <2>3. ListingsAreFaithful'
    BY <1>4, <1>6 DEF ListingsAreFaithful
  <2> QED
    BY <1>3, <1>4, <2>2, <2>3
<1>7. list = NoList \/ list.state = "done" \/ list.state = "pages"
  BY <1>2 DEF Listings
<1> QED
  BY <1>5, <1>6, <1>7

\* A listing starts with nothing behind it.
Starts(l) ==
  /\ l \in Listings
  /\ l.state = "pages" /\ l.after = NoItem /\ l.got = [n \in Items |-> 0]
  /\ l.always = Wanted(item, l) /\ l.ever = Wanted(item, l)

LEMMA NewListNotes ==
  ASSUME NEW c \in Owners \cup {NoId}, NEW tag \in Tags \cup {""}, NEW size \in Sizes,
         NEW l, l = NewList(c, tag, size)
  PROVE  Starts(l)
<1> DEFINE none == [n \in Items |-> 0]
           W == Wanted(item, [state |-> "pages", owner |-> c, tag |-> tag, size |-> size,
                              after |-> NoItem, got |-> none, always |-> {}, ever |-> {}])
<1>1. none \in [Items -> Nat]
  OBVIOUS
<1>2. W \subseteq Items
  BY DEF Wanted
<1>3. W = {n \in Items : /\ item[n] # NoItem
                         /\ c # NoId => item[n].owner = c
                         /\ tag # "" => item[n].tag = tag}
  BY DEF Wanted, Matches
<1>4. l = [[state |-> "pages", owner |-> c, tag |-> tag, size |-> size,
            after |-> NoItem, got |-> none, always |-> {}, ever |-> {}]
             EXCEPT !.always = W, !.ever = W]
  BY DEF NewList
<1> HIDE DEF W, none
<1>5. /\ l \in Listings
      /\ l.state = "pages" /\ l.after = NoItem /\ l.got = none
      /\ l.owner = c /\ l.tag = tag /\ l.always = W /\ l.ever = W
  BY <1>1, <1>2, <1>4 DEF Listings
<1>6. Wanted(item, l) = W
  BY <1>3, <1>5 DEF Wanted, Matches
<1> QED
  BY <1>5, <1>6 DEF none, Starts

LEMMA NewListInv ==
  ASSUME ItemsTyped, NEW c \in Owners \cup {NoId}, NEW tag \in Tags \cup {""},
         NEW size \in Sizes, list' = NewList(c, tag, size), item' = item
  PROVE  list' \in Listings \cup {NoList} /\ PagesInv' /\ ListingsAreFaithful'
<1>0. PICK k : k = NewList(c, tag, size)
  OBVIOUS
<1>1. Starts(k)
  BY <1>0, NewListNotes
<1>2. list' = k
  BY <1>0
<1>3. PagesInv'
  BY <1>1, <1>2 DEF PagesInv, Starts
<1> QED
  BY <1>1, <1>2, <1>3 DEF ListingsAreFaithful, Starts

\* A method that is attached again has the same customer; one detached is no
\* longer counted as attached.
LEMMA ItemsChangeInv ==
  ASSUME AccountsInv, ItemsChange
  PROVE  ItemsTyped' /\ AttachedInv' /\ PagesInv' /\ ListingsAreFaithful'
<1> USE DEF AccountsInv
<1>1. /\ item \in [Items -> ItemRecords \cup {NoItem}]
      /\ attached \subseteq Items \X Emails
      /\ NoItem \notin ItemRecords
  BY ItemConstants DEF ItemsTyped
<1>2. CASE \E n \in Items, e \in Emails, c \in Ids \cup Owners, t \in Tags : Attach(n, e, c, t)
  <2>1. PICK n \in Items, e \in Emails, c \in Ids \cup Owners, t \in Tags : Attach(n, e, c, t)
    BY <1>2
  <2>2. PICK i \in ItemRecords : i = [owner |-> c, tag |-> t]
    BY DEF ItemRecords
  <2>3. i.owner = c /\ i # NoItem
    BY <1>1, <2>2
  <2>4. /\ ItemStep(n, i)
        /\ item[n] # NoItem => item[n].owner = c
        /\ kind = "customer" => c \in told[e]
        /\ attached' = attached \/ (kind = "customer" /\ attached' = attached \cup {<<n, e>>})
    BY <2>1, <2>2 DEF Attach, AttachPaymentMethod
  <2>5. /\ item' \in [Items -> ItemRecords \cup {NoItem}] /\ list' \in Listings \cup {NoList}
        /\ PagesInv' /\ ListingsAreFaithful'
    BY <2>4, ItemStepListing
  <2>6. item' = [item EXCEPT ![n] = i] /\ UNCHANGED <<told, provider, kind>>
    BY <2>4 DEF ItemStep, vars
  <2>7. ItemsTyped'
    BY <1>1, <2>4, <2>5, <2>6 DEF ItemsTyped
  <2>8. AttachedInv'
    <3>1. attached' # {} => kind' = "customer"
      BY <2>4, <2>6 DEF AttachedInv
    <3>2. ASSUME NEW a \in attached' PROVE item'[a[1]] # NoItem /\ item'[a[1]].owner \in told'[a[2]]
      <4>1. CASE a \in attached
        <5>1. a[1] \in Items /\ item[a[1]] # NoItem /\ item[a[1]].owner \in told[a[2]]
          BY <1>1, <4>1 DEF AttachedInv
        <5>2. CASE a[1] = n
          <6>1. item'[a[1]] = i /\ item[a[1]].owner = c
            BY <1>1, <2>4, <2>6, <5>1, <5>2
          <6> QED
            BY <2>3, <2>6, <5>1, <6>1
        <5>3. CASE a[1] # n
          BY <1>1, <2>6, <5>1, <5>3
        <5> QED
          BY <5>2, <5>3
      <4>2. CASE a = <<n, e>> /\ kind = "customer"
        <5>1. item'[a[1]] = i /\ a[2] = e
          BY <1>1, <2>6, <4>2
        <5> QED
          BY <2>3, <2>4, <2>6, <4>2, <5>1
      <4> QED
        BY <2>4, <4>1, <4>2
    <3> QED
      BY <3>1, <3>2 DEF AttachedInv
  <2> QED
    BY <2>5, <2>7, <2>8
<1>3. CASE \E n \in Items : Detach(n)
  <2>1. PICK n \in Items : Detach(n)
    BY <1>3
  <2>2. ItemStep(n, NoItem) /\ attached' = {a \in attached : a[1] # n}
    BY <2>1 DEF Detach
  <2>3. /\ item' \in [Items -> ItemRecords \cup {NoItem}] /\ list' \in Listings \cup {NoList}
        /\ PagesInv' /\ ListingsAreFaithful'
    BY <2>2, ItemStepListing
  <2>4. item' = [item EXCEPT ![n] = NoItem] /\ UNCHANGED <<told, provider, kind>>
    BY <2>2 DEF ItemStep, vars
  <2>5. ItemsTyped'
    BY <1>1, <2>2, <2>3, <2>4 DEF ItemsTyped
  <2>6. AttachedInv'
    BY <1>1, <2>2, <2>4 DEF AttachedInv
  <2> QED
    BY <2>3, <2>5, <2>6
<1>4. CASE \/ \E n \in Items, c \in Owners, t \in Tags : Issue(n, c, t)
           \/ \E n \in Items, t \in Tags : Proceed(n, t)
  <2>1. PICK n \in Items, i \in ItemRecords : ItemStep(n, i) /\ kind = "invoice" /\ attached' = attached
    <3>1. ASSUME NEW n \in Items, NEW c \in Owners, NEW t \in Tags, Issue(n, c, t)
          PROVE  \E i \in ItemRecords : ItemStep(n, i) /\ kind = "invoice" /\ attached' = attached
      <4>1. [owner |-> c, tag |-> t] \in ItemRecords
        BY DEF ItemRecords
      <4> QED
        BY <3>1, <4>1 DEF Issue
    <3>2. ASSUME NEW n \in Items, NEW t \in Tags, Proceed(n, t)
          PROVE  \E i \in ItemRecords : ItemStep(n, i) /\ kind = "invoice" /\ attached' = attached
      <4>1. item[n] \in ItemRecords
        BY <1>1, <3>2 DEF Proceed
      <4>2. [item[n] EXCEPT !.tag = t] \in ItemRecords
        BY <4>1 DEF ItemRecords
      <4> QED
        BY <3>2, <4>2 DEF Proceed
    <3> QED
      BY <1>4, <3>1, <3>2
  <2>2. /\ item' \in [Items -> ItemRecords \cup {NoItem}] /\ list' \in Listings \cup {NoList}
        /\ PagesInv' /\ ListingsAreFaithful'
    BY <2>1, ItemStepListing
  <2>3. UNCHANGED <<provider, kind>>
    BY <2>1 DEF ItemStep
  <2>4. attached = {}
    BY <2>1 DEF AttachedInv
  <2> QED
    BY <1>1, <2>1, <2>2, <2>3, <2>4 DEF ItemsTyped, AttachedInv
<1> QED
  BY <1>2, <1>3, <1>4 DEF ItemsChange

\* A page takes a listing further down, and leaves nothing out above it.
LEMMA NextPageInv ==
  ASSUME ItemsTyped, PagesInv, NextPage
  PROVE  list' \in Listings \cup {NoList} /\ PagesInv' /\ ListingsAreFaithful'
<1> DEFINE W == Wanted(item, list)
           Least(page) == CHOOSE n \in page : \A k \in page : n <= k
<1>1. PICK page \in Pages :
        list' = [list EXCEPT
          !.state = IF HasMore(page) THEN "pages" ELSE "done",
          !.after = IF page = {} THEN @ ELSE Least(page),
          !.got = [n \in Items |-> @[n] + IF n \in page THEN 1 ELSE 0]]
  BY DEF NextPage
<1>2. list \in Listings /\ list.state = "pages" /\ item' = item
  BY DEF NextPage, Quiet, ItemsTyped
<1>3. /\ page \subseteq Rest
      /\ Cardinality(page) < list.size => page = Rest
      /\ \A n \in page, k \in Rest \ page : k < n
  BY <1>1 DEF Pages
<1>4. Rest = {n \in W : list.after # NoItem => n < list.after} /\ W \subseteq Items
  BY DEF Rest, Wanted
<1>5. Items \subseteq Nat /\ NoItem \notin Items
  BY ItemConstants
<1>6. /\ list.always \subseteq W /\ W \subseteq list.ever
      /\ \A n \in Items :
           IF list.after # NoItem /\ list.after <= n
           THEN /\ list.got[n] <= 1
                /\ list.got[n] = 1 => n \in list.ever
                /\ n \in list.always => list.got[n] = 1
           ELSE list.got[n] = 0
  BY <1>2 DEF PagesInv, NextPage
<1>7. list.after \in Items \cup {NoItem} /\ list.got \in [Items -> Nat] /\ list.size \in Nat \ {0}
  BY <1>2, AccountsAssumption DEF Listings, AccountsAssumption
<1>8. page # {} => Least(page) \in page /\ \A k \in page : Least(page) <= k
  <2>1. page # {} => \E n \in page : \A k \in page : n <= k
    BY <1>3, <1>4, <1>5, LeastExists
  <2> QED
    BY <2>1
<1> DEFINE after == IF page = {} THEN list.after ELSE Least(page)
           got == [n \in Items |-> list.got[n] + IF n \in page THEN 1 ELSE 0]
           state == IF HasMore(page) THEN "pages" ELSE "done"
<1>9. list' = [list EXCEPT !.state = state, !.after = after, !.got = got]
  BY <1>1
<1>10. after \in Items \cup {NoItem}
  BY <1>3, <1>4, <1>7, <1>8
<1>11. got \in [Items -> Nat]
  BY <1>7
<1>12. state \in {"pages", "done"}
  OBVIOUS
<1>13. \A n \in Items : got[n] = list.got[n] + IF n \in page THEN 1 ELSE 0
  OBVIOUS
<1>14. page = {} => page = Rest
  BY <1>3, <1>7, FS_EmptySet
<1>15. /\ page = {} => after = list.after
       /\ page # {} => after \in page /\ \A k \in page : after <= k
  BY <1>8
<1>16. state = "pages" <=> page # Rest
  BY DEF HasMore
<1> HIDE DEF after, got, state
<1>17. /\ list' \in Listings
       /\ list'.state = state /\ list'.after = after /\ list'.got = got
       /\ list'.owner = list.owner /\ list'.tag = list.tag
       /\ list'.always = list.always /\ list'.ever = list.ever
  BY <1>2, <1>9, <1>10, <1>11, <1>12 DEF Listings
<1>18. Wanted(item', list') = W
  BY <1>2, <1>17, WantedAlike
<1> HIDE DEF W
<1>19. ASSUME state = "pages", NEW n \in Items
       PROVE  IF after # NoItem /\ after <= n
              THEN /\ got[n] <= 1
                   /\ got[n] = 1 => n \in list.ever
                   /\ n \in list.always => got[n] = 1
              ELSE got[n] = 0
  <2>1. after \in page /\ \A k \in page : after <= k
    BY <1>14, <1>15, <1>16, <1>19
  <2>2. after \in Items /\ after \in Nat /\ n \in Nat /\ after # NoItem
    BY <1>3, <1>4, <1>5, <2>1
  <2>3. list.after # NoItem => after < list.after /\ list.after \in Nat
    BY <1>3, <1>4, <1>5, <1>7, <2>1
  <2>4. CASE n \in page
    <3>1. list.got[n] = 0
      BY <1>3, <1>4, <1>6, <2>2, <2>3, <2>4
    <3>2. got[n] = 1 /\ n \in list.ever /\ after <= n
      BY <1>3, <1>4, <1>6, <1>13, <2>1, <2>4, <3>1
    <3> QED
      BY <2>2, <3>2
  <2>5. CASE n \notin page
    <3>1. got[n] = list.got[n]
      BY <1>7, <1>13, <2>5
    <3>2. CASE list.after # NoItem /\ list.after <= n
      BY <1>6, <2>2, <2>3, <3>1, <3>2
    <3>3. CASE ~(list.after # NoItem /\ list.after <= n)
      <4>1. got[n] = 0
        BY <1>6, <3>1, <3>3
      <4>2. n \in list.always => n < after
        <5> SUFFICES ASSUME n \in list.always PROVE n < after
          OBVIOUS
        <5>1. n \in Rest \ page
          BY <1>4, <1>6, <2>2, <2>3, <2>5, <3>3
        <5> QED
          BY <1>3, <2>1, <5>1
      <4> QED
        BY <2>2, <4>1, <4>2
    <3> QED
      BY <3>2, <3>3
  <2> QED
    BY <2>4, <2>5
<1>20. ASSUME state = "done", NEW n \in Items
       PROVE  /\ n \in list.always => got[n] = 1
              /\ got[n] <= 1 /\ (got[n] = 1 => n \in list.ever)
  <2>1. page = Rest
    BY <1>16, <1>20
  <2>2. n \in Nat /\ (list.after # NoItem => list.after \in Nat)
    BY <1>5, <1>7
  <2>3. CASE n \in page
    <3>1. list.got[n] = 0
      BY <1>4, <1>6, <2>1, <2>2, <2>3
    <3> QED
      BY <1>4, <1>6, <1>13, <2>1, <2>3, <3>1
  <2>4. CASE n \notin page
    <3>1. got[n] = list.got[n]
      BY <1>7, <1>13, <2>4
    <3>2. n \in list.always => list.after # NoItem /\ list.after <= n
      BY <1>4, <1>6, <2>1, <2>2, <2>4
    <3> QED
      BY <1>6, <3>1, <3>2
  <2> QED
    BY <2>3, <2>4
<1>21. PagesInv'
  BY <1>6, <1>17, <1>18, <1>19 DEF PagesInv
<1>22. ListingsAreFaithful'
  <2> SUFFICES ASSUME list'.state = "done"
               PROVE  /\ \A n \in list'.always : list'.got[n] = 1
                      /\ \A n \in Items : list'.got[n] <= 1 /\ (list'.got[n] = 1 => n \in list'.ever)
    BY DEF ListingsAreFaithful
  <2>1. list'.always \subseteq Items
    BY <1>4, <1>6, <1>17
  <2> QED
    BY <1>17, <1>20, <2>1
<1> QED
  BY <1>17, <1>21, <1>22

\* PayPal's listing is done at once.
LEMMA PayPalListInv ==
  ASSUME NEW c \in Owners \cup {NoId}, NEW size \in Sizes, PayPalListInvoices(c, size)
  PROVE  list' \in Listings \cup {NoList} /\ PagesInv' /\ ListingsAreFaithful'
<1>1. PICK l : l = NewList(NoId, "", size)
  OBVIOUS
<1>2. Starts(l)
  BY <1>1, NewListNotes
<1>3. PICK page \in SUBSET l.ever :
        list' = [l EXCEPT !.state = "done", !.owner = c,
                          !.got = [n \in Items |-> IF n \in page THEN 1 ELSE 0]]
  BY <1>1 DEF PayPalListInvoices
<1> DEFINE got == [n \in Items |-> IF n \in page THEN 1 ELSE 0]
<1>4. got \in [Items -> Nat]
  OBVIOUS
<1>5. list' = [l EXCEPT !.state = "done", !.owner = c, !.got = got]
  BY <1>3
<1> HIDE DEF got
<1>6. l \in Listings
  BY <1>2 DEF Starts
<1>7. list' \in Listings /\ list'.state = "done"
  BY <1>4, <1>5, <1>6 DEF Listings
<1>8. provider' # "stripe"
  BY DEF PayPalListInvoices, Quiet
<1> QED
  BY <1>7, <1>8 DEF PagesInv, ListingsAreFaithful

LEMMA ListingInv ==
  ASSUME AccountsInv, Listing
  PROVE  ItemsTyped' /\ AttachedInv' /\ PagesInv' /\ ListingsAreFaithful'
<1> USE DEF AccountsInv
<1>1. UNCHANGED <<vars, provider, kind, item, attached>>
  BY DEF Listing, ListPaymentMethods, ListInvoices, PayPalListInvoices,
         NextPage, PageFails, Forget, Quiet
<1>2. list' \in Listings \cup {NoList} /\ PagesInv' /\ ListingsAreFaithful'
  <2>1. CASE list' = NoList
    BY <2>1 DEF PagesInv, ListingsAreFaithful
  <2>2. CASE NextPage
    BY <2>2, NextPageInv
  <2>3. CASE \E c \in Owners \cup {NoId}, t \in Tags \cup {""}, s \in Sizes :
               ListPaymentMethods(c, t, s) \/ ListInvoices(c, t, s)
    <3>1. PICK c \in Owners \cup {NoId}, t \in Tags \cup {""}, s \in Sizes :
                 ListPaymentMethods(c, t, s) \/ ListInvoices(c, t, s)
      BY <2>3
    <3>2. list' = NewList(c, t, s) /\ item' = item
      BY <3>1 DEF ListPaymentMethods, ListInvoices, Quiet
    <3> QED
      BY <3>2, NewListInv
  <2>4. CASE \E c \in Owners \cup {NoId}, s \in Sizes : PayPalListInvoices(c, s)
    BY <2>4, PayPalListInv
  <2> QED
    BY <2>1, <2>2, <2>3, <2>4 DEF Listing, PageFails, Forget
<1>3. ItemsTyped'
  BY <1>1, <1>2 DEF ItemsTyped
<1>4. AttachedInv'
  BY <1>1 DEF AttachedInv, vars
<1> QED
  BY <1>2, <1>3, <1>4

LEMMA NextAccounts == AccountsInv /\ [AccountsNext]_allVars => AccountsInv'
<1> SUFFICES ASSUME AccountsInv, [AccountsNext]_allVars PROVE AccountsInv'
  OBVIOUS
<1>1. [Next]_vars
  BY AccountsStepIsNext DEF allVars, vars
<1>2. IInv'
  BY <1>1, NextInv DEF AccountsInv
<1>3. ItemsTyped' /\ AttachedInv' /\ PagesInv' /\ ListingsAreFaithful'
  <2>1. CASE UNCHANGED accountVars
    <3>1. UNCHANGED <<provider, kind, item, attached, list>>
      BY <2>1 DEF accountVars
    <3>2. ItemsTyped'
      BY <3>1 DEF AccountsInv, ItemsTyped
    <3>3. AttachedInv'
      <4> SUFFICES ASSUME NEW a \in attached
                   PROVE  item[a[1]] # NoItem /\ item[a[1]].owner \in told'[a[2]]
        BY <3>1 DEF AccountsInv, AttachedInv
      <4>1. a[2] \in Emails /\ item[a[1]] # NoItem /\ item[a[1]].owner \in told[a[2]]
        BY DEF AccountsInv, ItemsTyped, AttachedInv
      <4>2. told[a[2]] \subseteq told'[a[2]]
        BY <1>1, <4>1, ToldGrows DEF AccountsInv, IInv
      <4> QED
        BY <4>1, <4>2
    <3>4. PagesInv' /\ ListingsAreFaithful'
      BY <3>1 DEF AccountsInv, PagesInv, ListingsAreFaithful, Wanted
    <3> QED
      BY <3>2, <3>3, <3>4
  <2>2. CASE ItemsChange
    BY <2>2, ItemsChangeInv
  <2>3. CASE Listing
    BY <2>3, ListingInv
  <2> QED
    BY <2>1, <2>2, <2>3 DEF AccountsNext, Ensuring, allVars
<1> QED
  BY <1>2, <1>3 DEF AccountsInv

LEMMA AccountsInvariance == AccountsSpec => []AccountsInv
BY InitAccounts, NextAccounts, PTL DEF AccountsSpec

\* Every state of an account is well typed.
THEOREM AccountsTypeCorrect == AccountsSpec => []AccountsTypeOK
<1>1. AccountsInv => AccountsTypeOK
  BY DEF AccountsInv, IInv, ItemsTyped, AccountsTypeOK
<1> QED
  BY <1>1, AccountsInvariance, PTL

\* A listing that succeeds has what was there all the time, once, and nothing that
\* never was: whatever is attached, detached, issued or paid between its pages,
\* for any number of items and any size of page.
THEOREM ListingsAreComplete == AccountsSpec => []ListingsAreFaithful
<1>1. AccountsInv => ListingsAreFaithful
  BY DEF AccountsInv
<1> QED
  BY <1>1, AccountsInvariance, PTL

\* What a workflow attaches to the customer it was told hangs on the customer all
\* steps for that address are told, if they take turns: the address has only one.
THEOREM AttachmentsAreFound == AccountsSpec => []AttachedIsFindable
<1>1. AccountsInv => AttachedIsFindable
  <2> SUFFICES ASSUME AccountsInv, NEW a \in attached, a[2] \in Turns
               PROVE  /\ \A k \in With(a[2]) : item[a[1]].owner = k.id
                      /\ told[a[2]] = {item[a[1]].owner}
    BY DEF AttachedIsFindable
  <2> DEFINE e == a[2]
             o == item[a[1]].owner
  <2>1. e \in Emails /\ o \in told[e]
    BY DEF AccountsInv, ItemsTyped, AttachedInv
  <2>2. PICK k \in With(e) : k.id = o
    BY <2>1 DEF AccountsInv, IInv, AnswersAreTheirs, With
  <2>3. \A l \in With(e) : l = k
    BY <2>2 DEF AccountsInv, IInv, OneCustomerPerEmail
  <2>4. \A id \in told[e] : \E l \in With(e) : l.id = id
    BY <2>1 DEF AccountsInv, IInv, AnswersAreTheirs, With
  <2>5. \A id \in told[e] : id = o
    BY <2>2, <2>3, <2>4
  <2> QED
    BY <2>1, <2>2, <2>3, <2>5
<1> QED
  BY <1>1, AccountsInvariance, PTL
=============================================================================
