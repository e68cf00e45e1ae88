-------------------------- MODULE CustomerDirectory --------------------------
(***************************************************************************)
(* What step.payment_customer_ensure promises ("idempotent upsert"): the   *)
(* account is a directory from e-mail addresses to customers.  An address  *)
(* gets a customer once, of its own, and every answer for it names that    *)
(* customer.                                                               *)
(***************************************************************************)
CONSTANTS Emails, Ids, NoId

VARIABLES
  entry,    \* e-mail -> its customer, or NoId
  answered  \* e-mail -> the customers callers have been given

Init ==
  /\ entry = [e \in Emails |-> NoId]
  /\ answered = [e \in Emails |-> {}]

Enter(e, id) ==
  /\ entry[e] = NoId
  /\ \A f \in Emails : entry[f] # id
  /\ entry' = [entry EXCEPT ![e] = id]
  /\ UNCHANGED answered

Answer(e) ==
  /\ entry[e] # NoId
  /\ answered' = [answered EXCEPT ![e] = @ \cup {entry[e]}]
  /\ UNCHANGED entry

Next == \E e \in Emails : Answer(e) \/ \E id \in Ids : Enter(e, id)

Spec == Init /\ [][Next]_<<entry, answered>>
=============================================================================
