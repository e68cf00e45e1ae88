--------------------------- MODULE PayPalTokenProofs ---------------------------
(***************************************************************************)
(* That tokens are fresh and fetched one at a time, for any number of      *)
(* calls, any timeout, any margin of at least two timeouts and any         *)
(* lifetimes of more than two timeouts.                                    *)
(***************************************************************************)
EXTENDS PayPalToken, TLAPS

Fetching(c) == pc[c] \in {"asked", "issued"}

(* A token ages from its issue on, so when it is received it has lost at most *)
(* what its request has used up of its timeout; from then on the cache keeps  *)
(* Margin - Timeout in hand, which is a timeout for the request it is used in. *)
IssuedInv(c) ==
  pc[c] = "issued" =>
    /\ token[c].life \in Lifetimes
    /\ token[c].revoked \/ token[c].left + Timeout >= token[c].life + timer[c]

SentInv(c) ==
  pc[c] = "sent" => token[c].revoked \/ token[c].left > timer[c]

ArrivedInv(c) ==
  pc[c] = "arrived" => accepted[c] \/ token[c].revoked

CacheInv ==
  cache.fresh > 0 =>
    /\ cache.token.life > 0
    /\ cache.token.revoked \/ cache.token.left + Timeout >= cache.fresh + Margin

LockInv ==
  /\ \A c \in Calls : Fetching(c) <=> holder = c
  /\ holder # NoCall => cache.fresh = 0

CallInv(c) == IssuedInv(c) /\ SentInv(c) /\ ArrivedInv(c)

Inv == TypeOK /\ CacheInv /\ LockInv /\ \A c \in Calls : CallInv(c)

LEMMA Constants ==
  /\ NoCall \notin Calls
  /\ Timeout \in Nat /\ Margin \in Nat /\ MaxRevocations \in Nat
  /\ Margin >= 2 * Timeout
  /\ \A l \in Lifetimes : l \in Nat /\ l > 2 * Timeout
BY TokenAssumption DEF TokenAssumption

LEMMA AgedToken ==
  ASSUME NEW t \in Tokens
  PROVE  /\ Aged(t) \in Tokens
         /\ Aged(t).life = t.life /\ Aged(t).revoked = t.revoked
         /\ Aged(t).left = Monus(t.left, 1)
BY DEF Aged, Tokens, Monus

LEMMA WithdrawnToken ==
  ASSUME NEW t \in Tokens
  PROVE  /\ Withdrawn(t) \in Tokens
         /\ Withdrawn(t).life = t.life /\ Withdrawn(t).left = t.left
         /\ t.revoked => Withdrawn(t).revoked
<1>1. (t # NoToken) \in BOOLEAN
  OBVIOUS
<1>2. /\ Withdrawn(t) \in Tokens
      /\ Withdrawn(t).life = t.life /\ Withdrawn(t).left = t.left
      /\ Withdrawn(t).revoked = (t # NoToken)
  BY <1>1 DEF Withdrawn, Tokens
<1>3. t.revoked => t # NoToken
  BY DEF NoToken
<1> QED
  BY <1>2, <1>3

LEMMA MonusNat ==
  ASSUME NEW a \in Nat, NEW b \in Nat
  PROVE  /\ Monus(a, b) \in Nat /\ Monus(a, b) <= a
         /\ Monus(a, b) > 0 => a = Monus(a, b) + b
BY DEF Monus

LEMMA NoTokenType == NoToken \in Tokens
BY DEF NoToken, Tokens

\* A step that leaves c's own state alone leaves its invariant alone.
LEMMA CallUntouched ==
  ASSUME NEW c \in Calls, CallInv(c), pc'[c] = pc[c], token'[c] = token[c],
         timer'[c] = timer[c], accepted'[c] = accepted[c]
  PROVE  CallInv(c)'
BY DEF CallInv, IssuedInv, SentInv, ArrivedInv

\* What the steps of one call leave alone.
LEMMA OthersUntouched ==
  ASSUME TypeOK, NEW c \in Calls, CallStep(c), NEW d \in Calls, d # c
  PROVE  /\ pc'[d] = pc[d] /\ token'[d] = token[d]
         /\ timer'[d] = timer[d] /\ accepted'[d] = accepted[d]
BY DEF TypeOK, CallStep, Call, TakeCached, AskToken, Issue, ReceiveToken, Send,
       Arrive, Return, Fail, Over

LEMMA InitInv == Init => Inv
<1> SUFFICES ASSUME Init PROVE Inv
  OBVIOUS
<1>1. TypeOK
  BY Constants, NoTokenType DEF Init, TypeOK
<1>2. CacheInv /\ LockInv
  BY Constants DEF Init, CacheInv, LockInv, Fetching
<1>3. \A c \in Calls : CallInv(c)
  BY DEF Init, CallInv, IssuedInv, SentInv, ArrivedInv
<1> QED
  BY <1>1, <1>2, <1>3 DEF Inv

LEMMA CallStepType ==
  ASSUME Inv, NEW c \in Calls, CallStep(c)
  PROVE  TypeOK'
<1> USE Constants, NoTokenType DEF Inv
<1>1. CASE Call(c)
  BY <1>1 DEF Call, TypeOK
<1>2. CASE TakeCached(c)
  BY <1>2 DEF TakeCached, Send, TypeOK
<1>3. CASE AskToken(c)
  BY <1>3 DEF AskToken, Lock, TypeOK
<1>4. CASE Issue(c)
  <2>1. PICK l \in Lifetimes :
          token' = [token EXCEPT ![c] = [life |-> l, left |-> l, revoked |-> FALSE]]
    BY <1>4 DEF Issue
  <2>2. [life |-> l, left |-> l, revoked |-> FALSE] \in Tokens
    BY DEF Tokens
  <2> QED
    BY <1>4, <2>1, <2>2 DEF Issue, TypeOK
<1>5. CASE ReceiveToken(c)
  <2>1. token[c] \in Tokens /\ token[c].life \in Nat
    BY DEF TypeOK, Tokens
  <2>2. Freshness(token[c].life) \in Nat
    BY <2>1, MonusNat DEF Freshness
  <2> QED
    BY <1>5, <2>1, <2>2 DEF ReceiveToken, Unlock, Send, TypeOK
<1>6. CASE Arrive(c)
  BY <1>6 DEF Arrive, TypeOK
<1>7. CASE Return(c)
  BY <1>7 DEF Return, Over, TypeOK
<1>8. CASE Fail(c)
  BY <1>8 DEF Fail, Unlock, Over, TypeOK
<1> QED
  BY <1>1, <1>2, <1>3, <1>4, <1>5, <1>6, <1>7, <1>8 DEF CallStep

\* A call whose fetch is over, or never began, is not the holder.
LEMMA CallStepLock ==
  ASSUME Inv, NEW c \in Calls, CallStep(c)
  PROVE  LockInv'
<1>1. \A d \in Calls : d # c => pc'[d] = pc[d]
  BY OthersUntouched DEF Inv
<1>2. CASE /\ UNCHANGED <<holder, cache>>
           /\ Fetching(c)' <=> Fetching(c)
  BY <1>1, <1>2 DEF Inv, LockInv, Fetching
<1>3. CASE AskToken(c)
  <2>1. cache.fresh = 0
    BY <1>3 DEF AskToken, Cached, Inv, CacheInv, TypeOK, NoToken
  <2>2. holder = NoCall /\ holder' = c /\ cache' = cache /\ pc'[c] = "asked"
    BY <1>3 DEF AskToken, Lock, Inv, TypeOK
  <2> QED
    BY <1>1, <2>1, <2>2, Constants DEF Inv, LockInv, Fetching
<1>4. CASE ReceiveToken(c)
  <2>1. holder = c /\ holder' = NoCall /\ pc'[c] = "sent"
    BY <1>4 DEF ReceiveToken, Unlock, Send, Inv, LockInv, Fetching, TypeOK
  <2> QED
    BY <1>1, <2>1, Constants DEF Inv, LockInv, Fetching
<1>5. CASE Fail(c)
  <2>1. /\ holder' = IF holder = c THEN NoCall ELSE holder
        /\ cache' = cache /\ pc'[c] = "idle"
    BY <1>5 DEF Fail, Unlock, Over, Inv, TypeOK
  <2> QED
    BY <1>1, <2>1, Constants DEF Inv, LockInv, Fetching
<1>6. CASE Call(c) \/ TakeCached(c) \/ Issue(c) \/ Arrive(c) \/ Return(c)
  <2>1. UNCHANGED <<holder, cache>> /\ (Fetching(c)' <=> Fetching(c))
    BY <1>6 DEF Call, TakeCached, Issue, Arrive, Return, Send, Over, Fetching, Inv, TypeOK
  <2> QED
    BY <2>1, <1>2
<1> QED
  BY <1>3, <1>4, <1>5, <1>6 DEF CallStep

LEMMA CallStepCache ==
  ASSUME Inv, NEW c \in Calls, CallStep(c)
  PROVE  CacheInv'
<1>1. CASE ReceiveToken(c)
  <2> DEFINE t == token[c]
  <2>1. /\ t \in Tokens /\ t.life \in Nat /\ t.left \in Nat /\ timer[c] \in Nat
        /\ t.life \in Lifetimes /\ (t.revoked \/ t.left + Timeout >= t.life + timer[c])
    BY <1>1, Constants DEF ReceiveToken, Inv, CallInv, IssuedInv, TypeOK, Tokens
  <2>2. cache'.token = t /\ cache'.fresh = Monus(t.life, Margin)
    BY <1>1 DEF ReceiveToken, Freshness
  <2>3. Monus(t.life, Margin) > 0 => t.life = Monus(t.life, Margin) + Margin
    BY <2>1, MonusNat, Constants
  <2>4. Monus(t.life, Margin) \in Nat
    BY <2>1, MonusNat, Constants
  <2>5. t.life > 0
    BY <2>1, Constants
  <2> HIDE DEF t
  <2> QED
    BY <2>1, <2>2, <2>3, <2>4, <2>5, Constants DEF CacheInv
<1>2. CASE ~ReceiveToken(c)
  <2>1. cache' = cache
    BY <1>2 DEF CallStep, Call, TakeCached, AskToken, Issue, Arrive, Return, Fail
  <2> QED
    BY <2>1 DEF Inv, CacheInv
<1> QED
  BY <1>1, <1>2

LEMMA CallStepCalls ==
  ASSUME Inv, NEW c \in Calls, CallStep(c), NEW d \in Calls
  PROVE  CallInv(d)'
<1>1. CASE d # c
  BY <1>1, OthersUntouched, CallUntouched DEF Inv
<1>2. CallInv(c)'
  <2>1. CASE Call(c) \/ AskToken(c) \/ Return(c) \/ Fail(c)
    <3>1. pc'[c] \in {"lock", "asked", "idle"}
      BY <2>1 DEF Call, AskToken, Return, Fail, Over, Inv, TypeOK
    <3> QED
      BY <3>1 DEF CallInv, IssuedInv, SentInv, ArrivedInv
  <2>2. CASE TakeCached(c)
    <3>1. pc'[c] = "sent" /\ timer'[c] = Timeout /\ token'[c] = cache.token
      BY <2>2 DEF TakeCached, Send, Inv, TypeOK
    <3>2. cache.fresh > 0 /\ cache.fresh \in Nat /\ cache.token.left \in Nat
      BY <2>2 DEF TakeCached, Cached, Inv, TypeOK, Tokens
    <3>3. cache.token.revoked \/ cache.token.left > Timeout
      BY <3>2, Constants DEF Inv, CacheInv
    <3> QED
      BY <3>1, <3>3 DEF CallInv, IssuedInv, SentInv, ArrivedInv
  <2>3. CASE Issue(c)
    <3>1. PICK l \in Lifetimes :
            token' = [token EXCEPT ![c] = [life |-> l, left |-> l, revoked |-> FALSE]]
      BY <2>3 DEF Issue
    <3>2. /\ pc'[c] = "issued" /\ timer'[c] = timer[c]
          /\ token'[c] = [life |-> l, left |-> l, revoked |-> FALSE]
      BY <2>3, <3>1 DEF Issue, Inv, TypeOK
    <3>3. timer[c] \in 0..Timeout
      BY DEF Inv, TypeOK
    <3> QED
      BY <3>2, <3>3, Constants DEF CallInv, IssuedInv, SentInv, ArrivedInv
  <2>4. CASE ReceiveToken(c)
    <3>1. pc'[c] = "sent" /\ timer'[c] = Timeout /\ token'[c] = token[c]
      BY <2>4 DEF ReceiveToken, Send, Inv, TypeOK
    <3>2. /\ token[c].left \in Nat /\ timer[c] \in Nat /\ token[c].life \in Lifetimes
          /\ token[c].revoked \/ token[c].left + Timeout >= token[c].life + timer[c]
      BY <2>4, Constants DEF ReceiveToken, Inv, CallInv, IssuedInv, TypeOK, Tokens
    <3>3. token[c].revoked \/ token[c].left > Timeout
      BY <3>2, Constants
    <3> QED
      BY <3>1, <3>3 DEF CallInv, IssuedInv, SentInv, ArrivedInv
  <2>5. CASE Arrive(c)
    <3>1. /\ pc[c] = "sent" /\ pc'[c] = "arrived" /\ token'[c] = token[c]
          /\ accepted'[c] = (token[c].left > 0 /\ ~token[c].revoked)
      BY <2>5 DEF Arrive, Inv, TypeOK
    <3>2. timer[c] \in Nat /\ token[c].left \in Nat
      BY Constants DEF Inv, TypeOK, Tokens
    <3>3. token[c].revoked \/ token[c].left > 0
      BY <3>1, <3>2 DEF Inv, CallInv, SentInv
    <3> QED
      BY <3>1, <3>3 DEF CallInv, IssuedInv, SentInv, ArrivedInv
  <2> QED
    BY <2>1, <2>2, <2>3, <2>4, <2>5 DEF CallStep
<1> QED
  BY <1>1, <1>2

LEMMA TickInv ==
  ASSUME Inv, Tick
  PROVE  Inv'
<1>1. \A c \in Calls : /\ token[c] \in Tokens /\ token'[c] = Aged(token[c])
                       /\ timer[c] \in 0..Timeout /\ timer'[c] = Monus(timer[c], 1)
                       /\ pc'[c] = pc[c] /\ accepted'[c] = accepted[c]
                       /\ Waiting(c) => timer[c] > 0
  BY DEF Tick, Inv, TypeOK
<1>2. /\ cache.token \in Tokens /\ cache.fresh \in Nat
      /\ cache' = [token |-> Aged(cache.token), fresh |-> Monus(cache.fresh, 1)]
      /\ holder' = holder
  BY DEF Tick, Inv, TypeOK
<1>3. TypeOK'
  <2>1. \A c \in Calls : Monus(timer[c], 1) \in 0..Timeout
    BY <1>1, Constants DEF Monus
  <2>2. token' \in [Calls -> Tokens] /\ timer' \in [Calls -> 0..Timeout]
    BY <2>1, <1>1, AgedToken DEF Tick
  <2>3. cache' \in [token : Tokens, fresh : Nat]
    BY <1>2, AgedToken, MonusNat
  <2> QED
    BY <2>2, <2>3 DEF Tick, Inv, TypeOK
<1>4. CacheInv'
  <2>1. /\ cache'.token = Aged(cache.token)
        /\ cache'.fresh = Monus(cache.fresh, 1)
    BY <1>2
  <2>2. /\ cache.token.left \in Nat /\ cache.token.life \in Nat
    BY <1>2 DEF Tokens
  <2> QED
    BY <1>2, <2>1, <2>2, AgedToken, Constants DEF Inv, CacheInv, Monus
<1>5. LockInv'
  <2>1. cache.fresh = 0 => cache'.fresh = 0
    BY <1>2 DEF Monus
  <2> QED
    BY <1>1, <1>2, <2>1 DEF Inv, LockInv, Fetching
<1>6. ASSUME NEW c \in Calls PROVE CallInv(c)'
  <2>1. token[c].left \in Nat /\ token[c].life \in Nat
    BY <1>1 DEF Tokens
  <2>2. /\ token'[c].life = token[c].life /\ token'[c].revoked = token[c].revoked
        /\ token'[c].left = Monus(token[c].left, 1)
    BY <1>1, AgedToken
  <2>3. CallInv(c)
    BY DEF Inv
  <2>4. IssuedInv(c)'
    BY <1>1, <2>1, <2>2, <2>3, Constants DEF CallInv, IssuedInv, Waiting, Monus
  <2>5. SentInv(c)'
    BY <1>1, <2>1, <2>2, <2>3, Constants DEF CallInv, SentInv, Waiting, Monus
  <2>6. ArrivedInv(c)'
    BY <1>1, <2>2, <2>3 DEF CallInv, ArrivedInv
  <2> QED
    BY <2>4, <2>5, <2>6 DEF CallInv
<1> QED
  BY <1>3, <1>4, <1>5, <1>6 DEF Inv

LEMMA RevokeInv ==
  ASSUME Inv, Revoke
  PROVE  Inv'
<1>1. \A c \in Calls : /\ token[c] \in Tokens /\ token'[c] = Withdrawn(token[c])
                       /\ timer'[c] = timer[c] /\ pc'[c] = pc[c] /\ accepted'[c] = accepted[c]
  BY DEF Revoke, Inv, TypeOK
<1>2. /\ cache.token \in Tokens /\ cache.fresh \in Nat
      /\ cache'.token = Withdrawn(cache.token) /\ cache'.fresh = cache.fresh
      /\ cache' \in [token : Tokens, fresh : Nat]
      /\ holder' = holder
  BY WithdrawnToken DEF Revoke, Inv, TypeOK
<1>3. TypeOK'
  <2>1. token' \in [Calls -> Tokens]
    BY <1>1, WithdrawnToken DEF Revoke
  <2>2. revocations' \in 0..MaxRevocations
    BY Constants DEF Revoke, Inv, TypeOK
  <2> QED
    BY <1>2, <2>1, <2>2 DEF Revoke, Inv, TypeOK
<1>4. CacheInv'
  BY <1>2, WithdrawnToken DEF Inv, CacheInv
<1>5. LockInv'
  BY <1>1, <1>2 DEF Inv, LockInv, Fetching
<1>6. ASSUME NEW c \in Calls PROVE CallInv(c)'
  <2>1. /\ token'[c].life = token[c].life /\ token'[c].left = token[c].left
        /\ token[c].revoked => token'[c].revoked
    BY <1>1, WithdrawnToken
  <2> QED
    BY <1>1, <2>1 DEF Inv, CallInv, IssuedInv, SentInv, ArrivedInv
<1> QED
  BY <1>3, <1>4, <1>5, <1>6 DEF Inv

LEMMA NextInv == Inv /\ [Next]_vars => Inv'
<1> SUFFICES ASSUME Inv, [Next]_vars PROVE Inv'
  OBVIOUS
<1>1. ASSUME NEW c \in Calls, CallStep(c) PROVE Inv'
  BY <1>1, CallStepType, CallStepLock, CallStepCache, CallStepCalls DEF Inv
<1>2. CASE UNCHANGED vars
  BY <1>2 DEF vars, Inv, TypeOK, CacheInv, LockInv, Fetching, CallInv, IssuedInv,
              SentInv, ArrivedInv
<1> QED
  BY <1>1, <1>2, TickInv, RevokeInv DEF Next

THEOREM InvHolds == Spec => []Inv
BY InitInv, NextInv, PTL DEF Spec

\* The token bookkeeping of getAccessToken and doJSON is well typed.
THEOREM TypeCorrect == Spec => []TypeOK
<1>1. Inv => TypeOK
  BY DEF Inv
<1> QED
  BY <1>1, InvHolds, PTL

\* No request is turned away for an expired token, however long the requests
\* take: the margin of 60 s is two timeouts of 30 s, and two are needed.
THEOREM TokensAreFresh == Spec => []TokenFresh
<1>1. Inv => TokenFresh
  BY DEF Inv, CallInv, ArrivedInv, TokenFresh
<1> QED
  BY <1>1, InvHolds, PTL

\* tokenMu keeps token requests apart, and none is made for a token there is.
THEOREM FetchesAreSingle == Spec => []SingleFlight
<1>1. Inv => SingleFlight
  BY Constants DEF Inv, LockInv, Fetching, SingleFlight
<1> QED
  BY <1>1, InvHolds, PTL
=============================================================================
