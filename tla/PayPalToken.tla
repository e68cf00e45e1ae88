------------------------------ MODULE PayPalToken ------------------------------
(***************************************************************************)
(* The OAuth2 token every PayPal request carries: getAccessToken serves it *)
(* from a cache or fetches it while it holds tokenMu, doJSON then sends    *)
(* the request.  Time is discrete.  A deadline is kept as the ticks left   *)
(* until it; what goroutines compute locally takes no time.                *)
(***************************************************************************)
EXTENDS Naturals

CONSTANTS
  Calls,           \* goroutines that call the provider
  NoCall,
  Timeout,         \* http.Client.Timeout, 30 s
  Margin,          \* what getAccessToken takes off expires_in, 60 s
  Lifetimes,       \* the values of expires_in
  MaxRevocations   \* how often PayPal withdraws the tokens it has issued

\* The margin covers a token request and an API request that each take the
\* whole of their timeout; a token lives longer than those two.
ASSUME TokenAssumption ==
  /\ NoCall \notin Calls
  /\ Timeout \in Nat /\ Margin \in Nat /\ MaxRevocations \in Nat
  /\ Lifetimes \subseteq Nat
  /\ Margin >= 2 * Timeout
  /\ \A l \in Lifetimes : l > 2 * Timeout

VARIABLES
  cache,        \* the provider's accessToken, and the ticks to its tokenExpiry
  holder,       \* who holds tokenMu
  pc,           \* call -> where it is
  timer,        \* call -> ticks until its HTTP request times out
  token,        \* call -> the token it was issued or given
  accepted,     \* call -> PayPal accepted the token of its request
  revocations   \* withdrawals so far

vars == <<cache, holder, pc, timer, token, accepted, revocations>>

\* A token: what expires_in said, ticks until PayPal lets it expire, and
\* whether PayPal has withdrawn it.
NoToken == [life |-> 0, left |-> 0, revoked |-> FALSE]

Monus(a, b) == IF a > b THEN a - b ELSE 0

Waiting(c) == pc[c] \in {"asked", "issued", "sent", "arrived"}

-----------------------------------------------------------------------------
Call(c) ==
  /\ pc[c] = "idle"
  /\ pc' = [pc EXCEPT ![c] = "lock"]
  /\ UNCHANGED <<cache, holder, timer, token, accepted, revocations>>

\* Faulty variant of Cached: the expiry is not looked at.
CachedForever == cache.token # NoToken

\* There is a token, and its expiry is not reached.
Cached == cache.token # NoToken /\ cache.fresh > 0

\* Faulty variant of Lock: the mutex is not taken.
LockNone(c) == UNCHANGED holder

Lock(c) == holder = NoCall /\ holder' = c

\* Faulty variant of Unlock: the mutex is never released.
UnlockNever(c) == UNCHANGED holder

\* The deferred Unlock of getAccessToken.
Unlock(c) == holder' = IF holder = c THEN NoCall ELSE holder

\* doJSON has its token and sends the request.
Send(c) ==
  /\ pc' = [pc EXCEPT ![c] = "sent"]
  /\ timer' = [timer EXCEPT ![c] = Timeout]

\* tokenMu is locked, the cache serves and the deferred Unlock follows at once.
TakeCached(c) ==
  /\ pc[c] = "lock"
  /\ holder = NoCall
  /\ Cached
  /\ token' = [token EXCEPT ![c] = cache.token]
  /\ Send(c)
  /\ UNCHANGED <<cache, holder, accepted, revocations>>

\* Or it does not: the token request goes out under the lock.
AskToken(c) ==
  /\ pc[c] = "lock"
  /\ ~Cached
  /\ Lock(c)
  /\ pc' = [pc EXCEPT ![c] = "asked"]
  /\ timer' = [timer EXCEPT ![c] = Timeout]
  /\ UNCHANGED <<cache, token, accepted, revocations>>

\* PayPal issues a token, which begins to age.
Issue(c) ==
  /\ pc[c] = "asked"
  /\ \E l \in Lifetimes :
       token' = [token EXCEPT ![c] = [life |-> l, left |-> l, revoked |-> FALSE]]
  /\ pc' = [pc EXCEPT ![c] = "issued"]
  /\ UNCHANGED <<cache, holder, timer, accepted, revocations>>

\* Faulty variant of Freshness: the token is cached for all of its life.
FreshnessFull(life) == life

\* How long a token that has just been received is served from the cache.
Freshness(life) == Monus(life, Margin)

\* The token is received, cached and returned, and tokenMu unlocked.
ReceiveToken(c) ==
  /\ pc[c] = "issued"
  /\ cache' = [token |-> token[c], fresh |-> Freshness(token[c].life)]
  /\ Unlock(c)
  /\ Send(c)
  /\ UNCHANGED <<token, accepted, revocations>>

\* It arrives, and PayPal looks at the token.
Arrive(c) ==
  /\ pc[c] = "sent"
  /\ accepted' = [accepted EXCEPT ![c] = token[c].left > 0 /\ ~token[c].revoked]
  /\ pc' = [pc EXCEPT ![c] = "arrived"]
  /\ UNCHANGED <<cache, holder, timer, token, revocations>>

Over(c) ==
  /\ pc' = [pc EXCEPT ![c] = "idle"]
  /\ timer' = [timer EXCEPT ![c] = 0]
  /\ token' = [token EXCEPT ![c] = NoToken]
  /\ accepted' = [accepted EXCEPT ![c] = FALSE]

\* The answer is back and the provider method returns.  An answer that says the
\* token was not accepted is an error like any other: the cache is left alone.
Return(c) ==
  /\ pc[c] = "arrived"
  /\ Over(c)
  /\ UNCHANGED <<cache, holder, revocations>>

\* A request fails: refused, undecodable, cancelled, or timed out.
Fail(c) ==
  /\ Waiting(c)
  /\ Unlock(c)
  /\ Over(c)
  /\ UNCHANGED <<cache, revocations>>

-----------------------------------------------------------------------------
\* Faulty variant of Aged: the expiry is counted past zero.
AgedPast(t) == [t EXCEPT !.left = @ - 1]

Aged(t) == [t EXCEPT !.left = Monus(@, 1)]

\* Time passes, but no request outlives its timeout.
Tick ==
  /\ \A c \in Calls : Waiting(c) => timer[c] > 0
  /\ cache' = [token |-> Aged(cache.token), fresh |-> Monus(cache.fresh, 1)]
  /\ timer' = [c \in Calls |-> Monus(timer[c], 1)]
  /\ token' = [c \in Calls |-> Aged(token[c])]
  /\ UNCHANGED <<holder, pc, accepted, revocations>>

Withdrawn(t) == [t EXCEPT !.revoked = (t # NoToken)]

\* PayPal withdraws every token it has issued.
Revoke ==
  /\ revocations < MaxRevocations
  /\ revocations' = revocations + 1
  /\ cache' = [cache EXCEPT !.token = Withdrawn(@)]
  /\ token' = [c \in Calls |-> Withdrawn(token[c])]
  /\ UNCHANGED <<holder, pc, timer, accepted>>

Init ==
  /\ cache = [token |-> NoToken, fresh |-> 0]
  /\ holder = NoCall
  /\ pc = [c \in Calls |-> "idle"]
  /\ timer = [c \in Calls |-> 0]
  /\ token = [c \in Calls |-> NoToken]
  /\ accepted = [c \in Calls |-> FALSE]
  /\ revocations = 0

CallStep(c) ==
  \/ Call(c) \/ TakeCached(c) \/ AskToken(c) \/ Issue(c) \/ ReceiveToken(c)
  \/ Arrive(c) \/ Return(c) \/ Fail(c)

Next == (\E c \in Calls : CallStep(c)) \/ Tick \/ Revoke

Spec == Init /\ [][Next]_vars

\* Nothing is assumed of PayPal.  Time passes; a request whose timeout is
\* reached fails (http.Client), if its answer is not just in; who waits for
\* tokenMu gets it in the end (sync.Mutex hands it over in starvation mode).
FairSpec ==
  /\ Spec
  /\ WF_vars(Tick)
  /\ \A c \in Calls :
       /\ SF_vars(TakeCached(c) \/ AskToken(c))
       /\ WF_vars(timer[c] = 0 /\ (ReceiveToken(c) \/ Return(c) \/ Fail(c)))

-----------------------------------------------------------------------------
Tokens == [life : Nat, left : Nat, revoked : BOOLEAN]

TypeOK ==
  /\ cache \in [token : Tokens, fresh : Nat]
  /\ holder \in Calls \cup {NoCall}
  /\ pc \in [Calls -> {"idle", "lock", "asked", "issued", "sent", "arrived"}]
  /\ timer \in [Calls -> 0..Timeout]
  /\ token \in [Calls -> Tokens]
  /\ accepted \in [Calls -> BOOLEAN]
  /\ revocations \in 0..MaxRevocations

\* PayPal never turns a request away because its token has expired, however long
\* the token request and the request itself took, and however old the token was
\* when the cache served it: only a token PayPal withdrew is turned away.
TokenFresh ==
  \A c \in Calls : pc[c] = "arrived" => accepted[c] \/ token[c].revoked

\* At most one token request is under way, and while it is the cache has nothing
\* to serve: calls that find no token wait for one fetch, they do not repeat it.
SingleFlight ==
  \A c \in Calls : pc[c] \in {"asked", "issued"} =>
    /\ \A d \in Calls : pc[d] \in {"asked", "issued"} => c = d
    /\ cache.fresh = 0

\* Every call returns, though tokenMu is held across a request to a server that
\* may never answer.
EveryCallReturns == \A c \in Calls : pc[c] = "lock" ~> pc[c] = "idle"

\* A withdrawn token is not served for ever, though the answer that turns it
\* away does not empty the cache.
RejectionsEnd ==
  <>[](\A c \in Calls : pc[c] = "arrived" => accepted[c])
=============================================================================
