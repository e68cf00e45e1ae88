------------------------- MODULE WebhookProvisioning -------------------------
(***************************************************************************)
(* WebhookEndpointEnsure: list the account's endpoints, then leave, update,*)
(* create, or delete and create the one at the wanted URL; and the secret  *)
(* store its callers keep the returned signing secret in.  Nothing makes   *)
(* these requests one transaction: a request may fail, or take effect and  *)
(* lose its answer, and a run may die between any two of them.             *)
(***************************************************************************)
EXTENDS Naturals

CONSTANTS
  Runs,          \* concurrent runs: wfctl processes or pipeline steps
  URLs,
  Ids,           \* endpoint ids; a signing secret is named after its endpoint
  NoId,          \* no endpoint; as a secret, the empty string
  NoPar,         \* an idle run's parameters
  RawLists,      \* event lists as callers pass them, each a set of strings
  Canon,         \* trimmed and lowercased form of each string
  Blank,         \* what Canon maps a blank string to
  Modes,         \* URL -> the modes callers pass for it: "" stands for "ensure"
  Frontends,     \* "cli" and/or "step"
  InitialEndpoints,   \* what the account holds at the start
  TurnURLs,      \* URLs whose runs take turns, as the docs' concurrency group has it
  MaxFaults      \* failed requests, lost answers and dead runs

Events == {Canon[e] : e \in UNION RawLists}
Endpoints == [id : Ids, url : URLs, events : SUBSET Events]

ASSUME ProvisioningAssumption ==
  /\ NoId \notin Ids
  /\ Modes \in [URLs -> SUBSET {"", "ensure", "replace", "other"}]
  /\ Frontends \subseteq {"cli", "step"}
  /\ InitialEndpoints \subseteq Endpoints
  /\ \A e, f \in InitialEndpoints : e.id = f.id => e = f
  /\ TurnURLs \subseteq URLs
  /\ MaxFaults \in Nat

VARIABLES
  endpoints,  \* the endpoints Stripe holds
  vault,      \* URL -> signing secret the operators have persisted
  pc,         \* run -> the request it is about to make
  par,        \* run -> url, mode and normalised events it works for
  found,      \* run -> the endpoint findWebhookByURL returned
  result,     \* run -> what WebhookEndpointEnsure returned
  faults      \* faults so far

vars == <<endpoints, vault, pc, par, found, result, faults>>

At(u) == {e \in endpoints : e.url = u}
Live(u, id) == \E e \in At(u) : e.id = id

-----------------------------------------------------------------------------
\* Faulty variant of Normalize: the case is left alone.
NormalizeKeepsCase(raw) == {e \in raw : Canon[e] # Blank}

\* normalizeWebhookEvents: trim, lowercase, drop blanks, dedup, sort.
Normalize(raw) == {Canon[e] : e \in raw} \ {Blank}

\* splitEvents drops the blank parts of the comma-separated list.
SplitEvents(raw) == {e \in raw : Canon[e] # Blank}

\* The list as it reaches WebhookEndpointEnsure.
Passed(frontend, raw) == IF frontend = "cli" THEN SplitEvents(raw) ELSE raw

EffectiveMode(m) == IF m = "" THEN "ensure" ELSE m

NoResult == [id |-> NoId, created |-> FALSE, secret |-> NoId]

-----------------------------------------------------------------------------
Idle(c) ==
  /\ pc' = [pc EXCEPT ![c] = "idle"]
  /\ par' = [par EXCEPT ![c] = NoPar]
  /\ found' = [found EXCEPT ![c] = NoId]
  /\ result' = [result EXCEPT ![c] = NoResult]

\* WebhookEndpointEnsure returns r.
Finish(c, r) ==
  /\ pc' = [pc EXCEPT ![c] = "done"]
  /\ result' = [result EXCEPT ![c] = r]

\* WebhookEndpointEnsure returns an error: the step stops its pipeline and the
\* CLI exits non-zero, so nothing is persisted.
Abort(c) == Idle(c) /\ UNCHANGED vault

\* A run gets past the argument checks and is about to list.  The length check
\* is on the list as it was passed, before it is normalised.
Start(c, frontend, u, raw, m) ==
  /\ pc[c] = "idle"
  /\ u \in TurnURLs => ~\E d \in Runs : pc[d] # "idle" /\ par[d].url = u
  /\ Passed(frontend, raw) # {}
  /\ EffectiveMode(m) \in {"ensure", "replace"}
  /\ pc' = [pc EXCEPT ![c] = "list"]
  /\ par' = [par EXCEPT ![c] = [url |-> u, mode |-> EffectiveMode(m),
                                want |-> Normalize(Passed(frontend, raw))]]
  /\ UNCHANGED <<endpoints, vault, found, result, faults>>

\* Faulty variant of NextRequest: mode=replace is forgotten.
NextRequestEnsures(c, e) == IF e.events = par[c].want THEN "done" ELSE "update"

\* What the run does with the endpoint e it found at its URL.
NextRequest(c, e) ==
  CASE par[c].mode = "replace" -> "delete"
    [] par[c].mode = "ensure" /\ e.events = par[c].want -> "done"
    [] par[c].mode = "ensure" /\ e.events # par[c].want -> "update"

\* Faulty variant of Found: an endpoint whose events differ is not a match.
FoundSameEvents(c) == {e \in At(par[c].url) : e.events = par[c].want}

\* findWebhookByURL returns the first endpoint listed at the URL.
Found(c) == At(par[c].url)

ListNone(c) ==
  /\ pc[c] = "list"
  /\ Found(c) = {}
  /\ pc' = [pc EXCEPT ![c] = "create"]
  /\ UNCHANGED <<endpoints, vault, par, found, result, faults>>

ListMatch(c) ==
  /\ pc[c] = "list"
  /\ \E e \in Found(c) :
       /\ pc' = [pc EXCEPT ![c] = NextRequest(c, e)]
       /\ found' = [found EXCEPT ![c] = e.id]
       /\ result' = IF NextRequest(c, e) = "done"
                      THEN [result EXCEPT ![c] = [NoResult EXCEPT !.id = e.id]]
                      ELSE result
  /\ UNCHANGED <<endpoints, vault, par, faults>>

\* The endpoint is deleted.
Delete(c) ==
  /\ pc[c] = "delete"
  /\ \E e \in endpoints : e.id = found[c]
  /\ endpoints' = {e \in endpoints : e.id # found[c]}
  /\ pc' = [pc EXCEPT ![c] = "create"]
  /\ UNCHANGED <<vault, par, found, result, faults>>

\* An id no endpoint, run or store knows.
Fresh(id) ==
  /\ \A e \in endpoints : e.id # id
  /\ \A u \in URLs : vault[u] # id
  /\ \A d \in Runs : found[d] # id /\ result[d].id # id

NewEndpoint(c, id) == [id |-> id, url |-> par[c].url, events |-> par[c].want]

\* Stripe creates an endpoint, and only now tells its signing secret.
Create(c, id) ==
  /\ pc[c] = "create"
  /\ par[c].want # {}
  /\ Fresh(id)
  /\ endpoints' = endpoints \cup {NewEndpoint(c, id)}
  /\ Finish(c, [id |-> id, created |-> TRUE, secret |-> id])
  /\ UNCHANGED <<vault, par, found, faults>>

\* Faulty variant of WithEvents: the events are added to those there are.
EventsAdded(c) ==
  {IF e.id = found[c] THEN [e EXCEPT !.events = @ \cup par[c].want] ELSE e : e \in endpoints}

\* Stripe replaces the events of the endpoint the run found.
WithEvents(c) ==
  {IF e.id = found[c] THEN [e EXCEPT !.events = par[c].want] ELSE e : e \in endpoints}

Update(c) ==
  /\ pc[c] = "update"
  /\ par[c].want # {}
  /\ \E e \in endpoints : e.id = found[c]
  /\ endpoints' = WithEvents(c)
  /\ Finish(c, [NoResult EXCEPT !.id = found[c]])
  /\ UNCHANGED <<vault, par, found, faults>>

\* Stripe refuses: the endpoint is gone, or the event list is empty.
Refused(c) ==
  /\ \/ pc[c] \in {"delete", "update"} /\ ~\E e \in endpoints : e.id = found[c]
     \/ pc[c] \in {"create", "update"} /\ par[c].want = {}
  /\ Abort(c)
  /\ UNCHANGED <<endpoints, faults>>

\* Faulty variant of Persist: whatever came back is written.
PersistAlways(c) ==
  /\ pc[c] = "done"
  /\ vault' = [vault EXCEPT ![par[c].url] = result[c].secret]
  /\ Idle(c)
  /\ UNCHANGED <<endpoints, faults>>

\* The caller writes the secret down, if and only if it was told created=true.
Persist(c) ==
  /\ pc[c] = "done"
  /\ vault' = IF result[c].created
                THEN [vault EXCEPT ![par[c].url] = result[c].secret] ELSE vault
  /\ Idle(c)
  /\ UNCHANGED <<endpoints, faults>>

\* The run dies, its request never reaches Stripe, or persisting fails.
Fail(c) ==
  /\ pc[c] # "idle"
  /\ faults < MaxFaults
  /\ faults' = faults + 1
  /\ Abort(c)
  /\ UNCHANGED endpoints

\* Stripe carries the request out and the answer is lost.
LoseAnswer(c) ==
  /\ faults < MaxFaults
  /\ faults' = faults + 1
  /\ \/ /\ pc[c] = "delete"
        /\ endpoints' = {e \in endpoints : e.id # found[c]}
     \/ /\ pc[c] = "create" /\ par[c].want # {}
        /\ \E id \in Ids : Fresh(id) /\ endpoints' = endpoints \cup {NewEndpoint(c, id)}
     \/ /\ pc[c] = "update" /\ par[c].want # {}
        /\ endpoints' = WithEvents(c)
  /\ Abort(c)

-----------------------------------------------------------------------------
Init ==
  /\ endpoints = InitialEndpoints
  /\ vault = [u \in URLs |-> NoId]
  /\ pc = [c \in Runs |-> "idle"]
  /\ par = [c \in Runs |-> NoPar]
  /\ found = [c \in Runs |-> NoId]
  /\ result = [c \in Runs |-> NoResult]
  /\ faults = 0

\* One request of a run, answered.
Request(c) ==
  \/ ListNone(c) \/ ListMatch(c) \/ Delete(c) \/ Update(c)
  \/ \E id \in Ids : Create(c, id)
  \/ Refused(c)
  \/ Persist(c)

AnyStart(c) ==
  \E f \in Frontends, u \in URLs, raw \in RawLists : \E m \in Modes[u] : Start(c, f, u, raw, m)

Next == \E c \in Runs : AnyStart(c) \/ Request(c) \/ Fail(c) \/ LoseAnswer(c)

Spec == Init /\ [][Next]_vars

-----------------------------------------------------------------------------
(* The operator of docs/WEBHOOK-PROVISIONING.md, who wants Wanted[u] at each *)
(* URL u and re-runs the workflow: mode=ensure, or mode=replace when there is *)
(* an endpoint whose secret was never persisted.                              *)

CONSTANT Wanted

InService(u) ==
  \E e \in endpoints :
    /\ At(u) = {e}
    /\ e.events = Normalize(Wanted[u])
    /\ vault[u] = e.id

OperatorMode(u) ==
  IF At(u) # {} /\ ~Live(u, vault[u]) THEN "replace" ELSE "ensure"

OperatorStart(u) ==
  \E c \in Runs, f \in Frontends : Start(c, f, u, Wanted[u], OperatorMode(u))

OperatorNext ==
  \/ \E u \in URLs : OperatorStart(u)
  \/ \E c \in Runs : Request(c) \/ Fail(c) \/ LoseAnswer(c)

-----------------------------------------------------------------------------
Results == [id : Ids \cup {NoId}, created : BOOLEAN, secret : Ids \cup {NoId}]
Params == [url : URLs, mode : {"ensure", "replace"}, want : SUBSET Events]

TypeOK ==
  /\ endpoints \subseteq Endpoints
  /\ vault \in [URLs -> Ids \cup {NoId}]
  /\ pc \in [Runs -> {"idle", "list", "delete", "create", "update", "done"}]
  /\ par \in [Runs -> Params \cup {NoPar}]
  /\ found \in [Runs -> Ids \cup {NoId}]
  /\ result \in [Runs -> Results]
  /\ faults \in 0..MaxFaults

\* At a URL whose runs take turns there are never two endpoints, though answers
\* get lost, runs die at any point and other URLs have runs of their own.
AtMostOnePerURL ==
  \A e, f \in endpoints : (e.url = f.url /\ e.url \in TurnURLs) => e = f

\* When a run that had its turn reports success, the URL is served by exactly the
\* endpoint it reports, with exactly the events asked for; and after mode=replace
\* that endpoint's secret is one the store has not seen.
SuccessMeansProvisioned ==
  \A c \in Runs : (pc[c] = "done" /\ par[c].url \in TurnURLs) =>
    /\ At(par[c].url) = {[id |-> result[c].id, url |-> par[c].url, events |-> par[c].want]}
    /\ par[c].mode = "replace" =>
         result[c].secret = result[c].id /\ vault[par[c].url] # result[c].id

\* A secret in the store that verifies deliveries goes on doing so as long as runs
\* for its URL use mode=ensure, however many run at once, fail or die, and
\* whatever is replaced elsewhere: ensure never falls back to replace, and an
\* empty secret never overwrites a stored one.
EnsureKeepsSecret ==
  [][\A u \in URLs : (Live(u, vault[u]) /\ "replace" \notin Modes[u]) =>
        Live(u, vault[u])']_vars

\* An operator who follows the docs gets every URL into service for good, once
\* faults stop: one endpoint, the wanted events, its secret in the store.
EventuallyInService == <>[](\A u \in URLs : InService(u))
=============================================================================
