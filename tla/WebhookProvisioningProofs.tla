----------------------- MODULE WebhookProvisioningProofs -----------------------
(***************************************************************************)
(* What holds of WebhookProvisioning, and of the modules and deliveries of  *)
(* WebhookDelivery, for any number of runs, URLs, ids and faults.           *)
(***************************************************************************)
EXTENDS WebhookDelivery, TLAPS

Working(c) == pc[c] # "idle"

(* A run's parameters are set while it works, and it knows an endpoint id     *)
(* once it has found one.                                                     *)
RunInv ==
  \A c \in Runs :
    /\ Working(c) => par[c] \in Params
    /\ pc[c] \in {"delete", "update"} => found[c] \in Ids

UniqueIds == \A e, f \in endpoints : e.id = f.id => e = f

LEMMA NormalizeType ==
  ASSUME NEW f \in Frontends, NEW raw \in RawLists
  PROVE  Normalize(Passed(f, raw)) \in SUBSET Events
BY DEF Normalize, Passed, SplitEvents, Events

\* What each kind of step does to the endpoints: nothing, one new endpoint with
\* a fresh id at the run's URL, the found one gone, or its events replaced.
EndpointStep(c) ==
  \/ endpoints' = endpoints
  \/ pc[c] = "delete" /\ endpoints' = {e \in endpoints : e.id # found[c]}
  \/ pc[c] = "create" /\ \E id \in Ids : Fresh(id) /\ endpoints' = endpoints \cup {NewEndpoint(c, id)}
  \/ pc[c] = "update" /\ endpoints' = WithEvents(c)

RunStep(c) == AnyStart(c) \/ Request(c) \/ Fail(c) \/ LoseAnswer(c)

LEMMA RunStepEndpoints ==
  ASSUME NEW c \in Runs, RunStep(c)
  PROVE  EndpointStep(c)
BY DEF RunStep, AnyStart, Start, Request, ListNone, ListMatch, Delete, Create, Update,
       Refused, Persist, Fail, LoseAnswer, EndpointStep, Abort

LEMMA NextIsRunStep == Next <=> \E c \in Runs : RunStep(c)
BY DEF Next, RunStep

LEMMA EndpointsTyped ==
  ASSUME TypeOK, RunInv, NEW c \in Runs, EndpointStep(c)
  PROVE  endpoints' \subseteq Endpoints
<1>1. CASE endpoints' = endpoints
  BY <1>1 DEF TypeOK
<1>2. CASE endpoints' = {e \in endpoints : e.id # found[c]}
  BY <1>2 DEF TypeOK
<1>3. CASE /\ pc[c] = "create"
           /\ \E id \in Ids : endpoints' = endpoints \cup {NewEndpoint(c, id)}
  <2>1. par[c] \in Params
    BY <1>3 DEF RunInv, Working
  <2>2. \A id \in Ids : NewEndpoint(c, id) \in Endpoints
    BY <2>1 DEF NewEndpoint, Params, Endpoints
  <2> QED
    BY <1>3, <2>2 DEF TypeOK
<1>4. CASE pc[c] = "update" /\ endpoints' = WithEvents(c)
  <2>1. par[c].want \in SUBSET Events
    BY <1>4 DEF RunInv, Working, Params
  <2>2. \A e \in Endpoints : [e EXCEPT !.events = par[c].want] \in Endpoints
    BY <2>1 DEF Endpoints
  <2> QED
    BY <1>4, <2>2 DEF WithEvents, TypeOK
<1> QED
  BY <1>1, <1>2, <1>3, <1>4 DEF EndpointStep

\* A run that ends, well or badly, leaves nothing behind.
LEMMA IdleTyped ==
  ASSUME TypeOK, RunInv, NEW c \in Runs, Idle(c), endpoints' \subseteq Endpoints,
         vault' \in [URLs -> Ids \cup {NoId}], faults' \in 0..MaxFaults
  PROVE  TypeOK' /\ RunInv'
<1>1. NoResult \in Results
  BY DEF NoResult, Results
<1>2. TypeOK'
  BY <1>1 DEF TypeOK, Idle
<1>3. RunInv'
  BY DEF TypeOK, RunInv, Idle, Working
<1> QED
  BY <1>2, <1>3

LEMMA ResultTypes ==
  ASSUME NEW i \in Ids
  PROVE  /\ NoResult \in Results
         /\ [NoResult EXCEPT !.id = i] \in Results
         /\ [id |-> i, created |-> TRUE, secret |-> i] \in Results
BY DEF NoResult, Results

LEMMA NextTyped == TypeOK /\ RunInv /\ [Next]_vars => TypeOK' /\ RunInv'
<1> SUFFICES ASSUME TypeOK, RunInv, [Next]_vars PROVE TypeOK' /\ RunInv'
  OBVIOUS
<1>1. ASSUME NEW c \in Runs, AnyStart(c) PROVE TypeOK' /\ RunInv'
  <2>1. PICK f \in Frontends, u \in URLs, raw \in RawLists :
             \E m \in Modes[u] : Start(c, f, u, raw, m)
    BY <1>1 DEF AnyStart
  <2>m. PICK m \in Modes[u] : Start(c, f, u, raw, m)
    BY <2>1
  <2>2. [url |-> u, mode |-> EffectiveMode(m), want |-> Normalize(Passed(f, raw))] \in Params
    BY <2>m, NormalizeType DEF Params, Start
  <2>3. TypeOK'
    BY <2>m, <2>2 DEF Start, TypeOK
  <2>4. RunInv'
    BY <2>m, <2>2 DEF Start, TypeOK, RunInv, Working
  <2> QED
    BY <2>3, <2>4
<1>2. ASSUME NEW c \in Runs, ListNone(c) PROVE TypeOK' /\ RunInv'
  <2>1. TypeOK'
    BY <1>2 DEF ListNone, TypeOK
  <2>2. RunInv'
    BY <1>2 DEF ListNone, TypeOK, RunInv, Working
  <2> QED
    BY <2>1, <2>2
<1>3. ASSUME NEW c \in Runs, ListMatch(c) PROVE TypeOK' /\ RunInv'
  <2>1. PICK e \in Found(c) :
          /\ pc[c] = "list"
          /\ pc' = [pc EXCEPT ![c] = NextRequest(c, e)]
          /\ found' = [found EXCEPT ![c] = e.id]
          /\ \/ result' = result
             \/ result' = [result EXCEPT ![c] = [NoResult EXCEPT !.id = e.id]]
          /\ UNCHANGED <<endpoints, vault, par, faults>>
    BY <1>3 DEF ListMatch
  <2>2. e.id \in Ids
    BY <2>1 DEF Found, At, TypeOK, Endpoints
  <2>3. par[c].mode \in {"ensure", "replace"}
    BY <2>1 DEF RunInv, Working, Params
  <2>4. NextRequest(c, e) \in {"delete", "done", "update"}
    BY <2>3 DEF NextRequest
  <2>5. result' \in [Runs -> Results]
    BY <2>1, <2>2, ResultTypes DEF TypeOK
  <2>6. TypeOK'
    BY <2>1, <2>2, <2>4, <2>5 DEF TypeOK
  <2>7. RunInv'
    BY <2>1, <2>2, <2>4 DEF TypeOK, RunInv, Working
  <2> QED
    BY <2>6, <2>7
<1>4. ASSUME NEW c \in Runs, Delete(c) PROVE TypeOK' /\ RunInv'
  <2>1. endpoints' \subseteq Endpoints
    BY <1>4, EndpointsTyped, RunStepEndpoints DEF RunStep, Request
  <2>2. TypeOK'
    BY <1>4, <2>1 DEF Delete, TypeOK
  <2>3. RunInv'
    BY <1>4 DEF Delete, TypeOK, RunInv, Working
  <2> QED
    BY <2>2, <2>3
<1>5. ASSUME NEW c \in Runs, NEW r \in Results, Finish(c, r), Working(c),
             UNCHANGED <<vault, par, found, faults>>, endpoints' \subseteq Endpoints
      PROVE  TypeOK' /\ RunInv'
  <2>1. TypeOK'
    BY <1>5 DEF Finish, TypeOK
  <2>2. RunInv'
    BY <1>5 DEF Finish, TypeOK, RunInv, Working
  <2> QED
    BY <2>1, <2>2
<1>6. ASSUME NEW c \in Runs, NEW id \in Ids, Create(c, id) PROVE TypeOK' /\ RunInv'
  <2>1. endpoints' \subseteq Endpoints
    BY <1>6, EndpointsTyped, RunStepEndpoints DEF RunStep, Request
  <2> QED
    BY <1>5, <1>6, <2>1, ResultTypes DEF Create, Working
<1>7. ASSUME NEW c \in Runs, Update(c) PROVE TypeOK' /\ RunInv'
  <2>1. endpoints' \subseteq Endpoints
    BY <1>7, EndpointsTyped, RunStepEndpoints DEF RunStep, Request
  <2>2. found[c] \in Ids
    BY <1>7 DEF Update, RunInv
  <2> QED
    BY <1>5, <1>7, <2>1, <2>2, ResultTypes DEF Update, Working
<1>8. ASSUME NEW c \in Runs, Refused(c) \/ Fail(c) \/ LoseAnswer(c) PROVE TypeOK' /\ RunInv'
  <2>1. endpoints' \subseteq Endpoints
    BY <1>8, EndpointsTyped, RunStepEndpoints DEF RunStep, Request
  <2>2. Idle(c) /\ vault' = vault
    BY <1>8 DEF Refused, Fail, LoseAnswer, Abort
  <2>3. faults' \in 0..MaxFaults
    <3>1. faults' = faults \/ (faults < MaxFaults /\ faults' = faults + 1)
      BY <1>8 DEF Refused, Fail, LoseAnswer
    <3>2. MaxFaults \in Nat /\ faults \in 0..MaxFaults
      BY ProvisioningAssumption DEF TypeOK
    <3> QED
      BY <3>1, <3>2
  <2> QED
    BY <2>1, <2>2, <2>3, IdleTyped DEF TypeOK
<1>9. ASSUME NEW c \in Runs, Persist(c) PROVE TypeOK' /\ RunInv'
  <2>1. par[c].url \in URLs /\ result[c].secret \in Ids \cup {NoId}
    BY <1>9 DEF Persist, RunInv, Working, Params, TypeOK, Results
  <2>2. vault' \in [URLs -> Ids \cup {NoId}]
    BY <1>9, <2>1 DEF Persist, TypeOK
  <2>3. Idle(c) /\ endpoints' = endpoints /\ faults' = faults
    BY <1>9 DEF Persist
  <2> QED
    BY <2>2, <2>3, IdleTyped DEF TypeOK
<1>10. CASE UNCHANGED vars
  BY <1>10 DEF vars, TypeOK, RunInv, Working
<1> QED
  BY <1>1, <1>2, <1>3, <1>4, <1>6, <1>7, <1>8, <1>9, <1>10 DEF Next, Request

LEMMA InitTyped == Init => TypeOK /\ RunInv
<1> SUFFICES ASSUME Init PROVE TypeOK /\ RunInv
  OBVIOUS
<1>1. NoResult \in Results
  BY DEF NoResult, Results
<1>2. InitialEndpoints \subseteq Endpoints
  BY ProvisioningAssumption DEF ProvisioningAssumption
<1>3. MaxFaults \in Nat
  BY ProvisioningAssumption DEF ProvisioningAssumption
<1>4. TypeOK
  BY <1>1, <1>2, <1>3 DEF Init, TypeOK
<1>5. RunInv
  BY DEF Init, RunInv, Working
<1> QED
  BY <1>4, <1>5

\* Type correctness, for any constants.
THEOREM TypeCorrect == Spec => [](TypeOK /\ RunInv)
BY InitTyped, NextTyped, PTL DEF Spec

-----------------------------------------------------------------------------
(* Who touches which URL. *)

\* A run deletes and updates at its own URL only.
FoundHere(c) ==
  pc[c] \in {"delete", "update"} =>
    \A e \in endpoints : e.id = found[c] => e.url = par[c].url

FoundInv == UniqueIds /\ \A c \in Runs : FoundHere(c)

\* The endpoints at another URL than the run's stay as they are.
LEMMA OtherURLsUntouched ==
  ASSUME TypeOK, RunInv, FoundInv, NEW c \in Runs, EndpointStep(c), NEW u \in URLs,
         endpoints' # endpoints => par[c].url # u
  PROVE  At(u)' = At(u)
<1>1. CASE endpoints' = endpoints
  BY <1>1 DEF At
<1>2. CASE pc[c] = "delete" /\ par[c].url # u /\ endpoints' = {e \in endpoints : e.id # found[c]}
  BY <1>2 DEF At, FoundInv, FoundHere
<1>3. ASSUME NEW id \in Ids, par[c].url # u, endpoints' = endpoints \cup {NewEndpoint(c, id)}
      PROVE  At(u)' = At(u)
  <2>1. NewEndpoint(c, id).url # u
    BY <1>3 DEF NewEndpoint
  <2> QED
    BY <1>3, <2>1 DEF At
<1>4. CASE pc[c] = "update" /\ par[c].url # u /\ endpoints' = WithEvents(c)
  <2> DEFINE Updated(e) == IF e.id = found[c] THEN [e EXCEPT !.events = par[c].want] ELSE e
  <2>1. \A e \in endpoints : e.url = u => Updated(e) = e
    BY <1>4 DEF FoundInv, FoundHere
  <2>2. \A e \in endpoints : Updated(e).url = e.url
    BY DEF TypeOK, Endpoints
  <2>3. endpoints' = {Updated(e) : e \in endpoints}
    BY <1>4 DEF WithEvents
  <2> HIDE DEF Updated
  <2>4. {y \in {Updated(e) : e \in endpoints} : y.url = u} = {e \in endpoints : e.url = u}
    BY <2>1, <2>2
  <2> QED
    BY <2>3, <2>4 DEF At
<1> QED
  BY <1>1, <1>2, <1>3, <1>4 DEF EndpointStep

LEMMA StepKeepsIdsUnique ==
  ASSUME TypeOK, RunInv, UniqueIds, NEW c \in Runs, EndpointStep(c)
  PROVE  UniqueIds'
<1>1. CASE endpoints' \subseteq endpoints
  BY <1>1 DEF UniqueIds
<1>2. ASSUME NEW id \in Ids, Fresh(id), endpoints' = endpoints \cup {NewEndpoint(c, id)}
      PROVE  UniqueIds'
  <2>1. NewEndpoint(c, id).id = id
    BY DEF NewEndpoint
  <2>2. \A e \in endpoints : e.id # id
    BY <1>2 DEF Fresh
  <2> QED
    BY <1>2, <2>1, <2>2 DEF UniqueIds
<1>3. CASE endpoints' = WithEvents(c)
  <2> DEFINE Updated(e) == IF e.id = found[c] THEN [e EXCEPT !.events = par[c].want] ELSE e
  <2>1. \A e \in endpoints : Updated(e).id = e.id
    BY DEF TypeOK, Endpoints
  <2>2. endpoints' = {Updated(e) : e \in endpoints}
    BY <1>3 DEF WithEvents
  <2>3. \A e, f \in endpoints : e.id = f.id => e = f
    BY DEF UniqueIds
  <2> HIDE DEF Updated
  <2>4. \A x, y \in {Updated(e) : e \in endpoints} : x.id = y.id => x = y
    BY <2>1, <2>3
  <2> QED
    BY <2>2, <2>4 DEF UniqueIds
<1> QED
  BY <1>1, <1>2, <1>3 DEF EndpointStep

\* What a run knows of the others' endpoints does not change: ids are never used
\* twice, and an endpoint never moves.
LEMMA FoundStays ==
  ASSUME TypeOK, RunInv, FoundInv, NEW c \in Runs, EndpointStep(c),
         NEW d \in Runs, FoundHere(d), pc[d] \in {"delete", "update"}
  PROVE  \A e \in endpoints' : e.id = found[d] => e.url = par[d].url
<1>1. CASE endpoints' \subseteq endpoints
  BY <1>1 DEF FoundHere
<1>2. ASSUME NEW id \in Ids, Fresh(id), endpoints' = endpoints \cup {NewEndpoint(c, id)}
      PROVE  \A e \in endpoints' : e.id = found[d] => e.url = par[d].url
  <2>1. NewEndpoint(c, id).id = id /\ found[d] # id
    BY <1>2 DEF NewEndpoint, Fresh
  <2> QED
    BY <1>2, <2>1 DEF FoundHere
<1>3. CASE endpoints' = WithEvents(c)
  <2> DEFINE Updated(e) == IF e.id = found[c] THEN [e EXCEPT !.events = par[c].want] ELSE e
  <2>1. \A e \in endpoints : Updated(e).id = e.id /\ Updated(e).url = e.url
    BY DEF TypeOK, Endpoints
  <2>2. endpoints' = {Updated(e) : e \in endpoints}
    BY <1>3 DEF WithEvents
  <2>3. \A e \in endpoints : e.id = found[d] => e.url = par[d].url
    BY DEF FoundHere
  <2> HIDE DEF Updated
  <2> QED
    BY <2>1, <2>2, <2>3
<1> QED
  BY <1>1, <1>2, <1>3 DEF EndpointStep

\* A step of a run changes nothing of another's.
LEMMA OthersUntouched ==
  ASSUME TypeOK, NEW c \in Runs, RunStep(c), NEW d \in Runs, d # c
  PROVE  /\ pc'[d] = pc[d] /\ par'[d] = par[d]
         /\ found'[d] = found[d] /\ result'[d] = result[d]
BY DEF RunStep, AnyStart, Start, Request, ListNone, ListMatch, Delete, Create, Update,
       Refused, Persist, Fail, LoseAnswer, Abort, Idle, Finish, TypeOK

\* Only a run that is listing goes on to delete or update, and then at its URL.
LEMMA FoundByListing ==
  ASSUME TypeOK, NEW c \in Runs, RunStep(c), pc'[c] \in {"delete", "update"}
  PROVE  ListMatch(c)
BY DEF RunStep, AnyStart, Start, Request, ListNone, Delete, Create, Update,
       Refused, Persist, Fail, LoseAnswer, Abort, Idle, Finish, TypeOK

LEMMA StepKeepsFound ==
  ASSUME TypeOK, RunInv, FoundInv, NEW c \in Runs, RunStep(c)
  PROVE  FoundInv'
<1>1. EndpointStep(c)
  BY RunStepEndpoints
<1>2. UniqueIds'
  BY <1>1, StepKeepsIdsUnique DEF FoundInv
<1>3. ASSUME NEW d \in Runs, d # c PROVE FoundHere(d)'
  <2>1. pc'[d] = pc[d] /\ par'[d] = par[d] /\ found'[d] = found[d]
    BY <1>3, OthersUntouched
  <2> QED
    BY <1>1, <2>1, FoundStays DEF FoundInv, FoundHere
<1>4. FoundHere(c)'
  <2> SUFFICES ASSUME pc'[c] \in {"delete", "update"} PROVE FoundHere(c)'
    BY DEF FoundHere
  <2>1. ListMatch(c)
    BY FoundByListing
  <2>2. PICK e \in endpoints : /\ e.url = par[c].url /\ found' = [found EXCEPT ![c] = e.id]
                               /\ endpoints' = endpoints /\ par' = par
    BY <2>1 DEF ListMatch, Found, At
  <2>3. found'[c] = e.id
    BY <2>2 DEF TypeOK
  <2> QED
    BY <2>2, <2>3 DEF FoundInv, UniqueIds, FoundHere
<1> QED
  BY <1>2, <1>3, <1>4 DEF FoundInv

-----------------------------------------------------------------------------
(* Runs that take turns. *)

Alone(c) == \A d \in Runs : (Working(d) /\ par[d].url = par[c].url) => d = c

Serial(c) ==
  (Working(c) /\ par[c].url \in TurnURLs) =>
    /\ Alone(c)
    /\ pc[c] = "create" => At(par[c].url) = {}
    /\ pc[c] \in {"delete", "update"} => Live(par[c].url, found[c])
    /\ pc[c] = "update" => par[c].mode = "ensure"
    /\ pc[c] = "done" =>
         /\ At(par[c].url) = {[id |-> result[c].id, url |-> par[c].url, events |-> par[c].want]}
         /\ par[c].mode = "replace" =>
              result[c].secret = result[c].id /\ vault[par[c].url] # result[c].id

SerialInv == AtMostOnePerURL /\ \A c \in Runs : Serial(c)

\* Every step keeps at most one endpoint at a URL, given that a run about to
\* create one has found, or left, its URL empty.
LEMMA StepKeepsURLsUnique ==
  ASSUME TypeOK, RunInv, SerialInv, NEW c \in Runs, EndpointStep(c)
  PROVE  AtMostOnePerURL'
<1>1. CASE endpoints' \subseteq endpoints
  BY <1>1 DEF SerialInv, AtMostOnePerURL
<1>2. ASSUME pc[c] = "create", NEW id \in Ids, endpoints' = endpoints \cup {NewEndpoint(c, id)}
      PROVE  AtMostOnePerURL'
  <2>1. par[c].url \in TurnURLs => \A e \in endpoints : e.url # par[c].url
    BY <1>2 DEF SerialInv, Serial, Working, At
  <2>2. NewEndpoint(c, id).url = par[c].url
    BY DEF NewEndpoint
  <2> QED
    BY <1>2, <2>1, <2>2 DEF SerialInv, AtMostOnePerURL
<1>3. CASE endpoints' = WithEvents(c)
  <2> DEFINE Updated(e) == IF e.id = found[c] THEN [e EXCEPT !.events = par[c].want] ELSE e
  <2>1. \A e \in endpoints : Updated(e).url = e.url
    BY DEF TypeOK, Endpoints
  <2>2. endpoints' = {Updated(e) : e \in endpoints}
    BY <1>3 DEF WithEvents
  <2>3. \A e, f \in endpoints : (e.url = f.url /\ e.url \in TurnURLs) => e = f
    BY DEF SerialInv, AtMostOnePerURL
  <2> HIDE DEF Updated
  <2>4. \A x, y \in {Updated(e) : e \in endpoints} :
          (x.url = y.url /\ x.url \in TurnURLs) => x = y
    BY <2>1, <2>3
  <2> QED
    BY <2>2, <2>4 DEF AtMostOnePerURL
<1> QED
  BY <1>1, <1>2, <1>3 DEF EndpointStep

\* The store changes at the URL of a run that is told created=true, and there only.
LEMMA VaultStep ==
  ASSUME NEW c \in Runs, RunStep(c), vault' # vault
  PROVE  /\ pc[c] = "done" /\ result[c].created
         /\ vault' = [vault EXCEPT ![par[c].url] = result[c].secret]
         /\ endpoints' = endpoints
BY DEF RunStep, AnyStart, Start, Request, ListNone, ListMatch, Delete, Create, Update,
       Refused, Persist, Fail, LoseAnswer, Abort, Idle, Finish

\* A run that does not start was at work, and goes on with what it started with.
LEMMA WorkGoesOn ==
  ASSUME TypeOK, NEW c \in Runs, RunStep(c), ~AnyStart(c)
  PROVE  Working(c) /\ (pc'[c] # "idle" => par' = par)
BY DEF RunStep, Request, ListNone, ListMatch, Delete, Create, Update, Refused, Persist,
       Fail, LoseAnswer, Abort, Idle, Finish, Working, TypeOK

\* A run that starts leaves everything but itself as it is.
LEMMA StartTouchesItself ==
  ASSUME TypeOK, NEW c \in Runs, AnyStart(c)
  PROVE  /\ ~Working(c) /\ pc'[c] = "list"
         /\ endpoints' = endpoints /\ vault' = vault
         /\ par'[c].url \in TurnURLs =>
              \A d \in Runs : Working(d) => par[d].url # par'[c].url
BY DEF AnyStart, Start, Working, TypeOK

\* Other runs with a turn of their own are not disturbed.
LEMMA OthersStaySerial ==
  ASSUME TypeOK, RunInv, FoundInv, SerialInv, NEW c \in Runs, RunStep(c), NEW d \in Runs, d # c
  PROVE  Serial(d)'
<1> SUFFICES ASSUME Working(d)', par'[d].url \in TurnURLs PROVE Serial(d)'
  BY DEF Serial
<1>1. /\ pc'[d] = pc[d] /\ par'[d] = par[d] /\ found'[d] = found[d] /\ result'[d] = result[d]
      /\ Working(d) /\ par[d].url \in TurnURLs
  BY OthersUntouched DEF Working
<1>2. Alone(d) /\ Serial(d)
  BY <1>1 DEF SerialInv, Serial
<1>3. Alone(d)'
  <2> SUFFICES ASSUME NEW x \in Runs, Working(x)', par'[x].url = par'[d].url PROVE x = d
    BY DEF Alone
  <2>1. CASE x # c
    BY <1>1, <1>2, <2>1, OthersUntouched DEF Alone, Working
  <2>2. CASE x = c /\ AnyStart(c)
    BY <1>1, <2>2, StartTouchesItself
  <2>3. CASE x = c /\ ~AnyStart(c)
    <3>1. Working(c) /\ par' = par
      BY <2>3, WorkGoesOn DEF Working
    <3> QED
      BY <1>2, <2>3, <3>1 DEF Alone
  <2> QED
    BY <2>1, <2>2, <2>3
<1>4. AnyStart(c) \/ par[c].url # par[d].url
  BY <1>2, WorkGoesOn DEF Alone
<1>5. par[d].url \in URLs
  BY <1>1 DEF RunInv, Params
<1>6. At(par[d].url)' = At(par[d].url)
  <2>1. \A u \in URLs : (AnyStart(c) \/ par[c].url # u) => At(u)' = At(u)
    BY RunStepEndpoints, StartTouchesItself, OtherURLsUntouched
  <2> QED
    BY <1>1, <1>4, <1>5, <2>1 DEF At
<1>7. vault'[par[d].url] = vault[par[d].url]
  BY <1>4, <1>5, VaultStep, StartTouchesItself DEF TypeOK
<1> QED
  BY <1>1, <1>2, <1>3, <1>6, <1>7 DEF Serial, Live, At

LEMMA IdleIsSerial ==
  ASSUME NEW d \in Runs, pc'[d] = "idle"
  PROVE  Serial(d)'
BY DEF Serial, Working

\* Deleting the one endpoint at a URL leaves none there.
LEMMA DeleteEmptiesURL ==
  ASSUME UniqueIds, SerialInv, NEW c \in Runs, pc[c] = "delete", par[c].url \in TurnURLs
  PROVE  {e \in {e \in endpoints : e.id # found[c]} : e.url = par[c].url} = {}
BY DEF SerialInv, Serial, Working, AtMostOnePerURL, Live, At

LEMMA StepKeepsSerial ==
  ASSUME TypeOK, RunInv, FoundInv, SerialInv, NEW c \in Runs, RunStep(c)
  PROVE  SerialInv'
<1>1. AtMostOnePerURL'
  BY RunStepEndpoints, StepKeepsURLsUnique
<1>2. \A d \in Runs : d # c => Serial(d)'
  BY OthersStaySerial
<1>3. Serial(c)'
  <2>1. CASE pc'[c] = "idle"
    BY <2>1, IdleIsSerial
  <2>2. CASE AnyStart(c)
    <3>1. \A d \in Runs : (d # c /\ Working(d)') => Working(d) /\ par'[d] = par[d]
      BY OthersUntouched DEF Working
    <3>2. par'[c].url \in TurnURLs => Alone(c)'
      BY <2>2, <3>1, StartTouchesItself DEF Alone
    <3> QED
      BY <2>2, <3>2, StartTouchesItself DEF Serial
  <2>3. CASE ~AnyStart(c) /\ pc'[c] # "idle"
    <3> SUFFICES ASSUME par'[c].url \in TurnURLs PROVE Serial(c)'
      BY DEF Serial
    <3>1. Working(c) /\ par' = par /\ par[c].url \in TurnURLs /\ par[c] \in Params
      BY <2>3, WorkGoesOn DEF RunInv
    <3>2. Alone(c) /\ Serial(c)
      BY <3>1 DEF SerialInv, Serial
    <3>3. Alone(c)'
      BY <3>1, <3>2, OthersUntouched DEF Alone, Working
    <3> USE <3>3
    <3>4. CASE ListNone(c)
      <4>1. pc'[c] = "create" /\ endpoints' = endpoints /\ At(par[c].url) = {}
        BY <3>4 DEF ListNone, TypeOK, Found
      <4> QED
        BY <3>1, <4>1 DEF Serial, At
    <3>5. CASE ListMatch(c)
      <4>1. PICK e \in At(par[c].url) :
              /\ pc' = [pc EXCEPT ![c] = NextRequest(c, e)]
              /\ found' = [found EXCEPT ![c] = e.id]
              /\ NextRequest(c, e) = "done" =>
                   result' = [result EXCEPT ![c] = [NoResult EXCEPT !.id = e.id]]
              /\ UNCHANGED <<endpoints, vault, par, faults>>
        BY <3>5 DEF ListMatch, Found
      <4>2. par[c].mode \in {"ensure", "replace"} /\ par[c].url \in URLs
        BY <3>1 DEF Params
      <4>3. /\ e \in endpoints /\ e.url = par[c].url
            /\ e = [id |-> e.id, url |-> e.url, events |-> e.events]
        BY <4>1 DEF At, TypeOK, Endpoints
      <4>4. At(par[c].url) = {e}
        BY <3>1, <4>1 DEF SerialInv, AtMostOnePerURL, At
      <4>5. Live(par[c].url, found[c])'
        <5>1. found'[c] = e.id /\ endpoints' = endpoints /\ par' = par
          BY <4>1 DEF TypeOK
        <5> QED
          BY <5>1, <4>3 DEF Live, At
      <4>6. pc'[c] = NextRequest(c, e)
        BY <4>1 DEF TypeOK
      <4>7. CASE par[c].mode = "replace"
        <5>1. pc'[c] = "delete"
          BY <4>6, <4>7 DEF NextRequest
        <5> QED
          BY <5>1, <4>5 DEF Serial
      <4>8. CASE par[c].mode = "ensure" /\ e.events # par[c].want
        <5>1. pc'[c] = "update"
          BY <4>6, <4>8 DEF NextRequest
        <5> QED
          BY <5>1, <4>5, <3>1, <4>8 DEF Serial
      <4>9. CASE par[c].mode = "ensure" /\ e.events = par[c].want
        <5>1. NextRequest(c, e) = "done"
          BY <4>9 DEF NextRequest
        <5>2. result'[c].id = e.id
          BY <4>1, <5>1 DEF TypeOK, NoResult
        <5>3. At(par[c].url)' = {[id |-> result'[c].id, url |-> par[c].url, events |-> par[c].want]}
          BY <4>1, <4>3, <4>4, <4>9, <5>2 DEF At
        <5> QED
          BY <5>1, <5>3, <4>1, <4>6, <4>9 DEF Serial, At
      <4> QED
        BY <4>2, <4>7, <4>8, <4>9
    <3>6. CASE Delete(c)
      <4>1. pc'[c] = "create" /\ endpoints' = {e \in endpoints : e.id # found[c]}
        BY <3>6 DEF Delete, TypeOK
      <4>2. At(par[c].url)' = {}
        BY <3>1, <3>6, <4>1, DeleteEmptiesURL DEF Delete, At, FoundInv
      <4> QED
        BY <3>1, <4>1, <4>2 DEF Serial, At
    <3>7. ASSUME NEW id \in Ids, Create(c, id) PROVE Serial(c)'
      <4>1. /\ pc'[c] = "done" /\ vault' = vault
            /\ result'[c].id = id /\ result'[c].secret = id
        BY <3>7 DEF Create, Finish, TypeOK
      <4>2. At(par[c].url) = {} /\ endpoints' = endpoints \cup {NewEndpoint(c, id)}
        BY <3>1, <3>7 DEF Create, SerialInv, Serial
      <4>3. NewEndpoint(c, id) = [id |-> id, url |-> par[c].url, events |-> par[c].want]
        BY DEF NewEndpoint
      <4>4. At(par[c].url)' = {NewEndpoint(c, id)}
        BY <3>1, <4>1, <4>2, <4>3 DEF At
      <4>5. vault[par[c].url] # id
        BY <3>1, <3>7 DEF Create, Fresh, Params
      <4> QED
        BY <3>1, <4>1, <4>3, <4>4, <4>5 DEF Serial, At
    <3>8. CASE Update(c)
      <4>1. /\ pc'[c] = "done" /\ vault' = vault
            /\ result'[c].id = found[c] /\ endpoints' = WithEvents(c)
        BY <3>8 DEF Update, Finish, TypeOK, NoResult
      <4>2. Live(par[c].url, found[c]) /\ par[c].mode = "ensure"
        BY <3>1, <3>8 DEF Update, SerialInv, Serial
      <4>3. PICK e \in endpoints : e.url = par[c].url /\ e.id = found[c]
        BY <4>2 DEF Live, At
      <4> DEFINE Updated(x) == IF x.id = found[c] THEN [x EXCEPT !.events = par[c].want] ELSE x
                 New == [id |-> found[c], url |-> par[c].url, events |-> par[c].want]
      <4>4. endpoints' = {Updated(x) : x \in endpoints}
        BY <4>1 DEF WithEvents
      <4>5. Updated(e) = New
        BY <4>3 DEF TypeOK, Endpoints
      <4>6. \A x \in endpoints : Updated(x).url = x.url
        BY DEF TypeOK, Endpoints
      <4>7. \A x \in endpoints : x.url = par[c].url => x = e
        BY <3>1, <4>3 DEF SerialInv, AtMostOnePerURL
      <4>8. New.url = par[c].url
        OBVIOUS
      <4> HIDE DEF Updated, New
      <4>9. {y \in {Updated(x) : x \in endpoints} : y.url = par[c].url} = {New}
        BY <4>3, <4>5, <4>6, <4>7, <4>8
      <4>10. At(par[c].url)' = {New}
        BY <3>1, <4>4, <4>9 DEF At
      <4> QED
        BY <3>1, <4>1, <4>2, <4>10 DEF Serial, At, New
    <3>9. CASE Refused(c) \/ Persist(c) \/ Fail(c) \/ LoseAnswer(c)
      <4>1. pc'[c] = "idle"
        BY <3>9 DEF Refused, Persist, Fail, LoseAnswer, Abort, Idle, TypeOK
      <4> QED
        BY <4>1, <2>1
    <3> QED
      BY <2>3, <3>4, <3>5, <3>6, <3>7, <3>8, <3>9 DEF RunStep, Request
  <2> QED
    BY <2>1, <2>2, <2>3
<1> QED
  BY <1>1, <1>2, <1>3 DEF SerialInv

LEMMA StutterKeepsSerial == FoundInv /\ SerialInv /\ UNCHANGED vars => FoundInv' /\ SerialInv'
BY DEF FoundInv, FoundHere, UniqueIds, SerialInv, AtMostOnePerURL, Serial, Alone, Working, At, Live, vars

AllInv == TypeOK /\ RunInv /\ FoundInv /\ SerialInv

LEMMA InitSerial ==
  ASSUME Init, \A e, f \in InitialEndpoints : e.url = f.url => e = f
  PROVE  AllInv
<1>1. FoundInv
  BY ProvisioningAssumption DEF ProvisioningAssumption, Init, UniqueIds, FoundInv, FoundHere
<1>2. AtMostOnePerURL
  BY DEF Init, AtMostOnePerURL
<1>3. \A c \in Runs : Serial(c)
  BY DEF Init, Serial, Working
<1> QED
  BY <1>1, <1>2, <1>3, InitTyped DEF AllInv, SerialInv

LEMMA NextSerial ==
  ASSUME AllInv, [Next]_vars
  PROVE  AllInv'
<1>1. CASE UNCHANGED vars
  BY <1>1, NextTyped, StutterKeepsSerial DEF AllInv
<1>2. CASE Next
  <2>1. PICK c \in Runs : RunStep(c)
    BY <1>2, NextIsRunStep
  <2>2. FoundInv' /\ SerialInv'
    BY <2>1, StepKeepsFound, StepKeepsSerial DEF AllInv
  <2> QED
    BY <2>2, NextTyped DEF AllInv
<1> QED
  BY <1>1, <1>2

\* Runs that take turns leave at most one endpoint at a URL, whatever is lost
\* and whoever dies.
THEOREM TurnsKeepURLsUnique ==
  ASSUME \A e, f \in InitialEndpoints : e.url = f.url => e = f
  PROVE  Spec => []AtMostOnePerURL
<1>1. Init => AllInv
  BY InitSerial
<1>2. AllInv /\ [Next]_vars => AllInv'
  BY NextSerial
<1>3. AllInv => AtMostOnePerURL
  BY DEF AllInv, SerialInv
<1> QED
  BY <1>1, <1>2, <1>3, PTL DEF Spec

\* Success reported by a run that had its turn is success: the URL is served by
\* the endpoint reported, with the events asked for, and mode=replace has
\* rotated the secret.
THEOREM SuccessIsReal ==
  ASSUME \A e, f \in InitialEndpoints : e.url = f.url => e = f
  PROVE  Spec => []SuccessMeansProvisioned
<1>1. Init => AllInv
  BY InitSerial
<1>2. AllInv /\ [Next]_vars => AllInv'
  BY NextSerial
<1>3. AllInv => SuccessMeansProvisioned
  BY DEF AllInv, SerialInv, Serial, Working, SuccessMeansProvisioned
<1> QED
  BY <1>1, <1>2, <1>3, PTL DEF Spec

-----------------------------------------------------------------------------
(* Secrets at URLs where runs only ensure. *)

OnlyEnsures(u) == "replace" \notin Modes[u]

\* There no run deletes, and what a run has created is still there when the run
\* writes its secret down.
Keeps(c) ==
  (Working(c) /\ OnlyEnsures(par[c].url)) =>
    /\ par[c].mode = "ensure" /\ pc[c] # "delete"
    /\ (pc[c] = "done" /\ result[c].created) => Live(par[c].url, result[c].secret)

KeepInv == \A c \in Runs : Keeps(c)

\* No step takes an endpoint away from such a URL.
LEMMA LiveStaysLive ==
  ASSUME TypeOK, RunInv, FoundInv, KeepInv, NEW c \in Runs, RunStep(c),
         NEW u \in URLs, OnlyEnsures(u), NEW id, Live(u, id)
  PROVE  Live(u, id)'
<1>1. EndpointStep(c)
  BY RunStepEndpoints
<1>2. PICK e \in endpoints : e.url = u /\ e.id = id
  BY DEF Live, At
<1>3. CASE endpoints \subseteq endpoints'
  BY <1>2, <1>3 DEF Live, At
<1>4. CASE pc[c] = "delete"
  <2>1. par[c].url # u
    BY <1>4 DEF KeepInv, Keeps, Working
  <2> QED
    BY <1>1, <2>1, OtherURLsUntouched DEF Live
<1>5. CASE endpoints' = WithEvents(c)
  <2> DEFINE Updated(x) == IF x.id = found[c] THEN [x EXCEPT !.events = par[c].want] ELSE x
  <2>1. Updated(e).id = id /\ Updated(e).url = u
    BY <1>2 DEF TypeOK, Endpoints
  <2>2. Updated(e) \in endpoints'
    BY <1>2, <1>5 DEF WithEvents
  <2> HIDE DEF Updated
  <2> QED
    BY <2>1, <2>2 DEF Live, At
<1> QED
  BY <1>1, <1>3, <1>4, <1>5 DEF EndpointStep

LEMMA StepKeepsKeeping ==
  ASSUME TypeOK, RunInv, FoundInv, KeepInv, NEW c \in Runs, RunStep(c)
  PROVE  KeepInv'
<1>1. ASSUME NEW d \in Runs, d # c PROVE Keeps(d)'
  <2>1. /\ pc'[d] = pc[d] /\ par'[d] = par[d] /\ result'[d] = result[d]
    BY <1>1, OthersUntouched
  <2>2. \A u \in URLs : \A id : (OnlyEnsures(u) /\ Live(u, id)) => Live(u, id)'
    BY LiveStaysLive
  <2>3. Working(d) => par[d].url \in URLs
    BY DEF RunInv, Params
  <2> QED
    BY <2>1, <2>2, <2>3 DEF KeepInv, Keeps, Working, Live, At
<1>2. Keeps(c)'
  <2>1. CASE pc'[c] = "idle"
    BY <2>1 DEF Keeps, Working
  <2>2. CASE AnyStart(c)
    <3>1. PICK f \in Frontends, u \in URLs, raw \in RawLists :
                 \E m \in Modes[u] : Start(c, f, u, raw, m)
      BY <2>2 DEF AnyStart
    <3>2. PICK m \in Modes[u] : Start(c, f, u, raw, m)
      BY <3>1
    <3>3. pc'[c] = "list" /\ par'[c].url = u /\ par'[c].mode = EffectiveMode(m)
      BY <3>2 DEF Start, TypeOK
    <3>4. OnlyEnsures(u) => EffectiveMode(m) = "ensure"
      BY <3>2 DEF Start, EffectiveMode, OnlyEnsures
    <3> QED
      BY <3>3, <3>4 DEF Keeps
  <2>3. CASE ~AnyStart(c) /\ pc'[c] # "idle"
    <3> SUFFICES ASSUME OnlyEnsures(par'[c].url) PROVE Keeps(c)'
      BY DEF Keeps
    <3>1. Working(c) /\ par' = par /\ Keeps(c) /\ OnlyEnsures(par[c].url)
      BY <2>3, WorkGoesOn DEF KeepInv
    <3>2. par[c].mode = "ensure" /\ pc[c] # "delete"
      BY <3>1 DEF Keeps
    <3>3. CASE ListNone(c)
      BY <3>1, <3>2, <3>3 DEF ListNone, TypeOK, Keeps
    <3>4. CASE ListMatch(c)
      <4>1. PICK e \in Found(c) : pc'[c] = NextRequest(c, e) /\ (pc'[c] = "done" => ~result'[c].created)
        BY <3>4 DEF ListMatch, TypeOK, NoResult
      <4>2. NextRequest(c, e) # "delete"
        BY <3>2 DEF NextRequest
      <4> QED
        BY <3>1, <3>2, <4>1, <4>2 DEF Keeps
    <3>5. ASSUME NEW id \in Ids, Create(c, id) PROVE Keeps(c)'
      <4>1. /\ pc'[c] = "done" /\ result'[c].secret = id
            /\ NewEndpoint(c, id) \in endpoints'
        BY <3>5 DEF Create, Finish, TypeOK
      <4>2. NewEndpoint(c, id).id = id /\ NewEndpoint(c, id).url = par'[c].url
        BY <3>1 DEF NewEndpoint
      <4> QED
        BY <3>1, <3>2, <4>1, <4>2 DEF Keeps, Live, At
    <3>6. CASE Update(c)
      BY <3>1, <3>2, <3>6 DEF Update, Finish, TypeOK, NoResult, Keeps
    <3>7. CASE Delete(c) \/ Refused(c) \/ Persist(c) \/ Fail(c) \/ LoseAnswer(c)
      BY <2>3, <3>2, <3>7 DEF Delete, Refused, Persist, Fail, LoseAnswer, Abort, Idle, TypeOK
    <3> QED
      BY <2>3, <3>3, <3>4, <3>5, <3>6, <3>7 DEF RunStep, Request
  <2> QED
    BY <2>1, <2>2, <2>3
<1> QED
  BY <1>1, <1>2 DEF KeepInv

SecretInv == TypeOK /\ RunInv /\ FoundInv /\ KeepInv

LEMMA InitSecret == Init => SecretInv
<1> SUFFICES ASSUME Init PROVE SecretInv
  OBVIOUS
<1>1. FoundInv
  BY ProvisioningAssumption DEF ProvisioningAssumption, Init, UniqueIds, FoundInv, FoundHere
<1>2. KeepInv
  BY DEF Init, KeepInv, Keeps, Working
<1> QED
  BY <1>1, <1>2, InitTyped DEF SecretInv

LEMMA NextSecret == SecretInv /\ [Next]_vars => SecretInv'
<1> SUFFICES ASSUME SecretInv, [Next]_vars PROVE SecretInv'
  OBVIOUS
<1>1. CASE UNCHANGED vars
  BY <1>1, NextTyped DEF SecretInv, FoundInv, FoundHere, UniqueIds, KeepInv, Keeps, Working, Live, At, vars
<1>2. CASE Next
  <2>1. PICK c \in Runs : RunStep(c)
    BY <1>2, NextIsRunStep
  <2> QED
    BY <2>1, NextTyped, StepKeepsFound, StepKeepsKeeping DEF SecretInv
<1> QED
  BY <1>1, <1>2

\* No step takes a working secret out of service at a URL whose runs only ensure.
LEMMA StepKeepsSecret ==
  ASSUME SecretInv, [Next]_vars, NEW u \in URLs, Live(u, vault[u]), OnlyEnsures(u)
  PROVE  Live(u, vault[u])'
<1>1. CASE UNCHANGED vars
  BY <1>1 DEF vars, Live, At
<1>2. CASE Next
  <2>1. PICK c \in Runs : RunStep(c)
    BY <1>2, NextIsRunStep
  <2>2. CASE vault'[u] = vault[u]
    <3>1. \A id : Live(u, id) => Live(u, id)'
      BY <2>1, LiveStaysLive DEF SecretInv
    <3>2. Live(u, vault[u]) => \E e \in endpoints' : e.url = u /\ e.id = vault[u]
      BY <3>1 DEF Live, At
    <3> QED
      BY <2>2, <3>2 DEF Live, At
  <2>3. CASE vault'[u] # vault[u]
    <3>1. /\ pc[c] = "done" /\ result[c].created /\ endpoints' = endpoints
          /\ vault' = [vault EXCEPT ![par[c].url] = result[c].secret]
      BY <2>1, <2>3, VaultStep
    <3>2. par[c].url = u /\ vault'[u] = result[c].secret
      BY <2>3, <3>1 DEF SecretInv, TypeOK
    <3>3. Live(u, result[c].secret)
      BY <3>1, <3>2 DEF SecretInv, KeepInv, Keeps, Working
    <3> QED
      BY <3>1, <3>2, <3>3 DEF Live, At
  <2> QED
    BY <2>2, <2>3
<1> QED
  BY <1>1, <1>2

\* mode=ensure keeps a working secret, for any number of runs at once and any
\* faults: EnsureKeepsSecret.
THEOREM SecretsSurviveEnsure == Spec => EnsureKeepsSecret
<1>1. SecretInv /\ [Next]_vars =>
        [\A u \in URLs : (Live(u, vault[u]) /\ "replace" \notin Modes[u]) => Live(u, vault[u])']_vars
  BY StepKeepsSecret DEF OnlyEnsures
<1> QED
  BY <1>1, InitSecret, NextSecret, PTL DEF Spec, EnsureKeepsSecret

-----------------------------------------------------------------------------
(* Modules that verify deliveries. *)

\* A module's secret, as long as its endpoint is there, is the stored one.
ModuleInv == \A u \in TurnURLs : Live(u, module[u]) => vault[u] = module[u]

\* The docs' operator makes steps any caller may make.
LEMMA OperatorNextIsNext == OperatorNext => Next
<1> SUFFICES ASSUME OperatorNext PROVE Next
  OBVIOUS
<1>1. CASE \E c \in Runs : Request(c) \/ Fail(c) \/ LoseAnswer(c)
  BY <1>1 DEF Next
<1>2. CASE \E u \in URLs : OperatorStart(u)
  <2>1. PICK u \in URLs, c \in Runs, f \in Frontends : Start(c, f, u, Wanted[u], OperatorMode(u))
    BY <1>2 DEF OperatorStart
  <2>2. Wanted[u] \in RawLists /\ OperatorMode(u) \in Modes[u]
    BY OperatorAssumption DEF OperatorAssumption, OperatorMode
  <2>3. AnyStart(c)
    BY <2>1, <2>2 DEF AnyStart
  <2> QED
    BY <2>3 DEF Next
<1> QED
  BY <1>1, <1>2 DEF OperatorNext

\* An endpoint a step leaves at a URL was there before, or its id is new.
LEMMA LiveWas ==
  ASSUME TypeOK, RunInv, NEW c \in Runs, EndpointStep(c), NEW u \in URLs, NEW id,
         \E e \in endpoints' : e.url = u /\ e.id = id
  PROVE  Live(u, id) \/ \A f \in endpoints : f.id # id
<1>1. PICK e \in endpoints' : e.url = u /\ e.id = id
  OBVIOUS
<1>2. CASE endpoints' \subseteq endpoints
  BY <1>1, <1>2 DEF Live, At
<1>3. ASSUME NEW new \in Ids, Fresh(new), endpoints' = endpoints \cup {NewEndpoint(c, new)}
      PROVE  Live(u, id) \/ \A f \in endpoints : f.id # id
  <2>1. NewEndpoint(c, new).id = new
    BY DEF NewEndpoint
  <2> QED
    BY <1>1, <1>3, <2>1 DEF Live, At, Fresh
<1>4. CASE endpoints' = WithEvents(c)
  <2> DEFINE Updated(x) == IF x.id = found[c] THEN [x EXCEPT !.events = par[c].want] ELSE x
  <2>1. \A x \in endpoints : Updated(x).id = x.id /\ Updated(x).url = x.url
    BY DEF TypeOK, Endpoints
  <2>2. endpoints' = {Updated(x) : x \in endpoints}
    BY <1>4 DEF WithEvents
  <2> HIDE DEF Updated
  <2> QED
    BY <1>1, <2>1, <2>2 DEF Live, At
<1> QED
  BY <1>2, <1>3, <1>4 DEF EndpointStep

LEMMA TurnsAreURLs == TurnURLs \subseteq URLs
BY ProvisioningAssumption, Zenon DEF ProvisioningAssumption

\* A run told created=true knows the secret of the endpoint it created.
ResultInv == \A c \in Runs : result[c].created => result[c].secret = result[c].id

LEMMA StepKeepsResult ==
  ASSUME TypeOK, ResultInv, NEW c \in Runs, RunStep(c)
  PROVE  ResultInv'
<1>1. \A d \in Runs : d # c => result'[d] = result[d]
  BY OthersUntouched
<1>2. ~NoResult.created /\ \A i \in Ids : ~[NoResult EXCEPT !.id = i].created
  BY DEF NoResult
<1>3. CASE Request(c)
  <2>1. CASE ListMatch(c)
    <3>1. PICK e \in Found(c) :
            result' = IF NextRequest(c, e) = "done"
                        THEN [result EXCEPT ![c] = [NoResult EXCEPT !.id = e.id]] ELSE result
      BY <2>1 DEF ListMatch
    <3>2. e.id \in Ids
      BY DEF Found, At, TypeOK, Endpoints
    <3> QED
      BY <1>1, <1>2, <3>1, <3>2 DEF ResultInv, TypeOK
  <2>2. CASE Update(c)
    BY <1>1, <2>2 DEF Update, Finish, TypeOK, NoResult, ResultInv
  <2>3. ASSUME NEW id \in Ids, Create(c, id) PROVE ResultInv'
    BY <1>1, <2>3 DEF Create, Finish, TypeOK, ResultInv
  <2>4. CASE ListNone(c) \/ Delete(c)
    BY <2>4 DEF ListNone, Delete, ResultInv
  <2>5. CASE Refused(c) \/ Persist(c)
    BY <1>1, <1>2, <2>5 DEF Refused, Persist, Abort, Idle, TypeOK, ResultInv
  <2> QED
    BY <1>3, <2>1, <2>2, <2>3, <2>4, <2>5 DEF Request
<1>4. CASE AnyStart(c)
  BY <1>4 DEF AnyStart, Start, ResultInv
<1>5. CASE Fail(c) \/ LoseAnswer(c)
  BY <1>1, <1>2, <1>5 DEF Fail, LoseAnswer, Abort, Idle, TypeOK, ResultInv
<1> QED
  BY <1>3, <1>4, <1>5 DEF RunStep

\* The secret a run writes down is that of the one endpoint at its URL.
LEMMA VaultGetsLive ==
  ASSUME AllInv, ResultInv, NEW c \in Runs, RunStep(c), NEW u \in TurnURLs, vault'[u] # vault[u]
  PROVE  /\ endpoints' = endpoints
         /\ \A id : Live(u, id) => vault'[u] = id
<1>1. u \in URLs
  BY TurnsAreURLs
<1>2. /\ pc[c] = "done" /\ result[c].created /\ endpoints' = endpoints
      /\ vault' = [vault EXCEPT ![par[c].url] = result[c].secret]
  <2>1. vault' # vault
    OBVIOUS
  <2> QED
    BY <2>1, VaultStep
<1>3. par[c].url = u /\ vault'[u] = result[c].secret
  BY <1>1, <1>2 DEF AllInv, TypeOK
<1>4. Serial(c) /\ Working(c)
  BY <1>2 DEF AllInv, SerialInv, Working
<1>5. \A e \in endpoints : e.url = u => e.id = result[c].id
  BY <1>2, <1>3, <1>4 DEF Serial, At
<1>6. result[c].secret = result[c].id
  BY <1>2 DEF ResultInv
<1> QED
  BY <1>2, <1>3, <1>5, <1>6 DEF Live, At

DeliveryInv == AllInv /\ ResultInv /\ ModuleInv

LEMMA InitDelivery ==
  ASSUME DeliveryInit, \A e, f \in InitialEndpoints : e.url = f.url => e = f
  PROVE  DeliveryInv
<1>1. Init /\ module = [u \in URLs |-> NoId]
  BY DEF DeliveryInit
<1>2. AllInv
  BY <1>1, InitSerial
<1>3. ResultInv
  BY <1>1 DEF Init, ResultInv, NoResult
<1>4. ModuleInv
  BY <1>1, TurnsAreURLs DEF Init, ModuleInv
<1> QED
  BY <1>2, <1>3, <1>4 DEF DeliveryInv

\* A module's secret changes when it restarts, to the stored one.
LEMMA ModuleStep ==
  ASSUME DeliveryStep, module \in [URLs -> Ids \cup {NoId}], NEW u \in TurnURLs
  PROVE  module'[u] \in {module[u], vault[u]}
<1>1. CASE UNCHANGED module
  BY <1>1
<1>2. ASSUME NEW w \in URLs, module' = [module EXCEPT ![w] = vault[w]]
      PROVE  module'[u] \in {module[u], vault[u]}
  BY <1>2, TurnsAreURLs
<1> QED
  BY <1>1, <1>2 DEF DeliveryStep, StripeEmits, PayPalEmits, Attempt, Restart

LEMMA StutterKeepsAll ==
  ASSUME AllInv, ResultInv, UNCHANGED vars
  PROVE  AllInv' /\ ResultInv'
<1>1. AllInv'
  BY NextSerial
<1> QED
  BY <1>1 DEF ResultInv, vars

LEMMA NextDelivery ==
  ASSUME DeliveryInv, [DeliveryNext]_allVars, module \in [URLs -> Ids \cup {NoId}]
  PROVE  DeliveryInv'
<1>1. CASE Provision
  <2>1. /\ Next /\ UNCHANGED module
        /\ \A e \in endpoints' : (\A f \in endpoints : f.id # e.id) => e.id \notin Remembered
    BY <1>1, OperatorNextIsNext DEF Provision
  <2>2. PICK c \in Runs : RunStep(c)
    BY <2>1, NextIsRunStep
  <2>3. AllInv' /\ ResultInv'
    BY <2>1, <2>2, NextSerial, StepKeepsResult DEF DeliveryInv, AllInv
  <2>4. ASSUME NEW u \in TurnURLs, NEW id, id = module[u], \E e \in endpoints' : e.url = u /\ e.id = id
        PROVE  vault'[u] = id
    <3>1. u \in URLs /\ EndpointStep(c)
      BY <2>2, TurnsAreURLs, RunStepEndpoints
    <3>2. id \in Remembered
      BY <2>4, <3>1 DEF Remembered
    <3>3. Live(u, id)
      BY <2>1, <2>4, <3>1, <3>2, LiveWas DEF DeliveryInv, AllInv
    <3>4. vault[u] = id
      BY <2>4, <3>3 DEF DeliveryInv, ModuleInv
    <3> QED
      BY <2>2, <3>3, <3>4, VaultGetsLive DEF DeliveryInv
  <2>5. ModuleInv'
    BY <2>1, <2>4 DEF ModuleInv, Live, At
  <2> QED
    BY <2>3, <2>5 DEF DeliveryInv
<1>2. CASE DeliveryStep /\ UNCHANGED vars
  <2>1. ASSUME NEW u \in TurnURLs, Live(u, module'[u])
        PROVE  vault[u] = module'[u]
    BY <1>2, <2>1, ModuleStep DEF DeliveryInv, ModuleInv
  <2>2. ModuleInv'
    BY <1>2, <2>1 DEF ModuleInv, Live, At, vars
  <2> QED
    BY <1>2, <2>2, StutterKeepsAll DEF DeliveryInv
<1>3. CASE UNCHANGED allVars
  <2>1. UNCHANGED vars /\ UNCHANGED module
    BY <1>3 DEF allVars, deliveryVars
  <2>2. ModuleInv'
    BY <2>1 DEF DeliveryInv, ModuleInv, Live, At, vars
  <2> QED
    BY <2>1, <2>2, StutterKeepsAll DEF DeliveryInv
<1> QED
  BY <1>1, <1>2, <1>3 DEF DeliveryNext

\* The module holds ids and empty secrets.
LEMMA ModuleTyped ==
  ASSUME TypeOK, module \in [URLs -> Ids \cup {NoId}], [DeliveryNext]_allVars
  PROVE  module' \in [URLs -> Ids \cup {NoId}]
<1>1. CASE UNCHANGED module
  BY <1>1
<1>2. ASSUME NEW u \in URLs, module' = [module EXCEPT ![u] = vault[u]]
      PROVE  module' \in [URLs -> Ids \cup {NoId}]
  BY <1>2 DEF TypeOK
<1> QED
  BY <1>1, <1>2 DEF DeliveryNext, Provision, DeliveryStep, StripeEmits, PayPalEmits, Attempt,
                    Restart, allVars, deliveryVars

\* Restarts change no secret that verifies.
LEMMA RestartKeeps ==
  ASSUME DeliveryInv, [DeliveryNext]_allVars, module \in [URLs -> Ids \cup {NoId}],
         NEW u \in TurnURLs, NEW id \in Ids,
         module[u] = id, Live(u, id)
  PROVE  module'[u] = id
<1>1. vault[u] = id
  BY DEF DeliveryInv, ModuleInv
<1>2. CASE UNCHANGED module
  BY <1>2
<1>3. CASE DeliveryStep /\ UNCHANGED vars
  BY <1>1, <1>3, ModuleStep
<1> QED
  BY <1>2, <1>3 DEF DeliveryNext, Provision, allVars, deliveryVars

\* A restarted module goes on verifying as long as its endpoint exists, whatever runs
\* create, replace or lose at any URL meanwhile: Init reads the stored secret.
THEOREM RestartsAreSafe ==
  ASSUME \A e, f \in InitialEndpoints : e.url = f.url => e = f
  PROVE  DeliverySpec => RestartsKeepVerifying
<1> DEFINE Typed == module \in [URLs -> Ids \cup {NoId}]
<1>1. DeliveryInit => DeliveryInv /\ Typed
  BY InitDelivery DEF DeliveryInit
<1>2. (DeliveryInv /\ Typed) /\ [DeliveryNext]_allVars => (DeliveryInv /\ Typed)'
  BY NextDelivery, ModuleTyped DEF DeliveryInv, AllInv
<1>3. (DeliveryInv /\ Typed) /\ [DeliveryNext]_allVars =>
        [\A u \in TurnURLs, id \in Ids :
           (module[u] = id /\ Live(u, id) /\ Live(u, id)') => module'[u] = id]_allVars
  BY RestartKeeps
<1> QED
  BY <1>1, <1>2, <1>3, PTL DEF DeliverySpec, RestartsKeepVerifying

-----------------------------------------------------------------------------
(* Deliveries. *)

LEMMA DeliveryConstants == MaxEvents \in Nat /\ URLs \cap PayPalURLs = {}
BY DeliveryAssumption, Zenon DEF DeliveryAssumption

LEMMA DeliveryStepIsNext == [DeliveryNext]_allVars => [Next]_vars
<1>1. Provision => Next
  BY OperatorNextIsNext DEF Provision
<1>2. UNCHANGED allVars => UNCHANGED vars
  BY DEF allVars
<1> QED
  BY <1>1, <1>2 DEF DeliveryNext

\* What is proved of provisioning holds with the docs' operator, modules and
\* deliveries around it: together they implement the provisioning specification.
THEOREM DeliveryImplementsProvisioning == DeliverySpec => Spec
<1>1. DeliveryInit => Init
  BY DEF DeliveryInit
<1> QED
  BY <1>1, DeliveryStepIsNext, PTL DEF DeliverySpec, Spec

DeliveriesTyped ==
  /\ module \in [URLs -> Ids \cup {NoId}]
  /\ pending \subseteq Deliveries
  /\ accepted \subseteq Deliveries
  /\ emitted \in 0..MaxEvents

LEMMA EmittedTyped ==
  ASSUME DeliveriesTyped, emitted < MaxEvents
  PROVE  emitted + 1 \in 1..MaxEvents /\ emitted + 1 \in 0..MaxEvents
BY DeliveryConstants DEF DeliveriesTyped

LEMMA DeliveryStepTyped ==
  ASSUME TypeOK, DeliveriesTyped, DeliveryStep, UNCHANGED vars
  PROVE  DeliveriesTyped'
<1>1. module' \in [URLs -> Ids \cup {NoId}]
  BY ModuleTyped DEF DeliveriesTyped, DeliveryNext
<1>2. CASE \E type \in Events : StripeEmits(type)
  <2>1. PICK type \in Events : StripeEmits(type)
    BY <1>2
  <2> DEFINE new == {[event |-> emitted + 1, from |-> e.id, to |-> e.url] :
                       e \in {f \in endpoints : type \in f.events}}
  <2>2. /\ emitted < MaxEvents /\ emitted' = emitted + 1
        /\ pending' = pending \cup new /\ UNCHANGED accepted
    BY <2>1 DEF StripeEmits
  <2>3. new \subseteq Deliveries
    <3> SUFFICES ASSUME NEW e \in endpoints
                 PROVE  [event |-> emitted + 1, from |-> e.id, to |-> e.url] \in Deliveries
      OBVIOUS
    <3>1. e.id \in Ids /\ e.url \in URLs
      BY DEF TypeOK, Endpoints
    <3> QED
      BY <2>2, <3>1, EmittedTyped DEF Deliveries
  <2> HIDE DEF new
  <2> QED
    BY <1>1, <2>2, <2>3, EmittedTyped DEF DeliveriesTyped
<1>3. CASE \E u \in PayPalURLs : PayPalEmits(u)
  <2>1. PICK u \in PayPalURLs : PayPalEmits(u)
    BY <1>3
  <2>2. PICK d : d = [event |-> emitted + 1, from |-> PayPalHook, to |-> u]
    OBVIOUS
  <2>3. /\ emitted < MaxEvents /\ emitted' = emitted + 1
        /\ pending' = pending \cup {d} /\ UNCHANGED accepted
    BY <2>1, <2>2 DEF PayPalEmits
  <2>4. d \in Deliveries
    BY <2>2, <2>3, EmittedTyped DEF Deliveries
  <2> QED
    BY <1>1, <2>3, <2>4, EmittedTyped DEF DeliveriesTyped
<1>4. CASE \E d \in pending : Attempt(d)
  <2>1. /\ pending' \subseteq pending /\ accepted' \subseteq accepted \cup pending
        /\ emitted' = emitted
    BY <1>4 DEF Attempt
  <2> QED
    BY <1>1, <2>1 DEF DeliveriesTyped
<1>5. CASE \E u \in URLs : Restart(u)
  <2>1. UNCHANGED <<pending, accepted, emitted>>
    BY <1>5 DEF Restart
  <2> QED
    BY <1>1, <2>1 DEF DeliveriesTyped
<1> QED
  BY <1>2, <1>3, <1>4, <1>5 DEF DeliveryStep

LEMMA NextDeliveriesTyped ==
  ASSUME SecretInv, DeliveriesTyped, [DeliveryNext]_allVars
  PROVE  DeliveriesTyped'
<1>1. CASE Provision
  BY <1>1 DEF Provision, DeliveriesTyped
<1>2. CASE DeliveryStep /\ UNCHANGED vars
  BY <1>2, DeliveryStepTyped DEF SecretInv, FoundInv
<1>3. CASE UNCHANGED allVars
  BY <1>3 DEF allVars, deliveryVars, DeliveriesTyped
<1> QED
  BY <1>1, <1>2, <1>3 DEF DeliveryNext

LEMMA DeliveriesInvariance == DeliverySpec => [](SecretInv /\ DeliveriesTyped)
<1>1. DeliveryInit => SecretInv /\ DeliveriesTyped
  BY InitSecret, DeliveryConstants DEF DeliveryInit, DeliveriesTyped
<1>2. SecretInv /\ [DeliveryNext]_allVars => SecretInv'
  BY DeliveryStepIsNext, NextSecret
<1>3. SecretInv /\ DeliveriesTyped /\ [DeliveryNext]_allVars => DeliveriesTyped'
  BY NextDeliveriesTyped
<1> QED
  BY <1>1, <1>2, <1>3, PTL DEF DeliverySpec

\* Every state is well typed, the modules and the deliveries included, whatever the
\* account holds at the start.
THEOREM DeliveryTypeCorrect == DeliverySpec => []DeliveryTypeOK
<1>1. SecretInv /\ DeliveriesTyped => DeliveryTypeOK
  BY DEF SecretInv, DeliveriesTyped, DeliveryTypeOK
<1> QED
  BY <1>1, DeliveriesInvariance, PTL

\* Nothing is dropped silently: a delivery to a workflow that looks at the step's
\* output stops being repeated only once it is accepted or its endpoint is gone.
THEOREM OnlyAcceptedOrReplaced ==
  DeliverySpec =>
    [][\A d \in pending :
         (d.to \in Checking /\ d \notin pending') =>
           d \in accepted' \/ (d.to \in URLs /\ ~Live(d.to, d.from)')]_allVars
<1>1. [DeliveryNext]_allVars =>
        [\A d \in pending :
           (d.to \in Checking /\ d \notin pending') =>
             d \in accepted' \/ (d.to \in URLs /\ ~Live(d.to, d.from)')]_allVars
  <2> SUFFICES ASSUME DeliveryNext, NEW d \in pending, d.to \in Checking, d \notin pending'
               PROVE  d \in accepted' \/ (d.to \in URLs /\ ~Live(d.to, d.from)')
    OBVIOUS
  <2>1. CASE Provision
    BY <2>1 DEF Provision, Live, At
  <2>2. CASE DeliveryStep
    <3>1. Attempt(d)
      BY <2>2 DEF DeliveryStep, StripeEmits, PayPalEmits, Attempt, Restart
    <3>2. Verifies(d)
      BY <3>1 DEF Attempt, Acknowledges
    <3> QED
      BY <3>1, <3>2 DEF Attempt
  <2> QED
    BY <2>1, <2>2 DEF DeliveryNext
<1> QED
  BY <1>1, PTL DEF DeliverySpec

-----------------------------------------------------------------------------
(* Service, once there is any. *)

\* A run of the docs' operator wants what its URL is meant to have, and is about to
\* delete only what the stored secret does not fit.  With SerialInv this is what
\* keeps a run from taking a URL out of service.
Careful(c) ==
  (Working(c) /\ par[c].url \in TurnURLs) =>
    /\ par[c].want = Normalize(Wanted[par[c].url])
    /\ (pc[c] = "list" /\ par[c].mode = "replace") \/ pc[c] = "delete" =>
         ~Live(par[c].url, vault[par[c].url])

CarefulInv == \A c \in Runs : Careful(c)

OperatorStep(c) ==
  (\E u \in URLs, f \in Frontends : Start(c, f, u, Wanted[u], OperatorMode(u)))
    \/ Request(c) \/ Fail(c) \/ LoseAnswer(c)

\* The command line drops blank events, and so does the normalisation.
LEMMA SplitThenNormalize ==
  ASSUME NEW f, NEW raw
  PROVE  Normalize(Passed(f, raw)) = Normalize(raw)
BY DEF Normalize, Passed, SplitEvents

LEMMA OperatorStepIsRunStep ==
  ASSUME NEW c \in Runs, OperatorStep(c)
  PROVE  RunStep(c)
<1>1. CASE \E u \in URLs, f \in Frontends : Start(c, f, u, Wanted[u], OperatorMode(u))
  <2>1. PICK u \in URLs, f \in Frontends : Start(c, f, u, Wanted[u], OperatorMode(u))
    BY <1>1
  <2>2. Wanted[u] \in RawLists /\ OperatorMode(u) \in Modes[u]
    BY OperatorAssumption DEF OperatorAssumption, OperatorMode
  <2>3. AnyStart(c)
    BY <2>1, <2>2 DEF AnyStart
  <2> QED
    BY <2>3 DEF RunStep
<1> QED
  BY <1>1 DEF OperatorStep, RunStep

LEMMA OperatorNextIsStep == OperatorNext => \E c \in Runs : OperatorStep(c)
BY DEF OperatorNext, OperatorStart, OperatorStep

\* A run changes nothing at other URLs than its own, and nothing at all as it starts.
LEMMA OtherURLsKept ==
  ASSUME AllInv, NEW c \in Runs, RunStep(c), NEW u \in URLs,
         AnyStart(c) \/ par[c].url # u
  PROVE  At(u)' = At(u) /\ vault'[u] = vault[u]
<1>1. At(u)' = At(u)
  BY RunStepEndpoints, StartTouchesItself, OtherURLsUntouched DEF AllInv
<1>2. vault'[u] = vault[u]
  <2>1. CASE vault' = vault
    BY <2>1
  <2>2. CASE vault' # vault
    <3>1. ~AnyStart(c)
      BY <2>2, StartTouchesItself DEF AllInv
    <3>2. vault' = [vault EXCEPT ![par[c].url] = result[c].secret]
      BY <2>2, VaultStep
    <3> QED
      BY <3>1, <3>2 DEF AllInv, TypeOK
  <2> QED
    BY <2>1, <2>2
<1> QED
  BY <1>1, <1>2

\* A run that starts, or finds an endpoint, is careful: mode=replace was chosen because
\* the stored secret does not fit, and its turn keeps it so.
LEMMA OwnStepKeepsCareful ==
  ASSUME AllInv, CarefulInv, NEW c \in Runs, OperatorStep(c)
  PROVE  Careful(c)'
<1> SUFFICES ASSUME Working(c)', par'[c].url \in TurnURLs
             PROVE  /\ par'[c].want = Normalize(Wanted[par'[c].url])
                    /\ (pc'[c] = "list" /\ par'[c].mode = "replace") \/ pc'[c] = "delete" =>
                         ~\E e \in endpoints' : e.url = par'[c].url /\ e.id = vault'[e.url]
  BY DEF Careful, Live, At
<1>1. RunStep(c) /\ TypeOK
  BY OperatorStepIsRunStep DEF AllInv
<1>2. CASE \E u \in URLs, f \in Frontends : Start(c, f, u, Wanted[u], OperatorMode(u))
  <2>1. PICK u \in URLs, f \in Frontends : Start(c, f, u, Wanted[u], OperatorMode(u))
    BY <1>2
  <2>2. /\ par' = [par EXCEPT ![c] = [url |-> u, mode |-> EffectiveMode(OperatorMode(u)),
                                      want |-> Normalize(Passed(f, Wanted[u]))]]
        /\ pc' = [pc EXCEPT ![c] = "list"] /\ UNCHANGED <<endpoints, vault>>
    BY <2>1 DEF Start
  <2>3. /\ par'[c].url = u /\ par'[c].want = Normalize(Wanted[u]) /\ pc'[c] = "list"
        /\ par'[c].mode = EffectiveMode(OperatorMode(u))
    BY <1>1, <2>2, SplitThenNormalize DEF TypeOK
  <2>4. par'[c].mode = "replace" => ~Live(u, vault[u])
    BY <2>3 DEF EffectiveMode, OperatorMode
  <2> QED
    BY <2>2, <2>3, <2>4 DEF Live, At
<1>3. CASE ~ \E u \in URLs, f \in Frontends : Start(c, f, u, Wanted[u], OperatorMode(u))
  <2>1. Working(c) /\ par' = par
    BY <1>1, <1>3 DEF OperatorStep, Request, ListNone, ListMatch, Delete, Create, Update, Refused,
                      Persist, Fail, LoseAnswer, Abort, Idle, Finish, Working, TypeOK
  <2>2. Careful(c)
    BY DEF CarefulInv
  <2>3. \A e : par[c].mode = "replace" <=> NextRequest(c, e) = "delete"
    BY <2>1 DEF NextRequest, AllInv, RunInv, Params
  <2>4. pc'[c] # "list"
    <3>1. CASE ListMatch(c)
      <4>1. \A e : NextRequest(c, e) # "list"
        BY <2>1 DEF NextRequest, AllInv, RunInv, Params
      <4> QED
        BY <1>1, <3>1, <4>1 DEF ListMatch, TypeOK
    <3>2. CASE ~ListMatch(c)
      BY <1>1, <1>3, <3>2 DEF OperatorStep, Request, ListNone, Delete, Create, Update, Refused,
                              Persist, Fail, LoseAnswer, Abort, Idle, Finish, TypeOK
    <3> QED
      BY <3>1, <3>2
  <2>5. ASSUME pc'[c] = "delete"
        PROVE  ~\E e \in endpoints' : e.url = par[c].url /\ e.id = vault'[e.url]
    <3>1. ListMatch(c)
      BY <1>1, <2>5, FoundByListing
    <3>2. pc[c] = "list" /\ UNCHANGED <<endpoints, vault>> /\ \E e : pc'[c] = NextRequest(c, e)
      BY <1>1, <3>1 DEF ListMatch, TypeOK
    <3>3. par[c].mode = "replace"
      BY <2>3, <2>5, <3>2
    <3> QED
      BY <2>1, <2>2, <3>2, <3>3 DEF Careful, Live, At
  <2> QED
    BY <2>1, <2>2, <2>4, <2>5 DEF Careful
<1> QED
  BY <1>2, <1>3

LEMMA OthersStayCareful ==
  ASSUME AllInv, CarefulInv, NEW c \in Runs, RunStep(c), NEW d \in Runs, d # c
  PROVE  Careful(d)'
<1> SUFFICES ASSUME Working(d)', par'[d].url \in TurnURLs PROVE Careful(d)'
  BY DEF Careful
<1>1. pc'[d] = pc[d] /\ par'[d] = par[d] /\ Working(d) /\ par[d].url \in TurnURLs
  BY OthersUntouched DEF AllInv, Working
<1>2. AnyStart(c) \/ par[c].url # par[d].url
  <2>1. Alone(d)
    BY <1>1 DEF AllInv, SerialInv, Serial
  <2> QED
    BY <2>1, WorkGoesOn DEF Alone, AllInv
<1>3. par[d].url \in URLs
  BY <1>1, TurnsAreURLs
<1>4. At(par[d].url)' = At(par[d].url) /\ vault'[par[d].url] = vault[par[d].url]
  <2>1. \A u \in URLs : u = par[d].url => At(u)' = At(u) /\ vault'[u] = vault[u]
    BY <1>2, OtherURLsKept
  <2> QED
    BY <1>1, <1>3, <2>1 DEF At
<1> QED
  BY <1>1, <1>4 DEF CarefulInv, Careful, Live, At

LEMMA NextCareful ==
  ASSUME AllInv, CarefulInv, [DeliveryNext]_allVars
  PROVE  CarefulInv'
<1>1. CASE Provision
  <2>1. PICK c \in Runs : OperatorStep(c)
    BY <1>1, OperatorNextIsStep DEF Provision
  <2> QED
    BY <2>1, OperatorStepIsRunStep, OwnStepKeepsCareful, OthersStayCareful DEF CarefulInv
<1>2. CASE UNCHANGED vars
  BY <1>2 DEF vars, CarefulInv, Careful, Working, Live, At
<1> QED
  BY <1>1, <1>2 DEF DeliveryNext, allVars

\* A careful run at a URL in service changes nothing there, nor the stored secret.
LEMMA OwnStepKeepsService ==
  ASSUME AllInv, ResultInv, CarefulInv, NEW c \in Runs, RunStep(c), ~AnyStart(c),
         NEW u \in TurnURLs, par[c].url = u, InService(u)
  PROVE  InService(u)' /\ vault'[u] = vault[u]
<1>1. Working(c) /\ Serial(c) /\ Careful(c) /\ EndpointStep(c)
  BY WorkGoesOn, RunStepEndpoints DEF AllInv, SerialInv, CarefulInv
<1>2. PICK e \in endpoints : /\ At(u) = {e} /\ e.url = u
                             /\ e.events = Normalize(Wanted[u]) /\ vault[u] = e.id
  BY DEF InService, At
<1>3. Live(u, vault[u])
  BY <1>2 DEF Live
<1>4. vault'[u] = vault[u]
  BY <1>2, <1>3, VaultGetsLive
<1>5. pc[c] # "delete" /\ pc[c] # "create"
  BY <1>1, <1>2, <1>3 DEF Careful, Serial
<1>6. CASE endpoints' = endpoints
  BY <1>2, <1>4, <1>6 DEF InService, At
<1>7. CASE pc[c] = "update" /\ endpoints' = WithEvents(c)
  <2> DEFINE Updated(x) == IF x.id = found[c] THEN [x EXCEPT !.events = par[c].want] ELSE x
  <2>1. par[c].want = e.events /\ found[c] = e.id
    BY <1>1, <1>2, <1>7 DEF Careful, Serial, Live
  <2>2. e = [id |-> e.id, url |-> e.url, events |-> e.events]
    BY DEF AllInv, TypeOK, Endpoints
  <2>3. Updated(e) = e
    BY <2>1, <2>2
  <2>4. \A x \in endpoints : Updated(x).url = x.url /\ (x.url = u => x = e)
    BY <1>2 DEF AllInv, TypeOK, Endpoints, At
  <2>5. endpoints' = {Updated(x) : x \in endpoints}
    BY <1>7 DEF WithEvents
  <2> HIDE DEF Updated
  <2>6. {y \in {Updated(x) : x \in endpoints} : y.url = u} = {e}
    BY <1>2, <2>3, <2>4
  <2>7. At(u)' = {e}
    BY <2>5, <2>6 DEF At
  <2>8. e \in endpoints'
    BY <2>7 DEF At
  <2> QED
    BY <1>2, <1>4, <2>7, <2>8 DEF InService
<1> QED
  BY <1>1, <1>4, <1>5, <1>6, <1>7 DEF EndpointStep

\* Under the docs' operator a URL in service stays so, with the secret it has, and so
\* does a module that was restarted with it: no run the operator starts again, no
\* run that fails, dies or loses an answer, and nothing at other URLs takes it out.
\* (That it gets there is EventuallyInService, which needs fairness.)
ServiceStays ==
  [][\A u \in TurnURLs : InService(u) =>
       /\ InService(u)' /\ vault'[u] = vault[u]
       /\ module[u] = vault[u] => module'[u] = vault'[u]]_allVars

LEMMA StepKeepsService ==
  ASSUME DeliveryInv, CarefulInv, module \in [URLs -> Ids \cup {NoId}], DeliveryNext,
         NEW u \in TurnURLs, InService(u)
  PROVE  /\ InService(u)' /\ vault'[u] = vault[u]
         /\ module[u] = vault[u] => module'[u] = vault'[u]
<1>1. CASE Provision
  <2>1. PICK c \in Runs : RunStep(c)
    BY <1>1, OperatorNextIsNext, NextIsRunStep DEF Provision
  <2>2. InService(u)' /\ vault'[u] = vault[u]
    <3>1. CASE ~AnyStart(c) /\ par[c].url = u
      BY <2>1, <3>1, OwnStepKeepsService DEF DeliveryInv
    <3>2. CASE AnyStart(c) \/ par[c].url # u
      <4>1. At(u)' = At(u) /\ vault'[u] = vault[u]
        BY <2>1, <3>2, OtherURLsKept, TurnsAreURLs DEF DeliveryInv
      <4> QED
        BY <4>1 DEF InService, At
    <3> QED
      BY <3>1, <3>2
  <2> QED
    BY <1>1, <2>2 DEF Provision
<1>2. CASE DeliveryStep /\ UNCHANGED vars
  BY <1>2, ModuleStep DEF vars, InService, At
<1> QED
  BY <1>1, <1>2 DEF DeliveryNext

\* Following the docs never takes a URL out of service: ServiceStays, for any number of
\* runs, URLs and faults, if no URL has two endpoints at the start.
THEOREM ServiceIsKept ==
  ASSUME \A e, f \in InitialEndpoints : e.url = f.url => e = f
  PROVE  DeliverySpec => ServiceStays
<1> DEFINE Typed == module \in [URLs -> Ids \cup {NoId}]
           All == DeliveryInv /\ CarefulInv /\ Typed
<1>1. DeliveryInit => All
  BY InitDelivery DEF DeliveryInit, Init, CarefulInv, Careful, Working
<1>2. All /\ [DeliveryNext]_allVars => All'
  BY NextDelivery, ModuleTyped, NextCareful DEF DeliveryInv, AllInv
<1>3. All /\ [DeliveryNext]_allVars =>
        [\A u \in TurnURLs : InService(u) =>
           /\ InService(u)' /\ vault'[u] = vault[u]
           /\ module[u] = vault[u] => module'[u] = vault'[u]]_allVars
  BY StepKeepsService
<1> QED
  BY <1>1, <1>2, <1>3, PTL DEF DeliverySpec, ServiceStays
=============================================================================
