--------------------------- MODULE UpstreamRouter ---------------------------
(***************************************************************************)
(* The smart router of the solver's LLM proxy.  Each solve has a proxy,  *)
(* whose handler threads must all use one endpoint; the router, shared by  *)
(* the process's proxy, balances solves over endpoints by load, failures   *)
(* and prompt affinity, and writes an endpoint that keeps failing to the   *)
(* file of disabled upstreams, which a restart reads.                      *)
(***************************************************************************)
EXTENDS Integers, FiniteSets, Sequences, Lists

CONSTANTS
  Endpoints,      \* configured upstream base URLs
  Solves,         \* slots for solves, each of one solve after another
  Handlers,       \* handler threads of one proxy
  Prompts,        \* prompt prefixes, the affinity keys
  Nowhere,        \* no endpoint
  NoPrompt,       \* a request without an affinity key
  MaxAffinities,
  Slack,          \* affinity_load_slack
  PromptOf,       \* the prompt prefix of a slot's solves
  MaxFailures     \* permanent_disable_failures

ASSUME UpstreamRouterAssumption ==
  /\ IsFiniteSet(Endpoints) /\ Endpoints # {} /\ Nowhere \notin Endpoints
  /\ IsFiniteSet(Solves) /\ IsFiniteSet(Handlers)
  /\ NoPrompt \notin Prompts /\ PromptOf \in [Solves -> Prompts \cup {NoPrompt}]
  /\ MaxAffinities \in Nat \ {0} /\ Slack \in Nat
  /\ MaxFailures \in Nat \ {0}

VARIABLES
  inFlight,    \* _EndpointState.in_flight
  failures,    \* _EndpointState.failures, at most MaxFailures here
  affinities,  \* prompt and endpoint of each entry, the first to expire first
  disabled,    \* _permanently_disabled
  file,        \* the disabled upstreams file
  configured,  \* the upstream target's base_urls: those enabled at the start
  proxy,       \* each solve's proxy: "off", "on" or "stopped"
  routed,      \* its _routed_upstream_base_url
  handler      \* each handler thread: its step, the endpoint it holds, the one it is to use

lists == <<disabled, file, configured>>
routerVars == <<inFlight, failures, affinities, lists, proxy, routed, handler>>

Parked == [step |-> "idle", url |-> Nowhere, use |-> Nowhere]

RouterInit ==
  /\ inFlight = [e \in Endpoints |-> 0]
  /\ failures = [e \in Endpoints |-> 0]
  /\ affinities = <<>>
  /\ disabled = {} /\ file = {} /\ configured = Endpoints
  /\ proxy = [s \in Solves |-> "off"]
  /\ routed = [s \in Solves |-> Nowhere]
  /\ handler = [s \in Solves |-> [h \in Handlers |-> Parked]]

Goes(s, h, step, url, use) ==
  handler' = [handler EXCEPT ![s][h] = [step |-> step, url |-> url, use |-> use]]
Step(s, h) == handler[s][h].step
Held(s, h) == handler[s][h].url
Used(s, h) == handler[s][h].use

-----------------------------------------------------------------------------
\* The router.

Shunned == disabled \cup file
OrAll(preferable, all) == IF preferable = {} THEN all ELSE preferable
Enabled == OrAll(configured \ Shunned, configured)

\* Endpoints that cool down are avoided while others are enabled: a cooldown
\* starts with a failure, ends with a success or when its time is over.
CandidateSets == {OrAll(Enabled \ hot, Enabled) : hot \in SUBSET {e \in Endpoints : failures[e] > 0}}

Least(urls) == CHOOSE n \in {inFlight[e] : e \in urls} : \A e \in urls : n <= inFlight[e]

\* The ties that the cursor rotates over.
LeastLoaded(candidates) == {e \in candidates : inFlight[e] = Least(candidates)}

\* The endpoint the prompt is bound to, unless it is out or too busy.
Preferred(p, candidates) ==
  {e \in candidates : /\ \E i \in DOMAIN affinities : affinities[i] = <<p, e>>
                      /\ inFlight[e] <= Least(candidates) + Slack}

Selectable(p, candidates) == OrAll(Preferred(p, candidates), LeastLoaded(candidates))

\* The entries of a prompt, and those of an endpoint.
EntriesOf(p) == {p} \X Endpoints
EntriesTo(e) == (Prompts \cup {NoPrompt}) \X {e}

\* An entry that is used expires last.
Refreshed(p, e, candidates) ==
  IF e \in Preferred(p, candidates) THEN Append(Without(affinities, EntriesOf(p)), <<p, e>>) ELSE affinities

\* At the limit the entry that expires first goes, even when the prompt has one.
Remembered(p, e) ==
  LET room == IF Len(affinities) >= MaxAffinities THEN Tail(affinities) ELSE affinities
  IN Append(Without(room, EntriesOf(p)), <<p, e>>)

MayDisable(e) == ~(configured \ Shunned \subseteq {e} /\ e \notin Shunned)

-----------------------------------------------------------------------------
\* A solve's proxy.

\* With one endpoint left the proxy does not route.
StartProxy(s) ==
  /\ proxy[s] = "off" /\ Cardinality(configured) > 1
  /\ proxy' = [proxy EXCEPT ![s] = "on"]
  /\ UNCHANGED <<inFlight, failures, affinities, lists, routed, handler>>

\* A handler looks the endpoint up under the proxy's lock.
Request(s, h) ==
  /\ proxy[s] = "on" /\ Step(s, h) = "idle"
  /\ IF routed[s] # Nowhere THEN Goes(s, h, "fetch", Nowhere, routed[s])
     ELSE Goes(s, h, "route", Nowhere, Nowhere)
  /\ UNCHANGED <<inFlight, failures, affinities, lists, proxy, routed>>

\* The router's turn, under its own lock.
Acquire(s, h) ==
  /\ Step(s, h) = "route"
  /\ \E candidates \in CandidateSets : \E e \in Selectable(PromptOf[s], candidates) :
       /\ inFlight' = [inFlight EXCEPT ![e] = @ + 1]
       /\ affinities' = Refreshed(PromptOf[s], e, candidates)
       /\ Goes(s, h, "adopt", e, Nowhere)
  /\ UNCHANGED <<failures, lists, proxy, routed>>

\* Under the proxy's lock again: the first handler's endpoint is the proxy's,
\* a later one gives its own back.
Adopt(s, h) ==
  /\ Step(s, h) = "adopt"
  /\ IF routed[s] = Nowhere
     THEN /\ routed' = [routed EXCEPT ![s] = Held(s, h)]
          /\ Goes(s, h, "remember", Nowhere, Held(s, h))
     ELSE /\ Goes(s, h, "give back", Held(s, h), routed[s])
          /\ UNCHANGED routed
  /\ UNCHANGED <<inFlight, failures, affinities, lists, proxy>>

Remember(s, h) ==
  /\ Step(s, h) = "remember"
  /\ affinities' = IF PromptOf[s] = NoPrompt THEN affinities ELSE Remembered(PromptOf[s], Used(s, h))
  /\ Goes(s, h, "fetch", Nowhere, Used(s, h))
  /\ UNCHANGED <<inFlight, failures, lists, proxy, routed>>

Released(e) == inFlight' = [inFlight EXCEPT ![e] = IF @ > 0 THEN @ - 1 ELSE 0]

\* Mutant of GiveBack: the endpoint the proxy uses is released.
GiveBackRouted(s, h) ==
  /\ Step(s, h) = "give back"
  /\ Released(Used(s, h))
  /\ Goes(s, h, "fetch", Nowhere, Used(s, h))
  /\ UNCHANGED <<failures, affinities, lists, proxy, routed>>

GiveBack(s, h) ==
  /\ Step(s, h) = "give back"
  /\ Released(Held(s, h))
  /\ Goes(s, h, "fetch", Nowhere, Used(s, h))
  /\ UNCHANGED <<failures, affinities, lists, proxy, routed>>

\* The upstream answers, faults as infrastructure does, or rejects the request; an
\* exception that is not recorded leaves the router as it is, too.
Answer(s, h) ==
  LET e == Used(s, h) IN
  /\ Step(s, h) = "fetch"
  /\ Goes(s, h, "idle", Nowhere, Nowhere)
  /\ \/ /\ failures' = [failures EXCEPT ![e] = 0]
        /\ UNCHANGED <<affinities, disabled, file>>
     \/ /\ failures' = [failures EXCEPT ![e] = IF @ < MaxFailures THEN @ + 1 ELSE @]
        /\ IF failures'[e] = MaxFailures /\ MayDisable(e)
           THEN /\ disabled' = disabled \cup {e}
                /\ file' \in {file, file \cup {e}}
                /\ affinities' = Without(affinities, EntriesTo(e))
           ELSE UNCHANGED <<affinities, disabled, file>>
     \/ UNCHANGED <<failures, affinities, disabled, file>>
  /\ UNCHANGED <<inFlight, configured, proxy, routed>>

\* The run is over, its container removed; the release comes before the server's
\* shutdown, and daemon threads of requests already in are not waited for.
StopProxy(s) ==
  /\ proxy[s] = "on"
  /\ proxy' = [proxy EXCEPT ![s] = "stopped"]
  /\ routed' = [routed EXCEPT ![s] = Nowhere]
  /\ IF routed[s] = Nowhere THEN UNCHANGED inFlight ELSE Released(routed[s])
  /\ UNCHANGED <<failures, affinities, lists, handler>>

\* The next solve has a proxy of its own.  A proxy for which a handler adopted an
\* endpoint after the stop holds it for ever: its slot takes no other solve here.
NextSolve(s) ==
  /\ proxy[s] = "stopped"
  /\ \A h \in Handlers : Step(s, h) = "idle"
  /\ routed[s] = Nowhere
  /\ proxy' = [proxy EXCEPT ![s] = "off"]
  /\ UNCHANGED <<inFlight, failures, affinities, lists, routed, handler>>

AffinityExpires ==
  /\ affinities # <<>>
  /\ affinities' = Tail(affinities)
  /\ UNCHANGED <<inFlight, failures, lists, proxy, routed, handler>>

\* The solver starts anew with the endpoints the file leaves it; with none left
\* it would not start.
Restart ==
  /\ configured \ file # {}
  /\ configured' = configured \ file
  /\ disabled' = {} /\ affinities' = <<>>
  /\ inFlight' = [e \in Endpoints |-> 0] /\ failures' = [e \in Endpoints |-> 0]
  /\ proxy' = [s \in Solves |-> "off"] /\ routed' = [s \in Solves |-> Nowhere]
  /\ handler' = [s \in Solves |-> [h \in Handlers |-> Parked]]
  /\ UNCHANGED file

Handles(s, h) ==
  Request(s, h) \/ Acquire(s, h) \/ Adopt(s, h) \/ Remember(s, h) \/ GiveBack(s, h) \/ Answer(s, h)

RouterNext ==
  \/ \E s \in Solves :
       \/ StartProxy(s) \/ StopProxy(s) \/ NextSolve(s)
       \/ \E h \in Handlers : Handles(s, h)
  \/ AffinityExpires \/ Restart

RouterSpec == RouterInit /\ [][RouterNext]_routerVars

-----------------------------------------------------------------------------
RouterTypeOK ==
  /\ inFlight \in [Endpoints -> Nat] /\ failures \in [Endpoints -> 0 .. MaxFailures]
  /\ affinities \in Seq((Prompts \cup {NoPrompt}) \X Endpoints) /\ Len(affinities) <= MaxAffinities
  /\ disabled \subseteq Endpoints /\ file \subseteq Endpoints /\ configured \subseteq Endpoints
  /\ proxy \in [Solves -> {"off", "on", "stopped"}]
  /\ routed \in [Solves -> Endpoints \cup {Nowhere}]
  /\ handler \in [Solves -> [Handlers ->
       [step : {"idle", "route", "adopt", "remember", "give back", "fetch"},
        url : Endpoints \cup {Nowhere}, use : Endpoints \cup {Nowhere}]]]

\* Disabling endpoints never takes the last one: the router has a choice and a
\* restart finds an endpoint to start with (_disable_permanently_locked, target.from_env).
LastEndpointStays == configured \ Shunned # {}

Holders(e) == {s \in Solves : routed[s] = e}
Hands(e) == {x \in Solves \X Handlers : Held(x[1], x[2]) = e}

\* The load the router balances by is what proxy and handlers hold, a proxy
\* that a late handler made hold an endpoint after its stop included: no other
\* interleaving of acquisitions, hand-backs and stops loses or adds a unit
\* (_next_upstream_base_url, _release_routed_upstream, release).
LoadIsTrue ==
  \A e \in Endpoints : inFlight[e] = Cardinality(Holders(e)) + Cardinality(Hands(e))

\* All requests of one solve go to one endpoint, although several handlers may
\* look for one at once (smart_cache_routing's sticky choice).
SolveSticks ==
  \A s \in Solves : proxy[s] = "on" =>
    \A h \in Handlers : Step(s, h) = "fetch" => Used(s, h) = routed[s]

\* What requests, faults, stops and restarts in any order never break: the three
\* above (SmartUpstreamRouter, _next_upstream_base_url).
RouterInvariant == RouterTypeOK /\ LastEndpointStays /\ LoadIsTrue /\ SolveSticks
=============================================================================
