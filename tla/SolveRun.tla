------------------------------ MODULE SolveRun ------------------------------
(***************************************************************************)
(* One solve in the sandbox: the runner, the container with the agent, the *)
(* watchdog and the handler threads of the solve's LLM proxy, which share  *)
(* its usage record.  The agent talks to the proxy on as many connections  *)
(* as it likes; the runner reads the usage when the harness has ended and  *)
(* decides whether the run is a result to keep or to be tried again.       *)
(***************************************************************************)
EXTENDS Integers, FiniteSets, Functions

CONSTANTS
  Connections,    \* handler threads at one time
  MaxRequests,    \* SOLVER_MAX_REQUESTS
  MaxTokens,      \* SOLVER_MAX_TOTAL_TOKENS
  PerRequest,     \* SOLVER_MAX_TOKENS_PER_REQUEST
  Prompt,         \* the estimate for a prompt, a third of its characters
  Excess          \* how far a charge may go beyond the estimate and the grant

ASSUME SolveRunAssumption ==
  /\ IsFiniteSet(Connections)
  /\ MaxRequests \in Nat \ {0} /\ MaxTokens \in Nat \ {0}
  /\ PerRequest \in Nat \ {0} /\ Prompt \in Nat \ {0} /\ Excess \in Nat

VARIABLES
  stage,      \* of run_agent_in_container
  clock,      \* which limits have passed: none, first token, wall clock, container TTL
  container,  \* "none", "up" or "dead"
  edited,     \* the work tree differs from the checkout
  killed,     \* the watchdog's killed_reason
  harness,    \* what _exec_harness returns unless the watchdog has a reason
  request,    \* each handler thread
  usage,      \* SolveUsageSummary, and in `raised` what no field of it says
  result      \* AgentRunResult

runVars == <<stage, clock, container, edited, killed, harness, request, usage, result>>

NoRequest == [step |-> "none", grant |-> 0, streamed |-> FALSE, token |-> FALSE]
NoUsage == [requests |-> 0, successes |-> 0, errors |-> 0, upstream |-> 0, raised |-> 0,
            tokens |-> 0, firstTokens |-> 0, reason |-> "none"]
NoOutcome == [exit |-> "none", patch |-> FALSE]

RunInit ==
  /\ stage = "prepare" /\ clock = 0 /\ container = "none" /\ edited = FALSE
  /\ killed = "none" /\ harness = NoOutcome
  /\ request = [c \in Connections |-> NoRequest]
  /\ usage = NoUsage /\ result = NoOutcome

Retryable == {"upstream_error", "sandbox_error"}

-----------------------------------------------------------------------------
\* The proxy's handler threads.

Handler(c, step) == request' = [request EXCEPT ![c] = [NoRequest EXCEPT !.step = step]]
RunnerIdle == UNCHANGED <<stage, clock, container, edited, killed, harness, result>>

\* The agent, or a process it left behind, sends a request.
Arrive(c) ==
  /\ container = "up" /\ request[c].step = "none"
  /\ Handler(c, "arrived")
  /\ UNCHANGED usage /\ RunnerIdle

Minimum(a, b) == IF a <= b THEN a ELSE b
Remaining == IF usage.tokens <= MaxTokens THEN MaxTokens - usage.tokens ELSE 0

\* The reason to turn a request away, of the checks in their order.
Exceeded ==
  IF usage.reason # "none" THEN usage.reason
  ELSE IF usage.tokens >= MaxTokens THEN "token_limit_exceeded"
  ELSE IF usage.requests >= MaxRequests THEN "request_limit_exceeded"
  ELSE IF Prompt >= Remaining THEN "token_limit_exceeded"
  ELSE "none"

\* Mutant of Grant: what is left is not looked at.
GrantFull == PerRequest

\* The output the request is clamped to.
Grant == Minimum(PerRequest, Remaining - Prompt)

\* Checks, clamp and count under the usage lock.
Admit(c) ==
  /\ request[c].step = "arrived" /\ Exceeded = "none"
  /\ usage' = [usage EXCEPT !.requests = @ + 1]
  /\ \E streamed \in BOOLEAN :
       request' = [request EXCEPT ![c] = [step |-> "upstream", grant |-> Grant,
                                          streamed |-> streamed, token |-> FALSE]]
  /\ RunnerIdle

\* Over budget, or against the proxy's policy: the reason is overwritten.
Reject(c) ==
  /\ request[c].step = "arrived"
  /\ \E reason \in {Exceeded, "proxy_error"} \ {"none"} : usage' = [usage EXCEPT !.reason = reason]
  /\ Handler(c, "none")
  /\ RunnerIdle

\* Only a completion that the proxy streams itself reports its first token.
FirstToken(c) ==
  /\ request[c].step = "upstream" /\ request[c].streamed /\ ~request[c].token
  /\ request' = [request EXCEPT ![c].token = TRUE]
  /\ usage' = [usage EXCEPT !.firstTokens = Minimum(@ + 1, 1)]
  /\ RunnerIdle

\* _record_request checks the budget once more.
Recorded(u) == IF u.reason = "none" /\ u.tokens >= MaxTokens
               THEN [u EXCEPT !.reason = "token_limit_exceeded"] ELSE u

\* What an answer is charged: the tokens it reports, none without a usage.  Neither
\* the estimate for the prompt nor the clamp binds what the upstream reports.
Charges(c) == 0 .. Prompt + request[c].grant + Excess

\* An answer that can be read.
Answered(c) ==
  /\ request[c].step = "upstream"
  /\ \E used \in Charges(c) :
       usage' = Recorded([usage EXCEPT !.successes = @ + 1, !.tokens = @ + used])
  /\ Handler(c, "none")
  /\ RunnerIdle

\* A bad request of the agent's.
Refused(c) ==
  /\ request[c].step = "upstream" /\ ~request[c].token
  /\ usage' = Recorded([usage EXCEPT !.errors = @ + 1])
  /\ Handler(c, "none")
  /\ RunnerIdle

\* A transport error, a timeout, or an infrastructure status.
Faulted(c) ==
  /\ request[c].step = "upstream"
  /\ usage' = Recorded([usage EXCEPT !.errors = @ + 1, !.upstream = @ + 1])
  /\ Handler(c, "none")
  /\ RunnerIdle

\* Any other exception on the way to the record, such as on a `stream_options` that
\* is no object: a 502 for the agent, and no record of a request that was counted.
Raises(c) ==
  /\ request[c].step = "upstream"
  /\ usage' = [usage EXCEPT !.raised = @ + 1]
  /\ Handler(c, "none")
  /\ RunnerIdle

HandlerSteps(c) == Arrive(c) \/ Admit(c) \/ Reject(c) \/ FirstToken(c)
                     \/ Answered(c) \/ Refused(c) \/ Faulted(c) \/ Raises(c)

-----------------------------------------------------------------------------
\* The runner, the container and the watchdog.

ProxyIdle == UNCHANGED <<request, usage>>

Start ==
  /\ stage = "prepare"
  /\ stage' = "running" /\ container' = "up"
  /\ UNCHANGED <<clock, edited, killed, harness, result>> /\ ProxyIdle

\* The work tree, the proxy, the network or the container fails.
StartFails ==
  /\ stage = "prepare"
  /\ stage' = "cleanup" /\ result' = [exit |-> "sandbox_error", patch |-> FALSE]
  /\ UNCHANGED <<clock, container, edited, killed, harness>> /\ ProxyIdle

Edit ==
  /\ container = "up" /\ ~edited
  /\ edited' = TRUE
  /\ UNCHANGED <<stage, clock, container, killed, harness, result>> /\ ProxyIdle

\* The exec returns: the harness wrote its result line, with the tree's diff, the
\* patch the agent returned, or neither; the agent raised; or it left no line.
HarnessEnds ==
  /\ stage = "running" /\ container = "up"
  /\ stage' = "joining"
  /\ harness' \in {[exit |-> "completed", patch |-> p] : p \in BOOLEAN}
                  \cup {[exit |-> "agent_error", patch |-> FALSE]}
  /\ UNCHANGED <<clock, container, edited, killed, result>> /\ ProxyIdle

\* The exec fails, or returns what the container had written when it died.
ExecFails ==
  /\ stage = "running"
  /\ stage' = "joining"
  /\ \/ harness' = [exit |-> "sandbox_error", patch |-> FALSE]
     \/ /\ container = "dead"
        /\ harness' = [exit |-> "agent_error", patch |-> FALSE]
  /\ UNCHANGED <<clock, container, edited, killed, result>> /\ ProxyIdle

\* The container lives an hour, the watchdog looks every other second.
TimePasses ==
  /\ stage = "running"
  /\ clock < IF killed = "none" THEN 2 ELSE 3
  /\ clock' = clock + 1
  /\ UNCHANGED <<stage, container, edited, killed, harness, result>> /\ ProxyIdle

\* A look at the clock and the usage; the one under way when the exec returns
\* may still end.
WatchdogFires ==
  /\ stage \in {"running", "joining"} /\ killed = "none"
  /\ \/ /\ clock >= 2
        /\ killed' = "time_limit_exceeded"
     \/ /\ clock = 1 /\ usage.firstTokens = 0
        /\ killed' = "no_activity_timeout"
  /\ UNCHANGED <<stage, clock, container, edited, harness, result>> /\ ProxyIdle

\* The kill that follows, at its own pace; it may fail without a word.
Kill ==
  /\ killed # "none" /\ container = "up"
  /\ container' = "dead"
  /\ UNCHANGED <<stage, clock, edited, killed, harness, result>> /\ ProxyIdle

\* Mutant of Expire: the container of a killed run is kept.
ExpireUnlessKilled ==
  /\ clock = 3 /\ container = "up" /\ killed = "none"
  /\ container' = "dead"
  /\ UNCHANGED <<stage, clock, edited, killed, harness, result>> /\ ProxyIdle

\* The container's `sleep` ends.
Expire ==
  /\ clock = 3 /\ container = "up"
  /\ container' = "dead"
  /\ UNCHANGED <<stage, clock, edited, killed, harness, result>> /\ ProxyIdle

\* watchdog.stop(), and the choice between its reason and the harness's.
Join ==
  /\ stage = "joining"
  /\ stage' = "classify"
  /\ harness' = IF killed = "none" THEN harness ELSE [exit |-> killed, patch |-> FALSE]
  /\ UNCHANGED <<clock, container, edited, killed, result>> /\ ProxyIdle

UsablePatch == harness.exit = "completed" /\ harness.patch

\* Mutant of Outcome: a killed run is salvaged before the upstream is blamed.
OutcomeKilledFirst ==
  IF usage.reason # "none" /\ harness.exit = "completed" THEN [harness EXCEPT !.exit = usage.reason]
  ELSE IF harness.exit = killed THEN [harness EXCEPT !.patch = edited]
  ELSE IF usage.upstream > 0 /\ ~UsablePatch THEN [harness EXCEPT !.exit = "upstream_error"]
  ELSE harness

\* Overspent, hit by an outage, or killed with the work tree's diff to salvage.
Outcome ==
  IF usage.reason # "none" /\ harness.exit = "completed" THEN [harness EXCEPT !.exit = usage.reason]
  ELSE IF usage.upstream > 0 /\ ~UsablePatch THEN [harness EXCEPT !.exit = "upstream_error"]
  ELSE IF harness.exit = killed THEN [harness EXCEPT !.patch = edited]
  ELSE harness

\* The salvage's git may fail, which leaves no patch.
Classify ==
  /\ stage = "classify"
  /\ stage' = "cleanup"
  /\ result' \in {Outcome} \cup IF Outcome.exit = killed THEN {[Outcome EXCEPT !.patch = FALSE]} ELSE {}
  /\ UNCHANGED <<clock, container, edited, killed, harness>> /\ ProxyIdle

\* The container is removed, unless that fails; then the proxy is stopped.
Cleanup ==
  /\ stage = "cleanup"
  /\ stage' = "done" /\ container' \in {"dead", container}
  /\ UNCHANGED <<clock, edited, killed, harness, result>> /\ ProxyIdle

\* The worker's next solve, with a proxy and a usage record of its own.
NextRun ==
  /\ stage = "done"
  /\ stage' = "prepare" /\ clock' = 0 /\ container' = "none" /\ edited' = FALSE
  /\ killed' = "none" /\ harness' = NoOutcome /\ result' = NoOutcome
  /\ request' = [c \in Connections |-> NoRequest] /\ usage' = NoUsage

Runs == Start \/ StartFails \/ HarnessEnds \/ ExecFails \/ Join \/ Classify \/ Cleanup \/ NextRun

RunNext ==
  \/ \E c \in Connections : HandlerSteps(c)
  \/ Runs \/ Edit
  \/ TimePasses \/ WatchdogFires \/ Kill \/ Expire

RunSpec == RunInit /\ [][RunNext]_runVars

\* The runner and the watchdog run on, time passes, a dead container's exec
\* returns.  Nothing is assumed of the agent, the upstream or the kill.
RunFairness ==
  /\ WF_runVars(Join \/ Classify \/ Cleanup \/ (container = "dead" /\ ExecFails))
  /\ WF_runVars(TimePasses) /\ WF_runVars(WatchdogFires) /\ WF_runVars(Expire)

RunFairSpec == RunSpec /\ RunFairness

-----------------------------------------------------------------------------
RunOutcomes == [exit : {"none", "completed", "agent_error", "sandbox_error", "upstream_error",
                     "time_limit_exceeded", "no_activity_timeout", "token_limit_exceeded",
                     "request_limit_exceeded", "proxy_error"}, patch : BOOLEAN]

RunTypeOK ==
  /\ stage \in {"prepare", "running", "joining", "classify", "cleanup", "done"}
  /\ clock \in 0 .. 3 /\ container \in {"none", "up", "dead"} /\ edited \in BOOLEAN
  /\ killed \in {"none", "time_limit_exceeded", "no_activity_timeout"}
  /\ harness \in RunOutcomes /\ result \in RunOutcomes
  /\ request \in [Connections -> [step : {"none", "arrived", "upstream"},
                     grant : 0 .. PerRequest, streamed : BOOLEAN, token : BOOLEAN]]
  /\ usage.reason \in {"none", "token_limit_exceeded", "request_limit_exceeded", "proxy_error"}
  /\ usage.firstTokens \in 0 .. 1

AtUpstream == {c \in Connections : request[c].step = "upstream"}
Promised(c) == IF request[c].step = "upstream" THEN Prompt + request[c].grant + Excess ELSE 0
Outstanding == SumFunction([c \in Connections |-> Promised(c)])

\* Requests never exceed their limit, and spent and promised tokens together
\* never exceed the token limit, and what one charge may go beyond its estimate,
\* once per connection, however the handlers' admissions and records interleave
\* (_prepare_request_body, _record_request).
SpendIsBounded ==
  /\ usage.requests <= MaxRequests
  /\ usage.tokens + Outstanding <= Cardinality(Connections) * (MaxTokens + Excess)

\* Every admitted request is in flight, recorded exactly once, as a success or as
\* an error, or lost to an exception the proxy does not record, and an outage is
\* an error of its own (_prepare_request_body, _record_request, _handle).
AccountsBalance ==
  /\ usage.requests = usage.successes + usage.errors + usage.raised + Cardinality(AtUpstream)
  /\ usage.upstream <= usage.errors

\* The books of a run, whatever its connections do at once: the two above
\* (SolveBudget, SolveUsageSummary).
RunInvariant == RunTypeOK /\ SpendIsBounded /\ AccountsBalance

\* A run without a patch that saw an outage is not kept as a result, unless it
\* overspent: an outage during a killed run is no exception (run_agent_in_container).
OutagesAreRetried ==
  [][result.exit = "none" /\ result'.exit # "none" /\ usage.upstream > 0 /\ ~result'.patch
       => \/ result'.exit \in Retryable
          \/ usage.reason # "none" /\ harness.exit = "completed"]_runVars

\* Whatever the agent, the upstream and a failing kill do, a run comes to its
\* end (_Watchdog, the container's TTL).
RunEnds == stage = "running" ~> stage = "done"

\* The first-token timeout is for models that never respond ("Kill if the model
\* never responds"): an agent that got an answer is not killed for inactivity.
AnsweredAgentsLive ==
  [][killed = "none" /\ killed' = "no_activity_timeout" => usage.successes = 0]_runVars

=============================================================================
