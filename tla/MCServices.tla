----------------------------- MODULE MCServices -----------------------------
(***************************************************************************)
(* Small instances of five components that share no state: a sandbox run   *)
(* with two connections, the proxy's router, the weight setter, the        *)
(* publication of winners and the calls of judge and screener.  The        *)
(* initial state chooses the one that runs; the others stay at the start.  *)
(***************************************************************************)
EXTENDS SolveRun, UpstreamRouter, WeightSetter, Promotion, LlmCalls, TLC

CONSTANTS prefix, alice, bob

VARIABLE part   \* the component that runs

servicesVars == <<part, runVars, routerVars, weightVars, promotionVars, callVars>>

MCPromptOf == [s \in Solves |-> prefix]
MCFilesOf == [w \in Winners |-> IF w = alice THEN {"agent", "x"} ELSE {"agent", "y"}]
MCScores == {NotANumber, -5, 0, 30, 80, 120}

\* A run's connections and the router's solves, handlers and endpoints are
\* interchangeable.
MCSymmetry ==
  Permutations(Connections) \cup Permutations(Solves) \cup Permutations(Handlers) \cup Permutations(Endpoints)

WeightRests ==
  /\ block = 0 /\ tempo = CHOOSE t \in Tempos : TRUE
  /\ updated = 0 /\ neurons = <<>> /\ reigns = <<>>
  /\ params = tempo
  /\ step = "sleep" /\ seen = NotSeen /\ decided = [block |-> 0, tempo |-> 0]

CallsRest ==
  /\ caller = "judge" /\ kingFirst = TRUE
  /\ route = 1 /\ try = 1 /\ barred = {} /\ asked = {} /\ elapsed = 0
  /\ answer = Unsaid /\ verdict = NoAnswer

ServicesInit ==
  /\ part \in {"run", "router", "weights", "promotion", "calls"}
  /\ RunInit /\ RouterInit /\ PromotionInit
  /\ IF part = "weights" THEN WeightInit ELSE WeightRests
  /\ IF part = "calls" THEN CallsInit ELSE CallsRest

RunPart == part = "run" /\ RunNext /\ UNCHANGED <<part, routerVars, weightVars, promotionVars, callVars>>
RouterPart == part = "router" /\ RouterNext /\ UNCHANGED <<part, runVars, weightVars, promotionVars, callVars>>
WeightPart == part = "weights" /\ WeightNext /\ UNCHANGED <<part, runVars, routerVars, promotionVars, callVars>>
PromotionPart == part = "promotion" /\ PromotionNext /\ UNCHANGED <<part, runVars, routerVars, weightVars, callVars>>
CallsPart == part = "calls" /\ CallsNext /\ UNCHANGED <<part, runVars, routerVars, weightVars, promotionVars>>

ServicesNext == RunPart \/ RouterPart \/ WeightPart \/ PromotionPart \/ CallsPart

ServicesSpec == ServicesInit /\ [][ServicesNext]_servicesVars
=============================================================================
