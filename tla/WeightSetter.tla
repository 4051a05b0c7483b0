---------------------------- MODULE WeightSetter ----------------------------
(***************************************************************************)
(* The weight setter: near the end of an epoch, and as far as the chain's  *)
(* rate limit allows, it pays the recent kings by a table of shares and    *)
(* burns what it owes to nobody.  It reads the tip, the metagraph and the  *)
(* kings one after the other, while blocks, registrations and kings go on. *)
(***************************************************************************)
EXTENDS Integers, Sequences, FiniteSets, Functions, Lists

CONSTANTS
  Miners,         \* hotkeys that kings may have
  Slots,          \* uids; 0 is the burn uid
  Netuid,
  Tempos,         \* values of the subnet's tempo
  RateLimit,      \* weights_rate_limit
  Margin,         \* set_margin
  KingWindow,     \* window; 0 pays nobody and burns nothing
  LastBlock,      \* bound: blocks
  MaxReigns       \* bound: kings

ASSUME WeightSetterAssumption ==
  /\ IsFiniteSet(Slots) /\ 0 \in Slots /\ Netuid \in Nat /\ Tempos \subseteq Nat /\ Tempos # {}
  /\ RateLimit \in Nat /\ Margin \in Nat /\ KingWindow \in Nat
  /\ LastBlock \in Nat

VARIABLES
  block, tempo,   \* the chain's tip and tempo
  updated,        \* the block of the last vector
  neurons,        \* uids and their hotkeys: some of Slots
  reigns,         \* hotkeys of the kings, the reigning one first
  params,         \* the tempo read at the start and after a vector was set
  step,           \* of the tick: "sleep", "meta", "kings", "set"
  seen,           \* the tick's reads: its block, the metagraph and the kings
  decided         \* the tick whose vector was set last: its block and tempo

weightVars == <<block, tempo, updated, neurons, reigns, params, step, seen, decided>>
chainVars == <<block, tempo, updated, neurons, reigns>>

Metagraphs ==
  UNION {{m \in [uids -> Miners] : \A u, v \in uids : m[u] = m[v] => u = v} : uids \in SUBSET Slots}
NotSeen == [block |-> 0, neurons |-> <<>>, kings |-> <<>>]

WeightInit ==
  /\ block = 0 /\ tempo \in Tempos /\ updated = 0
  /\ neurons \in Metagraphs
  /\ reigns = <<>>
  /\ params = tempo
  /\ step = "sleep" /\ seen = NotSeen /\ decided = [block |-> 0, tempo |-> 0]

-----------------------------------------------------------------------------
\* The schedule.

Positive(n) == IF n > 0 THEN n ELSE 0

BlocksUntilNextEpoch(b, t) == IF t <= 0 THEN 0 ELSE t - ((b + Netuid + 1) % (t + 1))

RateOff(b) == Positive(RateLimit - (b - updated))

\* Mutant of ShouldSet: the rate limit is left to the chain.
ShouldSetInMargin(b, t) == BlocksUntilNextEpoch(b, t) <= Margin

ShouldSet(b, t) == RateOff(b) = 0 /\ BlocksUntilNextEpoch(b, t) <= Margin

NextTryBlock(b, t) ==
  LET clear == b + RateOff(b)
  IN clear + Positive(BlocksUntilNextEpoch(clear, t) - Margin)

-----------------------------------------------------------------------------
\* The shares, in percent.

Shares(n) ==
  IF n = 1 THEN <<100>>
  ELSE IF n = 2 THEN <<60, 40>>
  ELSE IF n = 3 THEN <<40, 30, 30>>
  ELSE IF n = 4 THEN <<40, 20, 20, 20>>
  ELSE SubSeq(<<40, 15, 15, 15, 15>>, 1, IF KingWindow < 5 THEN KingWindow ELSE 5)

UidOf(m, h) == {u \in DOMAIN m : m[u] = h}

\* Kings that hold the burn uid take no slot.
Paid(m, kings) == Without(kings, {h \in Miners : UidOf(m, h) = {0}})

\* The uid that gets share i, if any: none without a king, or when he is deregistered.
Payee(m, paid, i) == IF i \in DOMAIN paid THEN UidOf(m, paid[i]) ELSE {}

\* The sum of the shares of a set of slots.
SumOver(shares, slots) == SumFunction([i \in DOMAIN shares |-> IF i \in slots THEN shares[i] ELSE 0])

\* Mutant of Burn: only the slots without a king burn.
BurnUnfilled(m, kings) ==
  LET paid == Paid(m, kings)
      shares == Shares(Len(paid))
  IN SumOver(shares, {i \in DOMAIN shares : i > Len(paid)})

\* A slot burns that pays nobody.
Burn(m, kings) ==
  LET paid == Paid(m, kings)
      shares == Shares(Len(paid))
  IN SumOver(shares, {i \in DOMAIN shares : Payee(m, paid, i) = {}})

\* What the kings of a uid earn: shares of one hotkey add up.
Earned(m, kings, u) ==
  LET paid == Paid(m, kings)
      shares == Shares(Len(paid))
  IN SumOver(shares, {i \in DOMAIN shares : u \in Payee(m, paid, i)})

Weights(m, kings) ==
  [u \in DOMAIN m |-> Earned(m, kings, u) + (IF u = 0 THEN Burn(m, kings) ELSE 0)]

\* No neurons, or a burn without a burn uid.
Submittable(m, kings) == DOMAIN m # {} /\ (Burn(m, kings) = 0 \/ 0 \in DOMAIN m)

-----------------------------------------------------------------------------
\* The chain and the duels.

BlockPasses ==
  /\ block < LastBlock
  /\ block' = block + 1
  /\ UNCHANGED <<tempo, updated, neurons, reigns, params, step, seen, decided>>

NeuronsChange ==
  /\ neurons' \in Metagraphs \ {neurons}
  /\ UNCHANGED <<block, tempo, updated, reigns, params, step, seen, decided>>

TempoChanges ==
  /\ tempo' \in Tempos \ {tempo}
  /\ UNCHANGED <<block, updated, neurons, reigns, params, step, seen, decided>>

Crowned ==
  /\ Len(reigns) < MaxReigns
  /\ \E h \in Miners : reigns' = <<h>> \o reigns
  /\ UNCHANGED <<block, tempo, updated, neurons, params, step, seen, decided>>

-----------------------------------------------------------------------------
\* A tick of the worker.

Tick ==
  /\ step = "sleep" /\ ShouldSet(block, params)
  /\ step' = "meta"
  /\ seen' = [NotSeen EXCEPT !.block = block]
  /\ UNCHANGED <<chainVars, params, decided>>

ReadMetagraph ==
  /\ step = "meta"
  /\ step' = "kings"
  /\ seen' = [seen EXCEPT !.neurons = neurons]
  /\ UNCHANGED <<chainVars, params, decided>>

\* The last kings of the window, none in burn mode; a plan that cannot be
\* submitted is skipped.
ReadKings ==
  /\ step = "kings"
  /\ \E n \in {0, KingWindow} :
       LET kings == SubSeq(reigns, 1, IF n < Len(reigns) THEN n ELSE Len(reigns)) IN
       IF Submittable(seen.neurons, kings)
       THEN step' = "set" /\ seen' = [seen EXCEPT !.kings = kings]
       ELSE step' = "sleep" /\ seen' = NotSeen
  /\ UNCHANGED <<chainVars, params, decided>>

\* Included, and the parameters are read again; or that fails, and the old stand.
SetWeights ==
  /\ step = "set"
  /\ step' = "sleep" /\ seen' = NotSeen
  /\ decided' = [block |-> seen.block, tempo |-> params]
  /\ updated' = block /\ params' \in {tempo, params}
  /\ UNCHANGED <<block, tempo, neurons, reigns>>

\* A query fails, or the chain rejects the vector: the next tick begins anew.
TickFails ==
  /\ step # "sleep"
  /\ step' = "sleep" /\ seen' = NotSeen
  /\ UNCHANGED <<chainVars, params, decided>>

WeightRestart ==
  /\ params' = tempo /\ step' = "sleep" /\ seen' = NotSeen
  /\ UNCHANGED <<chainVars, decided>>

WeightNext ==
  \/ BlockPasses \/ NeuronsChange \/ TempoChanges \/ Crowned
  \/ Tick \/ ReadMetagraph \/ ReadKings \/ SetWeights \/ TickFails \/ WeightRestart

WeightSpec == WeightInit /\ [][WeightNext]_weightVars

-----------------------------------------------------------------------------
WeightTypeOK ==
  /\ block \in 0 .. LastBlock /\ updated \in 0 .. block
  /\ tempo \in Tempos /\ params \in Tempos
  /\ neurons \in Metagraphs /\ reigns \in Seq(Miners)
  /\ step \in {"sleep", "meta", "kings", "set"}
  /\ seen.block \in 0 .. LastBlock

Vector == Weights(seen.neurons, seen.kings)

\* What is set is the whole emission, whichever kings are deregistered, twice in
\* the window or on the burn uid; without a king to pay, the burn uid's weight is
\* all there is; a registered reigning king has the largest slot.  A window of no
\* kings has no shares to burn either: its vector is all zero (compute_weights).
WholeEmission ==
  step = "set" =>
    /\ IF KingWindow = 0
       THEN \A u \in DOMAIN Vector : Vector[u] = 0
       ELSE IF Paid(seen.neurons, seen.kings) # <<>>
       THEN SumFunction(Vector) = 100
       ELSE Vector[0] > 0 /\ \A u \in DOMAIN Vector \ {0} : Vector[u] = 0
    /\ seen.kings # <<>> =>
         \A u \in UidOf(seen.neurons, Head(seen.kings)) \ {0} : Vector[u] >= 40

\* The block announced as the next to try is the first at which a tick sets
\* weights, unless the chain changes meanwhile (should_set).
NextTryIsFirst ==
  /\ ShouldSet(NextTryBlock(block, params), params)
  /\ \A b \in block .. NextTryBlock(block, params) - 1 : ~ShouldSet(b, params)

\* What a tick computes, whichever blocks, registrations, kings and changes of the
\* tempo come between its reads: the two above (compute_weights, should_set).
SetterInvariant == WeightTypeOK /\ WholeEmission /\ NextTryIsFirst

EpochEnd(b, t) == b + BlocksUntilNextEpoch(b, t)

\* Weights that are set were decided on once per epoch, whatever time inclusion
\* takes, if the rate limit is longer than the margin ("once per epoch").
OncePerEpoch ==
  [][RateLimit > Margin /\ decided.tempo > 0 /\ decided' # decided /\ decided'.tempo = decided.tempo
       => EpochEnd(decided'.block, params) # EpochEnd(decided.block, params)]_weightVars
=============================================================================
