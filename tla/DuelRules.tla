------------------------------- MODULE DuelRules -------------------------------
(***************************************************************************)
(* The pure scoring rules of a duel: src/src/tau/duel/predicates.py and    *)
(* the two scoring methods of duel/decide.py.  A tally counts the rounds   *)
(* of one pool from the challenger's side; its delta is the sum over the   *)
(* judged rounds of (challenger score - king score) in integer score       *)
(* units, each round's token bonus included.                               *)
(***************************************************************************)
EXTENDS Integers

ChallengerWins(wins, losses, margin) == wins > losses + margin

\* The challenger wins even if every unresolved round goes to the king.
ChallengerIsUnbeatable(wins, losses, remaining, margin) ==
  ChallengerWins(wins, losses + remaining, margin)

\* The challenger loses even if every unresolved round goes to it.
ChallengerCannotCatch(wins, losses, remaining, margin) ==
  ~ChallengerWins(wins + remaining, losses, margin)

\* The mean delta / rounds clears the margin, without the division.
ChallengerWinsByMeanScore(delta, rounds, margin) ==
  rounds > 0 /\ delta >= margin * rounds

Judged(t) == t.wins + t.losses + t.ties

\* Mutant of Remaining: an off-by-one leaves one round open for ever.
RemainingPadded(t, target) ==
  IF Judged(t) <= target THEN target + 1 - Judged(t) ELSE 0

Remaining(t, target) ==
  IF Judged(t) < target THEN target - Judged(t) ELSE 0

-----------------------------------------------------------------------------
\* decide_with_round_wins_scoring_method: a pool is decided as soon as the
\* rounds still unjudged cannot change who wins it.
RoundWinsVerdict(t, target, margin) ==
  IF ChallengerIsUnbeatable(t.wins, t.losses, Remaining(t, target), margin)
  THEN "challenger_won"
  ELSE IF ChallengerCannotCatch(t.wins, t.losses, Remaining(t, target), margin)
       THEN "king_won" ELSE "undecided"

\* Mutant of MeanVerdict: the mean is compared before every round is judged.
MeanVerdictEarly(t, target, delta, rounds, margin) ==
  IF rounds = 0 THEN "undecided"
  ELSE IF ChallengerWinsByMeanScore(delta, rounds, margin)
       THEN "challenger_won" ELSE "king_won"

\* decide_with_mean_scoring_method: a pool is decided once every round is judged.
MeanVerdict(t, target, delta, rounds, margin) ==
  IF Remaining(t, target) > 0 THEN "undecided"
  ELSE IF ChallengerWinsByMeanScore(delta, rounds, margin)
       THEN "challenger_won" ELSE "king_won"
=============================================================================
