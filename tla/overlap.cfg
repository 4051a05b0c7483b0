\* Two resolvers on one duel, mean scoring, required publication, two failed ticks or
\* crashes.
SPECIFICATION MCCrownedSpec
SYMMETRY MCSymmetry
CONSTANTS
  Submissions = {1, 2}
  NoOne = 0
  Block <- MCBlock
  Resolvers = {r1, r2}
  Target <- MCTarget
  ScoringMethod = "mean"
  RoundWinMargin = 0
  MeanScoreMargin = 1
  RoundResults <- MCScored
  PublishMode = "required"
  MaxFailures = 2
INVARIANTS
  LedgerInvariant
  VerdictIsFinal
  PublishedHasWon
  CrownedIsPublished
PROPERTIES
  AppendOnly
