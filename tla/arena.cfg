\* One resolver, three submissions, one-round pools, one failure, no king at first,
\* required publication.
SPECIFICATION MCEarlyFairSpec
CONSTANTS
  Submissions = {1, 2, 3}
  NoOne = 0
  Block <- MCBlock
  Resolvers = {r1}
  Target <- MCTargetOne
  ScoringMethod = "round_wins"
  RoundWinMargin = 0
  MeanScoreMargin = 0
  RoundResults <- MCDecisive
  PublishMode = "required"
  MaxFailures = 1
INVARIANTS
  OneDuel
  CrownedByDuel
  DrainHolds
PROPERTIES
  ArenaSpec
  EveryDuelEnds
  EveryChallengerServed
