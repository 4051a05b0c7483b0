SPECIFICATION Spec
CONSTANTS
  Submissions = {1, 2}
  NoOne = 0
  Block <- MCBlock
  Resolvers = {r1}
  Target <- MCTarget
  ScoringMethod = "round_wins"
  RoundWinMargin = 0
  MeanScoreMargin = 0
  RoundResults <- MCDecisive
  PublishMode = "off"
  MaxFailures = 0
INVARIANTS
  RecordedConsistently
