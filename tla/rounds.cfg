SPECIFICATION MCFairSpec
CONSTANTS
  Tasks = {1, 2, 3}
  Challengers = {1}
  Founder = 0
  PoolOf <- MCPoolOf
  KingFirst <- MCKingFirst
  FullPool <- MCFullPool
  MaxContainers = 2
  Concurrency = 1
  Verdicts = {win, neutral}
INVARIANT RoundsInvariant
CHECK_DEADLOCK FALSE
PROPERTIES RoundsAreJudged RoundsSpec DuelsFirstButOneSlot
