\* One exception of the fetcher: its unit is gone and its slot is not freed.
SPECIFICATION Spec
CONSTANTS
  Kings = {k1, k2}
  Pools <- OnePool
  Commits = {c1, c2}
  Describers = {d1}
  None = None
  Target <- TargetOne
  InflightTarget = 2
  MaxFaults = 1
INVARIANT SlotsMatch
