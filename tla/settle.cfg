\* Two screenings, two tasks of one pool, no faults: with solves and screenings
\* fair every queued task of the reigning king is admitted or dropped.
SPECIFICATION FairPoolSpec
CONSTANTS
  Kings = {k1, k2}
  Pools <- OnePool
  Tasks = {t1, t2}
  None = None
  Screens = {s1, s2}
  Target <- TargetOne
  MaxFailedRuns = 2
  MaxSolves = 1
  MaxFaults = 0
PROPERTY EveryTaskSettles
CHECK_DEADLOCK FALSE
