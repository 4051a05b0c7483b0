\* Two screenings, three tasks, each solved twice, and one pool of two places:
\* passing screens race for them while the king is succeeded.
SPECIFICATION Spec
CONSTANTS
  Kings = {k1, k2}
  Pools <- OnePool
  Tasks = {t1, t2, t3}
  None = None
  Screens = {s1, s2}
  Target <- TargetTwo
  MaxFailedRuns = 2
  MaxSolves = 2
  MaxFaults = 1
SYMMETRY TaskSymmetry
INVARIANT PoolInvariant
PROPERTIES VerdictsAreFinal OneFailurePerWindow AdmissionSpec
CHECK_DEADLOCK FALSE
