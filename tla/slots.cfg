\* Two pools, three commits, two describers: slots, reservations and load through
\* failures, cancellations and a succession.
SPECIFICATION Spec
CONSTANTS
  Kings = {k1, k2}
  Pools <- TwoPools
  Commits = {c1, c2, c3}
  Describers = {d1, d2}
  None = None
  Target <- TargetOne
  InflightTarget = 2
  MaxFaults = 0
SYMMETRY CommitSymmetry
INVARIANT QueueInvariant
