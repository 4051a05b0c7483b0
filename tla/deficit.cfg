\* One describer and one fault, a restart, a lost answer or an exception of the fetcher;
\* sampling and describing fair: deficits are worked off.
SPECIFICATION FairSpec
CONSTANTS
  Kings = {k1, k2}
  Pools <- OnePool
  Commits = {c1, c2}
  Describers = {d1}
  None = None
  Target <- TargetOne
  InflightTarget = 2
  MaxFaults = 1
INVARIANT LoadIsBounded
PROPERTY DeficitsAreFilled
