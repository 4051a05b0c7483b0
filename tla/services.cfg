\* The run: two connections at the limits.  The router: two endpoints, two solves of two handlers, one prompt and one place for
\* it, an endpoint disabled by its second failure.  The weight setter: two miners, two
\* uids, eight blocks.  The publication: two publishers, bundles that share a file, four
\* commits.  The calls: two routes, three attempts, five units of time.
SPECIFICATION ServicesSpec
CONSTANTS
  Connections = {c1, c2}
  MaxRequests = 2
  MaxTokens = 3
  PerRequest = 3
  Prompt = 1
  Excess = 1
  prefix = prefix
  Endpoints = {e1, e2}
  Solves = {s1, s2}
  Handlers = {h1, h2}
  Prompts = {prefix}
  Nowhere = Nowhere
  NoPrompt = NoPrompt
  MaxAffinities = 1
  Slack = 1
  PromptOf <- MCPromptOf
  MaxFailures = 2
  alice = alice
  bob = bob
  Miners = {alice, bob}
  Slots = {0, 1}
  Netuid = 1
  Tempos = {3, 4}
  RateLimit = 3
  Margin = 1
  KingWindow = 3
  LastBlock = 8
  MaxReigns = 2
  Publishers = {r1, r2}
  Winners = {alice, bob}
  FilesOf <- MCFilesOf
  RepoFiles = {"readme", "agent"}
  NoWinner = NoWinner
  MaxCommits = 4
  Routes = 2
  Tries = 3
  CallTime = 2
  TotalTime = 5
  Scores <- MCScores
SYMMETRY MCSymmetry
INVARIANTS RunInvariant RouterInvariant SetterInvariant PromotionInvariant CallsInvariant
PROPERTIES OutagesAreRetried OncePerEpoch PublicationsStay
CHECK_DEADLOCK FALSE
