\* The cache: two threads, two keys, room for one, one permit, one kill.  The run: one
\* connection.  The intake: one uid, two hotkeys, a window of one and
\* three blocks.  The source: two tokens, three commits of which one is usable.
SPECIFICATION HostSpec
CONSTANTS
  Threads = {t1, t2}
  Keys = {k1, k2}
  NoKey = NoKey
  NoThread = NoThread
  MaxEntries = 1
  FetchSlots = 1
  Attempts = 2
  MaxKills = 1
  Connections = {c1}
  MaxRequests = 1
  MaxTokens = 3
  PerRequest = 1
  Prompt = 1
  Excess = 1
  miner = miner
  rival = rival
  owner = owner
  Uids = {u1}
  Pairs <- MCPairs
  Bundles = {1, 2}
  HotkeyOf <- MCHotkeyOf
  NoBundle = 0
  Window = 1
  MaxBlock = 3
  good = good
  bad = bad
  worse = worse
  Shas <- MCShas
  Usable <- MCUsable
  NoSha = NoSha
  Tokens = 2
  Cooldowns = {1, 2}
  MaxAttempts = 2
  LowWatermark = 1
  HighWatermark = 1
  SearchCooldown = 1
  EventsTtl = 1
  RejectLimit = 2
INVARIANTS CacheInvariant IntakeInvariant SourceInvariant
PROPERTIES ClonesEnd RunEnds HistoryCatchesUp QueuedAreRegistered EveryBundleDecided SamplesEnd
CHECK_DEADLOCK FALSE
