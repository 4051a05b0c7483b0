\* An agent whose completion was answered without a stream is killed for inactivity.
SPECIFICATION RunSpec
CONSTANTS
  Connections = {c1}
  MaxRequests = 2
  MaxTokens = 3
  PerRequest = 2
  Prompt = 1
  Excess = 1
CHECK_DEADLOCK FALSE
PROPERTY AnsweredAgentsLive
