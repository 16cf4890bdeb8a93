SPECIFICATION FairSpec
CONSTANTS
  Frames = {f1, f2}
  Rates = {"DVRate3600x2400", "DVRate7200x4400"}
  Gains = {0, 6}
  PowerOnRate = "DVRate3600x2400"
  MaxBacklog = 0
  LosesQueries = TRUE
  LosesReplies = TRUE
  Reports = FALSE
  Hangs = TRUE
  Replug = TRUE
  LowLatency = FALSE
  Careful = TRUE
  MaxPorts = 2
  NoCall = NoCall
  NoReply = NoReply
INVARIANT PromptLinkPairs
PROPERTY OnlyRefusedOpensLeak
 
CHECK_DEADLOCK FALSE
