SPECIFICATION FairSpec
CONSTANTS
  Frames = {f1, f2}
  Rates = {"DVRateNone", "DVRate3600x2400", "DVRate3600x2450", "DVRate7200x4400", "DVRate2450", "DVRate4400", "DVRate3000", "DVRate6400", "DVRate7200", "DVRate8000", "DVRate9600"}
  Gains <- WideGains
  PowerOnRate = "DVRate3600x2400"
  MaxBacklog = 0
  LosesQueries = FALSE
  LosesReplies = TRUE
  Reports = FALSE
  Hangs = FALSE
  Replug = FALSE
  LowLatency = TRUE
  Careful = TRUE
  MaxPorts = 1
  NoCall = NoCall
  NoReply = NoReply
INVARIANT FrameSizesAgree
INVARIANT DocumentedGainIsApplied
PROPERTY ServiceIsImplemented
