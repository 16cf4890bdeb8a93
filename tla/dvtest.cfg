SPECIFICATION FairTestSpec
CONSTANTS
  f1 = f1
  f2 = f2
  Frames = {f1, f2}
  Rates = {"DVRateNone", "DVRate7200x4400"}
  Gains <- MCGains
  PowerOnRate = "DVRate3600x2400"
  MaxBacklog = 2
  LosesQueries = FALSE
  LosesReplies = TRUE
  Reports = TRUE
  Hangs = TRUE
  Replug = TRUE
  LowLatency = FALSE
  Careful = FALSE
  MaxPorts = 1
  NoCall = NoCall
  NoReply = NoReply
  Inputs <- TwoInputs
  MaxRuns = 5
  MaxLeft = 1
  WritesFail = TRUE
INVARIANT TestTypeOK
PROPERTY OutputIsTranscodedInput
PROPERTY RunsEnd
CHECK_DEADLOCK FALSE
