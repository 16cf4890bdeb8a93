SPECIFICATION Spec
CONSTANTS
  Frames = {f1, f2}
  Rates = {"DVRate3600x2400", "DVRate7200x4400"}
  Gains = {0, 6}
  PowerOnRate = "DVRate3600x2400"
  MaxBacklog = 1
  LosesQueries = FALSE
  LosesReplies = FALSE
  Reports = FALSE
  Hangs = FALSE
  Replug = FALSE
  LowLatency = TRUE
  Careful = TRUE
  MaxPorts = 1
  NoCall = NoCall
  NoReply = NoReply
INVARIANT ReplyFitsItsBuffer
CHECK_DEADLOCK FALSE
