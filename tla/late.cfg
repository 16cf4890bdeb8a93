SPECIFICATION Spec
CONSTANTS
  Frames = {f1, f2}
  Rates = {"DVRateNone", "DVRate3600x2400", "DVRate7200x4400"}
  Gains = {0, 6}
  PowerOnRate = "DVRate3600x2400"
  MaxBacklog = 2
  LosesQueries = FALSE
  LosesReplies = FALSE
  Reports = TRUE
  Hangs = FALSE
  Replug = FALSE
  LowLatency = FALSE
  Careful = FALSE
  MaxPorts = 2
  NoCall = NoCall
  NoReply = NoReply
SYMMETRY FrameSymmetry
INVARIANT TypeOK
INVARIANT SyncedCallIsServed
INVARIANT SyncedCallFitsBuffers
INVARIANT SettingsAreCached
PROPERTY BacklogIsConserved
CHECK_DEADLOCK FALSE
