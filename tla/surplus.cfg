SPECIFICATION Spec
CONSTANTS
  MBE_AUDIO_BLOCK_SIZE = 1
  MBE_AUDIO_BLOCK_SIZE_INTERNAL = 2
  Samples <- MCSamples
  Past <- MCPast
  MbeFrames <- MCMbeFrames
  ControlWords <- MCControlWords
  GainLevels <- MCGainLevels
  QueueSize = 4
  MaxQueries = 2
  WriteErrors = TRUE
INVARIANT EveryQueryIsUnderstood
CHECK_DEADLOCK FALSE
