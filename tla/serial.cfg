SPECIFICATION ChipFinishes
CONSTANTS
  MaxTries = 2
  BUFFER_LENGTH = 10
  Packets <- Replies
  MaxPackets = 3
  ReadErrors = TRUE
INVARIANT TypeOK
INVARIANT FramedAnswersArePackets
INVARIANT FramedReadsFitBuffer
PROPERTY GetResponseReturns
