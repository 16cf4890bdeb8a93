SPECIFICATION FairSpec
CONSTANTS
  MaxTries = 2
  BUFFER_LENGTH = 10
  Packets <- Replies
  MaxPackets = 2
  MaxErrors = 2
INVARIANT TypeOK
INVARIANT FramedAnswersArePackets
PROPERTY GetResponseReturns
PROPERTY BytesAreHeard
