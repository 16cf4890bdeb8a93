SPECIFICATION ReaderRuns
CONSTANTS
  MaxTries = 2
  BUFFER_LENGTH = 400
  Packets <- Replies
  Datagrams <- RepliesAndParts
  MaxQueue = 2
  SocketErrors = TRUE
INVARIANT TypeOK
INVARIANT ResponseIsFromOneDatagram
INVARIANT PacketIsUnderstood
PROPERTY GetResponseReturns
