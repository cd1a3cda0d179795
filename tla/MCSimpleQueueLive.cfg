SPECIFICATION FairSpec
CONSTANTS
  b1 = b1
  b2 = b2
  b3 = b3
  Byte <- MCByte
  Messages <- MCLiveMessages
  BufSizes = {6}
  HeaderSize = 2
  QueueSize = 8
  WriteOps = {"writeMessage"}
  ReadOps = {"tryReadMessage"}
PROPERTIES WriteReturns EveryMessageIsRead
