SPECIFICATION Spec
CONSTANTS
  b1 = b1
  b2 = b2
  b3 = b3
  Byte <- MCByte
  Messages <- MCMessages
  BufSizes = {2, 6}
  HeaderSize = 2
  QueueSize = 8
  WriteOps = {"writeMessage", "tryWriteMessage"}
  ReadOps = {"readMessage", "tryReadMessage", "readNextMessageSize", "tryReadNextMessageSize"}
INVARIANTS TypeOK NoDataRace Accounting FramesIntact
PROPERTY ImplementsChannel
