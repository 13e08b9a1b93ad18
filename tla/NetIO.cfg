CONSTANTS
  BufSize = 2
  MaxStream = 5
  MaxConns = 2
  SendLens <- MCSendLens
  ReadLens <- MCReadLens
SPECIFICATION Spec
INVARIANTS
  TypeOK
  StreamInv
  SentInOrder
  NothingWithheld
  ReceivedInOrder
  NoByteDropped
CHECK_DEADLOCK FALSE
PROPERTY ImplementsQueues
