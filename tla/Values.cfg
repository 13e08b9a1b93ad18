SPECIFICATION Spec
CONSTANTS
  Radix = 4
  Statements <- MCStatements
  Sizes = {1, 2, 3, 4, 8}
  Chunks = {1, 3, 9}
  MaxAsked = 2
INVARIANTS
  RoundTrip
  OwnBytes
  ArraysSound
  NoSilentLoss
CHECK_DEADLOCK FALSE
