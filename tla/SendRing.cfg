SPECIFICATION FairSpec
CONSTANTS
  Size = 6
  MaxPacket = 7
  MaxStream = 20
INVARIANTS Unsent InsideMapping NothingLeftBehind OneSend
PROPERTIES GoesOutInOrder Drains
