\* One shell with a long output: polls and keys overlap, overtake one another and fail.
CONSTANTS
  Shells = {x1}
  Calls = {c1, c2}
  None = None
  MaxBuffer = 2
  MaxPieces = 3
  MaxKeys = 1
  MaxFaults = 1
SPECIFICATION FairSpec
INVARIANTS
  TypeOK
  BufferHoldsTheLatest
  ScreenInOrder
  KeysArriveOnce
PROPERTIES
  ChannelSpec
  OutputIsShown
