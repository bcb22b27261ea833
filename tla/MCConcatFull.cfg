SPECIFICATION Spec
CONSTANTS
  Width = 2
  SingleLimit <- SmallSingle
  PartLimit <- SmallPart
  FirstHalf <- FirstHalves
  Value <- Values
  Messages <- LongMessages
  MaxSent = 1
  MaxStored = 3
  Strays <- NoStrays
INVARIANTS
  CompleteSetsJoined
CHECK_DEADLOCK FALSE
