SPECIFICATION Spec
CONSTANTS
  Width = 3
  SingleLimit <- SmallSingle
  PartLimit <- SmallPart
  FirstHalf <- FirstHalves
  Value <- Values
  Messages <- SmallMessages
  MaxSent = 2
  MaxStored = 5
  Strays <- SmallStrays
INVARIANTS
  CompleteSetsJoined
  NothingDropped
  JoinedIsSent
  ListedInOrder
CHECK_DEADLOCK FALSE
