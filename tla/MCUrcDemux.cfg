SPECIFICATION Spec
CONSTANTS
  Alphabet <- SmallAlphabet
  MaxLen = 7
INVARIANTS
  ChunksDoNotMatter
CHECK_DEADLOCK FALSE
