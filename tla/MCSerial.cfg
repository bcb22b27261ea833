SPECIFICATION Spec
CONSTANTS
  Threads = {"owner", "other"}
  Owner = "owner"
  NoHandle = "none"
  Handles = {"h1", "h2"}
  Byte = {0, 1}
  MaxBytes = 3
INVARIANT
  HandlesOwned
PROPERTY
  ImplementsPipe
