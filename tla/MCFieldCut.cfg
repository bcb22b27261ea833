SPECIFICATION Spec
CONSTANTS
  UserDataOctets = 14
  TextCap = 41
  Requests <- LongRequests
  Phones <- NoPhones
INVARIANTS
  TextFieldsAreUtf8
CHECK_DEADLOCK FALSE
