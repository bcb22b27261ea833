SPECIFICATION Spec
CONSTANTS
  UserDataOctets = 14
  TextCap = 41
  Requests <- SmallRequests
  Phones <- SmallPhones
INVARIANTS
  SubmitReadsBack
  TextReadsBack
  LengthAnnounced
  DeliveredAsSubmitted
  ListedIsSent
  HeaderRead
  ReportRead
  OthersRefused
  CutRejected
CHECK_DEADLOCK FALSE
