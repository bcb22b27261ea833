SPECIFICATION Spec
CONSTANTS
  t1 = t1
  t2 = t2
  Threads <- ThreadPair
  NoThread = NoThread
  Calls <- AtAndSend
  MaxCalls = 2
  MaxReports = 1
  MaxNotices = 0
  Notices = {}
  MaxCloses = 0
  Timely = TRUE
  CutReads = TRUE
  Faults = {"silent"}
SYMMETRY Symmetry
INVARIANTS
  TypeOK
  ExchangeUnbroken
  OwnReply
  SegmentsInOrder
  SuccessIsEarned
  NoCommandInText
