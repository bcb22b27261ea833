SPECIFICATION Spec
CONSTANTS
  t1 = t1
  t2 = t2
  Threads <- ThreadPair
  NoThread = NoThread
  Calls <- AtAndDelete
  MaxCalls = 1
  MaxReports = 0
  MaxNotices = 0
  Notices = {}
  MaxCloses = 0
  Timely = TRUE
  CutReads = TRUE
  Faults = {}
INVARIANTS
  OwnReply
