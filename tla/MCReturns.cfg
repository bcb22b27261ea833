SPECIFICATION FairSpec
CONSTANTS
  t1 = t1
  t2 = t2
  Threads <- OneThread
  NoThread = NoThread
  Calls <- AllCalls
  MaxCalls = 1
  MaxReports = 1
  MaxNotices = 0
  Notices = {}
  MaxCloses = 1
  Timely = FALSE
  CutReads = TRUE
  Faults = {"silent", "write", "read", "open"}
PROPERTIES
  HolderReturns
