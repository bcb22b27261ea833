SPECIFICATION Spec
CONSTANTS
  t1 = t1
  t2 = t2
  Threads <- OneThread
  NoThread = NoThread
  Calls <- AtAndStatus
  MaxCalls = 2
  MaxReports = 1
  MaxNotices = 0
  Notices = {}
  MaxCloses = 0
  Timely = TRUE
  CutReads = TRUE
  Faults = {}
INVARIANTS
  NoReportLost
