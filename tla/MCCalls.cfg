SPECIFICATION Spec
CONSTANTS
  t1 = t1
  t2 = t2
  Threads <- OneThread
  NoThread = NoThread
  Calls <- InitAndSend
  MaxCalls = 3
  MaxReports = 1
  MaxNotices = 1
  Notices = {"cmt", "cmti", "cdsi"}
  MaxCloses = 0
  Timely = TRUE
  CutReads = FALSE
  Faults = {"silent", "write", "open"}
INVARIANTS
  SuccessIsEarned
  UrcTextStripped
