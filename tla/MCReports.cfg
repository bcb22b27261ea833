SPECIFICATION Spec
CONSTANTS
  t1 = t1
  t2 = t2
  Threads <- ThreadPair
  NoThread = NoThread
  Calls <- AtAndStatus
  MaxCalls = 1
  MaxReports = 2
  MaxNotices = 0
  Notices = {}
  MaxCloses = 1
  Timely = FALSE
  CutReads = TRUE
  Faults = {}
SYMMETRY Symmetry
INVARIANTS
  ReportsInOrder
PROPERTIES
  LostOnlyWithFragment
  ImplementsChannel
