CONSTANTS
  t1 = t1
  t2 = t2
  t3 = t3
  t4 = t4
  Threads = {t1, t2, t3}
  Modes = {"w", "r"}
  Calls = 1
  Conditions = {}
  NoCondition = NoCondition
  LONG_WAIT_THRESHOLD = 1
  READER_COUNTS = 16777216
  Consumers = {t1, t2}
  Producers = {t3}
  Wakers = {"signal", "broadcast"}
  Takes = FALSE
  CvDeadlines = 1
SPECIFICATION CvSpec
SYMMETRY ClientSymmetry
INVARIANTS
  CvWaitersOnOneList
  CvNobodyLeftAsleep
PROPERTIES
  SignalsReachSleepers
  CvImplementsMonitor
CHECK_DEADLOCK FALSE
