CONSTANTS
  t1 = t1
  t2 = t2
  t3 = t3
  c1 = c1
  Threads = {t1, t2, t3}
  Modes = {"w", "r"}
  Calls = 2
  WaitCalls = 1
  Conditions = {c1}
  NoCondition = NoCondition
  LONG_WAIT_THRESHOLD = 1
  READER_COUNTS = 16777216
  Deadlines = 1
  w1 = w1
  w2 = w2
  w3 = w3
  w4 = w4
  f1 = f1
  f2 = f2
  Waiters = {w1, w2, w3, w4}
  WaitConditions = {f1, f2}
  Nil = Nil
SPECIFICATION MutexSpec
SYMMETRY ThreadSymmetry
INVARIANTS
  WordCountsHolders
  DesignatedWakerExists
  LockersMissNothing
  WaitWaitersOnOneList
  AllFalseIsTrue
  WritersMissNothing
  TimeoutOverwritesNothing
  NoPanic
  SkipsOnlyEqualConditions
PROPERTIES
  NoOvertaking
  ImplementsMonitor
CHECK_DEADLOCK FALSE
