CONSTANTS
  t1 = t1
  t2 = t2
  t3 = t3
  c1 = c1
  Threads = {t1, t2}
  Modes = {"w", "r"}
  Calls = 2
  WaitCalls = 2
  Conditions = {c1}
  NoCondition = NoCondition
  LONG_WAIT_THRESHOLD = 1
  READER_COUNTS = 16777216
  Deadlines = 1
SPECIFICATION MCWaitSpec
SYMMETRY ThreadSymmetry
INVARIANTS
  NoConditionMissed
CHECK_DEADLOCK FALSE
