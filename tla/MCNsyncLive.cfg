CONSTANTS
  t1 = t1
  t2 = t2
  t3 = t3
  c1 = c1
  Threads = {t1, t2, t3}
  Modes = {"w", "r"}
  Calls = 1
  Conditions = {c1}
  NoCondition = NoCondition
  LONG_WAIT_THRESHOLD = 1
  READER_COUNTS = 16777216
  Consumers = {t1, t2}
  Producers = {t3}
  Wakers = {"broadcast"}
  Takes = FALSE
  CvDeadlines = 0
  Deadlines = 1
SPECIFICATION LiveSpec
PROPERTIES
  EveryCallReturns
  EverybodyServed
  TrueConditionEndsEveryWait
CHECK_DEADLOCK FALSE
