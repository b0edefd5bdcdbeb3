\* Three threads and counters that wrap at five.
SPECIFICATION FairSpec
CONSTANTS
  Threads = {t1, t2, t3}
  LongSpan = 5
  WideAdd = FALSE
INVARIANTS MutualExclusion Window
PROPERTY ServedInOrder
