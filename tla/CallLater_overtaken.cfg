SPECIFICATION Safety
CONSTANTS
  Threads = {t1}
  Loop = loopThread
  Contexts = {a}
  Slots = {f}
  MaxCalls = 2
  MaxStarts = 1
  MayStop = FALSE
  EarlyCalls = FALSE
SYMMETRY Interchangeable
INVARIANTS NothingStranded
CHECK_DEADLOCK FALSE
