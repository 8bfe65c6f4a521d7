SPECIFICATION Safety
CONSTANTS
  Threads = {t1}
  Loop = loopThread
  Contexts = {a}
  Slots = {f}
  MaxCalls = 2
  MaxStarts = 2
  MayStop = TRUE
  EarlyCalls = FALSE
SYMMETRY Interchangeable
INVARIANTS ServedOnceOpen
CHECK_DEADLOCK FALSE
