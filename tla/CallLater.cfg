SPECIFICATION Spec
CONSTANTS
  Threads = {t1, t2}
  Loop = loopThread
  Contexts = {a}
  Slots = {f, g}
  MaxCalls = 3
  MaxStarts = 2
  MayStop = TRUE
  EarlyCalls = TRUE
INVARIANTS TypeOK OneQueued EntryServed LatestRuns
PROPERTIES EntryLeaves
CHECK_DEADLOCK FALSE
