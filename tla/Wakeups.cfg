CONSTANTS
  Threads = {t1}
  Loop = loopThread
  NoThread = noThread
  Events = {e1}
  Timers = {m1}
  Sources = {s1}
  FdOf <- OneFd
  Platforms = {"default", "linux", "win32"}
  Failing = {FALSE, TRUE}
  MaxExits = 1
  MaxExecs = 0
SPECIFICATION Spec
CHECK_DEADLOCK FALSE
INVARIANTS TypeOK NoLostWakeup WakeUpHeeded FlagMeansOneWakeup SourcesUpToDate ExitHeeded
PROPERTIES ExitEndsLoop
