CONSTANTS
  Threads = {t1}
  Loop = loopThread
  NoThread = noThread
  Events = {e1, e2}
  Timers = {m1}
  Platforms = {"default", "linux"}
  Sources = {}
  FdOf <- OneFd
  Failing = {FALSE}
  MaxExits = 1
  MaxExecs = 1
SPECIFICATION Spec
CHECK_DEADLOCK FALSE
PROPERTIES LoopRests TimerFires ImplementsQueue
