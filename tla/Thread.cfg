SPECIFICATION Spec
CONSTANTS
  Callers = {owner, t1}
  Starters = {owner}
  Platforms = {"posix", "win32"}
  RestartsMeetWaits = {"win32"}
  StartsRace = FALSE
  MaxRuns = 2
INVARIANTS TypeOK WaiterLetsFinish PriorityMeetsLiveThread HandlesOutliveUse DestroyedIsQuiet SleepersAreWoken ExitIsHeard
PROPERTIES WaitOutlastsRun ImplementsRuns ExitEndsRun WaitEnds
CHECK_DEADLOCK FALSE
