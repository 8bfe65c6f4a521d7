SPECIFICATION Safety
CONSTANTS
  Callers = {owner, t1}
  Starters = {owner}
  Platforms = {"posix"}
  RestartsMeetWaits = {"posix"}
  StartsRace = FALSE
  MaxRuns = 2
INVARIANTS WaiterLetsFinish
CHECK_DEADLOCK FALSE
