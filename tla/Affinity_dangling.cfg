SPECIFICATION Safety
CONSTANTS
  Main = main
  Workers = {w}
  Nowhere = nowhere
  Timers = {a}
  Helpers = {}
  Quiet = {FALSE}
  MaxIds = 1
INVARIANT RearmNeverDangles
CHECK_DEADLOCK FALSE
