SPECIFICATION Safety
CONSTANTS
  Main = main
  Workers = {w}
  Nowhere = nowhere
  Timers = {a}
  Helpers = {h}
  Quiet = {TRUE, FALSE}
  MaxIds = 2
CONSTRAINT Small
INVARIANTS TypeOK OneCopy TouchesLive ShotOnce ServedAtHome
CHECK_DEADLOCK FALSE
