SPECIFICATION Spec
CONSTANTS
  Objects = {a, b}
  Clients = {t1, t2}
  Loop = main
  NoObject = none
  ClientsEmit = FALSE
  DirectDeletes = FALSE
  MaxCalls = 2
INVARIANT TypeOK
PROPERTIES ImplementsLives TimersReachLive OwedIsDestroyed
CHECK_DEADLOCK FALSE
