CONSTANTS
  Threads = {t1, t2, t3}
  Signals = {s1, s2}
  Objects = {o}
  Conns = {c1, c2}
  Nobody = nobody
  Modes <- AllModes
SPECIFICATION Spec
CHECK_DEADLOCK FALSE
SYMMETRY Interchangeable
INVARIANTS TypeOK HandlesAgree CleanupTouchesLive NoCircle
PROPERTIES ImplementsLinks
