CONSTANTS
  Threads = {t1, t2, t3}
  Signals = {s}
  Objects = {o}
  Conns = {c1, c2}
  Nobody = nobody
  Modes <- Careless
SPECIFICATION Spec
CHECK_DEADLOCK FALSE
SYMMETRY Interchangeable
INVARIANT CleanupNeverDangles
