SPECIFICATION Spec
CONSTANTS
  Moments = {m}
  Workers = {w1, w2}
  Attempts = 2
  MaxStalls = 1
  Faults = {"lock_lost", "worker_crash", "db_error"}
  None = None
SYMMETRY Symmetry
INVARIANTS
  ShownIsTrue
  OneOfEach
  LeftoversNeedRace
CHECK_DEADLOCK FALSE
