SPECIFICATION Spec
CONSTANTS
  Moments = {m, p}
  InProject = {p}
  Legacy = {m}
  Media = {x}
  Thumbs = {x}
  Writers = {w1}
  Deletes = {d1, d2}
  Cleaners = {c1}
  Faults = {"store_error", "crash", "no_pipeline"}
  None = None
SYMMETRY Symmetry
CONSTRAINT Bounded
INVARIANTS
  ReferencedIsSafe
  DeletedIsTracked
PROPERTIES
  SweepIsThorough
CHECK_DEADLOCK FALSE
