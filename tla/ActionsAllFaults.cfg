SPECIFICATION Spec
CONSTANTS
  External = {e}
  Internal = {}
  Media = {}
  Redacted = {}
  Workers = {w1, w2}
  Requests = {r1, r2}
  Attempts = 2
  MaxStalls = 1
  Cap = 2
  Faults = {"enqueue_reply_lost", "provider_reply_lost", "lock_lost", "worker_crash", "api_crash", "db_error"}
  None = None
SYMMETRY Symmetry
INVARIANTS
  DoneHasPage
  DuplicateNeedsLoss
PROPERTIES
  DoneNeverFails
