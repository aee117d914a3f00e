SPECIFICATION Spec
CONSTANTS
  External = {e}
  Internal = {n}
  Media = {m, u}
  Redacted = {m}
  Workers = {w1, w2}
  Requests = {r1, r2}
  Attempts = 2
  MaxStalls = 1
  Cap = 2
  Faults = {"provider_reply_lost", "worker_crash", "api_crash", "db_error"}
  None = None
SYMMETRY Symmetry
INVARIANTS
  TypeOK
  InternalOnce
  PreviewIsExecution
PROPERTIES
  RetriesAddNothing
  ImplementsLifecycle
