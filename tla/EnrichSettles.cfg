SPECIFICATION FairSpec
CONSTANTS
  Moments = {m}
  Workers = {w1, w2}
  Attempts = 3
  MaxStalls = 1
  Faults = {"enqueue_reply_lost"}
  None = None
PROPERTIES
  EnrichmentSettles
CHECK_DEADLOCK FALSE
