SPECIFICATION FairSpec
CONSTANTS
  External = {e, f}
  Internal = {}
  Media = {}
  Redacted = {}
  Workers = {w1}
  Requests = {r1}
  Attempts = 2
  MaxStalls = 1
  Cap = 2
  Faults = {"provider_reply_lost"}
  None = None
PROPERTIES
  ApprovedSettles
