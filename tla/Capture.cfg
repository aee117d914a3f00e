SPECIFICATION Spec
CONSTANTS
  Captures = {"c1", "c2"}
  Asks = {"q1"}
  Shots = {"s1", "s2"}
  Small = {"tiny"}
  Damaged = {"torn"}
  LikeText = {"digits"}
  Words <- MCWords
  Sensitive = {"number"}
  MaxImages = 2
  Starts <- SomeStarts
  Faults = {"no_tab", "token_lost", "no_worker", "ocr_error", "encode_error", "db_error",
            "store_error", "lost_reply", "no_answer"}
INVARIANTS SecretsMasked ReportIsHonest
PROPERTIES FailureKeepsDraft WalksEnd
