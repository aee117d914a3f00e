SPECIFICATION BufferFairSpec
CONSTANTS
  Sessions = {a, b}
  Kept = a
  Limit = 1
  None = None
  Texts <- TwoTexts
  FrameBytes = {1, 3}
  Window = 1
  MaxFrames = 2
  MaxFrameBytes = 2
  MaxBufferBytes = 3
  MaxTextSnippets = 2
  MaxQaExchanges = 1
  QaFrames = 1
  MaxSnippetBytes = 1
  Questions = 2
  Flights = 1
INVARIANTS
  LiveIsTimed
  BufferBounded
  SentIsGrounded
PROPERTIES
  EndsByItself
