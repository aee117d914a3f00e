SPECIFICATION FairSpec
CONSTANTS
  Users = {"u1", "u2"}
  States = {"s1", "s2"}
  Images = {"m1", "m2"}
  Decodable = {"m1"}
  Requests = {"q1", "q2"}
  Starts <- SomeStarts
  MaxFaults = 1
INVARIANTS
  NothingLocksOut
  TokensStayPut
  DeletedStaysDeleted
PROPERTIES
  RotationEnds
CHECK_DEADLOCK FALSE
