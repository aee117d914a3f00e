SPECIFICATION FairSpec
CONSTANTS
  Hosts = {"localhost", "db"}
  Loopback = "localhost"
  RunIds = {"r1"}
  WeakIds = {"nova"}
  Primary <- ThePrimary
  Jobs = {"j1", "j2"}
  Starts <- SomeStarts
  Images = {"i1", "i2"}
  MaxFaults = 1
INVARIANTS
  NoPartialCommit
  DurableHolds
  RestoredWhole
  DrillSparesPrimary
PROPERTIES
  JobEnds
CHECK_DEADLOCK FALSE
