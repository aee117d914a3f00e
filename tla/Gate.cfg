SPECIFICATION GateFairSpec
CONSTANTS
  Modes = {"pr", "predeploy", "deploy", "postdeploy", "recovery", "injected"}
  Names = {"check"}
  Injected <- Lists
  Attempts = 3
  Faults = {"lost", "late"}
  GateResidues = {{}, {"account"}}
  SmokeResidues = {{}, {"web"}, {"device"}, {"account", "web"}}
INVARIANTS
  NoFalsePass
  ChangesAreSafe
  NothingLeft
PROPERTIES
  Ends
CHECK_DEADLOCK FALSE
