SPECIFICATION MCSpec
CHECK_DEADLOCK FALSE
CONSTANTS
  Procs = {a, b, c}
  Verbs = {"up", "down", "restart", "apply", "reset", "destroy", "snapshot"}
  UserActs = {"rmEnv", "rmOverride", "rmYaml", "rmTree", "editBinder"}
  Faults = TRUE
  MaxInodes = 10
  MaxCalls = 5
  MaxActs = 2
  MaxKills = 1
INVARIANTS
  LiveDataKept
  PortsPublished
  OutcomesTrue
  SnapshotStable
PROPERTIES
  CommandsEnd
