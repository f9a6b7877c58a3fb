SPECIFICATION RaceSpec
CONSTANTS
  Procs = {a, b}
  Verbs = {"up", "reset"}
  UserActs = {}
  Faults = FALSE
  MaxInodes = 4
  MaxCalls = 2
  MaxActs = 0
  MaxKills = 0
INVARIANTS
  LiveDataKept
CHECK_DEADLOCK FALSE
