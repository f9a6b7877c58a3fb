SPECIFICATION MCSpec
CONSTANTS
  Procs = {a, b}
  Pids = {1, 2}
  Ports = {1, 2}
  ElsePort = 7
  NoPort = 0
  Geos = {"g1", "g2"}
  Verbs = {"up", "down", "restart", "apply", "destroy"}
  FirstYaml <- MCFirst
  Edits <- MCEdits
  MaxDisks = 3
  MaxCalls = 3
  MaxEdits = 1
  MaxRebuilds = 1
  MaxKills = 1
  MaxStrangers = 1
CHECK_DEADLOCK FALSE
INVARIANTS
  NeverSignalsStranger
  WarmMatches
  SerialSnapshotsBooted
  SerialDownStops
PROPERTIES
  CommandsEnd
