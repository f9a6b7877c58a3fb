SPECIFICATION MCSpec
CONSTANTS
  Procs = {"p1", "p2"}
  Urls = {"upstream", "fork"}
  KillsTool = TRUE
  Outlives = TRUE
  MaxBuilds = 4
  MaxFaults = 1
  MaxKills = 1
  VmProcs = {1, 2}
  Vers = {11, 14}
  Revs = {1, 2}
  ReadyTries = 2
  MaxVmBuilds = 2
  MaxVmFaults = 1
  MaxVmKills = 1
CHECK_DEADLOCK FALSE
INVARIANTS
  BuiltAsAsked
  
  BakeSound
PROPERTIES
  CloneSafe
  AllBuildsEnd
