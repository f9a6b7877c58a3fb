SPECIFICATION MCSpec
CONSTANTS
  Procs = {1}
  Batch <- MCBatch
  Zip <- MCZip
  MaxFaults = 2
  MaxLinks = 3
  CfgProcs = {p1, p2}
  Hosts = {9000, 9001}
  MaxCfgEdits = 1
  MaxCfgKills = 1
CHECK_DEADLOCK FALSE
INVARIANTS
  ReportTrue
  DeviceTrue
  PinsKept
PROPERTIES
  
  BatchEnds
