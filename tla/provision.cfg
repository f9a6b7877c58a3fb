CONSTANTS
  n1 = n1
  n2 = n2
  n3 = n3
  d1 = d1
  d2 = d2
  d3 = d3
  d4 = d4
  p1 = p1
  p2 = p2
  NoDir = NoDir
  Names <- MCNames
  Dirs <- MCDirs
  Within <- MCWithin
  Procs <- MCProcs
  Pins <- MCPins
  Calls <- MCCalls
  Edits <- PortsEdits
  MaxIndex = 1
  MaxCalls = 5
  MaxEdits = 1
  MaxKills = 1
SPECIFICATION MCSpec
SYMMETRY ProcSymmetry
CHECK_DEADLOCK FALSE
INVARIANTS
  PortsDisjoint
  SerialNoOverlap
  SerialRowHasDir
