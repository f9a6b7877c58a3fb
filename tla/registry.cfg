CONSTANTS
  n1 = n1
  n2 = n2
  b0 = b0
  b1 = b1
  p1 = p1
  p2 = p2
  NoBlob = b0
  Names <- MCNames
  Blobs <- MCBlobs
  Procs <- MCProcs
  InitialFiles <- AnyFiles
  MaxIndex = 1
  MaxOps = 2
  MaxFaults = 1
SPECIFICATION FairSpec
CHECK_DEADLOCK FALSE
INVARIANTS
  UniqueIndex
  AckedDurable
PROPERTIES
  RowsKept
  NeverCrashes
  ImplementsAbs
  CallsReturn
