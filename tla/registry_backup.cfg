CONSTANTS
  n1 = n1
  n2 = n2
  b0 = b0
  b1 = b1
  p1 = p1
  p2 = p2
  NoBlob = b0
  Names <- MCNames
  Blobs <- MCBlobs
  Procs <- MCProcs
  InitialFiles <- LegacyFiles
  MaxIndex = 0
  MaxOps = 3
  MaxFaults = 1
SPECIFICATION Spec
CHECK_DEADLOCK FALSE
PROPERTY BackupKept
