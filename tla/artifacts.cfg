SPECIFICATION MCSpec
CONSTANTS
  Procs = {1, 2, 3, 4}
  Insts = {1, 2, 3, 4}
  InstOf <- MCInstOf
  Cfg <- MCCfg
  FirstMods <- MCMods
  Adds <- MCAdds
  Urls <- MCUrls
  Files <- MCFiles
  Inside <- MCInside
  BaseName <- MCBase
  WithLength <- MCLength
  HostArch = "arm64"
  Vers = {"v1", "v2"}
  Verbs = {"apply", "install", "add"}
  Quiet = FALSE
  MaxFaults = 2
CHECK_DEADLOCK FALSE
INVARIANTS
  AppliedComplete
  CacheWhole
  SharedMatchesPin
PROPERTIES
  NothingLost
  RetriesSucceed
