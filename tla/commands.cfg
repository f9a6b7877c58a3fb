SPECIFICATION MCSpec
CONSTANTS
  Scenes = {"host", "walk"}
  Binders = {"auto", "host", "vm"}
  HostActs = {"modprobe", "rmmod", "docker", "daemon", "daemonStops", "rmArtifacts", "qemu", "kvmGroup", "adb", "artifacts"}
  MaxChanges = 2
  Names = {1, 2, 3}
  Walks = {"up", "down", "restart", "ls"}
  Changes = {"forget", "create", "adopt", "rmYaml", "breakYaml", "fixYaml"}
  MaxWalkChanges = 1
  UsedSets = {{}}
  PinnedHosts = {}
  Siblings = {}
CHECK_DEADLOCK FALSE
INVARIANTS
  SupportedStarts
  DoctorPredicts
  WalksExact
PROPERTIES
  VerdictsTrue
