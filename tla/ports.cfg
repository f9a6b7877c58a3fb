SPECIFICATION MCSpec
CONSTANTS
  Scenes = {"ports"}
  UsedSets <- MCUsedSets
  PinnedHosts <- MCPinnedHosts
  Siblings <- MCSiblings
  Binders = {"vm"}
  HostActs = {}
  MaxChanges = 0
  Names = {1}
  Walks = {"ls"}
  Changes = {}
  MaxWalkChanges = 0
CHECK_DEADLOCK FALSE
INVARIANTS
  LowestFree
  AutoBandsDisjoint
