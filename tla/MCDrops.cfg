\* Two characters, two maps, one id per map for two drops.
SPECIFICATION FairDrops
CONSTANTS
  ann = ann  bob = bob  field = field  arena = arena
  None = None
  Looters <- TwoChars
  Maps <- TwoMaps
  FreeMaps <- Arena
  SlowMaps <- Arena
  NumIDs = 1
  MaxDrops = 2
INVARIANTS DropsTypeOK LootedOnce
PROPERTIES DropsStay TimedDropsGo
CHECK_DEADLOCK FALSE
