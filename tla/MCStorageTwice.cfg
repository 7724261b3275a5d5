SPECIFICATION Spec
CONSTANTS
  BlockLimit = 2
  BloomBits = 8
  Probes = 2
  Keys = {1, 2}
  Batches <- PutsAndDeletes
  Handles = {h1, h2}
  MemLimit = 2
  L0Trigger = 2
  LevelBase = 1
  LevelMultiplier = 2
  TargetTable = 2
  MaxSeq = 6
  MaxCrashes = 2
PROPERTY IsVersionedMap
