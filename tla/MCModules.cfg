CONSTANTS
  Value = {a, b}
  Capacity = 4
  Null = Null
  BeyondBlock = BeyondBlock
  Mod2Capacity = 4
  MaxPushes = 14
  W = 16
  MaxElements = 16
  LastPin = 4
  Procs = {p1, p2}
  Nobody = Nobody
  Size = 3
  num_elements = 4
  Fifth = 2
  Readers = {r1, r2}
  MocValues = 4
  MaxCounts = 6
  Cores = 3
  MaxActive = 2
  Writers = {w1, w2}
  MaxWrites = 3
SPECIFICATION ModulesSpec
INVARIANTS FirstLapExact MaskIsRemainder NoStaleUse UnloadReleases OneHolder ReadsCount MisuseNeedsOverlap NothingLeftBehind DataArrives MappingsReleased WaitersAnswered
PROPERTIES QueueSpec LossIsWholeLaps WaitersReturn
CHECK_DEADLOCK FALSE
