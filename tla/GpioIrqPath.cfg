CONSTANTS
  BeyondBlock = BeyondBlock
  Users = {u1}
  Worker = Worker
  Nobody = Nobody
  CaptureCap = 4
  BulkCap = 4
  Msecs = {}
  ReadCounts = {1, 2}
  NoEvent = NoEvent
  Stale = Stale
  MaxEvents = 6
SPECIFICATION Spec
INVARIANTS BacklogIsMerges
PROPERTIES StreamSpec
