CONSTANTS
  BeyondBlock = BeyondBlock
  Users = {u1}
  Worker = Worker
  Nobody = Nobody
  CaptureCap = 4
  BulkCap = 2
  Msecs = {}
  ReadCounts = {1}
  NoEvent = NoEvent
  Stale = Stale
  MaxEvents = 5
SPECIFICATION Spec
INVARIANTS PushedWasObtained
