CONSTANTS
  BeyondBlock = BeyondBlock
  Users = {u1, u2}
  Worker = Worker
  Nobody = Nobody
  CaptureCap = 4
  BulkCap = 4
  Msecs = {500, 1250}
  ReadCounts = {1}
  NoEvent = NoEvent
  Stale = Stale
  MaxEvents = 1
SPECIFICATION FairSpec
INVARIANTS NoLostWakeup PulseAsAsked
PROPERTIES PollsReleased
