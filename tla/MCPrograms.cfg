CONSTANTS
  FinalVal = 2
  Interrupts = TRUE
  MaxStarts = 2
  MaxKeys = 3
  Width = 3
  Pages = 1
  PageRows = 2
  Wrap = 4
  MaxCalls = 2
  MaxMsec = 2
  FirstMsec = 1
  ShortPeriod = 2
  DutyKeys = 7
  Ten = 2
  PipeSize = 1
  PipeKeys = 3
  Writers = {w1, w2}
  Readers = {r1, r2}
  NoFile = NoFile
  LockReaders = {r1}
  MaxVal = 1
  LogThreads = {t1, t2, t3}
  NoLog = NoLog
  Lines = 2
SPECIFICATION ProgramsSpec
INVARIANTS TokensBounded RectIsClipped NothingUnshown OutsideNeedsWrap DriverFollowsMode ChildReadsAll OwnFifoUnlessRobbed ReadsOneState ThreadsAsAsked
PROPERTIES NothingOverwritten ReaderStops ProgramsEnd
CHECK_DEADLOCK FALSE
