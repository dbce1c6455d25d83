CONSTANTS
  u1 = u1
  u2 = u2
  btn5 = btn5
  rockerN = rockerN
  rockerE = rockerE
  btn = btn
  rocker = rocker
  Lines = {btn5}
  Handlers = {btn}
  HandlerOf <- HandlerOf1
  Users = {u1}
  FaultyUsers = {}
  Worker = Worker
  Nobody = Nobody
  CaptureCap = 2
  BulkCap = 4
  ReadCounts = {1}
  MaxEvents = 3
SPECIFICATION Spec
INVARIANTS ReadPulls
