CONSTANTS
  u1 = u1
  u2 = u2
  btn5 = btn5
  rockerN = rockerN
  rockerE = rockerE
  btn = btn
  rocker = rocker
  Lines = {btn5}
  Handlers = {btn}
  HandlerOf <- HandlerOf1
  Users = {u1, u2}
  FaultyUsers = {u2}
  Worker = Worker
  Nobody = Nobody
  CaptureCap = 2
  BulkCap = 4
  ReadCounts = {1, 2}
  MaxEvents = 2
SPECIFICATION Spec
INVARIANTS IInv NoLostWakeup ReadAccounts
