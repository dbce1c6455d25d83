CONSTANTS
  u1 = u1
  u2 = u2
  btn5 = btn5
  rockerN = rockerN
  rockerE = rockerE
  btn = btn
  rocker = rocker
  Lines = {btn5, rockerN}
  Handlers = {btn, rocker}
  HandlerOf <- HandlerOf2
  Users = {u1}
  FaultyUsers = {}
  Worker = Worker
  Nobody = Nobody
  CaptureCap = 2
  BulkCap = 4
  ReadCounts = {1, 2}
  MaxEvents = 2
SPECIFICATION Spec
PROPERTIES PipelineSpec StreamSpec
