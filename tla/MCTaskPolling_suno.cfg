\* One node, one song, one error or crash between the refund and the save.
CONSTANTS
  Tasks = {1}
  Pollers = {p1}
  Suno = {1}
  Realtime = {}
  Legacy = {}
  PreQuotas = {2}
  Quotas = {2}
  Costs = {0}
  Timeouts = TRUE
  QueryLimit = 1
  SweepLimit = 1
  FaultPoints = {"sunoSave"}
  MaxFaults = 1
  MaxCrashes = 0
  MaxFetches = 0
  MaxOrphans = 0
SPECIFICATION Spec
INVARIANT NoOverRefund
