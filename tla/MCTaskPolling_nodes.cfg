\* Two nodes poll two video tasks; errors and a crash anywhere.
CONSTANTS
  Tasks = {1, 2}
  Pollers = {p1, p2}
  Suno = {}
  Realtime = {}
  Legacy = {1}
  PreQuotas = {2}
  Quotas = {2}
  Costs = {1}
  Timeouts = TRUE
  QueryLimit = 2
  SweepLimit = 2
  FaultPoints = {"insert", "sweep", "save", "funding", "token"}
  MaxFaults = 1
  MaxCrashes = 1
  MaxFetches = 0
  MaxOrphans = 0
SPECIFICATION Spec
SYMMETRY Symmetry
INVARIANTS TypeOK BilledAsFinished NoOverRefund
PROPERTY FinishedStays
