\* One node, one Gemini video, one fetch by its user.
CONSTANTS
  Tasks = {1}
  Pollers = {p1}
  Suno = {}
  Realtime = {1}
  Legacy = {}
  PreQuotas = {2}
  Quotas = {2}
  Costs = {0}
  Timeouts = TRUE
  QueryLimit = 1
  SweepLimit = 1
  FaultPoints = {}
  MaxFaults = 0
  MaxCrashes = 0
  MaxFetches = 1
  MaxOrphans = 0
SPECIFICATION Spec
INVARIANT BilledAsFinished
