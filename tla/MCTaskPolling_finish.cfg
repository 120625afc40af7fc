\* One node polls a song and a Gemini video, one task at a time, while the
\* user fetches the video, a channel is deleted and writes fail.
CONSTANTS
  Tasks = {1, 2}
  Pollers = {p1}
  Suno = {1}
  Realtime = {2}
  Legacy = {}
  PreQuotas = {1}
  Quotas = {2}
  Costs = {3}
  Timeouts = TRUE
  QueryLimit = 1
  SweepLimit = 1
  FaultPoints = {"settle", "bulk"}
  MaxFaults = 1
  MaxCrashes = 0
  MaxFetches = 1
  MaxOrphans = 1
SPECIFICATION FairSpec
INVARIANT BilledUnlessForced
PROPERTY TaskFinishes
