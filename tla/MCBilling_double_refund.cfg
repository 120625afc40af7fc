SPECIFICATION Spec
CONSTANTS
  Requests = {r1}
  Profiles <- SubscriptionProfiles
  Actuals = {1}
  ReserveTargets = {3}
  Fees = {1}
  InitWallet = 4
  InitToken = 5
  TokenUnlimited = FALSE
  TrustQuota = 3
  SubTotal = 3
  FaultPoints = {"recordSave"}
  MaxFaults = 1
  MaxCrashes = 0
INVARIANT NoOverRefund
