SPECIFICATION Spec
CONSTANTS
  Requests = {r1}
  Profiles <- SubscriptionProfiles
  Actuals = {1}
  ReserveTargets = {3}
  Fees = {1}
  InitWallet = 4
  InitToken = 5
  TokenUnlimited = FALSE
  TrustQuota = 3
  SubTotal = 3
  FaultPoints = {}
  MaxFaults = 0
  MaxCrashes = 0
INVARIANT FeeAfterRefund
