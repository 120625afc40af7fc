SPECIFICATION FairSpec
CONSTANTS
  Requests = {r1}
  Profiles <- AllProfiles
  Actuals = {0, 1, 3}
  ReserveTargets = {3}
  Fees = {1}
  InitWallet = 4
  InitToken = 5
  TokenUnlimited = FALSE
  TrustQuota = 3
  SubTotal = 3
  FaultPoints = {"tokenPre", "fundingPre", "tokenRollback", "reserveFunding", "reserveToken", "reserveRollback", "fundingSettle", "tokenSettle", "fundingRefund", "recordSave", "extraRefund", "tokenRefund", "feeFunding", "feeToken"}
  MaxFaults = 3
  MaxCrashes = 1
INVARIANT NoOverRefundIfSaved
PROPERTY RefundCompletes
