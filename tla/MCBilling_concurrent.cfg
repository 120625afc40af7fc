SPECIFICATION Spec
CONSTANTS
  Requests = {r1, r2}
  Profiles <- MixedProfiles
  Actuals = {0, 3}
  ReserveTargets = {3}
  Fees = {1}
  InitWallet = 4
  InitToken = 5
  TokenUnlimited = FALSE
  TrustQuota = 3
  SubTotal = 3
  FaultPoints = {"tokenPre", "fundingPre", "tokenRollback", "reserveFunding", "reserveToken", "reserveRollback", "fundingSettle", "tokenSettle", "fundingRefund", "extraRefund", "tokenRefund", "feeFunding", "feeToken"}
  MaxFaults = 1
  MaxCrashes = 0
SYMMETRY Symmetry
INVARIANTS TypeOK SessionAccounts ChargeMatchesOutcome BooksBalance
