SPECIFICATION FairSpec
CONSTANTS
  Accounts = {a1}
  Stored = {a1}
  Scoped = {}
  Requests = {r1, r2}
  Models = {m1}
  Preferred = {}
  ParityOn = FALSE
  ShadowOn = TRUE
  CacheFirst = FALSE
  Known = FALSE
  Resets = {"none", "future"}
  MaxIssued = 2
  MaxReloads = 1
  MaxFaults = 1
  Anthropic = {r1}
  WithSession = {}
  Errors = {"model"}
  MaxRetries = 1
INVARIANTS SingleFlight GrantedFresh
PROPERTY EveryRequestEnds
