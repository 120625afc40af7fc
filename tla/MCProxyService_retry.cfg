SPECIFICATION Spec
CONSTANTS
  Accounts = {a1, a2, s1}
  Stored = {a1, a2}
  Scoped = {s1}
  Requests = {r1, r2}
  Models = {m1, m2}
  Preferred = {}
  ParityOn = TRUE
  ShadowOn = FALSE
  CacheFirst = TRUE
  Known = TRUE
  Resets = {"past", "future"}
  MaxIssued = 0
  MaxReloads = 0
  MaxFaults = 0
  Anthropic = {r1}
  WithSession = {r1}
  Errors = {"grace", "limit", "project", "quota"}
  MaxRetries = 2
INVARIANTS TypeOK InScope DistinctAttempts
SYMMETRY ModelSymmetry
