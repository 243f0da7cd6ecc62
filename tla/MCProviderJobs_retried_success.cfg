SPECIFICATION Spec
CONSTANTS
  None = None
  NoJob = NoJob
  k1 = k1
  k2 = k2
  r1 = r1
  c1 = c1
  c2 = c2
  t1 = t1
  t2 = t2
  t3 = t3
  t4 = t4
  w1 = w1
  w2 = w2
  history = history
  JobTypes = {history}
  TypeOf <- MCTypeOf
  Capabilities <- EveryType
  JobIds = {1}
  Keys = {k1}
  Requests = {r1}
  Contents = {c1, c2}
  Tokens = {t1, t2, t3}
  Workers = {w1, w2}
  Policies <- NoPolicies
  LeaseDuration = 1
  MaxAttempts = 2
  MaxClock = 3
  Deadlines = {3}
  Disconnects = TRUE
SYMMETRY Symmetry
INVARIANT SucceededRowsRecover
