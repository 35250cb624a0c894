\* Two processes, three submissions, one permit; every owner renews or settles in time.
SPECIFICATION Spec
CONSTANTS
  m1 = m1  m2 = m2  w1 = w1  w2 = w2  k1 = k1  c1 = c1
  NoKey = NoKey
  Owner <- TwoManagers
  Managers = {m1, m2}
  Slots = {w1, w2}
  MaxJobs = 3
  Keys = {}
  Commands = {c1}
  Workers = 1
  MaxActive = 2
  HistoryLimit = 1
  MaxAttempts = 1
  AttemptBudget = 1
  Window = 1
  Lease = 2
  CommandTTL = 2
  Backoff = 0
  Timely = TRUE
INVARIANT PermitHeldUntilCleanupEnds
PROPERTY PruneOldestFirst
SYMMETRY SwapManagers
