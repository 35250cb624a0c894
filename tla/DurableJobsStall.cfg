\* The same table when an owner stalls past its lease.
SPECIFICATION Spec
CONSTANTS
  m1 = m1  m2 = m2  w1 = w1  w2 = w2  k1 = k1  c1 = c1
  NoKey = NoKey
  Owner <- TwoManagers
  Managers = {m1, m2}
  Slots = {w1, w2}
  MaxJobs = 2
  Keys = {}
  Commands = {c1}
  Workers = 1
  MaxActive = 2
  HistoryLimit = 1
  MaxAttempts = 2
  AttemptBudget = 1
  Window = 1
  Lease = 2
  CommandTTL = 3
  Backoff = 1
  Timely = FALSE
INVARIANT PermitHeldUntilCleanupEnds
SYMMETRY SwapManagers
