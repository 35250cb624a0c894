\* Two processes compete for one job: leases lapse, processes crash, shut down
\* and restart, storage fails, the client cancels.
SPECIFICATION Spec
CONSTANTS
  m1 = m1  m2 = m2  w1 = w1  w2 = w2  k1 = k1  c1 = c1
  NoKey = NoKey
  Owner <- TwoManagers
  Managers = {m1, m2}
  Slots = {w1, w2}
  MaxJobs = 1
  Keys = {k1}
  Commands = {c1}
  Workers = 1
  MaxActive = 1
  HistoryLimit = 1
  MaxAttempts = 2
  AttemptBudget = 2
  Window = 1
  Lease = 2
  CommandTTL = 4
  Backoff = 1
  Timely = FALSE
INVARIANTS CancelWins AttemptsBounded ResultOfLastAttempt
PROPERTY ImplementsLifecycle
SYMMETRY SwapManagers
