\* Two submissions to one process that may crash at any moment: every job and
\* every cancellation is carried through under FairSpec.
SPECIFICATION FairSpec
CONSTANTS
  m1 = m1  m2 = m2  w1 = w1  w2 = w2  k1 = k1  c1 = c1
  NoKey = NoKey
  Owner <- OneManager
  Managers = {m1}
  Slots = {w1}
  MaxJobs = 2
  Keys = {k1}
  Commands = {c1}
  Workers = 1
  MaxActive = 2
  HistoryLimit = 1
  MaxAttempts = 2
  AttemptBudget = 1
  Window = 1
  Lease = 1
  CommandTTL = 2
  Backoff = 1
  Timely = FALSE
INVARIANTS TypeOK PayloadWhileActive KeyIdentifiesJob
PROPERTIES  EveryJobSettles CancelTakesEffect
