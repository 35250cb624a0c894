\* Two processes share one schedule and crash or are refused up to three times; claims
\* end within their lease.  Job records and keys are recycled once nothing refers to them.
SPECIFICATION FairSpec
CONSTANTS
  p1 = p1  p2 = p2  j1 = j1  j2 = j2  j3 = j3  k1 = k1  k2 = k2  k3 = k3  k4 = k4
  NoKey = NoKey  NoJob = NoJob  NoOwner = NoOwner
  Procs = {p1, p2}
  Jobs = {j1, j2}
  Keys = {k1, k2, k3}
  Interval = 2
  Lease = 1
  MaxFaults = 3
  Timely = TRUE
INVARIANTS OneActiveJob PreviousVersionIsOlder OutcomeOfLastJob DeletedScheduleCancels
PROPERTY DueRunHappens
