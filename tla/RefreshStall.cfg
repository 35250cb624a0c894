\* A process may stall: its lease lapses while it still works on its claim.
SPECIFICATION Spec
CONSTANTS
  p1 = p1  p2 = p2  j1 = j1  j2 = j2  j3 = j3  k1 = k1  k2 = k2  k3 = k3  k4 = k4
  NoKey = NoKey  NoJob = NoJob  NoOwner = NoOwner
  Procs = {p1, p2}
  Jobs = {j1, j2, j3}
  Keys = {k1, k2, k3, k4}
  Interval = 2
  Lease = 1
  MaxFaults = 2
  Timely = FALSE
SYMMETRY Processes
INVARIANT OneActiveJob
