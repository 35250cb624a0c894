\* Two operations and anonymous ingestions of one source, a second source and direct writes,
\* two attempts under way at once, and one clear for both sources; receipts that expire.
SPECIFICATION Spec
CONSTANTS
  s1 = s1
  s2 = s2
  o1 = o1
  o2 = o2
  p1 = p1
  p2 = p2
  c1 = c1
  c2 = c2
  NoVersion = NoVersion
  Direct = Direct
  NoOp = NoOp
  Sources = {s1, s2}
  Contents = {c1, c2}
  Ops = {o1, o2}
  Target <- OneTarget
  Procs = {p1, p2}
  MaxMarks = 2
  CommandTTL = 1
  ReceiptTTL = 2
SYMMETRY Alike
INVARIANTS OperationCommitsOnce CommitLeavesReceipt ExcerptsOfCurrentVersion GraphOfCurrentVersion
PROPERTY NoResurrection
