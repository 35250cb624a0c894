SPECIFICATION Spec
CONSTANTS
  s1 = s1
  s2 = s2
  o1 = o1
  o2 = o2
  p1 = p1
  p2 = p2
  c1 = c1
  c2 = c2
  NoVersion = NoVersion
  Direct = Direct
  NoOp = NoOp
  Sources = {s1}
  Contents = {c1, c2}
  Ops = {o1}
  Target <- SingleTarget
  Procs = {p1, p2}
  MaxMarks = 1
  CommandTTL = 1
  ReceiptTTL = 2
SYMMETRY Attempts
PROPERTY DeletionInvalidatesExtraction
