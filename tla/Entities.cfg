\* Source a has a version of two entities and one of one, source b one of two; three publications,
\* so that one may be a version's return; merges, deletions, a clear and one embedding in
\* flight in any order.
SPECIFICATION Spec
CONSTANTS
  a = a  b = b  x = x  y = y  z = z  v1 = v1  v2 = v2  w = w
  NoVersion = NoVersion  Blank = Blank  NoVec = NoVec
  Sources = {a, b}
  Versions = {v1, v2, w}
  Names = {x, y, z}
  Extractable <- TwoSources
  MaxPublications = 3
  MaxItems = 1
INVARIANTS EvidenceIsCurrent NothingOrphaned AssertionsSurvive SummaryIsCurrent SoundWithoutRecurrence
SYMMETRY LocalNames
