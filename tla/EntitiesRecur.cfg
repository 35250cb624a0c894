\* The same sources: what a version's return does to a merged entity.
SPECIFICATION Spec
CONSTANTS
  a = a  b = b  x = x  y = y  z = z  v1 = v1  v2 = v2  w = w
  NoVersion = NoVersion  Blank = Blank  NoVec = NoVec
  Sources = {a, b}
  Versions = {v1, v2, w}
  Names = {x, y, z}
  Extractable <- TwoSources
  MaxPublications = 3
  MaxItems = 1
INVARIANT EvidenceOfEveryMember
SYMMETRY LocalNames
