SPECIFICATION Spec
CONSTANTS
  d1 = d1
  v1 = v1
  v2 = v2
  s1 = s1
  s2 = s2
  Datasets = {d1}
  Versions = {v1, v2}
  DatasetOf <- OneDataset
  Semantics = {s1, s2}
  Accepts <- AcceptsOld
  Released = {v1}
  Requests = {q1, q2, q3}
  MaxMoves = 2
  NoVersion = NoVersion
  NoSemantic = NoSemantic
SYMMETRY RequestSymmetry
INVARIANTS TypeOK ServedWasReleased
PROPERTY ReleasedStaysLocked
