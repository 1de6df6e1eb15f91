SPECIFICATION Spec
SYMMETRY Symmetry
CONSTANTS
  r1 = r1
  r2 = r2
  m1 = m1
  m2 = m2
  NoModel = NoModel
  Rows = {r1, r2}
  Models = {m1, m2}
  Dims = {1, 2}
  MaxSwaps = 1
INVARIANT
  FullRunAccepted
