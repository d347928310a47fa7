CONSTANTS
  Doc = {d1, d2, d3}
  Request = {r1, r2}
  None = None
  MaxKeys = 3
  MaxHeads = 2
SYMMETRY Symmetry
SPECIFICATION Spec
INVARIANTS TypeOK IssuedTogether NoIndexConflict
PROPERTIES LogIsAppendOnly StatusMovesForward KeysNeverGoBack
