CONSTANTS
  Kind = {"TEST_RUN", "QUOTE", "REPORT", "INVOICE", "WORK_ORDER"}
  Numbered = {"QUOTE", "REPORT", "INVOICE"}
  User = {u1, u2}
  System = System
  None = None
  Request = {r1, r2}
  Strict = TRUE
  MaxMoves <- MCMaxMoves
SYMMETRY Symmetry
SPECIFICATION Spec
INVARIANTS TrailIsThePath ReviewedByAnother NumberedOnce JobsMatchTrail
PROPERTIES MovesAreSerial
