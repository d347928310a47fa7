CONSTANTS
  None = None
  Token = {k1, k2}
  Password = {p1, p2}
  Request = {r1, r2}
SPECIFICATION Spec
PROPERTIES PatchOnlySetsItsFields
