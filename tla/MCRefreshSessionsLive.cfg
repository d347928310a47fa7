CONSTANTS
  None = None
  Token = {k1, k2}
  Password = {p1}
  Request = {r1, r2}
SPECIFICATION FairSpec
PROPERTIES RequestsEnd
