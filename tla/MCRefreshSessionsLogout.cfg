CONSTANTS
  None = None
  Token = {k1, k2, k3}
  Password = {p1}
  Request = {r1, r2}
SPECIFICATION Spec
PROPERTIES LogoutEndsSession
