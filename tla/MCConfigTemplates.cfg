CONSTANTS
  Request = {r1, r2}
  Section = {"template"}
  MaxRows = 2
  MaxSaves = 2
SPECIFICATION Spec
INVARIANTS BrokenNeverApproved
