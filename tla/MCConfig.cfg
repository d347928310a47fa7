CONSTANTS
  Request = {r1, r2}
  Section <- AllSections
  MaxRows = 3
  MaxSaves = 3
SYMMETRY Symmetry
SPECIFICATION Spec
INVARIANTS AnnouncedOnce
PROPERTIES SeriesStaysInForce
