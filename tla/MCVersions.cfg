CONSTANTS
  s1 = s1
  s2 = s2
  s3 = s3
  branch = branch
  dept = dept
  y1 = y1
  None = None
  Scheme <- MCScheme
  Series <- MCSeries
  SeriesOf <- MCSeriesOf
  Fallback <- MCFallback
  Pattern <- MCPattern
  Periodic <- MCPeriodic
  Dated <- MCDated
  Date <- MCDate
  Reservable <- MCReservable
  Installed <- MCInstalled
  Allocator = {a1}
  Activator = {x1, x2, x3}
  Reserver = {}
  MaxPerTx = 1
SPECIFICATION Spec
INVARIANTS AllocatedIsFrozen
PROPERTIES SeriesStaysNumbered
