CONSTANTS
  s1 = s1
  branch = branch
  y1 = y1
  y2 = y2
  None = None
  Scheme <- MCScheme
  Series <- MCSeries
  SeriesOf <- MCSeriesOf
  Fallback <- MCFallback
  Pattern <- MCPattern
  Periodic <- MCPeriodic
  Dated <- MCDated
  Date <- MCDate
  Reservable <- MCReservable
  Installed <- MCInstalled
  Allocator = {a1}
  Activator = {}
  Reserver = {r1}
  MaxPerTx = 1
SPECIFICATION Spec

PROPERTIES ReservedAreSkipped
