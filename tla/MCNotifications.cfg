CONSTANTS
  wa = wa
  sms = sms
  email = email
  None = None
  Channel <- MCChannel
  RuleChannels <- MCRuleChannels
  FallbackOrder <- MCFallbackOrder
  Reachable <- MCReachable
  Address <- MCAddress
  Worker = {w1, w2}
  MaxAttempts = 2
  MaxTries = 2
  MaxFaults = 1
  MaxRetries = 0
SYMMETRY Symmetry
SPECIFICATION Spec
INVARIANTS TypeOK SentWasAccepted PendingHasJob
PROPERTIES PromiseKept
