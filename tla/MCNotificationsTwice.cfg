CONSTANTS
  wa = wa
  sms = sms
  email = email
  None = None
  Channel <- MCChannel
  RuleChannels <- MCRuleChannels
  FallbackOrder <- MCFallbackOrder
  Reachable <- MCReachable
  Address <- MCAddress
  Worker = {w1, w2}
  MaxAttempts = 1
  MaxTries = 2
  MaxFaults = 0
  MaxRetries = 0
SYMMETRY Symmetry
SPECIFICATION Spec
INVARIANTS ChannelUsedOnce
