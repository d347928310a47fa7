CONSTANTS
  wa = wa
  sms = sms
  email = email
  None = None
  Channel <- MCChannel
  RuleChannels <- MCOneChannel
  FallbackOrder <- MCFallbackOrder
  Reachable <- MCNoSms
  Address <- MCAddress
  Worker = {w1, w2}
  MaxAttempts = 2
  MaxTries = 3
  MaxFaults = 1
  MaxRetries = 1
SPECIFICATION FairSpec
PROPERTIES EveryDeliverySettles
