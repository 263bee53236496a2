CONSTANTS
  Calls = {c1, c2}
  FailureThreshold = 1
  SuccessThreshold = 1
  Timeout = 1
  MaxBreakers = 2
SPECIFICATION FairSpec
INVARIANTS Accounting ChannelInv CallerInformed
PROPERTIES EveryCallEnds
