CONSTANTS
  Calls = {c1, c2}
  NoCall = NoCall
  FailureThreshold = 1
  SuccessThreshold = 1
  Timeout = 2
SPECIFICATION FairSpec
PROPERTIES OpenLastsTimeout
