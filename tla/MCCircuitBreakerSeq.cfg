CONSTANTS
  Calls = {c1}
  NoCall = NoCall
  FailureThreshold = 3
  SuccessThreshold = 2
  Timeout = 3
SPECIFICATION Spec
PROPERTIES RefinesContract OpenLastsTimeout
