CONSTANTS
  RPC_MAGIC = 7
  SizeLimit = 6
  MaxName = 2
  Methods <- SmallMethods
  Payloads <- SmallPayloads
  HASH = 0
  RetryMax = 1
  MaxRequests = 2
SPECIFICATION FairSpec
INVARIANTS Framing InOnePlace AnswersOwnRequest
PROPERTIES EveryTaskEnds
