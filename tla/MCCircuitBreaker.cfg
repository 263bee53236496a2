CONSTANTS
  Calls = {c1, c2, c3}
  NoCall = NoCall
  FailureThreshold = 2
  SuccessThreshold = 2
  Timeout = 2
SPECIFICATION FairSpec
INVARIANTS TripNeedsThreshold ThresholdTrips ThresholdCloses
PROPERTIES OpenIsProbed
