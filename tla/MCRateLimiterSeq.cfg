CONSTANTS
  Threads = {t1}
  NoThread = NoThread
  Permits = {1, 2}
  InitialRate = 3
  Rates = {}
  NoRate = NoRate
  TopRate = 3
  PerSecond = 2
  MaxClock = 6
  MaxSets = 0
SPECIFICATION Spec
PROPERTIES RefinesTokenBucket
