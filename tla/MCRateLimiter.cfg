CONSTANTS
  Threads = {t1, t2}
  NoThread = NoThread
  Permits = {1}
  InitialRate = 2
  Rates = {0, 1}
  NoRate = NoRate
  TopRate = 2
  PerSecond = 2
  MaxClock = 2
  MaxSets = 1
SYMMETRY ThreadSymmetry
SPECIFICATION Spec
INVARIANTS CreditBound AdmissionBound
