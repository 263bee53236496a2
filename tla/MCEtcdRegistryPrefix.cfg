CONSTANTS
  s1 = s1
  s2 = s2
  p1 = p1
  p2 = p2
  Servers = {s1, s2}
  Procs = {p1, p2}
  Host <- Apart
  Beats = {1}
  TTL = 2
  Interval = 1
  Faults = {}
  MaxCrashes = 0
  MaxMissed = 0
  MaxLeases = 2
SPECIFICATION FairSpec
INVARIANTS Discoverable
