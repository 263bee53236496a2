CONSTANTS
  s1 = s1
  s2 = s2
  p1 = p1
  p2 = p2
  Servers = {s1}
  Procs = {p1}
  Host <- Alone
  Beats = {1, 2}
  TTL = 3
  Interval = 1
  Faults = {"loss", "listen"}
  MaxCrashes = 1
  MaxMissed = 1
  MaxLeases = 2
SPECIFICATION FairSpec
INVARIANTS TypeOK Discoverable
PROPERTIES GoneDisappears
