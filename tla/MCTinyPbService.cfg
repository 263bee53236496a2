CONSTANTS
  Threads = {t1, t2}
  Values = {1, 2}
  INT64_MIN <- Lowest
  INT64_MAX <- Highest
  MaxRecords = 2
  Dot = 4
  Unknown <- MCUnknown
  Requests <- MCRequests
  Methods <- MCMethods
  Registered <- MCRegistered
  Parses <- MCParses
  MaxRequests = 2
SPECIFICATION ServiceSpec
SYMMETRY ThreadSymmetry
INVARIANTS ServiceSound RightReply RequestsCounted Extremes ScrapeCovers
