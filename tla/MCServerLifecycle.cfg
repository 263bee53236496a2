CONSTANTS
  c1 = c1
  c2 = c2
  Conns <- MCConns
  Handlers = {h1, h2}
  Owner = owner
  NoThread = nobody
  NoConn = none
  MaxConnections = 1
  MaxRequests <- MCMaxRequests
  MaxReports = 1
SPECIFICATION FairSpec
INVARIANTS EntriesSound NoUseAfterFree UnboundLast ConnLimit
PROPERTIES WaitedNotRefused Answered StopReturns
