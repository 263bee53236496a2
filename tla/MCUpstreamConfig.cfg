CONSTANTS
  a = a
  b = b
  u1 = u1
  u2 = u2
  Addresses <- MCAddresses
  Names <- MCNames
  MaxFails <- MCMaxFails
  Policies <- MCPolicies
  Endpoints <- MCEndpoints
  Configs <- MCConfigs
  AppServers <- MCAppServers
  NoPolicy = 0
  AppName = u1
  AppWeight = 2
  Mttr = 2
  MaxClock = 2
  MaxChanges = 1
  Tasks = {t1, t2}
  RetryMax = 1
SYMMETRY TaskSymmetry
SPECIFICATION Spec
CHECK_DEADLOCK FALSE
INVARIANTS TypeOK CountsExact BreakerSound ServersKept
INVARIANTS SpinsOnlyForRemoved VirtualNodesFair UpstreamsUndone
PROPERTIES OnlyWhenAllDown
