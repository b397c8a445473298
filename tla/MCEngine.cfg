SPECIFICATION Spec
CONSTANTS
  h1 = h1
  h2 = h2
  h3 = h3
  h4 = h4
  Hosts <- MCHosts
  Nets <- MCNets
  ToKey <- MCToKey
  Filters <- MCFilters
  Lines <- MCLines
  Ttls = {}
  AllowLists <- MCAllowLists
  MaxRetry <- MCMaxRetry
  FindTime <- MCFindTime
  BanTime <- MCBanTime
  Escalates = TRUE
  Factor = 2
  MaxSteps = 5
  MaxBan = 3
  Memory = 2
  MaxTracked = 2
  TrimDivisor = 32
  SweepEvery = 2
  Faults = {}
  Backends = {"nft"}
  Epoch = 2
  MaxTime = 4
  MaxLag = 1
  MaxBans = 3
  Enough = 2
INVARIANT
  HistoryBounded
PROPERTIES
  NeverBansAllowed
  NoEarlyReban
  BansEscalate
