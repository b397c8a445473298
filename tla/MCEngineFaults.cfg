SPECIFICATION Spec
CONSTANTS
  h1 = h1
  h2 = h2
  h3 = h3
  h4 = h4
  Hosts <- OneHost
  Nets <- OneNet
  ToKey <- OneToKey
  Filters <- OneFilter
  Lines <- OneLine
  Ttls <- OneTtls
  AllowLists <- MCAllowLists
  MaxRetry <- OneMaxRetry
  FindTime <- OneFindTime
  BanTime <- OneBanTime
  Escalates = TRUE
  Factor = 2
  MaxSteps = 5
  MaxBan = 3
  Memory = 2
  MaxTracked = 2
  TrimDivisor = 32
  SweepEvery = 2
  Faults <- MCFaults
  Backends = {"nft", "exec"}
  Epoch = 2
  MaxTime = 5
  MaxLag = 1
  MaxBans = 3
  Enough = 2
INVARIANTS
  TypeOK
  MirrorBacked
PROPERTIES
  NoEarlyReban
  StartsAfresh
  EveryBanCounts
