SPECIFICATION Spec
CONSTANTS
  k1 = k1
  k2 = k2
  k3 = k3
  Keys <- MCKeys
  MaxRetry <- MCMaxRetry
  FindTime <- MCFindTime
  Idle = 2
  RingSize = 4
  MaxEntries = 2
  EvictDivisor = 2
  Epoch = 3
  MaxTime = 9
INVARIANTS
  TypeOK
  MemoryBounded
  RingHoldsNewest
PROPERTIES
  ImplementsSlidingWindow
  SweepSparesUnwrapped
