SPECIFICATION Spec
CONSTANTS
  Inodes = {1, 2, 3}
  RotateAt = 2
  MaxClock = 2
  SeqJump = 2
  BatchSize = 1
  MaxBans = 3
  MaxFaults = 1
  MaxSeq = 0
  Runners = {r1}
INVARIANT
  NoneEverLost
