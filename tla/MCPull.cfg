SPECIFICATION Spec
CONSTANTS
  Entries = {a, b}
  Runners = {r1, r2}
  Refresh = 2
  Timeout = 5
  Gap = 1
  MaxLag = 1
  MaxVersion = 2
  MaxClock = 8
  MaxFaults = 1
SYMMETRY Symmetric
INVARIANTS
  HoldsRecord
  Heals
  DrainsWithinADay
