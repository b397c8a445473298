SPECIFICATION Spec
CONSTANTS
    Runners = {r1, r2}
    MaxKeys = 3
    MaxFaults = 0
    MaxEdits = 0
INVARIANT WrittenAtomically
