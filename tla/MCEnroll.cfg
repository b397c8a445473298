SPECIFICATION Spec
CONSTANTS
    Runners = {r1}
    MaxKeys = 9
    MaxFaults = 3
    MaxEdits = 2
INVARIANT KeyIsOurs
INVARIANT FewGhosts
INVARIANT WrittenAtomically
PROPERTY NeverInALoop
PROPERTY EnrollsInTheEnd
