CONSTANTS
    Width = 2
    Prefixes <- PrefixesDef
    BanNets <- NetsDef
    MaxTtl = 2
    MaxTime = 3
    MaxFaults = 2
SPECIFICATION Spec
INVARIANTS InForce UnbanLifts
PROPERTY ComesUp
