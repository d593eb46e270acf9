SPECIFICATION FairSpec
CONSTANTS
    Networks <- MCNetworks
    Unit = 2
    MaxU64 = 255
    MaxIter = 6
    Ceiling = 8
INVARIANTS
    TypeOK
    DivergesForAReason
    DelaysBounded
PROPERTY
    Terminates
