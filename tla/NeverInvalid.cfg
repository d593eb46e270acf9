SPECIFICATION Spec
CONSTANTS
    Networks <- NotCovered
    Unit = 6
    MaxU64 = 255
    MaxIter = 6
    Ceiling = 8
INVARIANT NeverInvalid
