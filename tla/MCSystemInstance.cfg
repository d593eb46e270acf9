SPECIFICATION FairSpec
CONSTANTS
    rootImpl = rootImpl
    implA = implA
    implB = implB
    subX = subX
    subY = subY
    mode1 = mode1
    mode2 = mode2
    mode3 = mode3
    Impls <- MCImpls
    Root = rootImpl
    Names <- MCNames
    ModeNames <- MCModeNames
    Declarations <- MCDeclarations
    NoImpl = NoImpl
    NoDim = NoDim
    SymbolicDim = SymbolicDim
    MaxDepth = 3
    MaxSoms = 6
INVARIANTS
    TypeOK
    CyclesReported
    LimitMeansRecursion
    UnfoldsRoot
    SomsExact
PROPERTY
    Terminates
