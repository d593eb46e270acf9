SPECIFICATION FairSpec
CONSTANTS
    compP = compP
    compQ = compQ
    compT = compT
    compU = compU
    compS = compS
    compR = compR
    compV = compV
    portIn = portIn
    portOut = portOut
    groupF = groupF
    nameA = nameA
    nameB = nameB
    errBad = errBad
    nameOdd = nameOdd
    Instances <- MCInstances
    NoSub = NoSub
    NoEnd = NoEnd
    NotGroup = NotGroup
    NoClassifier = NoClassifier
    MaxTraceDepth = 2
INVARIANTS
    TypeOK
    EndToEnd
    CleanInstancesConnected
    ChainsComplete
    ViaOnTheWay
    ReachabilityExact
    DeadTriggersRight
PROPERTY
    PassesFinish
