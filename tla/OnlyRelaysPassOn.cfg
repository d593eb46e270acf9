SPECIFICATION Spec
CONSTANTS
    compP = compP
    compQ = compQ
    compT = compT
    compU = compU
    compS = compS
    compR = compR
    compV = compV
    portIn = portIn
    portOut = portOut
    groupF = groupF
    nameA = nameA
    nameB = nameB
    errBad = errBad
    nameOdd = nameOdd
    Instances <- ReceiverBetween
    NoSub = NoSub
    NoEnd = NoEnd
    NotGroup = NotGroup
    NoClassifier = NoClassifier
    MaxTraceDepth = 2
INVARIANT
    OnlyRelaysPassOn
