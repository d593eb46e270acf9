SPECIFICATION Spec
CONSTANTS
    t1 = t1
    t2 = t2
    Files = {f1, f2}
    Texts <- MCTexts
    Nothing = Nothing
    MaxOps = 6
    MaxQueue = 3
CHECK_DEADLOCK FALSE
INVARIANT OpenDocumentsKept
