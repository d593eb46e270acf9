SPECIFICATION FairSpec
CONSTANTS
    t1 = t1
    t2 = t2
    Files = {f1, f2}
    Texts <- MCTexts
    Nothing = Nothing
    MaxOps = 4
    MaxQueue = 3
CHECK_DEADLOCK FALSE
INVARIANTS
    ScopeCurrent
    DiagnosticsCurrent
    AnswersFromEditorText
    

    
