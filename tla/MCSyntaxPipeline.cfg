SPECIFICATION Spec
CONSTANTS
    A = A
    B = B
    id = id
    semi = semi
    ws = ws
    NodeKinds <- MCNodeKinds
    TokenKinds <- MCTokenKinds
    Trivia = ws
    Sources <- MCSources
    MaxEvents = 6
SYMMETRY KindSymmetry
INVARIANTS
    TypeOK
    LinksSound
    NeverPanics
    TreeAsAsked
    TextInPlace
    ErrorsWhereRaised
