CONSTANTS
    Terms <- MCTerms
    NoNode <- MCNoNode
    Graphs <- MCGraphs
    MaxRequests = 3
    Labellings <- MCLabellings
SPECIFICATION Spec
INVARIANTS
    TypeOK
    ForestInv
    ClassesMonochrome
    UseListsCover
    TableFresh
    Sound
PROPERTIES
    PropagateReturns
    ImplementsCongruence
    EqualitiesKept
