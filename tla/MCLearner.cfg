CONSTANTS
    Terms <- MCTerms
    NoNode <- MCNoNode
    Graphs <- MCGraphs
    MaxRequests = 7
    Labellings = {}
    Cutoffs = {0, 1, 2}
    Tests <- MCTests
SPECIFICATION LSpec
INVARIANTS
    OnlyKRootsMerged
    MergedAreDeep
    ExactIfLayered
    OperandsAreQuotient
    UsesMirrorOperands
    RootsVisitedOnce
    MatchIsSound
    MatchIsComplete
    TrainingSetAccepted
    ExactMatchIsUnique
    ExactMatchIsUnspliced
PROPERTIES
    RunEnds
