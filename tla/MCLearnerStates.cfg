CONSTANTS
    Terms <- MCTerms
    NoNode <- MCNoNode
    Graphs <- MCGraphs
    MaxRequests = 7
    Labellings = {}
    Cutoffs = {0, 1, 2}
    Tests = {}
SPECIFICATION LSpec
INVARIANTS
    ClassesHaveStates
