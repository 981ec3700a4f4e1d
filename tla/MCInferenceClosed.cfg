CONSTANTS
    Terms <- MCTerms
    NoNode <- MCNoNode
    Graphs <- MCGraphs
    MaxRequests = 8
    Labellings = {}
    Cutoffs = {0, 1, 2}
SPECIFICATION Spec
INVARIANTS
    CongruenceWhenDone
