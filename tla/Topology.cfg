CONSTANTS
    t1 = t1
    t2 = t2
    t3 = t3
    Tags <- MCTags
    MaxEdges = 3
    Cutoff = 2
    Nodes <- MCNodes
SPECIFICATION AskSpec
SYMMETRY MCSymmetry
CHECK_DEADLOCK FALSE
INVARIANTS CreditIsExact BoundaryIsExact SafeguardsAreEarned
