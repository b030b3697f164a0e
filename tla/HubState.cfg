CONSTANTS
    t1 = t1
    t2 = t2
    g1 = g1
    g2 = g2
    w1 = w1
    w2 = w2
    w3 = w3
    None = None
    Threads <- MCThreads
    MaxEdits = 2
    f1 = f1
    f2 = f2
    f3 = f3
    f4 = f4
    Tags <- MCTags
    MaxEdges = 4
    Clients <- MCClients
    Wanted <- MCWanted
    Original <- MCOriginal
    Values = {"todo", "partial", "done"}
    Longer = {"partial"}
    Blocks = 3
    BlockOf <- MCBlockOf
    MaxWriters = 1
    Readers <- MCReaders
    MaxLines = 4
    u1 = u1
    u2 = u2
    u3 = u3
    Base = Base
    Uploads <- MCUploads
    FileName <- MCNames
    MaxClock = 1
    MaxInFlight = 1
SPECIFICATION HubSpec
SYMMETRY MCSymmetry
CHECK_DEADLOCK FALSE
INVARIANTS EditsArePickedUp ServesOnlySound ReadersSeeWhole SummaryIsNeverShort Isolated WorksInPlace
           GraphIsAsDrawn ReachIsExact
PROPERTIES TraceEnds
