CONSTANTS
    Drawings <- MCDrawings
    MaxRedefinitions = 0
    MaxHops = 0
    Graphs <- BenchGraphs
    LabelOrder <- BenchLabelOrder
    Questions = {}
    Payloads <- BenchPayloads
    BatchSize = 2
    MaxLoads = 0
    Translator = "local"
    QueryHops = 4
    MaxPaths = 2
    RowLimit = 5
SPECIFICATION BenchSpec
CHECK_DEADLOCK FALSE
INVARIANTS SameNodesSameAnswer
