CONSTANTS
    N = 5
    MaxWorkers = 3
    Sheets <- MCSheets
    Pages = {1, 2}
    Readings <- MCReadings
SPECIFICATION MCSpec
CHECK_DEADLOCK FALSE
INVARIANTS AnswerIsSerial NothingRunsOn DrawingIsKept OrientationIsJustified
PROPERTIES CallReturns OrientationEnds
