CONSTANTS
    Sheets <- MCSheets
    Pages = {1, 2}
    Readings <- MCReadings
SPECIFICATION Spec
CHECK_DEADLOCK FALSE
INVARIANTS TwinsFlowTogether
