CONSTANTS
    d1 = d1
    d2 = d2
    r1 = r1
    r2 = r2
    r3 = r3
    c1 = c1
    c2 = c2
    NoDevice = NoDevice
    NoRun = NoRun
    Devices <- MCDevices
    Runs <- MCRuns
    Calls <- MCCalls
    Card = d1
    Faults = {"spawn", "append", "tear", "crash"}
SPECIFICATION MCSpec
CHECK_DEADLOCK FALSE
INVARIANTS DevicesAreHeld PersistedBeforeVisible RecordedOnce PageTellsTheTruth
PROPERTIES ImplementsLease RunningEnds DeviceComesFree PageComesBack
