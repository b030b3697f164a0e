CONSTANTS
    plant = plant
    ghost = ghost
    hidden = hidden
    e1 = e1
    e2 = e2
    phantom = phantom
    Tags = {plant}
    Ghosts = {ghost}
    Hidden = {hidden}
    Sources <- MCSources
    Phantoms = {phantom}
    MaxFindings = 2
    MaxCites = 5
    MaxChecks = 2
    SampleSize = 1
    Sheets <- MCSheets
    Documents <- MCDocuments
    Questions <- MCQuestions
    MaxScore = 2
    K = 2
    MaxVerdicts = 2
    Deviations <- MCDeviations
    Expected = {"No Flow", "More Flow"}
    Gold = {"No Flow", "Reverse Flow"}
    Times = {9, 10, 11}
    Target = 10
    Trials = 2
    PerTrial = 2
SPECIFICATION MCSpec
SYMMETRY MCSymmetry
CHECK_DEADLOCK FALSE
INVARIANTS NothingLost FindingsAreEarned AuditAgreesWithGate KnowledgeIsCurated ScorecardIsHonest
