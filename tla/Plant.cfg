CONSTANTS
    Drawings <- MCDrawings
    MaxRedefinitions = 2
    MaxHops = 2
    Graphs <- MCGraphs
    LabelOrder <- MCLabelOrder
    Questions <- MCQuestions
    Payloads <- MCPayloads
    BatchSize = 2
    MaxLoads = 2
    Translator = "anthropic"
    QueryHops = 4
    MaxPaths = 2
    RowLimit = 5
SPECIFICATION MCSpec
CHECK_DEADLOCK FALSE
INVARIANTS EdgesAreDrawn ForcedIsImplied EquipmentIsStudiedOnce ProposalsFollowTheRules ViewIsHonest
           StoreHoldsWhatWasLoaded TagsAreNamed AnswerAgreesWithCypher
PROPERTIES OnlySuchMergesLose
