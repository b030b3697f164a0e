CONSTANTS
    Tabs = {tab}
    Items = {pump}
    Faults = {}
    MaxPosts = 1
    MaxEdits = 4
    MaxLoads = 2
SPECIFICATION Spec
CHECK_DEADLOCK FALSE
INVARIANTS SavedLabelsStand
