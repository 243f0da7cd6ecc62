SPECIFICATION Spec
CONSTANTS
    Markets = {a, b}
    LaneBatches = 2
    AllBatches = 2
    ReplayGroups = 2
    ReplayBytes = 5
    Charge = 3
    Release = 2
    Slots = 2
    MaxGroups = 4
    MaxPauses = 1
    MayFail = TRUE
SYMMETRY Interchangeable
CHECK_DEADLOCK FALSE
INVARIANTS
    BudgetsBalance
    DurablePrefix
    
    
PROPERTIES
    RefusedOnlyByFailure
