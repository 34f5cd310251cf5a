CONSTANTS
    HALF = 4
    DEAD = 2
    Texts <- MCTexts
    LiftValues <- MCLiftValues
    Stored <- MCStored
    OSM_SUPPORT = 4
    MIN_SPEED = 2
    MAX_SPEED = 5
    VERSION_BREAK = 1
    TRIES = 2
    LOG_RECORDS = 4
    LOG_ERR_MAX = 3
    UP_RECORDS = 2
    UP_TRIES = 3
SPECIFICATION Spec
INVARIANTS
    WriteReadAgree
    RaisesKnown
    LogIntact
    UpgradeWhole
PROPERTIES
    GuardsHold
    ClosedForGood
    BudgetShrinks
    CallsEnd
