SPECIFICATION CatchUpSpec
CONSTANTS
    NumTurns = 6
    Size <- MixedSizes
    BatchTurns = 2
    InlineTurns = 1
    InlineChars = 2
    MaxPrefill = 2
    RepairLimit = 1
    Modes = {"full", "shallow"}
INVARIANTS
    WatermarkIsPrefix
    NeverOfferedTwice
    NoSilentTruncation
    CallBudget
    ModeIsolated
    DeliveredCostIsExact
PROPERTIES
    ImplementsLedger
    RunTerminates
    CatchUp
