SPECIFICATION MCSpec
CONSTANTS
    NumTurns = 3
    Clock <- MCClock
    Bases = {"b1", "b2"}
    Scopes = {"whole", "part"}
    Conditions = {"none", "cond"}
    Stores <- MCStores
    SceneIds = {"s1", "s2"}
    EntityIds = {"e1"}
    Names = {"ann", "bob"}
    FactKeys = {"k1", "k2"}
    Graphs <- MCGraphs
CHECK_DEADLOCK FALSE
INVARIANTS
    LoopIsClosedForm
    CurrentFactIsLatest
    ScenesHoldTheVisibleRows
    ExpiryIsFinal
    FoldedStaysRestated
