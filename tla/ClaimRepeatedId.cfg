SPECIFICATION Spec
CONSTANTS
    Length = 5
    Blanks = {2}
    Sources = {"m1"}
    EventIds = {"e1", "e2", "e3"}
    Targets = {"t1", "t2"}
    Inputs <- RepeatedId
CHECK_DEADLOCK FALSE
INVARIANTS
    BoundActiveDenialVetoed
