SPECIFICATION FairSpec
CONSTANTS
    Candidates = {"c1", "c2"}
    EventIds = {"e1", "e2"}
    Targets = {"t1", "t2"}
    Requesters = {"r1", "r2"}
    Replies <- MCReplies
    Absent = Absent
    Checkpoints = 2
    RepairLimit = 1
CHECK_DEADLOCK FALSE
INVARIANTS
    DenialsSurvive
    BoundDenialsEnforced
PROPERTIES
    CheckpointsGetThrough
