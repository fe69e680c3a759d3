SPECIFICATION Spec
CONSTANTS
    Procs = {"p1", "p2"}
    Identities = {"record", "fast", "continue"}
    N = 3
    Requests = {{1, 2}, {1, 2, 3}}
    RecordErrors = {"record"}
    FailFast = {"fast"}
    ErrorLimit = 2
    TornWrites = FALSE
INVARIANTS
    OneRowPerCheckpoint
    OnlyCompleteIsScored
    InterruptedRunResumes
