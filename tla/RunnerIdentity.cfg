SPECIFICATION Spec
CONSTANTS
    Procs = {"p1"}
    Identities = {"record", "fast"}
    N = 2
    Requests = {{1}, {1, 2}}
    RecordErrors = {"record"}
    FailFast = {"fast"}
    ErrorLimit = 2
    TornWrites = FALSE
INVARIANTS
    ResumeProvesEquivalence
