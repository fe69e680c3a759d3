SPECIFICATION FairRunSpec
CONSTANTS
    Procs = {"p1"}
    Identities = {"fast"}
    N = 2
    Requests = {{1}, {1, 2}}
    RecordErrors = {}
    FailFast = {"fast"}
    ErrorLimit = 2
    TornWrites = TRUE
    MaxCalls = 2
INVARIANTS
    EveryCallBilledOnce
    CasesCountedOnce
PROPERTIES
    ResumeCompletes
