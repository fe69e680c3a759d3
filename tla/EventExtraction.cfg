SPECIFICATION Spec
CONSTANTS
    NumTurns = 2
    ContextTurns = 1
    Deleted = {2}
    Principals = {"p"}
    Ids = {"s", "e"}
    NoOne = "none"
    Stranger = "nobody"
    FirstReplies <- MCFirst
    LaterReplies <- MCLater
CHECK_DEADLOCK FALSE
INVARIANTS
    RestrictionsAccountedFor
    ContextCreatesNothing
    ReferencesResolve
    DeletionsAreRemembered
