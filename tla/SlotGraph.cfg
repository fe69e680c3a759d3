SPECIFICATION ListSpec
CONSTANTS
    NumChunks = 2
    Versions = {"v", "w"}
    BatchSize = 1
    plan = plan
    ann = ann
    NoOne = NoOne
    Names <- MCNames
    SlotWords = {"room", "date"}
    Replies <- MCReplies
    Questions <- MCQuestions
    TopK = 2
    MaxRelations = 1
INVARIANTS
    NoForeignHistory
    ProcessedWasExtracted
    NamedHistoryIsWhole
    RestrictionsStayReported
