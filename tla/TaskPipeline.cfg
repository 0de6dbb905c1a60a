SPECIFICATION PipelineSpec
CONSTANTS
    Vocabulary <- AllPieces
    Offered <- PiecesAt
    Eos <- EosPiece
    None = None
    MaxLocationToken = 5
    MaxNewTokens = 10
    SessionsFail = TRUE
    Requests <- AllRequests
    AllowLocalPaths = TRUE
    MaxReplacements = 1
INVARIANTS
    CacheCoversPrefix
    RegionsAreThoseOfText
    QueuedIsWhatWasAsked
    BadRequestHasCause
    RefusedLeavesNoImage
    DoneIsWhatWasAsked
PROPERTIES
    AcceptedIsInferred
\* The result of the job is the end.
CHECK_DEADLOCK FALSE
