SPECIFICATION Spec
CONSTANTS
    Vocabulary <- WithMalformed
    Offered <- MalformedAt
    Eos <- EosPiece
    None = None
    MaxLocationToken = 5
    MaxNewTokens = 2
    SessionsFail = FALSE
PROPERTIES
    ThreadReturns
CHECK_DEADLOCK FALSE
