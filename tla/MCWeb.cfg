\* Twelve units: a body of ten, a header of one, and the NUL.
SPECIFICATION FairWebSpec
CONSTANTS
    RC_MAX = 4
    RC_CENTER = 2
    REQ_BUF_SIZE = 12
    RC_STALE_MS = 1
    RC_AGE_MAX = 2
    Posts <- ClientPosts
INVARIANT
    WebTypeOK
PROPERTIES
    ImplementsBox
    ReadsBox
    AnswerStartsServer
    LoopGetsMutex
    ConnectionEnds
    SilenceDisarms
