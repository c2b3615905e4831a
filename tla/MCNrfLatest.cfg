\* Nothing fails here: two packets between two reads are enough.
SPECIFICATION Spec
CONSTANTS
    FIFO_DEPTH = 3
    MAX_RECEIVED = 3
    SpiMayFail = FALSE
    MayRestart = FALSE
INVARIANT
    LatestPacket
