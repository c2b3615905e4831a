\* The queue of the chip may overflow (5 packets, 3 places); transactions fail
\* and the program restarts anywhere.
SPECIFICATION Spec
CONSTANTS
    FIFO_DEPTH = 3
    MAX_RECEIVED = 5
    SpiMayFail = TRUE
    MayRestart = TRUE
INVARIANTS
    NrfTypeOK
    NothingStranded
PROPERTIES
    NoBacklog
    ImplementsLine
