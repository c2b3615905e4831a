\* Two readings, any of which may fail; the real weights of the attitude's filter.
SPECIFICATION FairImuSpec
CONSTANTS
    CALIB_SAMPLES = 2
    RestWords <- AtRest
    MotionWords <- InMotion
    REST_MIN <- Least
    REST_MAX <- Most
    RestTilts <- Level
    MotionTilts <- Swung
    TILT_REST = 1
    TILT_MAX = 5
    LPF_FADE = 3
INVARIANTS
    ImuTypeOK
    DriftBounded
PROPERTIES
    RestShrinksError
    AttitudeRecovers
