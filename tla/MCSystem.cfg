\* A tick is one period of the loop.  The radio and the page may command the
\* drone at the same time; either may fall silent.
SPECIFICATION FairSystemSpec
CONSTANTS
    RC_MAX = 4
    RC_CENTER = 2
    MOTOR_THROTTLE_MAX = 4
    MOTOR_MIXING_MAX = 2
    RAMP_UP = 2
    RAMP_DOWN = 3
    ESC_PERIOD_MS = 2
    PwmOutcomes = {{"FL", "FR", "RL", "RR"}}
    ARM_CONFIRM_MS = 2
    FAILSAFE_TIMEOUT_MS = 4
    LANDING_STEP_MS = 2
    LANDING_STEP_PCT = 2
    FAILSAFE_HOLD_PCT = 3
    THROTTLE_FLY_THRESHOLD = 1
    MPU9250_LOOP_MS = 1
    MAX_STALL_MS = 2
    STATE_AGE_MAX = 4
    RC_STALE_MS = 3
    RC_AGE_MAX = 6
    NrfPackets <- RadioPackets
    Requests <- PagePosts
    RcPackets <- AllPackets
INVARIANTS
    SystemTypeOK
    FlyingIsCommanded
PROPERTIES
    FsmSpec
    SilenceStopsMotors
