\* A tick is one period of the loop; a pass may start one period late.  The
\* landing takes two steps, the failsafe timeout is longer than a stall.
SPECIFICATION FairSpec
CONSTANTS
    RC_MAX = 4
    RC_CENTER = 2
    MOTOR_THROTTLE_MAX = 8
    MOTOR_MIXING_MAX = 2
    RAMP_UP = 4
    RAMP_DOWN = 5
    ESC_PERIOD_MS = 2
    PwmOutcomes = {{"FL", "FR", "RL", "RR"}}
    ARM_CONFIRM_MS = 3
    FAILSAFE_TIMEOUT_MS = 4
    LANDING_STEP_MS = 2
    LANDING_STEP_PCT = 2
    FAILSAFE_HOLD_PCT = 3
    THROTTLE_FLY_THRESHOLD = 1
    MPU9250_LOOP_MS = 1
    MAX_STALL_MS = 2
    STATE_AGE_MAX = 12
    RcPackets <- RollingPackets
INVARIANTS
    FsmTypeOK
    MotorsIdleOnGround
    DescentTracksThrottle
    ArmedOnlyAfterHold
    DescentPaced
    LossStopsMotors
PROPERTIES
    ImplementsContract
    LandingEnds
