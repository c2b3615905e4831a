\* The instance of MCDroneFsm.cfg, asked about the mixer's cache.
SPECIFICATION Spec
CONSTANTS
    RC_MAX = 4
    RC_CENTER = 2
    MOTOR_THROTTLE_MAX = 8
    MOTOR_MIXING_MAX = 2
    RAMP_UP = 4
    RAMP_DOWN = 5
    ESC_PERIOD_MS = 2
    PwmOutcomes = {{"FL", "FR", "RL", "RR"}}
    ARM_CONFIRM_MS = 3
    FAILSAFE_TIMEOUT_MS = 4
    LANDING_STEP_MS = 2
    LANDING_STEP_PCT = 2
    FAILSAFE_HOLD_PCT = 3
    THROTTLE_FLY_THRESHOLD = 1
    MPU9250_LOOP_MS = 1
    MAX_STALL_MS = 2
    STATE_AGE_MAX = 12
    RcPackets <- RollingPackets
INVARIANT
    UpdateReachesMotors
