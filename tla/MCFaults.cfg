\* As MCDroneFsm.cfg, with level sticks and a PWM whose channels may fail.
SPECIFICATION Spec
CONSTANTS
    RC_MAX = 4
    RC_CENTER = 2
    MOTOR_THROTTLE_MAX = 4
    MOTOR_MIXING_MAX = 2
    RAMP_UP = 4
    RAMP_DOWN = 5
    ESC_PERIOD_MS = 2
    PwmOutcomes <- SomeOutcomes
    ARM_CONFIRM_MS = 2
    FAILSAFE_TIMEOUT_MS = 3
    LANDING_STEP_MS = 2
    LANDING_STEP_PCT = 2
    FAILSAFE_HOLD_PCT = 3
    THROTTLE_FLY_THRESHOLD = 1
    MPU9250_LOOP_MS = 1
    MAX_STALL_MS = 2
    STATE_AGE_MAX = 3
    RcPackets <- LevelPackets
PROPERTIES
    OnlyFlightSpinsUp
    GroundedMotorsStop
