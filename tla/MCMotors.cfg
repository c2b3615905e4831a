\* The real constants; a tick is 10 ms.  PWM reliable.
SPECIFICATION Spec
CONSTANTS
    RC_MAX = 1023
    RC_CENTER = 512
    MOTOR_THROTTLE_MAX = 80
    MOTOR_MIXING_MAX = 20
    RAMP_UP = 2
    RAMP_DOWN = 5
    ESC_PERIOD_MS = 2
    PwmOutcomes = {{"FL", "FR", "RL", "RR"}}
    AllPercents = {0, 25}
    RcSticks <- Sticks
    WATCH = 24
INVARIANTS
    MotorTypeOK
    RampBounded
    ThrottleLimited
    MixBalanced
    CacheTracksOutput
