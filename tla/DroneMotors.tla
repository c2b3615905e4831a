----------------------------- MODULE DroneMotors -----------------------------
(***************************************************************************)
(* The motor controller, src/src/drone_mc_controller.c: four ESCs driven   *)
(* by PWM pulses, an all-motor command (motors_set_all) and the mixing of  *)
(* a stick packet into four commands (motors_set_from_rc), which ramps the *)
(* throttle, limits its own rate and skips a pulse it believes is already  *)
(* set.                                                                    *)
(*                                                                         *)
(* Every time is counted in ticks of the model's clock; a .cfg says how    *)
(* long a tick is.  pwm_set() may fail: PwmOutcomes holds the sets of      *)
(* channels that can work during one call; it is {Motor} when the PWM is   *)
(* taken to be reliable.                                                   *)
(***************************************************************************)
EXTENDS RcPackage, FiniteSets

CONSTANTS
    MOTOR_THROTTLE_MAX,  \* throttle (%) of a fully raised stick
    MOTOR_MIXING_MAX,    \* correction (%) of a fully deflected axis
    RAMP_UP,             \* throttle may rise by this much per update (%)
    RAMP_DOWN,           \* and fall by this much
    ESC_PERIOD_MS,       \* least time between two updates, in ticks
    PwmOutcomes          \* sets of channels pwm_set can succeed on

Motor == {"FL", "FR", "RL", "RR"}

\* The order of the loops over the channels 0 .. NUM_MOTORS-1.
Channel == <<"FL", "FR", "RL", "RR">>

ASSUME MotorAssumption ==
    /\ MOTOR_THROTTLE_MAX \in 0..100
    /\ MOTOR_MIXING_MAX \in 0..100
    /\ RAMP_UP \in Nat /\ RAMP_DOWN \in Nat
    /\ ESC_PERIOD_MS \in Nat \ {0}
    /\ PwmOutcomes \subseteq SUBSET Motor

VARIABLES
    pulse,            \* pulse width (us) each channel emits, 0 before any
    last_pct,         \* last_pct[]: what mixing last asked of each motor
    throttle_smooth,  \* the ramped throttle
    update_age        \* time since last_update_ms, at most ESC_PERIOD_MS

motorVars == <<pulse, last_pct, throttle_smooth, update_age>>

-----------------------------------------------------------------------------
\* motor_set_throttle: a percentage as a pulse of 1000 .. 2000 us.
PulseOf(percent) == 1000 + 10 * Clamp(0, percent, 100)

\* The pulses p after the commands cmd, a percentage for some of the motors,
\* of which the channels in ok obey.
Commanded(p, cmd, ok) ==
    [m \in Motor |-> IF m \in DOMAIN cmd \cap ok THEN PulseOf(cmd[m]) ELSE p[m]]

\* The same command for every motor.
Everywhere(percent) == [m \in Motor |-> percent]

\* motors_set_all: every channel is written even if an earlier one failed, and
\* mixing keeps its last_pct.
motors_set_all(percent) ==
    /\ \E ok \in PwmOutcomes : pulse' = Commanded(pulse, Everywhere(percent), ok)
    /\ UNCHANGED <<last_pct, throttle_smooth, update_age>>

\* The channels esc_arm_all reaches: it stops at the first that fails.
Reached(ok) == {Channel[i] : i \in {n \in 1..4 : \A j \in 1..n : Channel[j] \in ok}}

\* esc_arm_all: minimum pulse on every channel reached; it worked iff all were.
esc_arm_all(ok) ==
    /\ pulse' = Commanded(pulse, [m \in Reached(ok) |-> 0], ok)
    /\ UNCHANGED <<last_pct, throttle_smooth, update_age>>

-----------------------------------------------------------------------------
\* A stick's deflection as a correction of -MIXING_MAX .. MIXING_MAX percent.
Deflection(v) == CDiv((v - RC_CENTER) * MOTOR_MIXING_MAX, RC_MAX \div 2)

\* A faulty variant: the last step of the ramp is a whole one.
RampOvershoots(smooth, y_left) ==
    LET target == CDiv(y_left * MOTOR_THROTTLE_MAX, RC_MAX)
    IN  IF smooth = target THEN smooth
        ELSE IF smooth < target THEN smooth + RAMP_UP ELSE smooth - RAMP_DOWN

\* The throttle one update later: towards the stick, no faster than the ramp.
Ramped(smooth, y_left) ==
    smooth + Clamp(-RAMP_DOWN, CDiv(y_left * MOTOR_THROTTLE_MAX, RC_MAX) - smooth, RAMP_UP)

Signed(plus, m, v) == IF m \in plus THEN v ELSE -v

\* A faulty variant: the yaw of the left pair is inverted.
MixYawInverted(throttle, rc) ==
    [m \in Motor |-> throttle + Signed({"FL", "FR"}, m, Deflection(rc.y_right))
                              + Signed({"FL", "RL"}, m, Deflection(rc.x_right))
                              + Signed({"FL", "FR"}, m, Deflection(rc.x_left))]

\* X-frame mixing: pitch lifts the front, roll the left, yaw the CW motors.
Mix(throttle, rc) ==
    [m \in Motor |-> throttle + Signed({"FL", "FR"}, m, Deflection(rc.y_right))
                              + Signed({"FL", "RL"}, m, Deflection(rc.x_right))
                              + Signed({"FR", "RL"}, m, Deflection(rc.x_left))]

\* A faulty variant: the cast to uint8_t without the limits before it.
PercentagesUnlimited(throttle, rc) == [m \in Motor |-> Mix(throttle, rc)[m] % 256]

\* The percentages the mixer asks for.
Percentages(throttle, rc) ==
    [m \in Motor |-> Clamp(0, Mix(throttle, rc)[m], 100)]

\* A faulty variant: the reset leaves last_pct as it was.
MixerResetKeepsCache ==
    /\ UNCHANGED last_pct
    /\ throttle_smooth' = 0
    /\ update_age' = ESC_PERIOD_MS
    /\ \E ok \in PwmOutcomes : pulse' = Commanded(pulse, Everywhere(0), ok)

\* The branch of motors_set_from_rc for an inactive packet: everything off.
MixerReset ==
    /\ last_pct' = Everywhere(0)
    /\ throttle_smooth' = 0
    /\ update_age' = ESC_PERIOD_MS
    /\ \E ok \in PwmOutcomes : pulse' = Commanded(pulse, Everywhere(0), ok)

\* A call less than one ESC period after the last update changes nothing.
MixerTooSoon == update_age < ESC_PERIOD_MS /\ UNCHANGED motorVars

\* A faulty variant: updates are not limited to one per ESC period.
MixerUpdateUnlimited(rc) ==
    /\ update_age' = 0
    /\ throttle_smooth' = Ramped(throttle_smooth, rc.y_left)
    /\ last_pct' = Percentages(throttle_smooth', rc)
    /\ \E ok \in PwmOutcomes : pulse' = Commanded(pulse, last_pct', ok)

\* An update: ramp, mix, and write the channels whose percentage changed.
\* last_pct takes the new value whether or not the write succeeds.
MixerUpdate(rc) ==
    /\ update_age >= ESC_PERIOD_MS
    /\ update_age' = 0
    /\ throttle_smooth' = Ramped(throttle_smooth, rc.y_left)
    /\ last_pct' = Percentages(throttle_smooth', rc)
    /\ LET changed == {m \in Motor : last_pct'[m] # last_pct[m]}
       IN  \E ok \in PwmOutcomes :
              pulse' = Commanded(pulse, [m \in changed |-> last_pct'[m]], ok)

motors_set_from_rc(rc) ==
    \/ ~rc.drone_active /\ MixerReset
    \/ rc.drone_active /\ MixerTooSoon
    \/ rc.drone_active /\ MixerUpdate(rc)

-----------------------------------------------------------------------------
\* Power-up.  last_update_ms is 0, long ago when the first update comes: the
\* ESCs are armed for three seconds first.
MotorInit ==
    /\ pulse = [m \in Motor |-> 0]
    /\ last_pct = [m \in Motor |-> 0]
    /\ throttle_smooth = 0
    /\ update_age = ESC_PERIOD_MS

\* One tick of the clock, as the motor controller sees it.
MotorElapse ==
    /\ update_age' = Older(update_age, ESC_PERIOD_MS)
    /\ UNCHANGED <<pulse, last_pct, throttle_smooth>>

-----------------------------------------------------------------------------
\* Every channel is silent or emits a legal pulse.
MotorTypeOK ==
    /\ pulse \in [Motor -> {0} \cup 1000..2000]
    /\ last_pct \in [Motor -> 0..100]
    /\ throttle_smooth \in Int
    /\ update_age \in 0..ESC_PERIOD_MS

\* No motor turns.
MotorsIdle == \A m \in Motor : pulse[m] <= 1000

\* Every motor turns at the same percentage.
AllAt(percent) == \A m \in Motor : pulse[m] = PulseOf(percent)
=============================================================================
