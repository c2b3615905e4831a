------------------------------- MODULE DroneFsm -------------------------------
(***************************************************************************)
(* The flight state machine, src/src/drone_fsm.c: hardware initialisation  *)
(* and the 250 Hz loop that reads the IMU, obtains one RC packet and runs  *)
(* the handler of the current state, which commands the motors.            *)
(*                                                                         *)
(* One pass of the loop is one action.  Between the choice of the packet   *)
(* and the end of the handler the thread never blocks, and nothing of a    *)
(* higher priority shares its state.  The time a pass and its sleep take   *)
(* is spent in Elapse; loop_age, the time since the pass began, may        *)
(* exceed the period of the loop by as much as MAX_STALL_MS allows.        *)
(* k_uptime_get() minus a stored timestamp is an age.                      *)
(***************************************************************************)
EXTENDS DroneMotors

CONSTANTS
    ARM_CONFIRM_MS, FAILSAFE_TIMEOUT_MS, LANDING_STEP_MS,  \* in ticks
    LANDING_STEP_PCT, FAILSAFE_HOLD_PCT,
    THROTTLE_FLY_THRESHOLD,
    MPU9250_LOOP_MS,   \* period of the loop, in ticks
    MAX_STALL_MS,      \* longest time between the starts of two passes
    STATE_AGE_MAX,     \* state_age saturates here
    RcPackets          \* the packets the arbitration can yield

ASSUME FsmAssumption ==
    /\ ARM_CONFIRM_MS \in Nat
    /\ FAILSAFE_TIMEOUT_MS \in Nat
    /\ LANDING_STEP_MS \in Nat \ {0}
    /\ LANDING_STEP_PCT \in 1..100
    /\ FAILSAFE_HOLD_PCT \in 0..100
    /\ THROTTLE_FLY_THRESHOLD \in Nat
    /\ MPU9250_LOOP_MS \in Nat \ {0}
    /\ MAX_STALL_MS \in Nat /\ MPU9250_LOOP_MS <= MAX_STALL_MS
    /\ STATE_AGE_MAX \in Nat
    /\ ARM_CONFIRM_MS <= STATE_AGE_MAX
    /\ FAILSAFE_TIMEOUT_MS <= STATE_AGE_MAX
    /\ RcPackets \subseteq Package

VARIABLES
    current_state,
    state_age,         \* time since state_enter_ms
    landing_throttle,
    landing_age,       \* time since last_landing_step_ms
    pc,                \* where the thread is
    loop_age,          \* time since t_start of the last pass
    i2c_dev,           \* the IMU's bus handle has been set
    http_started       \* the web server's thread has been created

fsmOnly == <<current_state, state_age, landing_throttle, landing_age,
             pc, loop_age, i2c_dev, http_started>>
fsmVars == <<motorVars, fsmOnly>>

State == {"INIT", "IDLE", "ARMING", "ARMED", "FLYING", "FAILSAFE", "LANDING", "ERROR"}

\* The states in which the handler holds every motor at idle.
Grounded == {"IDLE", "ARMING", "ARMED", "ERROR"}

-----------------------------------------------------------------------------
enter_state(next) == current_state' = next /\ state_age' = 0

stay == UNCHANGED <<current_state, state_age>>

noLanding == UNCHANGED <<landing_throttle, landing_age>>

motorsKept == UNCHANGED motorVars

\* The remote is on and the throttle stick at its minimum.
arm_condition(rc) == rc.drone_active /\ rc.y_left <= 0

\* The loop may begin a pass once the period is over; with the bus handle
\* unset the pass does not survive mpu9250_update.
Pass ==
    /\ pc = "loop" /\ i2c_dev /\ loop_age >= MPU9250_LOOP_MS
    /\ loop_age' = 0
    /\ UNCHANGED <<pc, i2c_dev, http_started>>

-----------------------------------------------------------------------------
(* Initialisation *)

FsmInit ==
    /\ MotorInit
    /\ current_state = "INIT"
    /\ state_age = STATE_AGE_MAX
    /\ landing_throttle = 0
    /\ landing_age = LANDING_STEP_MS
    /\ pc = "esc_init"
    /\ loop_age = MPU9250_LOOP_MS
    /\ i2c_dev = FALSE
    /\ http_started = FALSE

\* motor_esc_init fails: the PWM device is not ready, or a channel refused.
EscInitFails ==
    /\ pc = "esc_init"
    /\ \/ motorsKept
       \/ \E ok \in PwmOutcomes : Reached(ok) # Motor /\ esc_arm_all(ok)
    /\ enter_state("ERROR")
    /\ pc' = "loop"
    /\ noLanding
    /\ UNCHANGED <<loop_age, i2c_dev, http_started>>

EscInitWorks ==
    /\ pc = "esc_init"
    /\ \E ok \in PwmOutcomes : Reached(ok) = Motor /\ esc_arm_all(ok)
    /\ pc' = "imu_init"
    /\ stay /\ noLanding
    /\ UNCHANGED <<loop_age, i2c_dev, http_started>>

\* mpu9250_driver_init fails, after it has set the bus handle.
ImuInitFails ==
    /\ pc = "imu_init"
    /\ motors_set_all(0)
    /\ enter_state("ERROR")
    /\ pc' = "loop"
    /\ i2c_dev' = TRUE
    /\ noLanding
    /\ UNCHANGED <<loop_age, http_started>>

ImuInitWorks ==
    /\ pc = "imu_init"
    /\ enter_state("IDLE")
    /\ pc' = "loop"
    /\ i2c_dev' = TRUE
    /\ http_started' = TRUE
    /\ noLanding /\ motorsKept
    /\ UNCHANGED loop_age

-----------------------------------------------------------------------------
(* The handlers, one per state, for the packet of this pass *)

\* A faulty variant: IDLE trusts that whoever entered it stopped the motors.
IdleTrusts(rc) ==
    /\ current_state \in {"INIT", "IDLE"}
    /\ motorsKept /\ noLanding
    /\ \/ arm_condition(rc) /\ enter_state("ARMING")
       \/ ~arm_condition(rc) /\ stay

state_idle(rc) ==
    /\ current_state \in {"INIT", "IDLE"}
    /\ motors_set_all(0)
    /\ noLanding
    /\ \/ arm_condition(rc) /\ enter_state("ARMING")
       \/ ~arm_condition(rc) /\ stay

\* A faulty variant: moving the throttle does not abort the arming.
ArmingIgnoresThrottle(rc) ==
    /\ current_state = "ARMING"
    /\ motors_set_all(0)
    /\ noLanding
    /\ \/ ~rc.drone_active /\ enter_state("IDLE")
       \/ rc.drone_active /\ state_age >= ARM_CONFIRM_MS /\ enter_state("ARMED")
       \/ rc.drone_active /\ state_age < ARM_CONFIRM_MS /\ stay

state_arming(rc) ==
    /\ current_state = "ARMING"
    /\ motors_set_all(0)
    /\ noLanding
    /\ \/ ~arm_condition(rc) /\ enter_state("IDLE")
       \/ arm_condition(rc) /\ state_age >= ARM_CONFIRM_MS /\ enter_state("ARMED")
       \/ arm_condition(rc) /\ state_age < ARM_CONFIRM_MS /\ stay

state_armed(rc) ==
    /\ current_state = "ARMED"
    /\ motors_set_all(0)
    /\ noLanding
    /\ \/ ~rc.drone_active /\ enter_state("IDLE")
       \/ rc.drone_active /\ rc.y_left > THROTTLE_FLY_THRESHOLD /\ enter_state("FLYING")
       \/ rc.drone_active /\ rc.y_left <= THROTTLE_FLY_THRESHOLD /\ stay

\* A faulty variant: landing leaves the motors to the next pass.
FlyingLandsRunning(rc) ==
    /\ current_state = "FLYING"
    /\ noLanding
    /\ \/ ~rc.drone_active /\ enter_state("FAILSAFE") /\ motorsKept
       \/ rc.drone_active /\ rc.y_left <= 0 /\ motorsKept /\ enter_state("ARMED")
       \/ rc.drone_active /\ rc.y_left > 0 /\ motors_set_from_rc(rc) /\ stay

state_flying(rc) ==
    /\ current_state = "FLYING"
    /\ noLanding
    /\ \/ ~rc.drone_active /\ enter_state("FAILSAFE") /\ motorsKept
       \/ rc.drone_active /\ rc.y_left <= 0 /\ motors_set_all(0) /\ enter_state("ARMED")
       \/ rc.drone_active /\ rc.y_left > 0 /\ motors_set_from_rc(rc) /\ stay

SignalRecovered(rc) == rc.drone_active /\ enter_state("FLYING") /\ motorsKept /\ noLanding

FailsafeTimeout(rc) ==
    /\ ~rc.drone_active /\ state_age >= FAILSAFE_TIMEOUT_MS
    /\ landing_throttle' = FAILSAFE_HOLD_PCT
    /\ landing_age' = 0
    /\ enter_state("LANDING")
    /\ motorsKept

\* A faulty variant: the failsafe waits with the motors as they were.
HoldNothing(rc) ==
    /\ ~rc.drone_active /\ state_age < FAILSAFE_TIMEOUT_MS
    /\ motorsKept /\ stay /\ noLanding

\* A faulty variant: every pass of the failsafe enters it anew.
HoldReenters(rc) ==
    /\ ~rc.drone_active /\ state_age < FAILSAFE_TIMEOUT_MS
    /\ motors_set_all(FAILSAFE_HOLD_PCT)
    /\ enter_state("FAILSAFE") /\ noLanding

HoldThrottle(rc) ==
    /\ ~rc.drone_active /\ state_age < FAILSAFE_TIMEOUT_MS
    /\ motors_set_all(FAILSAFE_HOLD_PCT)
    /\ stay /\ noLanding

state_failsafe(rc) ==
    /\ current_state = "FAILSAFE"
    /\ SignalRecovered(rc) \/ FailsafeTimeout(rc) \/ HoldThrottle(rc)

LandingComplete ==
    /\ landing_throttle = 0
    /\ motors_set_all(0)
    /\ enter_state("IDLE")
    /\ noLanding

\* A faulty variant: the last step is not floored and wraps in its uint8_t.
LandingStepWraps ==
    /\ landing_throttle # 0 /\ landing_age >= LANDING_STEP_MS
    /\ landing_throttle' = (landing_throttle - LANDING_STEP_PCT) % 256
    /\ landing_age' = 0
    /\ motors_set_all(landing_throttle')
    /\ stay

\* A faulty variant: a step does not restart its interval.
LandingStepAtOnce ==
    /\ landing_throttle # 0 /\ landing_age >= LANDING_STEP_MS
    /\ landing_throttle' = IF landing_throttle > LANDING_STEP_PCT
                             THEN landing_throttle - LANDING_STEP_PCT ELSE 0
    /\ motors_set_all(landing_throttle')
    /\ stay /\ UNCHANGED landing_age

LandingStep ==
    /\ landing_throttle # 0 /\ landing_age >= LANDING_STEP_MS
    /\ landing_throttle' = IF landing_throttle > LANDING_STEP_PCT
                             THEN landing_throttle - LANDING_STEP_PCT ELSE 0
    /\ landing_age' = 0
    /\ motors_set_all(landing_throttle')
    /\ stay

\* A faulty variant: every pass restarts the interval.
LandingWaitRestarts ==
    /\ landing_throttle # 0 /\ landing_age < LANDING_STEP_MS
    /\ landing_age' = 0
    /\ motorsKept /\ stay /\ UNCHANGED landing_throttle

LandingWait ==
    /\ landing_throttle # 0 /\ landing_age < LANDING_STEP_MS
    /\ motorsKept /\ stay /\ noLanding

\* The packet is not looked at.
state_landing == current_state = "LANDING" /\ (LandingComplete \/ LandingStep \/ LandingWait)

state_error == current_state = "ERROR" /\ motors_set_all(0) /\ stay /\ noLanding

\* A pass in which the IMU answers (or failed in ERROR, which makes no
\* difference) and rc is the packet.
Control(rc) ==
    /\ Pass
    /\ \/ state_idle(rc)   \/ state_arming(rc)   \/ state_armed(rc)
       \/ state_flying(rc) \/ state_failsafe(rc) \/ state_landing
       \/ state_error

\* A faulty variant: the error is noted and the motors are left running.
ImuFailureKeepsMotors ==
    /\ Pass
    /\ current_state # "ERROR"
    /\ enter_state("ERROR")
    /\ motorsKept /\ noLanding

\* A pass in which mpu9250_update fails: the motors are idled, and idled again
\* by state_error in the same pass.
ImuFailure ==
    /\ Pass
    /\ current_state # "ERROR"
    /\ \E ok1, ok2 \in PwmOutcomes :
          pulse' = Commanded(Commanded(pulse, Everywhere(0), ok1), Everywhere(0), ok2)
    /\ UNCHANGED <<last_pct, throttle_smooth, update_age>>
    /\ enter_state("ERROR")
    /\ noLanding

\* A pass without a bus handle: i2c_write_read dereferences a null device, the
\* CPU faults and the kernel halts.
MpuFault ==
    /\ pc = "loop" /\ ~i2c_dev
    /\ pc' = "halted"
    /\ motorsKept /\ stay /\ noLanding
    /\ UNCHANGED <<loop_age, i2c_dev, http_started>>

-----------------------------------------------------------------------------
\* One tick of the clock.
Elapse ==
    /\ pc = "loop" /\ i2c_dev /\ loop_age < MAX_STALL_MS
    /\ loop_age' = loop_age + 1
    /\ state_age' = Older(state_age, STATE_AGE_MAX)
    /\ landing_age' = Older(landing_age, LANDING_STEP_MS)
    /\ MotorElapse
    /\ UNCHANGED <<current_state, landing_throttle, pc, i2c_dev, http_started>>

\* Nothing happens after the fault.
Halted == pc = "halted" /\ UNCHANGED fsmVars

Boot == EscInitFails \/ EscInitWorks \/ ImuInitFails \/ ImuInitWorks \/ MpuFault

FsmNext ==
    \/ Boot
    \/ \E rc \in RcPackets : Control(rc)
    \/ ImuFailure
    \/ Elapse
    \/ Halted

FsmSpec == FsmInit /\ [][FsmNext]_fsmVars

\* The thread runs when it is runnable, and time passes.
FsmFairness ==
    /\ WF_fsmVars(Boot)
    /\ WF_fsmVars(ImuFailure \/ \E rc \in RcPackets : Control(rc))
    /\ WF_fsmVars(Elapse)

FairFsmSpec == FsmSpec /\ FsmFairness

-----------------------------------------------------------------------------
FsmTypeOK ==
    /\ MotorTypeOK
    /\ current_state \in State
    /\ state_age \in 0..STATE_AGE_MAX
    /\ landing_throttle \in 0..FAILSAFE_HOLD_PCT
    /\ landing_age \in 0..LANDING_STEP_MS
    /\ pc \in {"esc_init", "imu_init", "loop", "halted"}
    /\ loop_age \in 0..MAX_STALL_MS
    /\ i2c_dev \in BOOLEAN /\ http_started \in BOOLEAN

\* No handler of a grounded state leaves a motor turning, nor does any way into
\* one: out of flight at zero throttle, after a landing, on an IMU error.
\* (Reliable PWM.)
MotorsIdleOnGround == current_state \in Grounded \cup {"INIT"} => MotorsIdle

\* Whatever writes are lost, a motor is only sped up in flight or towards the
\* descent's throttle: never in a state that means to hold it at idle.
OnlyFlightSpinsUp ==
    [][\A m \in Motor :
          \/ pulse'[m] <= pulse[m] \/ pulse'[m] <= 1000
          \/ current_state \in {"FLYING", "FAILSAFE"}
          \/ current_state = "LANDING" /\ pulse'[m] <= PulseOf(FAILSAFE_HOLD_PCT)]_fsmVars

\* In FAILSAFE every motor is at the hold throttle from the second pass on, and
\* through LANDING every motor is at landing_throttle: the descent starts from
\* the hold throttle, never from what the pilot last commanded.
\* (Reliable PWM, and a stall is shorter than the failsafe timeout.)
DescentTracksThrottle ==
    /\ current_state = "FAILSAFE" => state_age <= loop_age \/ AllAt(FAILSAFE_HOLD_PCT)
    /\ current_state = "LANDING" => AllAt(landing_throttle)
-----------------------------------------------------------------------------
(* What the state machine promises: FlightContract under this mapping *)

\* How far a motor's pulse is above idle, in microseconds.
Speed == [m \in Motor |-> IF pulse[m] > 1000 THEN pulse[m] - 1000 ELSE 0]

PhaseOf ==
    CASE current_state = "INIT" -> "starting"
      [] current_state \in {"IDLE", "ARMING"} -> "disarmed"
      [] current_state = "ARMED" -> "armed"
      [] current_state \in {"FLYING", "FAILSAFE"} -> "aloft"
      [] current_state = "LANDING" -> "descending"
      [] current_state = "ERROR" -> "dead"

Contract == INSTANCE FlightContract WITH phase <- PhaseOf, speed <- Speed

\* The state machine implements the contract: motors turn only between a take-off
\* from ARMED and a landing, a descent speeds no motor up and is not abandoned,
\* and an error is final.  (Reliable PWM, and a stall is shorter than the
\* failsafe timeout.)
ImplementsContract == Contract!Spec
=============================================================================
