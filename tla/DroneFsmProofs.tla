--------------------------- MODULE DroneFsmProofs ---------------------------
(***************************************************************************)
(* Invariants of the flight state machine and its refinement of            *)
(* FlightContract, for every value of the constants.                       *)
(***************************************************************************)
EXTENDS DroneFsm, DroneMotorsProofs

\* Ages stay within their bounds.
LEMMA OlderRange ==
    ASSUME NEW cap \in Nat, NEW age \in 0..cap
    PROVE  Older(age, cap) \in 0..cap
BY DEF Older

\* Initialisation keeps the types.
LEMMA BootTyped ==
    ASSUME FsmTypeOK, Boot
    PROVE  FsmTypeOK'
<1> USE FsmAssumption DEF enter_state, stay, noLanding, FsmTypeOK, State
<1>1. CASE EscInitFails
  <2>1. MotorTypeOK'
    BY <1>1, ArmType DEF EscInitFails, motorsKept, motorVars, MotorTypeOK
  <2> QED BY <1>1, <2>1 DEF EscInitFails
<1>2. CASE EscInitWorks
  <2>1. MotorTypeOK'
    BY <1>2, ArmType DEF EscInitWorks
  <2> QED BY <1>2, <2>1 DEF EscInitWorks
<1>3. CASE ImuInitFails
  <2>1. MotorTypeOK'
    BY <1>3, SetAllType DEF ImuInitFails
  <2> QED BY <1>3, <2>1 DEF ImuInitFails
<1>4. CASE ImuInitWorks
  BY <1>4 DEF ImuInitWorks, motorsKept, motorVars, MotorTypeOK
<1>5. CASE MpuFault
  BY <1>5 DEF MpuFault, motorsKept, motorVars, MotorTypeOK
<1> QED BY <1>1, <1>2, <1>3, <1>4, <1>5 DEF Boot

\* Every handler keeps the types of the motors ...
LEMMA HandlerMotors ==
    ASSUME FsmTypeOK, NEW rc \in RcPackets, Control(rc)
    PROVE  MotorTypeOK'
<1> USE FsmAssumption
<1>0. MotorTypeOK /\ landing_throttle \in Int
  BY DEF FsmTypeOK
<1>1. CASE motorsKept
  BY <1>0, <1>1 DEF motorsKept, motorVars, MotorTypeOK
<1>2. CASE motors_set_all(0)
  BY <1>0, <1>2, SetAllType
<1>3. CASE motors_set_all(FAILSAFE_HOLD_PCT)
  BY <1>0, <1>3, SetAllType
<1>4. CASE motors_set_from_rc(rc)
  BY <1>0, <1>4, FromRcType
<1>5. CASE LandingStep
  <2>1. landing_throttle' \in Int /\ motors_set_all(landing_throttle')
    BY <1>0, <1>5 DEF LandingStep
  <2> QED BY <1>0, <2>1, SetAllType
<1>6. \/ motorsKept \/ motors_set_all(0) \/ motors_set_all(FAILSAFE_HOLD_PCT)
      \/ motors_set_from_rc(rc) \/ LandingStep
  BY DEF Control, state_idle, state_arming, state_armed, state_flying, state_failsafe,
         state_landing, state_error, SignalRecovered, FailsafeTimeout, HoldThrottle,
         LandingComplete, LandingWait
<1> QED BY <1>1, <1>2, <1>3, <1>4, <1>5, <1>6

\* ... and of the state machine's own variables.
LEMMA ControlTyped ==
    ASSUME FsmTypeOK, NEW rc \in RcPackets, Control(rc)
    PROVE  FsmTypeOK'
<1> USE FsmAssumption DEF enter_state, stay, noLanding
<1>1. MotorTypeOK'
  BY HandlerMotors
<1>2. /\ loop_age' = 0
      /\ UNCHANGED <<pc, i2c_dev, http_started>>
  BY DEF Control, Pass
<1>3. current_state' \in State /\ state_age' \in 0..STATE_AGE_MAX
  BY DEF FsmTypeOK, State, Control, state_idle, state_arming, state_armed, state_flying,
         state_failsafe, state_landing, state_error, SignalRecovered, FailsafeTimeout,
         HoldThrottle, LandingComplete, LandingStep, LandingWait
<1>4. landing_throttle' \in 0..FAILSAFE_HOLD_PCT /\ landing_age' \in 0..LANDING_STEP_MS
  BY DEF FsmTypeOK, Control, state_idle, state_arming, state_armed, state_flying,
         state_failsafe, state_landing, state_error, SignalRecovered, FailsafeTimeout,
         HoldThrottle, LandingComplete, LandingStep, LandingWait
<1> QED BY <1>1, <1>2, <1>3, <1>4 DEF FsmTypeOK

LEMMA ImuFailureTyped ==
    ASSUME FsmTypeOK, ImuFailure
    PROVE  FsmTypeOK'
<1> USE FsmAssumption
<1>1. PICK ok1 \in PwmOutcomes, ok2 \in PwmOutcomes :
         pulse' = Commanded(Commanded(pulse, Everywhere(0), ok1), Everywhere(0), ok2)
  BY DEF ImuFailure
<1>2. \A m \in Motor \cap DOMAIN Everywhere(0) : Everywhere(0)[m] \in Int
  BY DEF Everywhere
<1>3. pulse \in Pulses
  BY DEF FsmTypeOK, MotorTypeOK, Pulses
<1>4. Commanded(pulse, Everywhere(0), ok1) \in Pulses
  BY <1>2, <1>3, CommandedType
<1>5. pulse' \in Pulses
  BY <1>1, <1>2, <1>4, CommandedType
<1> QED BY <1>5 DEF ImuFailure, Pass, FsmTypeOK, MotorTypeOK, Pulses, State, enter_state, noLanding

LEMMA ElapseTyped ==
    ASSUME FsmTypeOK, Elapse
    PROVE  FsmTypeOK'
<1> USE FsmAssumption, MotorAssumption, RcAssumption
<1>1. loop_age' \in 0..MAX_STALL_MS
  BY DEF Elapse, FsmTypeOK
<1>2. /\ state_age' \in 0..STATE_AGE_MAX
      /\ landing_age' \in 0..LANDING_STEP_MS
      /\ update_age' \in 0..ESC_PERIOD_MS
  <2>1. /\ state_age \in 0..STATE_AGE_MAX
        /\ landing_age \in 0..LANDING_STEP_MS
        /\ update_age \in 0..ESC_PERIOD_MS
    BY DEF FsmTypeOK, MotorTypeOK
  <2>2. Older(state_age, STATE_AGE_MAX) \in 0..STATE_AGE_MAX
    BY <2>1, OlderRange
  <2>3. Older(landing_age, LANDING_STEP_MS) \in 0..LANDING_STEP_MS
    BY <2>1, OlderRange
  <2>4. Older(update_age, ESC_PERIOD_MS) \in 0..ESC_PERIOD_MS
    BY <2>1, OlderRange
  <2> QED BY <2>2, <2>3, <2>4 DEF Elapse, MotorElapse
<1> QED BY <1>1, <1>2 DEF Elapse, MotorElapse, FsmTypeOK, MotorTypeOK

LEMMA FsmInitTyped == FsmInit => FsmTypeOK
<1> SUFFICES ASSUME FsmInit PROVE FsmTypeOK
  OBVIOUS
<1>1. MotorTypeOK
  BY MotorAssumption, RcAssumption DEF FsmInit, MotorInit, MotorTypeOK
<1>2. i2c_dev \in BOOLEAN /\ http_started \in BOOLEAN
  BY Zenon DEF FsmInit
<1>3. /\ current_state \in State
      /\ pc \in {"esc_init", "imu_init", "loop", "halted"}
  BY DEF FsmInit, State
<1>4. /\ state_age \in 0..STATE_AGE_MAX
      /\ landing_throttle \in 0..FAILSAFE_HOLD_PCT
      /\ landing_age \in 0..LANDING_STEP_MS
      /\ loop_age \in 0..MAX_STALL_MS
  BY FsmAssumption DEF FsmInit
<1> QED BY <1>1, <1>2, <1>3, <1>4 DEF FsmTypeOK

LEMMA NextTyped ==
    ASSUME FsmTypeOK, [FsmNext]_fsmVars
    PROVE  FsmTypeOK'
<1>1. CASE Boot  BY <1>1, BootTyped
<1>2. ASSUME NEW rc \in RcPackets, Control(rc) PROVE FsmTypeOK'
  BY <1>2, ControlTyped
<1>3. CASE ImuFailure  BY <1>3, ImuFailureTyped
<1>4. CASE Elapse  BY <1>4, ElapseTyped
<1>5. CASE UNCHANGED fsmVars
  BY <1>5 DEF fsmVars, fsmOnly, motorVars, FsmTypeOK, MotorTypeOK
<1> QED BY <1>1, <1>2, <1>3, <1>4, <1>5 DEF FsmNext, Halted

\* The type invariant: in particular the landing throttle never wraps and every
\* pulse stays within 1000 .. 2000 us, whatever the pilot sends.
THEOREM FsmTyped == FsmSpec => []FsmTypeOK
<1>1. FsmInit => FsmTypeOK
  BY FsmInitTyped
<1>2. FsmTypeOK /\ [FsmNext]_fsmVars => FsmTypeOK'
  BY NextTyped
<1> QED BY <1>1, <1>2, PTL DEF FsmSpec

-----------------------------------------------------------------------------
(* Any PWM: a write may be lost *)

\* No motor is sped up above idle.
NoneSpedUp == \A m \in Motor : pulse'[m] <= pulse[m] \/ pulse'[m] <= 1000

LEMMA PulseTypes == ASSUME FsmTypeOK PROVE \A m \in Motor : pulse[m] \in Int
BY DEF FsmTypeOK, MotorTypeOK

LEMMA KeptNotSpedUp == ASSUME FsmTypeOK, UNCHANGED pulse PROVE NoneSpedUp
BY PulseTypes DEF NoneSpedUp

LEMMA StopNotSpedUp == ASSUME FsmTypeOK, motors_set_all(0) PROVE NoneSpedUp
<1>1. \A m \in Motor : pulse'[m] = PulseOf(0) \/ pulse'[m] = pulse[m]
  BY DEF motors_set_all, Commanded, Everywhere
<1> QED BY <1>1, PulseOfZero, PulseTypes DEF NoneSpedUp

LEMMA BootNotSpedUp == ASSUME FsmTypeOK, Boot PROVE NoneSpedUp
<1>1. ASSUME NEW ok, esc_arm_all(ok) PROVE NoneSpedUp
  <2>1. \A m \in Motor : pulse'[m] = PulseOf(0) \/ pulse'[m] = pulse[m]
    BY <1>1 DEF esc_arm_all, Commanded
  <2> QED BY <2>1, PulseOfZero, PulseTypes DEF NoneSpedUp
<1>2. \/ motorsKept \/ motors_set_all(0)
      \/ \E ok \in PwmOutcomes : esc_arm_all(ok)
  BY DEF Boot, EscInitFails, EscInitWorks, ImuInitFails, ImuInitWorks, MpuFault
<1> QED BY <1>1, <1>2, KeptNotSpedUp, StopNotSpedUp DEF motorsKept, motorVars

LEMMA ImuFailureNotSpedUp == ASSUME FsmTypeOK, ImuFailure PROVE NoneSpedUp
<1>1. \A m \in Motor : pulse'[m] = PulseOf(0) \/ pulse'[m] = pulse[m]
  BY DEF ImuFailure, Commanded, Everywhere
<1> QED BY <1>1, PulseOfZero, PulseTypes DEF NoneSpedUp

\* A landing writes its own throttle, which has not wrapped above the hold throttle.
LEMMA LandingBelowHold ==
    ASSUME FsmTypeOK, LandingStep, NEW m \in Motor
    PROVE  pulse'[m] <= pulse[m] \/ pulse'[m] <= PulseOf(FAILSAFE_HOLD_PCT)
<1> USE FsmAssumption
<1>1. landing_throttle' \in 0..FAILSAFE_HOLD_PCT
  BY DEF LandingStep, FsmTypeOK
<1>2. pulse'[m] = PulseOf(landing_throttle') \/ pulse'[m] = pulse[m]
  BY DEF LandingStep, motors_set_all, Commanded, Everywhere
<1>3. PulseOf(landing_throttle') <= PulseOf(FAILSAFE_HOLD_PCT)
  BY <1>1, PulseOfMonotone
<1> QED BY <1>2, <1>3, PulseTypes

SpunUpInFlight ==
    \A m \in Motor :
        \/ pulse'[m] <= pulse[m] \/ pulse'[m] <= 1000
        \/ current_state \in {"FLYING", "FAILSAFE"}
        \/ current_state = "LANDING" /\ pulse'[m] <= PulseOf(FAILSAFE_HOLD_PCT)

LEMMA NextSpinsUpInFlight ==
    ASSUME FsmTypeOK, [FsmNext]_fsmVars
    PROVE  SpunUpInFlight
<1>1. CASE NoneSpedUp
  BY <1>1 DEF NoneSpedUp, SpunUpInFlight
<1>2. CASE current_state \in {"FLYING", "FAILSAFE"}
  BY <1>2 DEF SpunUpInFlight
<1>3. CASE current_state = "LANDING" /\ LandingStep
  BY <1>3, LandingBelowHold DEF SpunUpInFlight
<1>4. ASSUME NEW rc \in RcPackets, Control(rc), current_state \notin {"FLYING", "FAILSAFE"},
             ~(current_state = "LANDING" /\ LandingStep)
      PROVE  NoneSpedUp
  <2>1. motors_set_all(0) \/ motorsKept
    BY <1>4 DEF Control, state_idle, state_arming, state_armed, state_flying, state_failsafe,
                state_landing, state_error, LandingComplete, LandingWait
  <2> QED BY <2>1, StopNotSpedUp, KeptNotSpedUp DEF motorsKept, motorVars
<1>5. CASE Elapse \/ UNCHANGED fsmVars
  BY <1>1, <1>5, KeptNotSpedUp DEF Elapse, MotorElapse, fsmVars, motorVars
<1> QED BY <1>1, <1>2, <1>3, <1>4, <1>5, BootNotSpedUp, ImuFailureNotSpedUp
        DEF FsmNext, Halted

\* Whichever writes are lost, only flight and descent speed a motor up.
THEOREM SpinsUpOnlyInFlight == FsmSpec => OnlyFlightSpinsUp
<1>1. FsmTypeOK /\ [FsmNext]_fsmVars => [SpunUpInFlight]_fsmVars
  BY NextSpinsUpInFlight
<1> QED BY <1>1, FsmTyped, PTL DEF FsmSpec, OnlyFlightSpinsUp, SpunUpInFlight

-----------------------------------------------------------------------------
(* Reliable PWM: every write reaches its motor *)

\* Initialisation is where INIT is, and nowhere else.
InitStage == (current_state = "INIT") <=> pc \in {"esc_init", "imu_init"}

\* A command to all motors reaches them all.
LEMMA SetAllObeyed ==
    ASSUME PwmOutcomes = {Motor}, NEW percent, motors_set_all(percent)
    PROVE  \A m \in Motor : pulse'[m] = PulseOf(percent)
BY CommandedAll DEF motors_set_all

LEMMA IdleObeyed ==
    ASSUME PwmOutcomes = {Motor}, motors_set_all(0)
    PROVE  MotorsIdle'
BY SetAllObeyed, PulseOfZero DEF MotorsIdle

LEMMA ImuFailureIdles ==
    ASSUME PwmOutcomes = {Motor}, ImuFailure
    PROVE  MotorsIdle'
<1>1. pulse' = Commanded(Commanded(pulse, Everywhere(0), Motor), Everywhere(0), Motor)
  BY DEF ImuFailure
<1> QED BY <1>1, CommandedAll, PulseOfZero DEF MotorsIdle

\* Arming the ESCs stops or leaves alone every motor.
LEMMA ArmIdles ==
    ASSUME FsmTypeOK, MotorsIdle, NEW ok, esc_arm_all(ok)
    PROVE  MotorsIdle'
<1>1. \A m \in Motor : pulse'[m] = PulseOf(0) \/ pulse'[m] = pulse[m]
  BY DEF esc_arm_all, Commanded
<1> QED BY <1>1, PulseOfZero DEF MotorsIdle

GroundInv == InitStage /\ MotorsIdleOnGround

LEMMA BootOnGround ==
    ASSUME PwmOutcomes = {Motor}, FsmTypeOK, GroundInv, Boot
    PROVE  GroundInv'
<1> USE DEF GroundInv, InitStage, MotorsIdleOnGround, Grounded, enter_state, stay
<1>1. CASE EscInitFails
  <2>1. MotorsIdle'
    BY <1>1, ArmIdles DEF EscInitFails, motorsKept, motorVars, MotorsIdle
  <2> QED BY <1>1, <2>1 DEF EscInitFails
<1>2. CASE EscInitWorks
  <2>1. MotorsIdle'
    BY <1>2, ArmIdles DEF EscInitWorks
  <2> QED BY <1>2, <2>1 DEF EscInitWorks
<1>3. CASE ImuInitFails
  BY <1>3, IdleObeyed DEF ImuInitFails
<1>4. CASE ImuInitWorks
  BY <1>4 DEF ImuInitWorks, motorsKept, motorVars, MotorsIdle
<1>5. CASE MpuFault
  BY <1>5 DEF MpuFault, motorsKept, motorVars, MotorsIdle
<1> QED BY <1>1, <1>2, <1>3, <1>4, <1>5 DEF Boot

\* A pass that ends in a grounded state has idled every motor.
LEMMA ControlOnGround ==
    ASSUME PwmOutcomes = {Motor}, GroundInv, NEW rc \in RcPackets, Control(rc)
    PROVE  GroundInv'
<1>1. current_state' \in Grounded \cup {"INIT"} => MotorsIdle'
  <2>1. current_state' \in Grounded \cup {"INIT"} => motors_set_all(0)
    BY DEF Control, Grounded, state_idle, state_arming, state_armed, state_flying,
           state_failsafe, state_landing, state_error, SignalRecovered, FailsafeTimeout,
           HoldThrottle, LandingComplete, LandingStep, LandingWait, enter_state, stay
  <2> QED BY <2>1, IdleObeyed
<1>2. current_state # "INIT" /\ pc = "loop" /\ pc' = "loop"
  BY DEF GroundInv, InitStage, Control, Pass
<1>3. current_state' # "INIT"
  BY <1>2 DEF Control, state_idle, state_arming, state_armed, state_flying,
              state_failsafe, state_landing, state_error, SignalRecovered, FailsafeTimeout,
              HoldThrottle, LandingComplete, LandingStep, LandingWait, enter_state, stay
<1> QED BY <1>1, <1>2, <1>3 DEF GroundInv, InitStage, MotorsIdleOnGround

LEMMA NextOnGround ==
    ASSUME PwmOutcomes = {Motor}, FsmTypeOK, GroundInv, [FsmNext]_fsmVars
    PROVE  GroundInv'
<1> USE DEF GroundInv, InitStage, MotorsIdleOnGround
<1>1. CASE Boot  BY <1>1, BootOnGround
<1>2. ASSUME NEW rc \in RcPackets, Control(rc) PROVE GroundInv'
  BY <1>2, ControlOnGround
<1>3. CASE ImuFailure
  BY <1>3, ImuFailureIdles DEF ImuFailure, Pass, enter_state
<1>4. CASE Elapse
  BY <1>4 DEF Elapse, MotorElapse, MotorsIdle
<1>5. CASE UNCHANGED fsmVars
  BY <1>5 DEF fsmVars, fsmOnly, motorVars, MotorsIdle
<1> QED BY <1>1, <1>2, <1>3, <1>4, <1>5 DEF FsmNext, Halted

\* On the ground no motor turns: every way out of flight stops them.
THEOREM GroundIsSafe ==
    ASSUME PwmOutcomes = {Motor}
    PROVE  FsmSpec => []MotorsIdleOnGround
<1>1. FsmInit => GroundInv
  BY DEF FsmInit, MotorInit, GroundInv, InitStage, MotorsIdleOnGround, MotorsIdle
<1>2. FsmTypeOK /\ GroundInv /\ [FsmNext]_fsmVars => GroundInv'
  BY NextOnGround
<1>3. GroundInv => MotorsIdleOnGround
  BY DEF GroundInv
<1> QED BY <1>1, <1>2, <1>3, FsmTyped, PTL DEF FsmSpec
-----------------------------------------------------------------------------
(* The descent *)

DescentInv == InitStage /\ DescentTracksThrottle

LEMMA ControlDescends ==
    ASSUME PwmOutcomes = {Motor}, MAX_STALL_MS < FAILSAFE_TIMEOUT_MS,
           FsmTypeOK, DescentInv, NEW rc \in RcPackets, Control(rc)
    PROVE  DescentTracksThrottle'
<1> USE DEF DescentInv, DescentTracksThrottle, AllAt, enter_state, stay, noLanding
<1>0. loop_age' = 0 /\ pc = "loop"
  BY DEF Control, Pass
<1>1. CASE state_flying(rc)
  <2>1. current_state' # "LANDING" /\ (current_state' = "FAILSAFE" => state_age' = 0)
    BY <1>1 DEF state_flying
  <2> QED BY <1>0, <2>1
<1>2. CASE state_failsafe(rc)
  <2>1. CASE SignalRecovered(rc)
    BY <2>1 DEF SignalRecovered
  <2>2. CASE FailsafeTimeout(rc)
    <3>1. ~(state_age <= loop_age)
      BY <2>2, FsmAssumption DEF FailsafeTimeout, FsmTypeOK
    <3>2. \A m \in Motor : pulse[m] = PulseOf(FAILSAFE_HOLD_PCT)
      BY <1>2, <3>1 DEF state_failsafe
    <3> QED BY <2>2, <3>2 DEF FailsafeTimeout, motorsKept, motorVars
  <2>3. CASE HoldThrottle(rc)
    <3>1. \A m \in Motor : pulse'[m] = PulseOf(FAILSAFE_HOLD_PCT)
      BY <2>3, SetAllObeyed DEF HoldThrottle
    <3>2. current_state' = "FAILSAFE"
      BY <1>2, <2>3 DEF state_failsafe, HoldThrottle
    <3> QED BY <3>1, <3>2
  <2> QED BY <1>2, <2>1, <2>2, <2>3 DEF state_failsafe
<1>3. CASE state_landing
  <2>1. CASE LandingComplete
    BY <2>1 DEF LandingComplete
  <2>2. CASE LandingStep
    <3>1. motors_set_all(landing_throttle')
      BY <2>2 DEF LandingStep
    <3>2. \A m \in Motor : pulse'[m] = PulseOf(landing_throttle')
      BY <3>1, SetAllObeyed
    <3>3. current_state' = "LANDING"
      BY <1>3, <2>2 DEF state_landing, LandingStep
    <3> QED BY <3>2, <3>3
  <2>3. CASE LandingWait
    BY <1>3, <2>3 DEF state_landing, LandingWait, motorsKept, motorVars
  <2> QED BY <1>3, <2>1, <2>2, <2>3 DEF state_landing
<1>4. CASE state_idle(rc) \/ state_arming(rc) \/ state_armed(rc) \/ state_error
  BY <1>4 DEF state_idle, state_arming, state_armed, state_error
<1> QED BY <1>1, <1>2, <1>3, <1>4 DEF Control

LEMMA ElapseDescends ==
    ASSUME FsmTypeOK, DescentInv, Elapse
    PROVE  DescentTracksThrottle'
<1>1. UNCHANGED <<pulse, current_state, landing_throttle>>
  BY DEF Elapse, MotorElapse
<1>2. state_age <= loop_age => state_age' <= loop_age'
  BY FsmAssumption DEF Elapse, Older, FsmTypeOK
<1> QED BY <1>1, <1>2 DEF DescentInv, DescentTracksThrottle, AllAt

LEMMA NextDescends ==
    ASSUME PwmOutcomes = {Motor}, MAX_STALL_MS < FAILSAFE_TIMEOUT_MS,
           FsmTypeOK, GroundInv, DescentInv, [FsmNext]_fsmVars
    PROVE  DescentInv'
<1>1. InitStage'
  BY NextOnGround DEF GroundInv
<1>2. DescentTracksThrottle'
  <2>1. CASE Boot
    <3>1. \/ current_state' \in {"INIT", "IDLE", "ERROR"}
          \/ UNCHANGED <<motorVars, current_state, state_age, landing_throttle, loop_age>>
      BY <2>1 DEF Boot, EscInitFails, EscInitWorks, ImuInitFails, ImuInitWorks, MpuFault,
                  motorsKept, enter_state, stay, noLanding, DescentInv, InitStage
    <3> QED BY <3>1 DEF DescentInv, DescentTracksThrottle, AllAt, motorVars
  <2>2. ASSUME NEW rc \in RcPackets, Control(rc) PROVE DescentTracksThrottle'
    BY <2>2, ControlDescends
  <2>3. CASE ImuFailure
    BY <2>3 DEF ImuFailure, enter_state, DescentTracksThrottle
  <2>4. CASE Elapse
    BY <2>4, ElapseDescends
  <2>5. CASE UNCHANGED fsmVars
    BY <2>5 DEF DescentInv, DescentTracksThrottle, AllAt, fsmVars, fsmOnly, motorVars
  <2> QED BY <2>1, <2>2, <2>3, <2>4, <2>5 DEF FsmNext, Halted
<1> QED BY <1>1, <1>2 DEF DescentInv

\* The descent is what the tuning constants say: hold throttle, then step by step
\* down, on all four motors, provided no stall outlasts the failsafe timeout.
THEOREM DescentIsTracked ==
    ASSUME PwmOutcomes = {Motor}, MAX_STALL_MS < FAILSAFE_TIMEOUT_MS
    PROVE  FsmSpec => []DescentTracksThrottle
<1>1. FsmInit => GroundInv /\ DescentInv
  BY DEF FsmInit, MotorInit, GroundInv, InitStage, MotorsIdleOnGround, MotorsIdle,
         DescentInv, DescentTracksThrottle
<1>2. FsmTypeOK /\ GroundInv /\ DescentInv /\ [FsmNext]_fsmVars => GroundInv' /\ DescentInv'
  BY NextOnGround, NextDescends
<1>3. DescentInv => DescentTracksThrottle
  BY DEF DescentInv
<1> QED BY <1>1, <1>2, <1>3, FsmTyped, PTL DEF FsmSpec
-----------------------------------------------------------------------------
(* The contract: the first state is the contract's, and each step from a state *)
(* that satisfies the invariants above is one of its steps or a stutter.       *)

Inv == FsmTypeOK /\ GroundInv /\ DescentInv

\* One step of the contract, or none.
ContractStep == Contract!Next \/ UNCHANGED <<PhaseOf, Speed>>

LEMMA SpeedTyped == ASSUME FsmTypeOK' PROVE Speed' \in Contract!Speeds
<1>1. \A m \in Motor : pulse'[m] \in Int
  BY DEF FsmTypeOK, MotorTypeOK, Pulses
<1>2. \A m \in Motor : (IF pulse'[m] > 1000 THEN pulse'[m] - 1000 ELSE 0) \in Nat
  BY <1>1
<1> QED BY <1>2 DEF Speed, Contract!Speeds

LEMMA IdleStands ==
    /\ FsmTypeOK /\ MotorsIdle => Speed = Contract!Standing
    /\ (FsmTypeOK /\ MotorsIdle)' => Speed' = Contract!Standing
<1>1. ASSUME FsmTypeOK, MotorsIdle PROVE Speed = Contract!Standing
  <2>1. \A m \in Motor : pulse[m] \in Int /\ pulse[m] <= 1000
    BY <1>1 DEF FsmTypeOK, MotorTypeOK, MotorsIdle
  <2>2. \A m \in Motor : ~(pulse[m] > 1000)
    BY <2>1
  <2> QED BY <2>2 DEF Speed, Contract!Standing
<1>2. ASSUME FsmTypeOK', MotorsIdle' PROVE Speed' = Contract!Standing
  <2>1. \A m \in Motor : pulse'[m] \in Int /\ pulse'[m] <= 1000
    BY <1>2 DEF FsmTypeOK, MotorTypeOK, MotorsIdle
  <2>2. \A m \in Motor : ~(pulse'[m] > 1000)
    BY <2>1
  <2> QED BY <2>2 DEF Speed, Contract!Standing
<1> QED BY <1>1, <1>2

\* The phase of each state, now and after the step.
LEMMA Phases ==
    /\ current_state = "INIT" => PhaseOf = "starting"
    /\ current_state \in {"IDLE", "ARMING"} => PhaseOf = "disarmed"
    /\ current_state = "ARMED" => PhaseOf = "armed"
    /\ current_state \in {"FLYING", "FAILSAFE"} => PhaseOf = "aloft"
    /\ current_state = "LANDING" => PhaseOf = "descending"
    /\ current_state = "ERROR" => PhaseOf = "dead"
BY DEF PhaseOf

LEMMA PhasesAfter ==
    /\ current_state' = "INIT" => PhaseOf' = "starting"
    /\ current_state' \in {"IDLE", "ARMING"} => PhaseOf' = "disarmed"
    /\ current_state' = "ARMED" => PhaseOf' = "armed"
    /\ current_state' \in {"FLYING", "FAILSAFE"} => PhaseOf' = "aloft"
    /\ current_state' = "LANDING" => PhaseOf' = "descending"
    /\ current_state' = "ERROR" => PhaseOf' = "dead"
BY DEF PhaseOf

\* On the ground nothing turns, before the step and after it.
LEMMA GroundedStands ==
    ASSUME Inv, Inv'
    PROVE  /\ current_state \in Grounded \cup {"INIT"} => Speed = Contract!Standing
           /\ current_state' \in Grounded \cup {"INIT"} => Speed' = Contract!Standing
BY IdleStands DEF Inv, GroundInv, MotorsIdleOnGround

LEMMA BootImplements ==
    ASSUME Inv, Inv', Boot
    PROVE  ContractStep
<1>1. \/ current_state = "INIT" /\ current_state' \in {"INIT", "IDLE", "ERROR"}
      \/ UNCHANGED <<pulse, current_state>>
  BY DEF Inv, GroundInv, InitStage, Boot, EscInitFails, EscInitWorks, ImuInitFails,
         ImuInitWorks, MpuFault, enter_state, stay, motorsKept, motorVars
<1>2. CASE UNCHANGED <<pulse, current_state>>
  BY <1>2 DEF ContractStep, PhaseOf, Speed
<1>3. CASE current_state = "INIT" /\ current_state' \in {"INIT", "IDLE", "ERROR"}
  <2>1. Speed = Contract!Standing /\ Speed' = Contract!Standing /\ PhaseOf = "starting"
    BY <1>3, GroundedStands, Phases DEF Grounded
  <2>2. PhaseOf' \in {"starting", "disarmed", "dead"}
    BY <1>3, PhasesAfter
  <2> QED BY <2>1, <2>2 DEF ContractStep, Contract!Next, Contract!Start, Contract!Die
<1> QED BY <1>1, <1>2, <1>3

\* A step of the landing slows every motor down, or leaves it as it is.
LEMMA DescentOnlyFalls ==
    ASSUME PwmOutcomes = {Motor}, Inv, Inv', LandingStep, current_state = "LANDING"
    PROVE  \A m \in Motor : Speed'[m] <= Speed[m]
<1>1. /\ landing_throttle \in 0..100 /\ landing_throttle' \in 0..100
      /\ landing_throttle' <= landing_throttle
  BY FsmAssumption DEF Inv, FsmTypeOK, LandingStep
<1>2. current_state' = "LANDING"
  BY DEF LandingStep, stay
<1>3. PICK p \in 1000..2000 : p = PulseOf(landing_throttle)
  BY <1>1, PulseOfRange
<1>4. PICK q \in 1000..2000 : q = PulseOf(landing_throttle')
  <2>1. landing_throttle' \in Int
    BY <1>1
  <2> QED BY <2>1, PulseOfRange
<1>5. q <= p
  BY <1>1, <1>3, <1>4, PulseOfMonotone
<1>6. \A m \in Motor : pulse[m] = p
  BY <1>3 DEF Inv, DescentInv, DescentTracksThrottle, AllAt
<1>7. \A m \in Motor : pulse'[m] = q
  BY <1>2, <1>4 DEF Inv, DescentInv, DescentTracksThrottle, AllAt
<1>8. \A m \in Motor : Speed[m] = p - 1000
  BY <1>3, <1>6 DEF Speed
<1>9. \A m \in Motor : Speed'[m] = q - 1000
  BY <1>4, <1>7 DEF Speed
<1> QED BY <1>3, <1>4, <1>5, <1>8, <1>9

LEMMA ControlImplements ==
    ASSUME PwmOutcomes = {Motor}, Inv, Inv', NEW rc \in RcPackets, Control(rc)
    PROVE  ContractStep
<1> USE DEF ContractStep, enter_state, stay
<1>0. Speed' \in Contract!Speeds
  BY SpeedTyped DEF Inv
<1>1. CASE state_idle(rc) \/ state_arming(rc)
  <2>1. /\ current_state \in {"IDLE", "ARMING"}
        /\ current_state' \in {"IDLE", "ARMING", "ARMED"}
    BY <1>1 DEF state_idle, state_arming, Control, Pass, Inv, GroundInv, InitStage
  <2>2. PhaseOf = "disarmed" /\ PhaseOf' \in {"disarmed", "armed"}
    BY <2>1, Phases, PhasesAfter
  <2>3. Speed = Contract!Standing /\ Speed' = Contract!Standing
    BY <2>1, GroundedStands DEF Grounded
  <2> QED BY <2>2, <2>3 DEF Contract!Next, Contract!Arm
<1>2. CASE state_armed(rc)
  <2>1. current_state = "ARMED" /\ current_state' \in {"IDLE", "ARMED", "FLYING"}
    BY <1>2 DEF state_armed
  <2>2. PhaseOf = "armed" /\ PhaseOf' \in {"disarmed", "armed", "aloft"}
    BY <2>1, Phases, PhasesAfter
  <2>3. Speed = Contract!Standing
    BY <2>1, GroundedStands DEF Grounded
  <2>4. MotorsIdle'
    BY <1>2, IdleObeyed DEF state_armed
  <2>5. Speed' = Contract!Standing
    BY <2>4, IdleStands DEF Inv
  <2> QED BY <2>2, <2>3, <2>5 DEF Contract!Next, Contract!Disarm, Contract!TakeOff
<1>3. CASE state_flying(rc)
  <2>1. current_state = "FLYING" /\ current_state' \in {"FLYING", "FAILSAFE", "ARMED"}
    BY <1>3 DEF state_flying
  <2>2. PhaseOf = "aloft" /\ PhaseOf' \in {"aloft", "armed"}
    BY <2>1, Phases, PhasesAfter
  <2>3. current_state' = "ARMED" => Speed' = Contract!Standing
    BY GroundedStands DEF Grounded
  <2>4. PhaseOf' = "armed" => Speed' = Contract!Standing
    BY <2>1, <2>3, PhasesAfter
  <2> QED BY <1>0, <2>2, <2>4 DEF Contract!Next, Contract!Fly, Contract!Land
<1>4. CASE state_failsafe(rc)
  <2>1. /\ current_state = "FAILSAFE"
        /\ current_state' \in {"FLYING", "FAILSAFE", "LANDING"}
        /\ current_state' = "LANDING" => pulse' = pulse
    BY <1>4 DEF state_failsafe, SignalRecovered, FailsafeTimeout, HoldThrottle, motorsKept,
                motorVars
  <2>2. PhaseOf = "aloft" /\ PhaseOf' \in {"aloft", "descending"}
    BY <2>1, Phases, PhasesAfter
  <2>3. PhaseOf' = "descending" => Speed' = Speed
    BY <2>1, PhasesAfter DEF Speed
  <2> QED BY <1>0, <2>2, <2>3 DEF Contract!Next, Contract!Fly, Contract!GiveUp
<1>5. CASE state_landing
  <2>1. current_state = "LANDING" /\ PhaseOf = "descending"
    BY <1>5, Phases DEF state_landing
  <2>2. CASE LandingComplete
    <3>1. PhaseOf' = "disarmed" /\ Speed' = Contract!Standing
      BY <2>2, PhasesAfter, GroundedStands DEF LandingComplete, Grounded
    <3> QED BY <2>1, <3>1 DEF Contract!Next, Contract!TouchDown
  <2>3. CASE LandingStep
    <3>1. PhaseOf' = "descending" /\ \A m \in Motor : Speed'[m] <= Speed[m]
      BY <2>1, <2>3, PhasesAfter, DescentOnlyFalls DEF LandingStep
    <3> QED BY <1>0, <2>1, <3>1 DEF Contract!Next, Contract!Descend
  <2>4. CASE LandingWait
    BY <2>4 DEF LandingWait, motorsKept, motorVars, PhaseOf, Speed
  <2> QED BY <1>5, <2>2, <2>3, <2>4 DEF state_landing
<1>6. CASE state_error
  <2>1. current_state = "ERROR" /\ current_state' = "ERROR"
    BY <1>6 DEF state_error
  <2>2. PhaseOf = "dead" /\ PhaseOf' = "dead"
    BY <2>1, Phases, PhasesAfter
  <2>3. Speed = Contract!Standing /\ Speed' = Contract!Standing
    BY <2>1, GroundedStands DEF Grounded
  <2> QED BY <2>2, <2>3
<1> QED BY <1>1, <1>2, <1>3, <1>4, <1>5, <1>6 DEF Control

LEMMA ImuFailureImplements ==
    ASSUME Inv, Inv', ImuFailure
    PROVE  ContractStep
<1>1. current_state \in State \ {"ERROR"} /\ current_state' = "ERROR"
  BY DEF ImuFailure, enter_state, Inv, FsmTypeOK
<1>2. PhaseOf # "dead" /\ PhaseOf' = "dead"
  BY <1>1, Phases, PhasesAfter DEF State
<1>3. Speed' = Contract!Standing
  BY <1>1, GroundedStands DEF Grounded
<1> QED BY <1>2, <1>3 DEF ContractStep, Contract!Next, Contract!Die

\* The state machine keeps the contract with whoever stands beside the drone, for
\* every value of the constants, every packet and every interleaving with time.
THEOREM FsmKeepsContract ==
    ASSUME PwmOutcomes = {Motor}, MAX_STALL_MS < FAILSAFE_TIMEOUT_MS
    PROVE  FsmSpec => ImplementsContract
<1>1. FsmInit => Inv
  <2>1. FsmInit => FsmTypeOK
    BY FsmInitTyped
  <2> QED BY <2>1 DEF FsmInit, MotorInit, Inv, GroundInv, InitStage, MotorsIdleOnGround,
                      MotorsIdle, DescentInv, DescentTracksThrottle
<1>2. Inv /\ [FsmNext]_fsmVars => Inv'
  BY NextTyped, NextOnGround, NextDescends DEF Inv
<1>3. Inv /\ FsmInit => Contract!Init
  <2> SUFFICES ASSUME Inv, FsmInit PROVE Contract!Init
    OBVIOUS
  <2>1. current_state = "INIT" /\ MotorsIdle
    BY DEF FsmInit, MotorInit, MotorsIdle
  <2> QED BY <2>1, Phases, IdleStands DEF Inv, Contract!Init
<1>4. Inv /\ Inv' /\ [FsmNext]_fsmVars => [Contract!Next]_Contract!contractVars
  <2> SUFFICES ASSUME Inv, Inv', [FsmNext]_fsmVars PROVE ContractStep
    BY DEF ContractStep, Contract!contractVars
  <2>1. CASE Boot  BY <2>1, BootImplements
  <2>2. ASSUME NEW rc \in RcPackets, Control(rc) PROVE ContractStep
    BY <2>2, ControlImplements
  <2>3. CASE ImuFailure  BY <2>3, ImuFailureImplements
  <2>4. CASE Elapse
    BY <2>4 DEF Elapse, MotorElapse, ContractStep, PhaseOf, Speed
  <2>5. CASE UNCHANGED fsmVars
    BY <2>5 DEF fsmVars, fsmOnly, motorVars, ContractStep, PhaseOf, Speed
  <2> QED BY <2>1, <2>2, <2>3, <2>4, <2>5 DEF FsmNext, Halted
<1> QED BY <1>1, <1>2, <1>3, <1>4, PTL DEF FsmSpec, ImplementsContract, Contract!Spec
=============================================================================
