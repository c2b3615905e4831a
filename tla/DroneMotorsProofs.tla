-------------------------- MODULE DroneMotorsProofs --------------------------
(***************************************************************************)
(* What the operators of the motor controller return, for every value of   *)
(* the constants: facts the proofs about its callers cite by name.         *)
(***************************************************************************)
EXTENDS DroneMotors, TLAPS

Pulses == [Motor -> {0} \cup 1000..2000]

\* Clamp ends up between its limits.
LEMMA ClampRange ==
    ASSUME NEW lo \in Int, NEW hi \in Int, NEW x \in Int, lo <= hi
    PROVE  Clamp(lo, x, hi) \in lo..hi
BY DEF Clamp

\* C's division of integers is an integer.
LEMMA CDivInt ==
    ASSUME NEW a \in Int, NEW b \in Nat \ {0}
    PROVE  CDiv(a, b) \in Int
BY DEF CDiv

\* A factor is cancelled.
LEMMA FactorCancels ==
    ASSUME NEW p \in Nat, NEW a \in Int, NEW b \in Int, p * a < p * b
    PROVE  a < b
<1>1. SUFFICES ASSUME a >= b PROVE FALSE
  OBVIOUS
<1>2. PICK d \in Nat : a = b + d
  BY <1>1
<1>3. p * a = p * b + p * d
  BY <1>2
<1>4. p * d \in Nat
  OBVIOUS
<1> QED BY <1>3, <1>4

\* What is in proportion to a part of b is at most in proportion to b.
LEMMA ProportionRange ==
    ASSUME NEW b \in Nat \ {0}, NEW part \in 0..b, NEW whole \in Nat
    PROVE  CDiv(part * whole, b) \in 0..whole
<1> DEFINE s == part * whole
           q == s \div b
<1>1. s \in Nat
  OBVIOUS
<1>2. s <= b * whole
  <2>1. PICK d \in Nat : part + d = b
    <3>1. b - part \in Nat
      OBVIOUS
    <3> QED BY <3>1
  <2>2. part * whole + d * whole = b * whole
    BY <2>1
  <2>3. d * whole \in Nat
    OBVIOUS
  <2> QED BY <1>1, <2>2, <2>3
<1> HIDE DEF s
<1>3. q \in Int /\ b * q <= s /\ s < b * q + b
  BY <1>1, Z3
<1>4. b * q < b * (whole + 1) /\ b * 0 < b * (q + 1)
  <2>1. b * (whole + 1) = b * whole + b /\ b * (q + 1) = b * q + b /\ b * 0 = 0
    BY <1>3
  <2>2. b * whole \in Int /\ b * q \in Int
    BY <1>3
  <2> QED BY <1>1, <1>2, <1>3, <2>1, <2>2
<1>5. q < whole + 1 /\ 0 < q + 1
  BY <1>3, <1>4, FactorCancels
<1> QED BY <1>1, <1>3, <1>5 DEF CDiv, s

\* A percentage is a legal pulse, and zero percent is the idle pulse.
LEMMA PulseOfRange ==
    ASSUME NEW percent \in Int
    PROVE  PulseOf(percent) \in 1000..2000
BY DEF PulseOf, Clamp

LEMMA PulseOfZero == PulseOf(0) = 1000
BY DEF PulseOf, Clamp

\* More percent, no shorter pulse.
LEMMA PulseOfMonotone ==
    ASSUME NEW a \in 0..100, NEW b \in 0..100, a <= b
    PROVE  PulseOf(a) <= PulseOf(b)
BY DEF PulseOf, Clamp

\* Commands leave every channel silent or at a legal pulse.
LEMMA CommandedType ==
    ASSUME NEW p \in Pulses, NEW cmd, NEW ok,
           \A m \in Motor \cap DOMAIN cmd : cmd[m] \in Int
    PROVE  Commanded(p, cmd, ok) \in Pulses
<1>1. \A m \in Motor : m \in DOMAIN cmd \cap ok => PulseOf(cmd[m]) \in 1000..2000
  BY PulseOfRange
<1> QED BY <1>1 DEF Commanded, Pulses

\* A command every channel obeys sets every motor.
LEMMA CommandedAll ==
    ASSUME NEW p, NEW percent, NEW m \in Motor
    PROVE  Commanded(p, Everywhere(percent), Motor)[m] = PulseOf(percent)
BY DEF Commanded, Everywhere

\* motors_set_all leaves the types as they are.
LEMMA SetAllType ==
    ASSUME MotorTypeOK, NEW percent \in Int, motors_set_all(percent)
    PROVE  MotorTypeOK'
<1>1. PICK ok \in PwmOutcomes : pulse' = Commanded(pulse, Everywhere(percent), ok)
  BY DEF motors_set_all
<1>2. \A m \in Motor \cap DOMAIN Everywhere(percent) : Everywhere(percent)[m] \in Int
  BY DEF Everywhere
<1>3. pulse' \in Pulses
  BY <1>1, <1>2, CommandedType DEF MotorTypeOK, Pulses
<1> QED BY <1>3 DEF motors_set_all, MotorTypeOK, Pulses

\* So does the arming of the ESCs.
LEMMA ArmType ==
    ASSUME MotorTypeOK, NEW ok, esc_arm_all(ok)
    PROVE  MotorTypeOK'
<1> DEFINE cmd == [m \in Reached(ok) |-> 0]
<1>1. \A m \in Motor \cap DOMAIN cmd : cmd[m] \in Int
  OBVIOUS
<1>2. pulse' = Commanded(pulse, cmd, ok)
  BY DEF esc_arm_all
<1> HIDE DEF cmd
<1>3. pulse' \in Pulses
  BY <1>1, <1>2, CommandedType DEF MotorTypeOK, Pulses
<1> QED BY <1>3 DEF esc_arm_all, MotorTypeOK, Pulses

\* One update raises the throttle by no more than the ramp allows.
LEMMA RampStep ==
    ASSUME NEW smooth \in Int, NEW y_left \in Int
    PROVE  Ramped(smooth, y_left) \in Int /\ Ramped(smooth, y_left) <= smooth + RAMP_UP
<1> USE MotorAssumption, RcAssumption
<1> DEFINE target == CDiv(y_left * MOTOR_THROTTLE_MAX, RC_MAX)
<1>1. target \in Int
  <2>1. y_left * MOTOR_THROTTLE_MAX \in Int /\ RC_MAX \in Nat \ {0}
    OBVIOUS
  <2> QED BY <2>1, CDivInt
<1> HIDE DEF target
<1>2. Clamp(-RAMP_DOWN, target - smooth, RAMP_UP) \in -RAMP_DOWN..RAMP_UP
  <2>1. /\ -RAMP_DOWN \in Int /\ RAMP_UP \in Int /\ target - smooth \in Int
        /\ -RAMP_DOWN <= RAMP_UP
    BY <1>1
  <2> QED BY <2>1, ClampRange
<1> QED BY <1>2 DEF Ramped, target

\* For a stick within its range the ramp ends where the stick points and not beyond it.
LEMMA RampLimited ==
    ASSUME NEW smooth \in 0..MOTOR_THROTTLE_MAX, NEW y_left \in 0..RC_MAX
    PROVE  Ramped(smooth, y_left) \in 0..MOTOR_THROTTLE_MAX
<1> USE MotorAssumption, RcAssumption
<1>1. PICK target \in 0..MOTOR_THROTTLE_MAX :
         target = CDiv(y_left * MOTOR_THROTTLE_MAX, RC_MAX)
  <2>1. RC_MAX \in Nat \ {0} /\ MOTOR_THROTTLE_MAX \in Nat
    OBVIOUS
  <2> QED BY <2>1, ProportionRange
<1>2. Ramped(smooth, y_left) = smooth + Clamp(-RAMP_DOWN, target - smooth, RAMP_UP)
  BY <1>1 DEF Ramped
<1> QED BY <1>1, <1>2 DEF Clamp

\* The mixer and its limits stay within the integers they need.
LEMMA DeflectionInt ==
    ASSUME NEW v \in Int
    PROVE  Deflection(v) \in Int
<1>1. RC_MAX \div 2 \in Nat \ {0}
  BY MotorAssumption, RcAssumption
<1>2. (v - RC_CENTER) * MOTOR_MIXING_MAX \in Int
  BY MotorAssumption, RcAssumption
<1> QED BY <1>1, <1>2, CDivInt DEF Deflection

LEMMA PercentagesType ==
    ASSUME NEW throttle \in Int, NEW rc \in Package
    PROVE  Percentages(throttle, rc) \in [Motor -> 0..100]
<1>1. /\ Deflection(rc.y_right) \in Int
      /\ Deflection(rc.x_right) \in Int
      /\ Deflection(rc.x_left) \in Int
  BY DeflectionInt DEF Package
<1>2. \A m \in Motor : Mix(throttle, rc)[m] \in Int
  BY <1>1 DEF Mix, Signed
<1>3. \A m \in Motor : Clamp(0, Mix(throttle, rc)[m], 100) \in 0..100
  <2> TAKE m \in Motor
  <2> DEFINE v == Mix(throttle, rc)[m]
  <2>1. v \in Int  BY <1>2
  <2> HIDE DEF v
  <2>2. Clamp(0, v, 100) \in 0..100
    BY <2>1 DEF Clamp
  <2> QED BY <2>2 DEF v
<1> QED BY <1>3 DEF Percentages

\* A call of the mixer leaves the types as they are: the percentages it stores
\* fit their uint8_t and the pulses are legal, whatever the stick says.
LEMMA FromRcType ==
    ASSUME MotorTypeOK, NEW rc \in Package, motors_set_from_rc(rc)
    PROVE  MotorTypeOK'
<1>1. CASE MixerReset
  <2>1. PICK ok \in PwmOutcomes : pulse' = Commanded(pulse, Everywhere(0), ok)
    BY <1>1 DEF MixerReset
  <2>2. \A m \in Motor \cap DOMAIN Everywhere(0) : Everywhere(0)[m] \in Int
    BY DEF Everywhere
  <2>3. pulse' \in Pulses
    BY <2>1, <2>2, CommandedType DEF MotorTypeOK, Pulses
  <2>4. last_pct' \in [Motor -> 0..100] /\ throttle_smooth' \in Int
    BY <1>1 DEF MixerReset, Everywhere
  <2>5. update_age' \in 0..ESC_PERIOD_MS
    BY <1>1, MotorAssumption, RcAssumption DEF MixerReset
  <2> QED BY <2>3, <2>4, <2>5 DEF MotorTypeOK, Pulses
<1>2. CASE MixerTooSoon
  BY <1>2 DEF MixerTooSoon, MotorTypeOK, motorVars
<1>3. CASE MixerUpdate(rc)
  <2>1. throttle_smooth' \in Int
    <3>1. throttle_smooth \in Int /\ rc.y_left \in Int
      BY DEF MotorTypeOK, Package
    <3> QED BY <1>3, <3>1, RampStep DEF MixerUpdate
  <2>2. last_pct' \in [Motor -> 0..100]
    BY <1>3, <2>1, PercentagesType DEF MixerUpdate
  <2> DEFINE cmd == [m \in {m \in Motor : last_pct'[m] # last_pct[m]} |-> last_pct'[m]]
  <2>3. PICK ok \in PwmOutcomes : pulse' = Commanded(pulse, cmd, ok)
    BY <1>3 DEF MixerUpdate
  <2>4. \A m \in Motor \cap DOMAIN cmd : cmd[m] \in Int
    BY <2>2
  <2> HIDE DEF cmd
  <2>5. pulse' \in Pulses
    BY <2>3, <2>4, CommandedType DEF MotorTypeOK, Pulses
  <2>6. update_age' \in 0..ESC_PERIOD_MS
    BY <1>3, MotorAssumption, RcAssumption DEF MixerUpdate
  <2> QED BY <2>1, <2>2, <2>5, <2>6 DEF MotorTypeOK, Pulses
<1> QED BY <1>1, <1>2, <1>3 DEF motors_set_from_rc

\* Whatever a page posts, the packet it stands for has every stick within its range.
THEOREM RequestsInRange ==
    ASSUME NEW req \in Request
    PROVE  PackageOf(req) \in [x_right : 0..RC_MAX, y_right : 0..RC_MAX, x_left : 0..RC_MAX,
                               y_left : 0..RC_MAX, drone_active : BOOLEAN]
<1> USE RcAssumption
<1>1. ASSUME NEW v \in Int PROVE SliderToStick(v) \in 0..RC_MAX
  <2>1. v * RC_CENTER \in Int
    OBVIOUS
  <2>2. CDiv(v * RC_CENTER, 100) \in Int
    BY <2>1, CDivInt
  <2>3. PICK x \in Int : x = RC_CENTER + CDiv(v * RC_CENTER, 100)
    BY <2>2
  <2> QED BY <2>3 DEF SliderToStick, Clamp
<1>2. Clamp(0, CDiv(req.t * RC_MAX, 100), RC_MAX) \in 0..RC_MAX
  <2>1. req.t * RC_MAX \in Int
    BY DEF Request
  <2>2. PICK x \in Int : x = CDiv(req.t * RC_MAX, 100)
    BY <2>1, CDivInt
  <2> QED BY <2>2 DEF Clamp
<1>3. (req.a # 0) \in BOOLEAN
  OBVIOUS
<1> QED BY <1>1, <1>2, <1>3 DEF PackageOf, Request

\* Mixing is balanced before the limits apply: the four commands add up to four
\* times the throttle, and each pair exceeds its opposite by four times the
\* correction of its axis.
THEOREM MixingBalanced ==
    ASSUME NEW throttle \in Int, NEW rc \in Package
    PROVE  LET mix == Mix(throttle, rc) IN
           /\ mix["FL"] + mix["FR"] + mix["RL"] + mix["RR"] = 4 * throttle
           /\ mix["FL"] + mix["FR"] - mix["RL"] - mix["RR"] = 4 * Deflection(rc.y_right)
           /\ mix["FL"] + mix["RL"] - mix["FR"] - mix["RR"] = 4 * Deflection(rc.x_right)
           /\ mix["FR"] + mix["RL"] - mix["FL"] - mix["RR"] = 4 * Deflection(rc.x_left)
<1>1. /\ Deflection(rc.y_right) \in Int
      /\ Deflection(rc.x_right) \in Int
      /\ Deflection(rc.x_left) \in Int
  BY DeflectionInt DEF Package
<1>2. "FL" \in Motor /\ "FR" \in Motor /\ "RL" \in Motor /\ "RR" \in Motor
  BY DEF Motor
<1> QED BY <1>1, <1>2 DEF Mix, Signed
=============================================================================
