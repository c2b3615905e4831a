-------------------------- MODULE MotorHistoryProofs --------------------------
(***************************************************************************)
(* The motor controller under any caller of its functions: legal pulses, a *)
(* ramp that holds over time, the mixing table after the limits, and a     *)
(* cache of percentages that agrees with the ESCs.                         *)
(***************************************************************************)
EXTENDS MCMotors, DroneMotorsProofs

LEMMA CallsAreTyped ==
    /\ \A percent \in AllPercents : percent \in Int
    /\ \A rc \in RcSticks : rc \in Package
BY CallerAssumption

\* What the mixer does when it is called.
LEMMA MixerCases ==
    ASSUME NEW rc, motors_set_from_rc(rc)
    PROVE  \/ ~rc.drone_active /\ MixerReset
           \/ rc.drone_active /\ MixerTooSoon
           \/ rc.drone_active /\ MixerUpdate(rc)
BY DEF motors_set_from_rc

-----------------------------------------------------------------------------
(* Types *)

LEMMA NextMotorTyped ==
    ASSUME MotorTypeOK, [Next]_vars
    PROVE  MotorTypeOK'
<1>1. CASE Arm
  BY <1>1, ArmType DEF Arm
<1>2. ASSUME NEW percent \in AllPercents, SetAll(percent) PROVE MotorTypeOK'
  BY <1>2, CallsAreTyped, SetAllType DEF SetAll
<1>3. ASSUME NEW rc \in RcSticks, FromRc(rc) PROVE MotorTypeOK'
  BY <1>3, CallsAreTyped, FromRcType DEF FromRc
<1>4. CASE Elapse
  BY <1>4, MotorAssumption DEF Elapse, MotorElapse, MotorTypeOK, Older
<1>5. CASE UNCHANGED vars
  BY <1>5 DEF vars, motorVars, MotorTypeOK
<1> QED BY <1>1, <1>2, <1>3, <1>4, <1>5 DEF Next

\* Whatever the callers ask for and whichever writes are lost, every channel is silent or
\* at a legal pulse and what the mixer keeps fits its uint8_t.
THEOREM MotorsTyped == Spec => []MotorTypeOK
<1>1. Init => MotorTypeOK
  BY MotorAssumption DEF Init, MotorInit, MotorTypeOK
<1>2. MotorTypeOK /\ [Next]_vars => MotorTypeOK'
  BY NextMotorTyped
<1> QED BY <1>1, <1>2, PTL DEF Spec

-----------------------------------------------------------------------------
(* The ramp *)

\* Between two updates the clock makes up for what the next one may add: the age of the
\* last update is a credit towards it.
RampInv ==
    /\ since_reset \in 0..WATCH
    /\ since_reset < WATCH =>
           throttle_smooth * ESC_PERIOD_MS + RAMP_UP * update_age
               <= RAMP_UP * (since_reset + ESC_PERIOD_MS)

LEMMA RampInit == Init => RampInv
BY MotorAssumption, CallerAssumption DEF Init, MotorInit, RampInv

LEMMA RampReset ==
    ASSUME throttle_smooth' = 0, update_age' = ESC_PERIOD_MS, since_reset' = 0
    PROVE  RampInv'
BY MotorAssumption, CallerAssumption DEF RampInv

LEMMA UpdateKeepsRamp ==
    ASSUME MotorTypeOK, RampInv, NEW rc \in Package, MixerUpdate(rc), UNCHANGED since_reset
    PROVE  RampInv'
<1> USE MotorAssumption, CallerAssumption
<1>1. PICK new \in Int : throttle_smooth' = new /\ new <= throttle_smooth + RAMP_UP
  <2>1. throttle_smooth \in Int /\ rc.y_left \in Int
    BY DEF MotorTypeOK, Package
  <2> QED BY <2>1, RampStep DEF MixerUpdate
<1>2. update_age = ESC_PERIOD_MS /\ update_age' = 0
  BY DEF MixerUpdate, MotorTypeOK
<1>3. SUFFICES ASSUME since_reset < WATCH
               PROVE  new * ESC_PERIOD_MS <= RAMP_UP * (since_reset + ESC_PERIOD_MS)
  <2>1. RAMP_UP * 0 = 0 /\ new * ESC_PERIOD_MS \in Int
    OBVIOUS
  <2> QED BY <1>1, <1>2, <1>3, <2>1 DEF RampInv
<1>4. new * ESC_PERIOD_MS <= throttle_smooth * ESC_PERIOD_MS + RAMP_UP * ESC_PERIOD_MS
  <2>1. PICK d \in Nat : new + d = throttle_smooth + RAMP_UP
    <3>1. throttle_smooth + RAMP_UP - new \in Nat
      BY <1>1 DEF MotorTypeOK
    <3> QED BY <1>1, <3>1 DEF MotorTypeOK
  <2>2. (new + d) * ESC_PERIOD_MS = new * ESC_PERIOD_MS + d * ESC_PERIOD_MS
    OBVIOUS
  <2>3. (throttle_smooth + RAMP_UP) * ESC_PERIOD_MS
          = throttle_smooth * ESC_PERIOD_MS + RAMP_UP * ESC_PERIOD_MS
    BY DEF MotorTypeOK
  <2>4. d * ESC_PERIOD_MS \in Nat /\ new * ESC_PERIOD_MS \in Int
    OBVIOUS
  <2> QED BY <2>1, <2>2, <2>3, <2>4
<1>5. /\ throttle_smooth * ESC_PERIOD_MS + RAMP_UP * ESC_PERIOD_MS
           <= RAMP_UP * (since_reset + ESC_PERIOD_MS)
      /\ throttle_smooth * ESC_PERIOD_MS \in Int /\ RAMP_UP * ESC_PERIOD_MS \in Int
      /\ RAMP_UP * (since_reset + ESC_PERIOD_MS) \in Int /\ new * ESC_PERIOD_MS \in Int
  BY <1>2, <1>3 DEF RampInv, MotorTypeOK
<1> QED BY <1>4, <1>5

LEMMA ElapseKeepsRamp ==
    ASSUME MotorTypeOK, RampInv, Elapse
    PROVE  RampInv'
<1> USE MotorAssumption, CallerAssumption
<1> DEFINE low == throttle_smooth * ESC_PERIOD_MS
<1>1. PICK age \in 0..ESC_PERIOD_MS, since \in 0..WATCH :
         /\ update_age' = age /\ age <= update_age + 1
         /\ since_reset' = since /\ (since < WATCH => since = since_reset + 1)
         /\ throttle_smooth' = throttle_smooth
  BY DEF Elapse, MotorElapse, Older, RampInv, MotorTypeOK
<1>2. SUFFICES ASSUME since < WATCH
               PROVE  low + RAMP_UP * age <= RAMP_UP * (since + ESC_PERIOD_MS)
  BY <1>1 DEF RampInv
<1>3. low + RAMP_UP * update_age <= RAMP_UP * (since_reset + ESC_PERIOD_MS)
  BY <1>1, <1>2 DEF RampInv
<1>4. RAMP_UP * (since + ESC_PERIOD_MS) = RAMP_UP * (since_reset + ESC_PERIOD_MS) + RAMP_UP
  BY <1>1, <1>2 DEF RampInv
<1>5. RAMP_UP * age <= RAMP_UP * update_age + RAMP_UP
  <2>1. PICK d \in Nat : age + d = update_age + 1
    <3>1. update_age + 1 - age \in Nat
      BY <1>1 DEF MotorTypeOK
    <3> QED BY <3>1 DEF MotorTypeOK
  <2>2. RAMP_UP * age + RAMP_UP * d = RAMP_UP * update_age + RAMP_UP
    BY <2>1 DEF MotorTypeOK
  <2>3. RAMP_UP * d \in Nat /\ RAMP_UP * age \in Int /\ RAMP_UP * update_age \in Int
    BY DEF MotorTypeOK
  <2> QED BY <2>2, <2>3
<1>6. /\ low \in Int /\ RAMP_UP * age \in Int /\ RAMP_UP * update_age \in Int
      /\ RAMP_UP * (since_reset + ESC_PERIOD_MS) \in Int
  BY DEF MotorTypeOK, RampInv
<1> HIDE DEF low
<1> QED BY <1>3, <1>4, <1>5, <1>6

LEMMA NextKeepsRamp ==
    ASSUME MotorTypeOK, RampInv, [Next]_vars
    PROVE  RampInv'
<1>1. CASE UNCHANGED <<throttle_smooth, update_age, since_reset>>
  BY <1>1 DEF RampInv
<1>2. ASSUME NEW rc \in RcSticks, FromRc(rc) PROVE RampInv'
  <2>1. rc \in Package /\ motors_set_from_rc(rc)
    BY <1>2, CallsAreTyped DEF FromRc
  <2>2. CASE ~rc.drone_active /\ MixerReset
    BY <1>2, <2>2, RampReset DEF FromRc, MixerReset
  <2>3. CASE rc.drone_active /\ MixerTooSoon
    BY <1>1, <1>2, <2>3 DEF FromRc, MixerTooSoon, motorVars
  <2>4. CASE rc.drone_active /\ MixerUpdate(rc)
    BY <1>2, <2>1, <2>4, UpdateKeepsRamp DEF FromRc
  <2> QED BY <2>1, <2>2, <2>3, <2>4, MixerCases
<1>3. CASE Elapse
  BY <1>3, ElapseKeepsRamp
<1> QED BY <1>1, <1>2, <1>3 DEF Next, Arm, esc_arm_all, SetAll, motors_set_all, vars, motorVars

\* The ramp holds over time, for every period, every ramp and every rate of calls.
THEOREM RampHolds == Spec => []RampBounded
<1>1. MotorTypeOK /\ RampInv /\ [Next]_vars => RampInv'
  BY NextKeepsRamp
<1>2. MotorTypeOK /\ RampInv => RampBounded
  <2> SUFFICES ASSUME MotorTypeOK, RampInv, since_reset < WATCH
               PROVE  throttle_smooth * ESC_PERIOD_MS
                          <= RAMP_UP * (since_reset + ESC_PERIOD_MS)
    BY DEF RampBounded
  <2>1. /\ RAMP_UP * update_age \in Nat /\ throttle_smooth * ESC_PERIOD_MS \in Int
        /\ RAMP_UP * (since_reset + ESC_PERIOD_MS) \in Int
    BY MotorAssumption, CallerAssumption DEF MotorTypeOK, RampInv
  <2> QED BY <2>1 DEF RampInv
<1> QED BY <1>1, <1>2, RampInit, MotorsTyped, PTL DEF Spec

\* The ramped throttle stays within what the stick can ask for, if the callers' sticks are
\* within their range: those of a page always are (RequestsInRange).
THEOREM ThrottleHolds ==
    ASSUME \A rc \in RcSticks : rc.y_left \in 0..RC_MAX
    PROVE  Spec => []ThrottleLimited
<1>1. Init => ThrottleLimited
  BY MotorAssumption DEF Init, MotorInit, ThrottleLimited
<1>2. ThrottleLimited /\ [Next]_vars => ThrottleLimited'
  <2> SUFFICES ASSUME ThrottleLimited, [Next]_vars PROVE ThrottleLimited'
    OBVIOUS
  <2>1. CASE UNCHANGED throttle_smooth
    BY <2>1 DEF ThrottleLimited
  <2>2. ASSUME NEW rc \in RcSticks, FromRc(rc) PROVE ThrottleLimited'
    <3>1. CASE MixerReset
      BY <3>1, MotorAssumption DEF MixerReset, ThrottleLimited
    <3>2. CASE MixerTooSoon
      BY <2>1, <3>2 DEF MixerTooSoon, motorVars
    <3>3. CASE MixerUpdate(rc)
      BY <3>3, RampLimited DEF MixerUpdate, ThrottleLimited
    <3> QED BY <2>2, <3>1, <3>2, <3>3, MixerCases DEF FromRc
  <2> QED BY <2>1, <2>2 DEF Next, Arm, esc_arm_all, SetAll, motors_set_all, Elapse,
                            MotorElapse, vars, motorVars
<1> QED BY <1>1, <1>2, PTL DEF Spec

-----------------------------------------------------------------------------
(* The mixing table *)

\* What the mixer remembers is the last packet mixed at the throttle it has reached, or
\* it is at rest.
MixedInv ==
    /\ last_rc \in Package
    /\ last_pct = Everywhere(0) \/ last_pct = Percentages(throttle_smooth, last_rc)

LEMMA NeutralIsPackage == Released \in Package
BY RcAssumption DEF Released, Stick, Package

LEMMA NextMixes ==
    ASSUME MotorTypeOK, MixedInv, [Next]_vars
    PROVE  MixedInv'
<1>1. CASE UNCHANGED <<last_rc, last_pct, throttle_smooth>>
  BY <1>1 DEF MixedInv
<1>2. ASSUME NEW rc \in RcSticks, FromRc(rc) PROVE MixedInv'
  <2>1. rc \in Package /\ motors_set_from_rc(rc) /\ last_rc' \in {rc, last_rc}
    BY <1>2, CallsAreTyped DEF FromRc
  <2>2. CASE ~rc.drone_active /\ MixerReset
    BY <2>1, <2>2 DEF MixerReset, MixedInv
  <2>3. CASE rc.drone_active /\ MixerTooSoon
    <3>1. last_rc' = last_rc
      BY <1>2, <2>3, MotorAssumption DEF FromRc, MixerTooSoon, MotorTypeOK
    <3> QED BY <1>1, <2>3, <3>1 DEF MixerTooSoon, motorVars
  <2>4. CASE rc.drone_active /\ MixerUpdate(rc)
    <3>1. last_rc' = rc
      BY <1>2, <2>4 DEF FromRc, MixerUpdate
    <3> QED BY <2>1, <2>4, <3>1 DEF MixerUpdate, MixedInv
  <2> QED BY <2>1, <2>2, <2>3, <2>4, MixerCases
<1> QED BY <1>1, <1>2 DEF Next, Arm, esc_arm_all, SetAll, motors_set_all, Elapse, MotorElapse,
                          vars, motorVars

\* An output strictly between the limits was not clipped.
LEMMA UnclippedIsMix ==
    ASSUME NEW throttle \in Int, NEW rc \in Package, NEW m \in Motor,
           Percentages(throttle, rc)[m] \in 1..99
    PROVE  Mix(throttle, rc)[m] = Percentages(throttle, rc)[m]
<1>1. Deflection(rc.y_right) \in Int /\ Deflection(rc.x_right) \in Int
      /\ Deflection(rc.x_left) \in Int
  BY DeflectionInt DEF Package
<1>2. PICK v \in Int : v = Mix(throttle, rc)[m]
  BY <1>1 DEF Mix, Signed
<1>3. Percentages(throttle, rc)[m] = Clamp(0, v, 100)
  BY <1>2 DEF Percentages
<1> QED BY <1>2, <1>3 DEF Clamp

LEMMA MixedIsBalanced == ASSUME MotorTypeOK, MixedInv PROVE MixBalanced
<1> SUFFICES ASSUME \A m \in Motor : last_pct[m] \in 1..99
             PROVE  /\ last_pct["FL"] + last_pct["FR"] + last_pct["RL"] + last_pct["RR"]
                           = 4 * throttle_smooth
                    /\ last_pct["FL"] + last_pct["FR"] - last_pct["RL"] - last_pct["RR"]
                           = 4 * Deflection(last_rc.y_right)
                    /\ last_pct["FL"] + last_pct["RL"] - last_pct["FR"] - last_pct["RR"]
                           = 4 * Deflection(last_rc.x_right)
                    /\ last_pct["FR"] + last_pct["RL"] - last_pct["FL"] - last_pct["RR"]
                           = 4 * Deflection(last_rc.x_left)
  BY DEF MixBalanced
<1>1. throttle_smooth \in Int /\ last_rc \in Package
  BY DEF MotorTypeOK, MixedInv
<1>2. "FL" \in Motor /\ "FR" \in Motor /\ "RL" \in Motor /\ "RR" \in Motor
  BY DEF Motor
<1>3. last_pct = Percentages(throttle_smooth, last_rc)
  BY <1>2 DEF MixedInv, Everywhere
<1>4. \A m \in Motor : last_pct[m] = Mix(throttle_smooth, last_rc)[m]
  BY <1>1, <1>3, UnclippedIsMix
<1> QED BY <1>1, <1>2, <1>4, MixingBalanced

\* As long as no motor is at a limit the four outputs are the mixing table of the header,
\* for every packet any caller may have passed.
THEOREM OutputsAreBalanced == Spec => []MixBalanced
<1>1. Init => MixedInv
  BY NeutralIsPackage DEF Init, MotorInit, MixedInv, Everywhere
<1>2. MotorTypeOK /\ MixedInv /\ [Next]_vars => MixedInv'
  BY NextMixes
<1>3. MotorTypeOK /\ MixedInv => MixBalanced
  BY MixedIsBalanced
<1> QED BY <1>1, <1>2, <1>3, MotorsTyped, PTL DEF Spec

-----------------------------------------------------------------------------
(* The cache, with a PWM that obeys *)

\* The mixer is not called before the ESCs are armed.
CacheInv ==
    /\ ~armed => last_pct = Everywhere(0)
    /\ CacheTracksOutput

LEMMA AllReached == Reached(Motor) = Motor
BY DEF Reached, Channel, Motor

LEMMA ArmKeepsCache ==
    ASSUME PwmOutcomes = {Motor}, CacheInv, Arm
    PROVE  CacheInv'
<1>1. armed' = TRUE /\ pulse' = Commanded(pulse, [m \in Motor |-> 0], Motor)
  BY AllReached DEF Arm, esc_arm_all
<1>2. \A m \in Motor : last_pct'[m] = 0
  BY DEF Arm, esc_arm_all, CacheInv, Everywhere
<1>3. \A m \in Motor : pulse'[m] = PulseOf(0)
  BY <1>1 DEF Commanded
<1> QED BY <1>1, <1>2, <1>3 DEF CacheInv, CacheTracksOutput

LEMMA FromRcKeepsCache ==
    ASSUME PwmOutcomes = {Motor}, CacheInv, NEW rc \in RcSticks, FromRc(rc)
    PROVE  CacheInv'
<1>1. armed /\ armed' = armed /\ motors_set_from_rc(rc)
  BY DEF FromRc
<1>2. SUFFICES ASSUME NEW m \in Motor \ overridden' PROVE pulse'[m] = PulseOf(last_pct'[m])
  BY <1>1 DEF CacheInv, CacheTracksOutput
<1>3. CASE ~rc.drone_active /\ MixerReset
  <2>1. pulse' = Commanded(pulse, Everywhere(0), Motor) /\ last_pct'[m] = 0
    BY <1>3 DEF MixerReset, Everywhere
  <2> QED BY <2>1, CommandedAll
<1>4. CASE rc.drone_active /\ MixerTooSoon
  <2>1. UNCHANGED <<pulse, last_pct>> /\ m \notin overridden
    BY <1>4 DEF FromRc, MixerTooSoon, motorVars
  <2> QED BY <1>1, <2>1 DEF CacheInv, CacheTracksOutput
<1>5. CASE rc.drone_active /\ MixerUpdate(rc)
  <2> DEFINE changed == {k \in Motor : last_pct'[k] # last_pct[k]}
             cmd == [k \in changed |-> last_pct'[k]]
  <2>1. pulse' = Commanded(pulse, cmd, Motor) /\ overridden' = overridden \ changed
    BY <1>5 DEF FromRc, MixerUpdate
  <2>2. CASE m \in changed
    BY <2>1, <2>2 DEF Commanded
  <2>3. CASE m \notin changed
    <3>1. pulse'[m] = pulse[m] /\ last_pct'[m] = last_pct[m] /\ m \notin overridden
      BY <2>1, <2>3 DEF Commanded
    <3> QED BY <1>1, <3>1 DEF CacheInv, CacheTracksOutput
  <2> QED BY <2>2, <2>3
<1> QED BY <1>1, <1>3, <1>4, <1>5, MixerCases

LEMMA NextKeepsCache ==
    ASSUME PwmOutcomes = {Motor}, CacheInv, [Next]_vars
    PROVE  CacheInv'
<1>1. CASE Arm
  BY <1>1, ArmKeepsCache
<1>2. ASSUME NEW percent \in AllPercents, SetAll(percent) PROVE CacheInv'
  BY <1>2 DEF SetAll, CacheInv, CacheTracksOutput
<1>3. ASSUME NEW rc \in RcSticks, FromRc(rc) PROVE CacheInv'
  BY <1>3, FromRcKeepsCache
<1>4. CASE UNCHANGED <<pulse, last_pct, armed, overridden>>
  BY <1>4 DEF CacheInv, CacheTracksOutput
<1> QED BY <1>1, <1>2, <1>3, <1>4 DEF Next, Elapse, MotorElapse, vars, motorVars

\* Every write the mixer skips is one the ESC has already had, except where motors_set_all
\* has written since.
THEOREM CacheIsTrue ==
    ASSUME PwmOutcomes = {Motor}
    PROVE  Spec => []CacheTracksOutput
<1>1. Init => CacheInv
  BY DEF Init, MotorInit, CacheInv, CacheTracksOutput, Everywhere
<1>2. CacheInv /\ [Next]_vars => CacheInv'
  BY NextKeepsCache
<1>3. CacheInv => CacheTracksOutput
  BY DEF CacheInv
<1> QED BY <1>1, <1>2, <1>3, PTL DEF Spec
=============================================================================
