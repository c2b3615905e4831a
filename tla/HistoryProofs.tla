---------------------------- MODULE HistoryProofs ----------------------------
(***************************************************************************)
(* What the state machine's timestamps are for: the drone arms only after  *)
(* the whole held gesture, a landing keeps its pace, and loss of command   *)
(* ends on the ground in bounded time, for every value of the times, every *)
(* packet and every delay of the loop.                                     *)
(***************************************************************************)
EXTENDS MCDroneFsm, DroneFsmProofs

LEMMA StepIsFsmStep == [Next]_vars => [FsmNext]_fsmVars
BY DEF Next, vars, FsmNext

LEMMA AlwaysTyped == Spec => []FsmTypeOK
<1>1. Init => FsmTypeOK
  BY FsmInitTyped DEF Init
<1>2. FsmTypeOK /\ [Next]_vars => FsmTypeOK'
  BY StepIsFsmStep, NextTyped
<1> QED BY <1>1, <1>2, PTL DEF Spec

-----------------------------------------------------------------------------
(* Arming *)

HistoryTypeOK ==
    held_for \in 0..ARM_CONFIRM_MS /\ holding \in BOOLEAN /\ confirmed \in BOOLEAN

\* ARMING was entered with the gesture, and each pass since has seen it: it has been held
\* for at least as long as the state machine is in ARMING.
ArmingHeld ==
    current_state = "ARMING" =>
        holding /\ (held_for >= state_age \/ held_for >= ARM_CONFIRM_MS)

ArmingInv == HistoryTypeOK /\ ArmingHeld /\ ArmedOnlyAfterHold

LEMMA ArmingInit == Init => ArmingInv
<1> SUFFICES ASSUME Init PROVE ArmingInv
  OBVIOUS
<1>1. held_for \in 0..ARM_CONFIRM_MS
  BY FsmAssumption DEF Init, HistoryInit
<1>2. holding \in BOOLEAN /\ confirmed \in BOOLEAN
  BY Zenon DEF Init, HistoryInit
<1>3. current_state = "INIT"
  BY DEF Init, FsmInit
<1> QED BY <1>1, <1>2, <1>3 DEF ArmingInv, HistoryTypeOK, ArmingHeld, ArmedOnlyAfterHold

LEMMA BootArms == ASSUME ArmingInv, Boot, UNCHANGED history PROVE ArmingInv'
BY DEF ArmingInv, HistoryTypeOK, ArmingHeld, ArmedOnlyAfterHold, history, Boot, EscInitFails,
       EscInitWorks, ImuInitFails, ImuInitWorks, MpuFault, enter_state, stay

LEMMA ControlArms ==
    ASSUME FsmTypeOK, ArmingInv, NEW rc \in RcPackets, Control(rc), Witness(rc)
    PROVE  ArmingInv'
<1> USE FsmAssumption
<1>1. HistoryTypeOK'
  <2>1. held_for' \in 0..ARM_CONFIRM_MS
    BY DEF Witness, ArmingInv, HistoryTypeOK
  <2>2. rc.drone_active \in BOOLEAN
    BY DEF Package
  <2>3. holding' \in BOOLEAN /\ confirmed' \in BOOLEAN
    BY <2>2 DEF Witness, ArmingInv, HistoryTypeOK, arm_condition
  <2> QED BY <2>1, <2>3 DEF HistoryTypeOK
<1>2. ArmingHeld'
  <2>1. CASE current_state \in {"INIT", "IDLE"}
    BY <1>1, <2>1 DEF Control, state_idle, state_arming, state_armed, state_flying,
           state_failsafe, state_landing, state_error, enter_state, stay, Witness,
           ArmingHeld, HistoryTypeOK
  <2>2. CASE current_state = "ARMING"
    BY <2>2 DEF Control, state_idle, state_arming, state_armed, state_flying,
           state_failsafe, state_landing, state_error, enter_state, stay, Witness,
           ArmingInv, ArmingHeld
  <2>3. CASE current_state \notin {"INIT", "IDLE", "ARMING"}
    BY <2>3 DEF Control, state_idle, state_arming, state_armed, state_flying,
           state_failsafe, state_landing, state_error, SignalRecovered, FailsafeTimeout,
           HoldThrottle, LandingComplete, LandingStep, LandingWait, enter_state, stay,
           ArmingHeld
  <2> QED BY <2>1, <2>2, <2>3
<1>3. ArmedOnlyAfterHold'
  <2>1. CASE current_state = "ARMING" /\ current_state' = "ARMED"
    <3>1. state_age >= ARM_CONFIRM_MS /\ arm_condition(rc)
      BY <2>1 DEF Control, state_idle, state_arming, state_armed, state_flying,
             state_failsafe, state_landing, state_error, enter_state, stay
    <3>2. holding /\ held_for >= ARM_CONFIRM_MS
      BY <2>1, <3>1 DEF ArmingInv, ArmingHeld, HistoryTypeOK, FsmTypeOK
    <3> QED BY <2>1, <3>1, <3>2 DEF Witness, ArmedOnlyAfterHold
  <2>2. CASE /\ current_state \in {"ARMED", "FLYING", "FAILSAFE", "LANDING"}
             /\ current_state' \notin {"IDLE", "ERROR"}
    BY <2>2 DEF Witness, ArmingInv, ArmedOnlyAfterHold
  <2>3. \/ current_state' \notin {"ARMED", "FLYING", "FAILSAFE", "LANDING"}
        \/ current_state = "ARMING" /\ current_state' = "ARMED"
        \/ /\ current_state \in {"ARMED", "FLYING", "FAILSAFE", "LANDING"}
           /\ current_state' \notin {"IDLE", "ERROR"}
    BY DEF Control, state_idle, state_arming, state_armed, state_flying,
           state_failsafe, state_landing, state_error, SignalRecovered, FailsafeTimeout,
           HoldThrottle, LandingComplete, LandingStep, LandingWait, enter_state, stay
  <2> QED BY <2>1, <2>2, <2>3 DEF ArmedOnlyAfterHold
<1> QED BY <1>1, <1>2, <1>3 DEF ArmingInv

LEMMA ElapseArms ==
    ASSUME FsmTypeOK, ArmingInv, Elapse, WitnessElapse
    PROVE  ArmingInv'
BY FsmAssumption DEF WitnessElapse, FsmTypeOK, ArmingInv, HistoryTypeOK, ArmingHeld, ArmedOnlyAfterHold,
                     Elapse, Older

LEMMA NextArms ==
    ASSUME FsmTypeOK, ArmingInv, [Next]_vars
    PROVE  ArmingInv'
<1>1. CASE Boot /\ UNCHANGED history
  BY <1>1, BootArms
<1>2. ASSUME NEW rc \in RcPackets, Control(rc), Witness(rc) PROVE ArmingInv'
  BY <1>2, ControlArms
<1>3. CASE ImuFailure /\ WitnessFailure
  <2>1. held_for' \in 0..ARM_CONFIRM_MS
    BY <1>3, FsmAssumption DEF WitnessFailure
  <2>2. holding' \in BOOLEAN /\ confirmed' \in BOOLEAN
    BY <1>3, Zenon DEF WitnessFailure
  <2>3. current_state' = "ERROR"
    BY <1>3 DEF ImuFailure, enter_state
  <2> QED BY <2>1, <2>2, <2>3 DEF ArmingInv, HistoryTypeOK, ArmingHeld, ArmedOnlyAfterHold
<1>4. CASE Elapse /\ WitnessElapse
  BY <1>4, ElapseArms
<1>5. CASE UNCHANGED vars
  BY <1>5 DEF vars, history, fsmVars, fsmOnly, ArmingInv, HistoryTypeOK, ArmingHeld,
              ArmedOnlyAfterHold
<1> QED BY <1>1, <1>2, <1>3, <1>4, <1>5 DEF Next, Halted, vars

\* A drone that is armed, or was since it was last disarmed, has seen the gesture in every
\* pass for ARM_CONFIRM_MS.
THEOREM ArmingNeedsHold == Spec => []ArmedOnlyAfterHold
<1>1. FsmTypeOK /\ ArmingInv /\ [Next]_vars => ArmingInv'
  BY NextArms
<1>2. ArmingInv => ArmedOnlyAfterHold
  BY DEF ArmingInv
<1> QED BY <1>1, <1>2, ArmingInit, AlwaysTyped, PTL DEF Spec

-----------------------------------------------------------------------------
(* Landing *)

\* The quotient that is rounded up.
LEMMA CeilingIs ==
    ASSUME NEW p \in Nat \ {0}, NEW d \in Nat, NEW j \in Int, p * j - p < d, d <= p * j
    PROVE  (d + p - 1) \div p = j
<1> DEFINE a == d + p - 1
           q == a \div p
<1>1. a \in Int /\ q \in Int /\ p * q <= a /\ a < p * q + p
  BY Z3
<1>2. p * j <= a /\ a < p * j + p
  OBVIOUS
<1>3. p * (q + 1) = p * q + p /\ p * (j + 1) = p * j + p
  BY <1>1
<1>4. p * j < p * (q + 1) /\ p * q < p * (j + 1)
  BY <1>1, <1>2, <1>3
<1>5. j < q + 1 /\ q < j + 1
  BY <1>1, <1>4, FactorCancels
<1> QED BY <1>1, <1>5

\* How long ago the last step was, at most: a step that is due waits for the next pass,
\* and so does the touch-down after the last.
SinceStep ==
    IF landing_throttle = 0 THEN loop_age
    ELSE IF landing_age < LANDING_STEP_MS THEN landing_age ELSE LANDING_STEP_MS - 1 + loop_age

\* The longest a step can take.
StepMost == LANDING_STEP_MS + MAX_STALL_MS

\* The longest the landing can have taken so far.
Allowance == StepMost * StepsTaken + SinceStep

\* The throttle has come down by whole steps, the last one aside.
StepsInv ==
    current_state = "LANDING" =>
        /\ StepsTaken \in Int
        /\ landing_throttle > 0 =>
               landing_throttle + LANDING_STEP_PCT * StepsTaken = FAILSAFE_HOLD_PCT

\* Each step took at least its interval and at most one stall more.
PaceInv ==
    current_state = "LANDING" =>
        /\ state_age < STATE_AGE_MAX =>
               LANDING_STEP_MS * StepsTaken + landing_age <= state_age
        /\ state_age <= Allowance

LandingInv == StepsInv /\ PaceInv

LEMMA LandingTypes ==
    ASSUME FsmTypeOK, StepsInv, current_state = "LANDING"
    PROVE  /\ StepsTaken \in Int /\ SinceStep \in Nat /\ StepMost \in Nat /\ Allowance \in Int
           /\ landing_throttle \in 0..FAILSAFE_HOLD_PCT /\ landing_age \in 0..LANDING_STEP_MS
           /\ loop_age \in 0..MAX_STALL_MS /\ state_age \in 0..STATE_AGE_MAX
<1> USE FsmAssumption
<1>1. /\ StepsTaken \in Int
      /\ landing_throttle \in 0..FAILSAFE_HOLD_PCT /\ landing_age \in 0..LANDING_STEP_MS
      /\ loop_age \in 0..MAX_STALL_MS /\ state_age \in 0..STATE_AGE_MAX
  BY DEF StepsInv, FsmTypeOK
<1>2. SinceStep \in Nat /\ StepMost \in Nat
  BY <1>1 DEF SinceStep, StepMost
<1>3. Allowance \in Int
  BY <1>1, <1>2 DEF Allowance
<1> QED BY <1>1, <1>2, <1>3

\* A landing begins without a step.
LEMMA LandingBegins ==
    ASSUME FsmTypeOK, NEW rc, FailsafeTimeout(rc), loop_age' = 0
    PROVE  StepsTaken' = 0 /\ Allowance' = 0 /\ LandingInv'
<1> USE FsmAssumption
<1>0. /\ landing_throttle' = FAILSAFE_HOLD_PCT /\ landing_age' = 0 /\ state_age' = 0
      /\ loop_age' = 0
  BY DEF FailsafeTimeout, enter_state
<1>1. (0 + LANDING_STEP_PCT - 1) \div LANDING_STEP_PCT = 0
  BY CeilingIs
<1>2. StepsTaken' = 0
  BY <1>0, <1>1 DEF StepsTaken
<1>3. /\ LANDING_STEP_PCT * StepsTaken' = 0
      /\ LANDING_STEP_MS * StepsTaken' = 0
      /\ StepMost' * StepsTaken' = 0
  BY <1>2 DEF StepMost
<1>4. SinceStep' = 0
  BY <1>0 DEF SinceStep
<1>5. Allowance' = 0
  BY <1>3, <1>4 DEF Allowance
<1> QED BY <1>0, <1>2, <1>3, <1>5 DEF LandingInv, StepsInv, PaceInv

\* A landing step is one more, and what it was allowed covers how long it took.
LEMMA StepCounts ==
    ASSUME FsmTypeOK, StepsInv, current_state = "LANDING", LandingStep, loop_age' = 0
    PROVE  /\ StepsTaken' = StepsTaken + 1 /\ StepsInv'
           /\ Allowance' \in Int /\ Allowance <= Allowance'
<1> USE FsmAssumption
<1> DEFINE k == StepsTaken
<1>0. /\ k \in Int /\ landing_throttle \in 0..FAILSAFE_HOLD_PCT /\ landing_throttle > 0
      /\ landing_throttle + LANDING_STEP_PCT * k = FAILSAFE_HOLD_PCT
      /\ loop_age \in 0..MAX_STALL_MS /\ SinceStep \in Nat /\ StepMost \in Nat
  BY LandingTypes DEF StepsInv, LandingStep
<1> HIDE DEF k
<1>1. LANDING_STEP_PCT * (k + 1) = LANDING_STEP_PCT * k + LANDING_STEP_PCT
  BY <1>0
<1>2. PICK left \in 0..FAILSAFE_HOLD_PCT :
         /\ landing_throttle' = left
         /\ left = IF landing_throttle > LANDING_STEP_PCT
                     THEN landing_throttle - LANDING_STEP_PCT ELSE 0
  BY <1>0 DEF LandingStep
<1>3. /\ left > 0 => left + LANDING_STEP_PCT * (k + 1) = FAILSAFE_HOLD_PCT
      /\ LANDING_STEP_PCT * (k + 1) - LANDING_STEP_PCT < FAILSAFE_HOLD_PCT - left
      /\ FAILSAFE_HOLD_PCT - left <= LANDING_STEP_PCT * (k + 1)
  BY <1>0, <1>1, <1>2
<1>4. StepsTaken' = k + 1
  <2>1. PICK d \in Nat : d = FAILSAFE_HOLD_PCT - left
    OBVIOUS
  <2>2. /\ k + 1 \in Int /\ LANDING_STEP_PCT \in Nat \ {0}
        /\ LANDING_STEP_PCT * (k + 1) - LANDING_STEP_PCT < d
        /\ d <= LANDING_STEP_PCT * (k + 1)
    BY <1>0, <1>3, <2>1
  <2>3. (d + LANDING_STEP_PCT - 1) \div LANDING_STEP_PCT = k + 1
    BY <2>2, CeilingIs
  <2>4. StepsTaken' = (FAILSAFE_HOLD_PCT - left + LANDING_STEP_PCT - 1) \div LANDING_STEP_PCT
    BY <1>2, Zenon DEF StepsTaken
  <2> QED BY <2>1, <2>3, <2>4
<1>5. StepsInv'
  BY <1>0, <1>2, <1>3, <1>4 DEF StepsInv
<1>6. Allowance' \in Int /\ Allowance <= Allowance'
  <2>1. StepMost * (k + 1) = StepMost * k + StepMost /\ StepMost * k \in Int
    BY <1>0
  <2>2. SinceStep <= StepMost
    BY <1>0 DEF SinceStep, StepMost, LandingStep
  <2>3. SinceStep' = 0
    BY FsmAssumption DEF SinceStep, LandingStep
  <2>4. StepMost' * StepsTaken' = StepMost * k + StepMost
    BY <1>4, <2>1 DEF StepMost
  <2>5. Allowance = StepMost * k + SinceStep
    BY DEF Allowance, k
  <2>6. Allowance' = StepMost * k + StepMost
    BY <1>0, <2>1, <2>3, <2>4 DEF Allowance
  <2> QED BY <1>0, <2>1, <2>2, <2>5, <2>6
<1> QED BY <1>4, <1>5, <1>6 DEF k

\* A pass that waits changes nothing of it.
LEMMA WaitAllows ==
    ASSUME LandingWait
    PROVE  UNCHANGED <<StepsTaken, landing_throttle, landing_age, state_age>>
<1>1. UNCHANGED <<landing_throttle, landing_age, state_age>>
  BY DEF LandingWait, stay, noLanding
<1> QED BY <1>1 DEF StepsTaken

\* The allowance of a step that is not due does not depend on the pass.
LEMMA WaitKeepsAllowance ==
    ASSUME LandingWait
    PROVE  Allowance' = Allowance
<1>1. SinceStep' = SinceStep
  BY WaitAllows DEF LandingWait, SinceStep
<1> QED BY <1>1, WaitAllows DEF Allowance, StepMost

\* Time never runs ahead of the allowance.
LEMMA TimeAllows ==
    ASSUME FsmTypeOK, StepsInv, current_state = "LANDING", Elapse
    PROVE  /\ StepsTaken' = StepsTaken /\ StepsInv'
           /\ Allowance' \in Int /\ Allowance + 1 <= Allowance'
<1> USE FsmAssumption
<1>1. StepsTaken' = StepsTaken /\ landing_throttle' = landing_throttle
  BY DEF Elapse, StepsTaken
<1>2. StepsInv'
  BY <1>1 DEF StepsInv, Elapse
<1>3. PICK since \in Nat : SinceStep' = since /\ SinceStep + 1 <= since
  <2>1. /\ landing_age \in 0..LANDING_STEP_MS /\ loop_age \in 0..MAX_STALL_MS
        /\ loop_age' = loop_age + 1 /\ landing_throttle' = landing_throttle
        /\ landing_age' = IF landing_age < LANDING_STEP_MS THEN landing_age + 1
                                                           ELSE LANDING_STEP_MS
    BY DEF FsmTypeOK, Elapse, Older
  <2>2. CASE landing_throttle = 0
    BY <2>1, <2>2 DEF SinceStep
  <2>3. CASE landing_throttle # 0
    BY <2>1, <2>3 DEF SinceStep
  <2> QED BY <2>2, <2>3
<1> DEFINE high == StepMost * StepsTaken
<1>4. Allowance = high + SinceStep /\ high \in Int /\ SinceStep \in Nat
  BY LandingTypes DEF Allowance
<1>5. StepMost' * StepsTaken' = high
  BY <1>1 DEF StepMost
<1> HIDE DEF high
<1>6. Allowance' = high + since
  BY <1>3, <1>5 DEF Allowance
<1> QED BY <1>1, <1>2, <1>3, <1>4, <1>6

-----------------------------------------------------------------------------
(* Its pace *)

LEMMA StepKeepsPace ==
    ASSUME FsmTypeOK, LandingInv, current_state = "LANDING", LandingStep, loop_age' = 0
    PROVE  LandingInv'
<1> USE FsmAssumption
<1>1. StepsTaken \in Int /\ state_age \in Nat /\ Allowance \in Int
  BY LandingTypes DEF LandingInv
<1>2. StepsTaken' = StepsTaken + 1 /\ StepsInv' /\ Allowance' \in Int /\ Allowance <= Allowance'
  BY StepCounts DEF LandingInv
<1>3. landing_age' = 0 /\ state_age' = state_age /\ landing_age = LANDING_STEP_MS
  BY DEF LandingStep, stay, FsmTypeOK
<1>4. state_age' <= Allowance'
  <2>1. state_age <= Allowance
    BY DEF LandingInv, PaceInv
  <2>2. PICK now \in Int : now = Allowance'
    BY <1>2
  <2> QED BY <1>1, <1>2, <1>3, <2>1, <2>2
<1>5. LANDING_STEP_MS * (StepsTaken + 1) = LANDING_STEP_MS * StepsTaken + LANDING_STEP_MS
      /\ LANDING_STEP_MS * StepsTaken \in Int
  BY <1>1
<1>6. state_age' < STATE_AGE_MAX =>
          LANDING_STEP_MS * StepsTaken' + landing_age' <= state_age'
  BY <1>1, <1>2, <1>3, <1>5 DEF LandingInv, PaceInv
<1> QED BY <1>2, <1>4, <1>6 DEF LandingInv, PaceInv

LEMMA TimeKeepsPace ==
    ASSUME FsmTypeOK, LandingInv, current_state = "LANDING", Elapse
    PROVE  LandingInv'
<1> USE FsmAssumption
<1>1. /\ StepsTaken \in Int /\ Allowance \in Int
      /\ landing_age \in 0..LANDING_STEP_MS /\ state_age \in 0..STATE_AGE_MAX
  BY LandingTypes DEF LandingInv
<1>2. /\ StepsTaken' = StepsTaken /\ StepsInv' /\ Allowance' \in Int
      /\ Allowance + 1 <= Allowance'
  BY TimeAllows DEF LandingInv
<1>3. PICK age \in 0..STATE_AGE_MAX, step \in 0..LANDING_STEP_MS :
         /\ state_age' = age /\ age <= state_age + 1
         /\ (age < STATE_AGE_MAX => age = state_age + 1)
         /\ landing_age' = step /\ step <= landing_age + 1
  BY <1>1 DEF Elapse, Older
<1>4. age <= Allowance'
  <2>1. state_age <= Allowance
    BY DEF LandingInv, PaceInv
  <2>2. PICK now \in Int : now = Allowance'
    BY <1>2
  <2> QED BY <1>1, <1>2, <1>3, <2>1, <2>2
<1>5. age < STATE_AGE_MAX => LANDING_STEP_MS * StepsTaken + step <= age
  <2>1. LANDING_STEP_MS * StepsTaken \in Int
    BY <1>1
  <2>2. state_age < STATE_AGE_MAX => LANDING_STEP_MS * StepsTaken + landing_age <= state_age
    BY DEF LandingInv, PaceInv
  <2> QED BY <1>1, <1>3, <2>1, <2>2
<1> QED BY <1>2, <1>3, <1>4, <1>5 DEF LandingInv, PaceInv

\* The passes that begin, continue or leave a landing.
LEMMA LandingPasses ==
    ASSUME NEW rc \in RcPackets, Control(rc), current_state' = "LANDING"
    PROVE  /\ loop_age' = 0
           /\ \/ current_state = "FAILSAFE" /\ FailsafeTimeout(rc)
              \/ current_state = "LANDING" /\ (LandingStep \/ LandingWait)
BY DEF Control, Pass, state_idle, state_arming, state_armed, state_flying, state_failsafe,
       state_landing, state_error, SignalRecovered, HoldThrottle, LandingComplete,
       enter_state, stay

\* No other step enters one.
LEMMA OtherStepsDoNotLand ==
    ASSUME Boot \/ ImuFailure \/ UNCHANGED fsmVars
    PROVE  \/ current_state' # "LANDING"
           \/ UNCHANGED <<current_state, state_age, landing_throttle, landing_age, loop_age>>
BY DEF Boot, EscInitFails, EscInitWorks, ImuInitFails, ImuInitWorks, MpuFault, ImuFailure,
       enter_state, stay, noLanding, fsmVars, fsmOnly

LEMMA NextPaces ==
    ASSUME FsmTypeOK, LandingInv, [FsmNext]_fsmVars
    PROVE  LandingInv'
<1>1. CASE current_state' # "LANDING"
  BY <1>1 DEF LandingInv, StepsInv, PaceInv
<1>2. ASSUME NEW rc \in RcPackets, Control(rc), current_state' = "LANDING" PROVE LandingInv'
  <2>1. CASE current_state = "FAILSAFE" /\ FailsafeTimeout(rc)
    BY <1>2, <2>1, LandingPasses, LandingBegins
  <2>2. CASE current_state = "LANDING" /\ LandingStep
    BY <1>2, <2>2, LandingPasses, StepKeepsPace
  <2>3. CASE current_state = "LANDING" /\ LandingWait
    BY <2>3, WaitAllows, WaitKeepsAllowance DEF LandingInv, StepsInv, PaceInv
  <2> QED BY <1>2, <2>1, <2>2, <2>3, LandingPasses
<1>3. CASE Elapse
  BY <1>1, <1>3, TimeKeepsPace DEF Elapse
<1>4. CASE UNCHANGED <<current_state, state_age, landing_throttle, landing_age, loop_age>>
  BY <1>4 DEF LandingInv, StepsInv, PaceInv, Allowance, StepsTaken, SinceStep, StepMost
<1>5. CASE Boot \/ ImuFailure \/ UNCHANGED fsmVars
  BY <1>1, <1>4, <1>5, OtherStepsDoNotLand
<1> QED BY <1>1, <1>2, <1>3, <1>5 DEF FsmNext, Halted

LEMMA AlwaysLands == Spec => []LandingInv
<1>1. Init => LandingInv
  BY DEF Init, FsmInit, LandingInv, StepsInv, PaceInv
<1>2. FsmTypeOK /\ LandingInv /\ [Next]_vars => LandingInv'
  BY StepIsFsmStep, NextPaces
<1> QED BY <1>1, <1>2, AlwaysTyped, PTL DEF Spec

LEMMA PaceIsKept == ASSUME FsmTypeOK, LandingInv PROVE DescentPaced
<1> USE FsmAssumption
<1>0. SUFFICES ASSUME current_state = "LANDING", state_age < STATE_AGE_MAX
               PROVE  /\ StepsTaken * LANDING_STEP_MS <= state_age
                      /\ state_age < (StepsTaken + 1) * (LANDING_STEP_MS + MAX_STALL_MS)
  BY DEF DescentPaced
<1> DEFINE low == LANDING_STEP_MS * StepsTaken
           high == StepMost * StepsTaken
<1>1. /\ StepsTaken \in Int /\ low \in Int /\ high \in Int
      /\ low + landing_age <= state_age /\ state_age <= high + SinceStep
  BY <1>0, LandingTypes DEF LandingInv, PaceInv, Allowance
<1>2. /\ StepsTaken * LANDING_STEP_MS = low
      /\ (StepsTaken + 1) * (LANDING_STEP_MS + MAX_STALL_MS) = high + StepMost
  BY <1>1 DEF StepMost
<1> HIDE DEF low, high
<1>3. /\ landing_age \in Nat /\ state_age \in Nat
      /\ SinceStep \in Int /\ StepMost \in Int /\ SinceStep < StepMost
  BY DEF FsmTypeOK, SinceStep, StepMost
<1> QED BY <1>1, <1>2, <1>3

\* In every landing a step of LANDING_STEP_PCT takes at least LANDING_STEP_MS, and at most
\* one stall more.
THEOREM LandingIsPaced == Spec => []DescentPaced
<1>1. FsmTypeOK /\ LandingInv => DescentPaced
  BY PaceIsKept
<1> QED BY <1>1, AlwaysTyped, AlwaysLands, PTL

-----------------------------------------------------------------------------
(* Loss of command *)

\* A pass in FLYING has just seen an active packet; the failsafe waits its timeout from
\* the pass that first missed one; then there is the landing.
LossInv ==
    /\ silent_for \in 0..(LossBound + 1)
    /\ current_state = "FLYING" => silent_for <= loop_age
    /\ current_state = "FAILSAFE" =>
           /\ state_age < STATE_AGE_MAX => silent_for <= MAX_STALL_MS + state_age
           /\ silent_for <= MAX_STALL_MS + FAILSAFE_TIMEOUT_MS + loop_age
    /\ current_state = "LANDING" =>
           silent_for <= 2 * MAX_STALL_MS + FAILSAFE_TIMEOUT_MS + Allowance

LEMMA BoundTyped == AllSteps \in Nat /\ LossBound \in Nat
<1> USE FsmAssumption
<1>1. AllSteps \in Nat
  <2>1. PICK a \in Nat : a = FAILSAFE_HOLD_PCT + LANDING_STEP_PCT - 1
    OBVIOUS
  <2>2. a \div LANDING_STEP_PCT \in Nat
    BY Z3
  <2> QED BY <2>1, <2>2 DEF AllSteps
<1>2. AllSteps * LANDING_STEP_MS \in Nat /\ (AllSteps + 3) * MAX_STALL_MS \in Nat
  BY <1>1
<1> QED BY <1>1, <1>2 DEF LossBound

\* The passes of flight and failsafe.
LEMMA FlightPassesLose ==
    ASSUME FsmTypeOK, LossInv, NEW rc \in RcPackets, Control(rc), Witness(rc),
           current_state' \in {"FLYING", "FAILSAFE"}
    PROVE  LossInv'
<1> USE FsmAssumption
<1>1. /\ loop_age' = 0 /\ loop_age \in 0..MAX_STALL_MS /\ state_age \in 0..STATE_AGE_MAX
      /\ silent_for' = IF rc.drone_active THEN 0 ELSE silent_for
      /\ silent_for \in 0..(LossBound + 1) /\ LossBound' = LossBound
  BY DEF Control, Pass, FsmTypeOK, Witness, LossInv, LossBound, AllSteps
<1>2. silent_for' \in 0..(LossBound + 1)
  BY <1>1, BoundTyped
<1>3. CASE current_state' = "FLYING"
  <2>1. rc.drone_active
    BY <1>3 DEF Control, state_idle, state_arming, state_armed, state_flying, state_failsafe,
           state_landing, state_error, SignalRecovered, FailsafeTimeout, HoldThrottle,
           LandingComplete, LandingStep, LandingWait, enter_state, stay
  <2> QED BY <1>1, <1>2, <1>3, <2>1 DEF LossInv
<1>4. CASE current_state' = "FAILSAFE"
  <2>1. /\ ~rc.drone_active
        /\ \/ current_state = "FLYING" /\ state_age' = 0
           \/ /\ current_state = "FAILSAFE"
              /\ state_age < FAILSAFE_TIMEOUT_MS /\ state_age' = state_age
    BY <1>4 DEF Control, state_idle, state_arming, state_armed, state_flying, state_failsafe,
           state_landing, state_error, SignalRecovered, FailsafeTimeout, HoldThrottle,
           LandingComplete, LandingStep, LandingWait, enter_state, stay
  <2> QED BY <1>1, <1>2, <1>4, <2>1 DEF LossInv
<1> QED BY <1>3, <1>4

\* The passes of a landing, which do not look at the packet.
LEMMA LandingPassesLose ==
    ASSUME FsmTypeOK, LandingInv, LossInv, NEW rc \in RcPackets, Control(rc), Witness(rc),
           current_state' = "LANDING"
    PROVE  LossInv'
<1> USE FsmAssumption
<1>1. /\ loop_age \in 0..MAX_STALL_MS
      /\ silent_for' = IF rc.drone_active THEN 0 ELSE silent_for
      /\ silent_for \in 0..(LossBound + 1) /\ LossBound' = LossBound
  BY DEF FsmTypeOK, Witness, LossInv, LossBound, AllSteps
<1>2. PICK silent \in 0..(LossBound + 1) : silent_for' = silent /\ silent <= silent_for
  BY <1>1, BoundTyped
<1>3. PICK now \in Int :
         Allowance' = now /\ silent_for <= 2 * MAX_STALL_MS + FAILSAFE_TIMEOUT_MS + now
  <2>1. CASE current_state = "FAILSAFE" /\ FailsafeTimeout(rc)
    <3>1. Allowance' = 0
      BY <2>1, LandingPasses, LandingBegins
    <3> QED BY <1>1, <2>1, <3>1 DEF LossInv
  <2>2. CASE current_state = "LANDING" /\ LandingStep
    <3>1. Allowance \in Int /\ Allowance' \in Int /\ Allowance <= Allowance'
      BY <2>2, LandingPasses, LandingTypes, StepCounts DEF LandingInv
    <3>2. PICK now \in Int : now = Allowance'
      BY <3>1
    <3> QED BY <1>1, <2>2, <3>1, <3>2 DEF LossInv
  <2>3. CASE current_state = "LANDING" /\ LandingWait
    <3>1. Allowance \in Int /\ Allowance' = Allowance
      BY <2>3, LandingTypes, WaitKeepsAllowance DEF LandingInv
    <3> QED BY <2>3, <3>1 DEF LossInv
  <2> QED BY <2>1, <2>2, <2>3, LandingPasses
<1> QED BY <1>1, <1>2, <1>3 DEF LossInv

\* Time passes for the loss as it does for the ages that bound it.
LEMMA ElapseLoses ==
    ASSUME FsmTypeOK, LandingInv, LossInv, Elapse, WitnessElapse
    PROVE  LossInv'
<1> USE FsmAssumption
<1>1. /\ loop_age \in 0..MAX_STALL_MS /\ loop_age' = loop_age + 1
      /\ state_age \in 0..STATE_AGE_MAX
      /\ silent_for \in 0..(LossBound + 1) /\ LossBound' = LossBound
      /\ current_state' = current_state
  BY DEF FsmTypeOK, Elapse, LossInv, LossBound, AllSteps
<1>2. PICK silent \in 0..(LossBound + 1) : silent_for' = silent /\ silent <= silent_for + 1
  BY <1>1, BoundTyped DEF WitnessElapse, Older
<1>3. PICK age \in 0..STATE_AGE_MAX :
         state_age' = age /\ (age < STATE_AGE_MAX => age = state_age + 1)
  BY <1>1 DEF Elapse, Older
<1>4. CASE current_state = "LANDING"
  <2>1. Allowance \in Int /\ Allowance' \in Int /\ Allowance + 1 <= Allowance'
    BY <1>4, LandingTypes, TimeAllows DEF LandingInv
  <2>2. PICK now \in Int : now = Allowance' /\ Allowance + 1 <= now
    BY <2>1
  <2>3. silent <= 2 * MAX_STALL_MS + FAILSAFE_TIMEOUT_MS + now
    <3>1. PICK wait \in Int : wait = 2 * MAX_STALL_MS + FAILSAFE_TIMEOUT_MS
      OBVIOUS
    <3>2. silent_for <= wait + Allowance
      BY <1>4, <3>1 DEF LossInv
    <3>3. PICK before \in Int : before = Allowance
      BY <2>1
    <3>4. silent \in Int /\ silent_for \in Int
      BY <1>1, <1>2, BoundTyped
    <3>5. silent <= wait + now
      <4>1. silent <= silent_for + 1
        BY <1>2
      <4>2. before + 1 <= now
        BY <2>2, <3>3
      <4>3. silent_for <= wait + before
        BY <3>2, <3>3
      <4> QED BY <3>4, <4>1, <4>2, <4>3
    <3> QED BY <3>1, <3>5
  <2> QED BY <1>1, <1>2, <1>4, <2>2, <2>3 DEF LossInv
<1>5. CASE current_state # "LANDING"
  BY <1>1, <1>2, <1>3, <1>5 DEF LossInv
<1> QED BY <1>4, <1>5

LEMMA NextLoses ==
    ASSUME FsmTypeOK, LandingInv, LossInv, [Next]_vars
    PROVE  LossInv'
<1>0. LossBound' = LossBound
  BY DEF LossBound, AllSteps
<1>1. ASSUME NEW rc \in RcPackets, Control(rc), Witness(rc) PROVE LossInv'
  <2>1. silent_for' \in 0..(LossBound + 1)
    BY <1>1, BoundTyped DEF Witness, LossInv
  <2>2. CASE current_state' \notin {"FLYING", "FAILSAFE", "LANDING"}
    BY <1>0, <2>1, <2>2 DEF LossInv
  <2> QED BY <1>1, <2>2, FlightPassesLose, LandingPassesLose
<1>2. CASE Elapse /\ WitnessElapse
  BY <1>2, ElapseLoses
<1>3. CASE UNCHANGED <<silent_for, current_state, state_age, landing_throttle, landing_age,
                       loop_age>>
  BY <1>0, <1>3 DEF LossInv, Allowance, StepsTaken, SinceStep, StepMost
<1>4. CASE UNCHANGED silent_for /\ current_state' \notin {"FLYING", "FAILSAFE", "LANDING"}
  BY <1>0, <1>4 DEF LossInv
<1>5. CASE Boot /\ UNCHANGED history
  <2>1. \/ current_state' \notin {"FLYING", "FAILSAFE", "LANDING"}
        \/ UNCHANGED <<current_state, state_age, landing_throttle, landing_age, loop_age>>
    BY <1>5 DEF Boot, EscInitFails, EscInitWorks, ImuInitFails, ImuInitWorks, MpuFault,
           enter_state, stay, noLanding
  <2> QED BY <1>3, <1>4, <1>5, <2>1 DEF history
<1>6. CASE ImuFailure /\ WitnessFailure
  BY <1>4, <1>6 DEF ImuFailure, WitnessFailure, enter_state
<1>7. CASE UNCHANGED vars
  BY <1>3, <1>7 DEF vars, history, fsmVars, fsmOnly
<1> QED BY <1>1, <1>2, <1>5, <1>6, <1>7 DEF Next, Halted, vars

\* A landing that is not over has steps left, and none of them took too long.
LEMMA LandingWithinBound ==
    ASSUME FsmTypeOK, LandingInv, current_state = "LANDING"
    PROVE  2 * MAX_STALL_MS + FAILSAFE_TIMEOUT_MS + Allowance <= LossBound
<1> USE FsmAssumption
<1> DEFINE k == StepsTaken
           n == AllSteps
<1>1. /\ k \in Int /\ n \in Nat /\ SinceStep \in Nat /\ StepMost \in Nat /\ Allowance \in Int
      /\ landing_throttle \in 0..FAILSAFE_HOLD_PCT /\ landing_age \in 0..LANDING_STEP_MS
      /\ loop_age \in 0..MAX_STALL_MS
  BY LandingTypes, BoundTyped DEF LandingInv
<1>2. StepMost * k + SinceStep <= StepMost * n + MAX_STALL_MS
  <2>1. CASE landing_throttle = 0
    <3>1. k = n
      BY <2>1 DEF StepsTaken, AllSteps
    <3> QED BY <1>1, <2>1, <3>1 DEF SinceStep
  <2>2. CASE landing_throttle > 0
    <3>1. landing_throttle + LANDING_STEP_PCT * k = FAILSAFE_HOLD_PCT
      BY <2>2 DEF LandingInv, StepsInv
    <3>2. LANDING_STEP_PCT * n >= FAILSAFE_HOLD_PCT
      <4>1. PICK a \in Nat : a = FAILSAFE_HOLD_PCT + LANDING_STEP_PCT - 1
        OBVIOUS
      <4>2. LANDING_STEP_PCT * (a \div LANDING_STEP_PCT) + LANDING_STEP_PCT > a
        BY Z3
      <4>3. n = a \div LANDING_STEP_PCT
        BY <4>1 DEF AllSteps
      <4>4. LANDING_STEP_PCT * n \in Int
        BY <1>1
      <4> QED BY <4>1, <4>2, <4>3, <4>4
    <3>3. LANDING_STEP_PCT * k < LANDING_STEP_PCT * n
      <4>1. LANDING_STEP_PCT * k \in Int /\ LANDING_STEP_PCT * n \in Int
        BY <1>1
      <4> QED BY <1>1, <2>2, <3>1, <3>2, <4>1
    <3>4. k < n
      BY <1>1, <3>3, FactorCancels
    <3>5. StepMost * k + StepMost <= StepMost * n
      <4>1. PICK d \in Nat : n = k + 1 + d
        BY <1>1, <3>4
      <4>2. StepMost * n = StepMost * k + StepMost + StepMost * d
        BY <1>1, <4>1
      <4>3. StepMost * d \in Nat /\ StepMost * k \in Int
        BY <1>1
      <4> QED BY <1>1, <4>2, <4>3
    <3>6. SinceStep < StepMost
      BY <1>1, <2>2 DEF SinceStep, StepMost
    <3>7. StepMost * k \in Int /\ StepMost * n \in Int
      BY <1>1
    <3> QED BY <1>1, <3>5, <3>6, <3>7
  <2> QED BY <1>1, <2>1, <2>2
<1>3. LossBound = FAILSAFE_TIMEOUT_MS + StepMost * n + 3 * MAX_STALL_MS
  <2>1. /\ StepMost * n = n * LANDING_STEP_MS + n * MAX_STALL_MS
        /\ (n + 3) * MAX_STALL_MS = n * MAX_STALL_MS + 3 * MAX_STALL_MS
        /\ n * LANDING_STEP_MS \in Int /\ n * MAX_STALL_MS \in Int
    BY <1>1 DEF StepMost
  <2> QED BY <2>1 DEF LossBound
<1>4. StepMost * k \in Int /\ StepMost * n \in Int /\ Allowance = StepMost * k + SinceStep
  BY <1>1 DEF Allowance
<1> HIDE DEF k, n
<1> QED BY <1>1, <1>2, <1>3, <1>4

\* In flight the loss has not lasted for LossBound.
LEMMA LossIsBounded ==
    ASSUME FsmTypeOK, LandingInv, LossInv, current_state \in {"FLYING", "FAILSAFE", "LANDING"}
    PROVE  silent_for <= LossBound
<1> USE FsmAssumption
<1>1. /\ loop_age \in 0..MAX_STALL_MS /\ silent_for \in Nat /\ LossBound \in Nat
      /\ 2 * MAX_STALL_MS + FAILSAFE_TIMEOUT_MS <= LossBound
  <2>1. AllSteps * LANDING_STEP_MS \in Nat /\ AllSteps * MAX_STALL_MS \in Nat
    BY BoundTyped
  <2>2. (AllSteps + 3) * MAX_STALL_MS = AllSteps * MAX_STALL_MS + 3 * MAX_STALL_MS
    BY BoundTyped
  <2> QED BY <2>1, <2>2, BoundTyped DEF LossBound, FsmTypeOK, LossInv
<1>2. CASE current_state \in {"FLYING", "FAILSAFE"}
  BY <1>1, <1>2 DEF LossInv
<1>3. CASE current_state = "LANDING"
  <2>1. Allowance \in Int
    BY <1>3, LandingTypes DEF LandingInv
  <2> QED BY <1>1, <1>3, <2>1, LandingWithinBound DEF LossInv
<1> QED BY <1>2, <1>3

\* Once no pass has seen an active packet for LossBound the drone is out of flight and its
\* motors stand, however late the passes were and whatever else the packets said.
THEOREM LossEndsOnGround ==
    ASSUME PwmOutcomes = {Motor}
    PROVE  Spec => []LossStopsMotors
<1>1. Init => GroundInv /\ LossInv
  BY BoundTyped DEF Init, HistoryInit, FsmInit, MotorInit, GroundInv, InitStage,
                    MotorsIdleOnGround, MotorsIdle, LossInv
<1>2. FsmTypeOK /\ GroundInv /\ [Next]_vars => GroundInv'
  BY StepIsFsmStep, NextOnGround
<1>3. FsmTypeOK /\ LandingInv /\ LossInv /\ [Next]_vars => LossInv'
  BY NextLoses
<1>4. FsmTypeOK /\ GroundInv /\ LandingInv /\ LossInv => LossStopsMotors
  <2> SUFFICES ASSUME FsmTypeOK, GroundInv, LandingInv, LossInv, silent_for > LossBound
               PROVE  current_state \notin {"FLYING", "FAILSAFE", "LANDING"} /\ MotorsIdle
    BY DEF LossStopsMotors
  <2>1. current_state \notin {"FLYING", "FAILSAFE", "LANDING"}
    BY LossIsBounded, BoundTyped DEF LossInv
  <2> QED BY <2>1 DEF GroundInv, MotorsIdleOnGround, Grounded, FsmTypeOK, State
<1> QED BY <1>1, <1>2, <1>3, <1>4, AlwaysTyped, AlwaysLands, PTL DEF Spec
=============================================================================
