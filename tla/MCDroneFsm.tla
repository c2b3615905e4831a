----------------------------- MODULE MCDroneFsm -----------------------------
(***************************************************************************)
(* The flight state machine with small constants, history variables for    *)
(* the arming gesture and the loss of the pilot's command, what the        *)
(* mixer's cache and ramp have to do with the motors, and the contract.    *)
(***************************************************************************)
EXTENDS SmallPackets

VARIABLES
    held_for,   \* time for which every pass has seen the arming gesture
    holding,    \* the last pass saw it
    confirmed,  \* since the motors were last disarmed it was held long enough
    silent_for  \* time since a pass saw an active packet, at most LossBound + 1

history == <<held_for, holding, confirmed, silent_for>>
vars == <<fsmVars, history>>

\* The steps of a whole landing.
AllSteps == (FAILSAFE_HOLD_PCT + LANDING_STEP_PCT - 1) \div LANDING_STEP_PCT

\* From the last active packet to the ground: the timeout, every step of the landing,
\* and a stall before the loss is noticed, after the timeout, after each step's
\* interval and before the touch-down.
LossBound ==
    FAILSAFE_TIMEOUT_MS + AllSteps * LANDING_STEP_MS + (AllSteps + 3) * MAX_STALL_MS

\* At power-up nothing was ever heard.
HistoryInit ==
    held_for = 0 /\ holding = FALSE /\ confirmed = FALSE /\ silent_for = LossBound + 1

\* What the pass with packet rc adds to the history.
Witness(rc) ==
    /\ holding' = arm_condition(rc)
    /\ held_for' = IF holding THEN held_for ELSE 0
    /\ confirmed' = /\ current_state' \notin {"IDLE", "ERROR"}
                    /\ confirmed \/ (holding /\ holding' /\ held_for' >= ARM_CONFIRM_MS)
    /\ silent_for' = IF rc.drone_active THEN 0 ELSE silent_for

\* A pass that ends in ERROR, and a tick of the clock.
WitnessFailure == held_for' = 0 /\ holding' = FALSE /\ confirmed' = FALSE /\ UNCHANGED silent_for

WitnessElapse ==
    /\ held_for' = Older(held_for, ARM_CONFIRM_MS)
    /\ silent_for' = Older(silent_for, LossBound + 1)
    /\ UNCHANGED <<holding, confirmed>>

Init == FsmInit /\ HistoryInit

Next ==
    \/ Boot /\ UNCHANGED history
    \/ \E rc \in RcPackets : Control(rc) /\ Witness(rc)
    \/ ImuFailure /\ WitnessFailure
    \/ Elapse /\ WitnessElapse
    \/ Halted /\ UNCHANGED history

Spec == Init /\ [][Next]_vars

FairSpec == Spec /\ FsmFairness

-----------------------------------------------------------------------------
\* "Pilot must hold throttle=0 + drone_active=true for this long before the
\* drone arms": no state past ARMING is reached unless every pass for
\* ARM_CONFIRM_MS saw the gesture.  After IDLE, where an automatic landing ends, it takes
\* a new one; the pilot who lands to ARMED may take off again without.
ArmedOnlyAfterHold ==
    current_state \in {"ARMED", "FLYING", "FAILSAFE", "LANDING"} => confirmed

\* The number of landing steps taken.
StepsTaken == (FAILSAFE_HOLD_PCT - landing_throttle + LANDING_STEP_PCT - 1) \div LANDING_STEP_PCT

\* The descent keeps its pace: a step is never early, however the passes fall,
\* and late by less than one stall each.  (The landing starts at the hold throttle: it has
\* AllSteps of them, not the 100/STEP that the comment of LANDING_STEP_PCT counts.)
DescentPaced ==
    current_state = "LANDING" /\ state_age < STATE_AGE_MAX =>
        /\ StepsTaken * LANDING_STEP_MS <= state_age
        /\ state_age < (StepsTaken + 1) * (LANDING_STEP_MS + MAX_STALL_MS)

\* Loss of command brings the drone down in bounded time: when no pass has seen an
\* active packet for LossBound, whatever else the packets said and however the passes
\* fell, the drone is out of flight and its motors stand.  (Reliable PWM.)
LossStopsMotors ==
    silent_for > LossBound =>
        current_state \notin {"FLYING", "FAILSAFE", "LANDING"} /\ MotorsIdle

\* The contract's promise that a descent ends.
LandingEnds == Contract!DescentEnds

-----------------------------------------------------------------------------
(* What the comments of the mixer say of it, in flight *)

\* "last applied value per motor": once the mixer has updated, every motor emits
\* the percentage the mixer holds for it.
UpdateReachesMotors ==
    current_state = "FLYING" /\ update_age = 0 =>
        \A m \in Motor : pulse[m] = PulseOf(last_pct[m])

\* "Limit how fast the base throttle can change ... (smooth takeoff)": with level
\* sticks no pass in FLYING speeds a motor up by more than the ramp.
SmoothTakeoff ==
    [][current_state = "FLYING" =>
          \A m \in Motor : pulse'[m] <= pulse[m] + 10 * RAMP_UP]_vars
\* "Stay here until hardware reset": a drone in ERROR goes on with its loop, which
\* holds the motors at idle.
ErrorKeepsRunning == current_state = "ERROR" => pc # "halted"
=============================================================================
