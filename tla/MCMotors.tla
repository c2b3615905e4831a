------------------------------ MODULE MCMotors ------------------------------
(***************************************************************************)
(* The motor controller under any caller of its three public functions,    *)
(* with the constants of the code.  A tick is 10 ms: half an ESC period.   *)
(* History variables remember what the controller was told.                *)
(***************************************************************************)
EXTENDS DroneMotors

CONSTANTS
    AllPercents,  \* what a caller passes to motors_set_all
    RcSticks,     \* the packets a caller passes to motors_set_from_rc
    WATCH         \* ticks for which the ramp is watched after a reset

ASSUME CallerAssumption ==
    /\ AllPercents \subseteq 0..255
    /\ RcSticks \subseteq Package
    /\ WATCH \in Nat

VARIABLES
    armed,        \* motor_esc_init has returned 0
    last_rc,      \* the packet of the last update or reset of the mixer
    overridden,   \* motors that motors_set_all wrote since mixing last did
    since_reset   \* ticks since the mixer was last at rest, at most WATCH

vars == <<motorVars, armed, last_rc, overridden, since_reset>>

Stick(roll, pitch, yaw, throttle, active) ==
    [x_right |-> roll, y_right |-> pitch, x_left |-> yaw, y_left |-> throttle,
     drone_active |-> active]

Neutral(throttle) == Stick(RC_CENTER, RC_CENTER, RC_CENTER, throttle, TRUE)
Released == Stick(RC_CENTER, RC_CENTER, RC_CENTER, 0, FALSE)

\* Low, half and full throttle, each axis deflected alone and all together.
Sticks == {Released, Neutral(0), Neutral(RC_MAX),
           Stick(RC_MAX, RC_CENTER, RC_CENTER, 300, TRUE),
           Stick(RC_CENTER, 0, RC_CENTER, 300, TRUE),
           Stick(0, RC_CENTER, 700, RC_MAX, TRUE),
           Stick(300, 700, RC_MAX, 600, TRUE)}

-----------------------------------------------------------------------------
Init ==
    /\ MotorInit
    /\ armed = FALSE
    /\ last_rc = Released
    /\ overridden = {}
    /\ since_reset = 0

Arm ==
    /\ ~armed
    /\ \E ok \in PwmOutcomes : esc_arm_all(ok) /\ armed' = (Reached(ok) = Motor)
    /\ UNCHANGED <<last_rc, overridden, since_reset>>

SetAll(percent) ==
    /\ armed
    /\ motors_set_all(percent)
    /\ overridden' = Motor
    /\ UNCHANGED <<armed, last_rc, since_reset>>

FromRc(rc) ==
    /\ armed
    /\ motors_set_from_rc(rc)
    /\ LET updates == ~rc.drone_active \/ update_age >= ESC_PERIOD_MS
       IN  last_rc' = IF updates THEN rc ELSE last_rc
    /\ overridden' = IF rc.drone_active
                       THEN overridden \ {m \in Motor : last_pct'[m] # last_pct[m]}
                       ELSE {}
    /\ since_reset' = IF rc.drone_active THEN since_reset ELSE 0
    /\ UNCHANGED armed

Elapse ==
    /\ MotorElapse
    /\ since_reset' = Older(since_reset, WATCH)
    /\ UNCHANGED <<armed, last_rc, overridden>>

Next ==
    \/ Arm
    \/ \E percent \in AllPercents : SetAll(percent)
    \/ \E rc \in RcSticks : FromRc(rc)
    \/ Elapse

Spec == Init /\ [][Next]_vars

-----------------------------------------------------------------------------
\* The "+2 %/call x 50 Hz = 100 %/s" ramp: however often the mixer is called
\* and whatever the stick does, t ticks after rest the throttle has risen by no
\* more than RAMP_UP for each ESC period begun.
RampBounded ==
    since_reset < WATCH =>
        throttle_smooth * ESC_PERIOD_MS <= RAMP_UP * (since_reset + ESC_PERIOD_MS)

\* "ramped throttle value (0-80%)": it never leaves what the stick can ask for, whatever
\* sequence of sticks, resets and all-motor commands leads to it.
ThrottleLimited == throttle_smooth \in 0..MOTOR_THROTTLE_MAX

\* The mixing table of the header: while no motor is clipped, the four outputs
\* add up to four times the throttle, and the front, the left and the clockwise
\* pair exceed the opposite pair by four times the pitch, roll and yaw command.
MixBalanced ==
    LET out  == last_pct
        diff(a, b, c, d) == out[a] + out[b] - out[c] - out[d]
    IN  (\A m \in Motor : out[m] \in 1..99) =>
            /\ out["FL"] + out["FR"] + out["RL"] + out["RR"] = 4 * throttle_smooth
            /\ diff("FL", "FR", "RL", "RR") = 4 * Deflection(last_rc.y_right)
            /\ diff("FL", "RL", "FR", "RR") = 4 * Deflection(last_rc.x_right)
            /\ diff("FR", "RL", "FL", "RR") = 4 * Deflection(last_rc.x_left)

\* Skipping a write is safe exactly where last_pct is what the ESC was told:
\* on every motor that motors_set_all did not write behind the mixer's back.
CacheTracksOutput ==
    armed => \A m \in Motor \ overridden : pulse[m] = PulseOf(last_pct[m])
=============================================================================
