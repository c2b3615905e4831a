------------------------------ MODULE MCFaults ------------------------------
(***************************************************************************)
(* The flight state machine over a PWM whose channels fail now and then:   *)
(* the machine ignores what motors_set_all returns.                        *)
(***************************************************************************)
EXTENDS SmallPackets

\* A write reaches every motor, either diagonal of the frame, or none.
SomeOutcomes == {Motor, {"FL", "RR"}, {"FR", "RL"}, {}}

\* A channel that is told to stop over and over obeys in the end.
PwmFairness ==
    \A m \in Motor : SF_fsmVars(\E rc \in RcPackets : Control(rc) /\ pulse'[m] = 1000)

Spec == FairFsmSpec /\ PwmFairness

-----------------------------------------------------------------------------
\* motors_set_all's result is ignored, but a grounded state repeats it in every
\* pass: a motor that missed its stop does not keep turning.
GroundedMotorsStop ==
    <>[](current_state \in Grounded /\ pc = "loop" /\ i2c_dev) => <>[]MotorsIdle
=============================================================================
