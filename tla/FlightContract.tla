--------------------------- MODULE FlightContract ---------------------------
(***************************************************************************)
(* What the flight state machine promises to whoever stands beside the     *)
(* drone, without packets, timers or percentages: when motors may turn and *)
(* speed up, and which way the drone can go from where it is.              *)
(***************************************************************************)
EXTENDS Naturals

CONSTANT Motor

VARIABLES
    phase,   \* where the flight is
    speed    \* how fast each motor turns

Phase == {"starting", "disarmed", "armed", "aloft", "descending", "dead"}

Speeds == [Motor -> Nat]

contractVars == <<phase, speed>>

ContractTypeOK == phase \in Phase /\ speed \in Speeds

\* No motor turns.
Standing == [m \in Motor |-> 0]

Init == phase = "starting" /\ speed = Standing

\* Nothing turns before the hardware is up.
Start == phase = "starting" /\ phase' = "disarmed" /\ speed' = Standing

Arm == phase = "disarmed" /\ phase' = "armed" /\ speed' = Standing

Disarm == phase = "armed" /\ phase' = "disarmed" /\ speed' = Standing

\* Only an armed drone takes off, and its motors do not turn before it has.
TakeOff == phase = "armed" /\ phase' = "aloft" /\ speed' = Standing

\* Aloft, the motors are the pilot's, or the failsafe's.
Fly == phase = "aloft" /\ phase' = "aloft" /\ speed' \in Speeds

\* The pilot has landed: all motors stop at once.
Land == phase = "aloft" /\ phase' = "armed" /\ speed' = Standing

\* The descent begins with the motors as they are ...
GiveUp == phase = "aloft" /\ phase' = "descending" /\ UNCHANGED speed

\* ... and no motor is sped up in it, nor is it left but by reaching the ground.
Descend ==
    /\ phase = "descending" /\ phase' = "descending"
    /\ speed' \in Speeds /\ \A m \in Motor : speed'[m] <= speed[m]

TouchDown == phase = "descending" /\ phase' = "disarmed" /\ speed' = Standing

\* Whatever fails, the motors stop with it, for good.
Die == phase # "dead" /\ phase' = "dead" /\ speed' = Standing

Next ==
    \/ Start \/ Arm \/ Disarm \/ TakeOff \/ Fly \/ Land
    \/ GiveUp \/ Descend \/ TouchDown \/ Die

Spec == Init /\ [][Next]_contractVars

-----------------------------------------------------------------------------
\* A drone that descends reaches the ground, or dies.
DescentEnds == phase = "descending" ~> phase # "descending"
=============================================================================
