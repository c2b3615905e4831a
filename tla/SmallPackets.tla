---------------------------- MODULE SmallPackets ----------------------------
(***************************************************************************)
(* The packets the model-checked instances of the state machine are fed.   *)
(***************************************************************************)
EXTENDS DroneFsm

Packet(roll, throttle, active) ==
    [x_right |-> roll, y_right |-> RC_CENTER, x_left |-> RC_CENTER,
     y_left |-> throttle, drone_active |-> active]

\* Remote off; stick at minimum, at the take-off threshold, and fully raised.
LevelPackets == {Packet(RC_CENTER, 0, FALSE), Packet(RC_CENTER, 0, TRUE),
                 Packet(RC_CENTER, THROTTLE_FLY_THRESHOLD, TRUE),
                 Packet(RC_CENTER, RC_MAX, TRUE)}

\* The same, and fully raised while rolling.
RollingPackets == LevelPackets \cup {Packet(0, RC_MAX, TRUE)}
=============================================================================
