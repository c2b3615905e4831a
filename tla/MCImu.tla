--------------------------------- MODULE MCImu ---------------------------------
(***************************************************************************)
(* A small instance of the IMU driver: a gyro that reads -3 or -2 counts   *)
(* at rest, and -5 or 0 while the board is turned to and fro, when the     *)
(* accelerometer points five times as far from level as its noise.         *)
(***************************************************************************)
EXTENDS Imu

AtRest == {65533, 65534}
InMotion == {65531, 0}

Least == -3
Most == -2

Level == {-1, 1}
Swung == {-5, 5}
=============================================================================
