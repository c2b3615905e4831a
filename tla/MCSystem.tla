------------------------------ MODULE MCSystem ------------------------------
(***************************************************************************)
(* A small instance of the system: what the two pilots may send, and a     *)
(* history variable for the silence of the radio.                          *)
(***************************************************************************)
EXTENDS DroneSystem

Packet(throttle, active) ==
    [x_right |-> RC_CENTER, y_right |-> RC_CENTER, x_left |-> RC_CENTER,
     y_left |-> throttle, drone_active |-> active]

\* The transmitter: switched off, at minimum, half raised.
RadioPackets == {Packet(0, FALSE), Packet(0, TRUE), Packet(RC_MAX \div 2, TRUE)}

Body(throttle, active) == [t |-> throttle, y |-> 0, p |-> 0, r |-> 0, a |-> active]

\* The page: disarmed, armed at minimum, armed and raised.
PagePosts == {Body(0, 0), Body(0, 1), Body(100, 1)}

AllPackets == RadioPackets \cup {NoPackage} \cup {PackageOf(req) : req \in PagePosts}
=============================================================================
