------------------------------ MODULE RcPackage ------------------------------
(***************************************************************************)
(* The command packet that both remotes and the flight state machine share *)
(* (src/src/drone_receiver.h), and the packet that a request of the        *)
(* control page stands for (handle_rc, src/src/drone_webserver.c).         *)
(***************************************************************************)
EXTENDS CInt

CONSTANTS
    RC_MAX,    \* full deflection of a stick
    RC_CENTER  \* neutral position of a stick

ASSUME RcAssumption ==
    /\ RC_MAX \in Nat /\ RC_MAX >= 2
    /\ RC_CENTER \in 0..RC_MAX

Package == [x_right : Int, y_right : Int, x_left : Int, y_left : Int,
            drone_active : BOOLEAN]

\* A static packet before anything is stored in it.
NoPackage == [x_right |-> 0, y_right |-> 0, x_left |-> 0, y_left |-> 0,
              drone_active |-> FALSE]

-----------------------------------------------------------------------------
\* The body of a POST /rc: throttle, yaw, pitch, roll, active.
Request == [t : Int, y : Int, p : Int, r : Int, a : Int]

\* A slider of -100 .. 100 as a stick around RC_CENTER.
SliderToStick(v) == Clamp(0, RC_CENTER + CDiv(v * RC_CENTER, 100), RC_MAX)

\* The packet a request asks for.  (The products are exact here.  In the code they are
\* 32-bit and overflow for numbers beyond two million, which no page sends; the
\* clamp then still leaves a stick in its range, though another one than was asked for.)
PackageOf(req) ==
    [y_left       |-> Clamp(0, CDiv(req.t * RC_MAX, 100), RC_MAX),
     x_left       |-> SliderToStick(req.y),
     y_right      |-> SliderToStick(req.p),
     x_right      |-> SliderToStick(req.r),
     drone_active |-> req.a # 0]
=============================================================================
