------------------------------ MODULE CommandBox ------------------------------
(***************************************************************************)
(* What the web server promises the flight state machine: a box that holds *)
(* the last command of the control page, src/src/drone_webserver.c.  A     *)
(* command is stored at once and as a whole, and counts as inactive when   *)
(* it has not been repeated for RC_STALE_MS.                               *)
(***************************************************************************)
EXTENDS RcPackage

CONSTANTS
    RC_STALE_MS,   \* age (ticks) after which the packet is inactive
    RC_AGE_MAX,    \* rc_age saturates here
    Requests       \* bodies of POST /rc: throttle, yaw, pitch, roll, active

ASSUME BoxAssumption ==
    /\ RC_STALE_MS \in Nat
    /\ RC_AGE_MAX \in Nat /\ RC_STALE_MS < RC_AGE_MAX
    /\ Requests \subseteq Request

VARIABLES
    wifi_rc,   \* the packet of the last POST /rc
    rc_age     \* time since rc_last_ms

boxVars == <<wifi_rc, rc_age>>

-----------------------------------------------------------------------------
\* A faulty variant: no stale guard.
GetRcUnguarded == wifi_rc

\* drone_webserver_get_rc: the stored packet, inactive once it is stale.
drone_webserver_get_rc ==
    IF rc_age > RC_STALE_MS THEN [wifi_rc EXCEPT !.drone_active = FALSE] ELSE wifi_rc

\* A packet that can fly the drone is all of what one request asked for.
Whole(packet) == packet.drone_active => \E req \in Requests : packet = PackageOf(req)

\* rc_last_ms and the clock start at 0.
BoxInit == wifi_rc = NoPackage /\ rc_age = 0

Store(packet) == wifi_rc' = packet /\ rc_age' = 0

Ages == rc_age' = Older(rc_age, RC_AGE_MAX) /\ UNCHANGED wifi_rc

BoxNext ==
    \/ wifi_rc' \in Package /\ Whole(wifi_rc') /\ rc_age' = 0
    \/ Ages

BoxSpec == BoxInit /\ [][BoxNext]_boxVars
=============================================================================
