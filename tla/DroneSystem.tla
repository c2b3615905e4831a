----------------------------- MODULE DroneSystem -----------------------------
(***************************************************************************)
(* The flight state machine with its two command sources: the NRF24 radio, *)
(* polled in every pass (src/src/drone_receiver.c), and the web interface, *)
(* whose thread stores the last POST /rc under a mutex                     *)
(* (src/src/drone_webserver.c).  A fresh active web packet overrides the   *)
(* radio; the radio's packet is never cleared.                             *)
(*                                                                         *)
(* Each critical section of rc_mutex is one action, on the CommandBox that *)
(* WebServer implements.                                                   *)
(***************************************************************************)
EXTENDS DroneFsm, CommandBox

CONSTANT NrfPackets   \* packets the transmitter may send

VARIABLE data         \* the last packet read from the radio

linkVars == <<data, boxVars>>
systemVars == <<fsmVars, linkVars>>

-----------------------------------------------------------------------------
ASSUME SystemAssumption ==
    NrfPackets \cup {NoPackage} \cup {PackageOf(req) : req \in Requests} \subseteq RcPackets

-----------------------------------------------------------------------------
\* The packet of a pass that read nrf from the radio.
Arbitrated(nrf) ==
    IF drone_webserver_get_rc.drone_active THEN drone_webserver_get_rc ELSE nrf

\* read_data: a packet waiting in the radio, or else the last one again.
read_data == data' \in NrfPackets \cup {data}

-----------------------------------------------------------------------------
SystemInit == FsmInit /\ data = NoPackage /\ BoxInit

\* A pass of the loop.  The packets are read after the IMU, whatever it said.
SystemPass ==
    /\ read_data
    /\ Control(Arbitrated(data')) \/ ImuFailure
    /\ UNCHANGED boxVars

\* A faulty variant: the web server's thread disarms the state machine itself.
HandleRcDisarms(packet) ==
    /\ http_started
    /\ Whole(packet) /\ Store(packet)
    /\ IF packet.drone_active THEN stay ELSE enter_state("IDLE")
    /\ motorsKept /\ noLanding
    /\ UNCHANGED <<pc, loop_age, i2c_dev, http_started, data>>

\* The web server's thread stores what a request asks for, or what a body that was cut
\* off leaves of it, without the active flag at its end.
HandleRc(packet) ==
    /\ http_started
    /\ Whole(packet) /\ Store(packet)
    /\ UNCHANGED <<fsmVars, data>>

SystemBoot == Boot /\ UNCHANGED linkVars

SystemElapse ==
    /\ Elapse /\ Ages
    /\ UNCHANGED data

SystemNext ==
    \/ SystemBoot
    \/ SystemPass
    \/ \E packet \in RcPackets : HandleRc(packet)
    \/ SystemElapse
    \/ Halted /\ UNCHANGED linkVars

SystemSpec == SystemInit /\ [][SystemNext]_systemVars

\* The thread of the state machine has the higher priority: it runs when it is
\* due.  Nothing is owed by the pilots.
SystemFairness ==
    /\ WF_systemVars(SystemBoot)
    /\ WF_systemVars(SystemPass)
    /\ WF_systemVars(SystemElapse)

FairSystemSpec == SystemSpec /\ SystemFairness

-----------------------------------------------------------------------------
SystemTypeOK ==
    /\ FsmTypeOK
    /\ data \in RcPackets
    /\ wifi_rc \in RcPackets
    /\ rc_age \in 0..RC_AGE_MAX

\* The drone flies only on a command it could still be getting: the radio's last
\* packet is active, or a web request came within RC_STALE_MS of the last pass and was
\* active too, unless it came after that pass, which could not obey it yet.
FlyingIsCommanded ==
    current_state = "FLYING" =>
        \/ data.drone_active
        \/ /\ rc_age <= RC_STALE_MS + loop_age
           /\ wifi_rc.drone_active \/ rc_age <= loop_age

\* When both sources have gone, one inactive and the other silent, the drone comes
\* down by itself: from then on its motors stop and stay stopped.  (Reliable PWM.)
SilenceStopsMotors ==
    <>[](~data.drone_active /\ rc_age > RC_STALE_MS) => <>[]MotorsIdle
=============================================================================
