-------------------------- MODULE DroneSystemProofs --------------------------
(***************************************************************************)
(* The system with its two command sources implements the state machine    *)
(* with an arbitrary packet in every pass, so that what is proved of the   *)
(* latter holds of the former; and the drone flies only on a command it    *)
(* could still be getting.                                                 *)
(***************************************************************************)
EXTENDS DroneSystem, DroneFsmProofs

LEMMA PacketsInPackage ==
    /\ RcPackets \subseteq Package
    /\ NoPackage \in RcPackets
    /\ NrfPackets \subseteq RcPackets
BY FsmAssumption, SystemAssumption

\* A web packet that is still active is the one that was stored, and is fresh.
LEMMA ActiveIsFresh ==
    ASSUME SystemTypeOK, drone_webserver_get_rc.drone_active
    PROVE  drone_webserver_get_rc = wifi_rc /\ rc_age <= RC_STALE_MS
<1>1. wifi_rc \in Package
  BY PacketsInPackage DEF SystemTypeOK
<1>2. [wifi_rc EXCEPT !.drone_active = FALSE].drone_active = FALSE
  BY <1>1 DEF Package
<1>3. CASE rc_age > RC_STALE_MS
  BY <1>2, <1>3, Zenon DEF drone_webserver_get_rc
<1>4. CASE ~(rc_age > RC_STALE_MS)
  BY <1>4, BoxAssumption DEF drone_webserver_get_rc, SystemTypeOK
<1> QED BY <1>3, <1>4

\* Whatever wins the arbitration is a packet one of the sources delivered.
LEMMA ArbitratedIsPacket ==
    ASSUME SystemTypeOK, read_data
    PROVE  data' \in RcPackets /\ Arbitrated(data') \in RcPackets
<1>1. data' \in RcPackets
  BY PacketsInPackage DEF read_data, SystemTypeOK
<1>2. CASE drone_webserver_get_rc.drone_active
  BY <1>1, <1>2, ActiveIsFresh DEF Arbitrated, SystemTypeOK
<1>3. CASE ~drone_webserver_get_rc.drone_active
  BY <1>1, <1>3 DEF Arbitrated
<1> QED BY <1>1, <1>2, <1>3

\* A step of the system is a step of the state machine, or none.
LEMMA SystemStepIsFsmStep ==
    ASSUME SystemTypeOK, [SystemNext]_systemVars
    PROVE  [FsmNext]_fsmVars
<1>1. CASE SystemBoot
  BY <1>1 DEF SystemBoot, FsmNext
<1>2. CASE SystemPass
  BY <1>2, ArbitratedIsPacket DEF SystemPass, boxVars, FsmNext
<1>3. ASSUME NEW packet \in RcPackets, HandleRc(packet) PROVE [FsmNext]_fsmVars
  BY <1>3 DEF HandleRc, Store
<1>4. CASE SystemElapse
  BY <1>4 DEF SystemElapse, Ages, FsmNext
<1>5. CASE Halted /\ UNCHANGED linkVars
  BY <1>5 DEF FsmNext
<1>6. CASE UNCHANGED systemVars
  BY <1>6 DEF systemVars
<1> QED BY <1>1, <1>2, <1>3, <1>4, <1>5, <1>6 DEF SystemNext

LEMMA SystemStepTyped ==
    ASSUME SystemTypeOK, [SystemNext]_systemVars
    PROVE  SystemTypeOK'
<1>1. FsmTypeOK'
  BY SystemStepIsFsmStep, NextTyped DEF SystemTypeOK
<1>2. data' \in RcPackets /\ wifi_rc' \in RcPackets
  <2>1. CASE SystemPass
    BY <2>1, ArbitratedIsPacket DEF SystemPass, boxVars, SystemTypeOK
  <2>2. ASSUME NEW packet \in RcPackets, HandleRc(packet)
        PROVE  data' \in RcPackets /\ wifi_rc' \in RcPackets
    BY <2>2 DEF HandleRc, Store, SystemTypeOK
  <2>3. CASE UNCHANGED <<data, wifi_rc>>
    BY <2>3 DEF SystemTypeOK
  <2> QED BY <2>1, <2>2, <2>3 DEF SystemNext, SystemBoot, SystemElapse, Ages,
            systemVars, linkVars, boxVars
<1>3. rc_age' \in 0..RC_AGE_MAX
  <2>1. RC_AGE_MAX \in Nat /\ rc_age \in 0..RC_AGE_MAX
    BY BoxAssumption DEF SystemTypeOK
  <2>2. Older(rc_age, RC_AGE_MAX) \in 0..RC_AGE_MAX
    BY <2>1, OlderRange
  <2>3. rc_age' \in {0, rc_age, Older(rc_age, RC_AGE_MAX)}
    BY DEF SystemNext, SystemBoot, SystemPass, HandleRc, Store, SystemElapse, Ages,
           systemVars, linkVars, boxVars
  <2> QED BY <2>1, <2>2, <2>3
<1> QED BY <1>1, <1>2, <1>3 DEF SystemTypeOK

LEMMA SystemInitTyped == SystemInit => SystemTypeOK
BY FsmInitTyped, PacketsInPackage, BoxAssumption DEF SystemInit, BoxInit, SystemTypeOK

\* The types of the whole system.
THEOREM SystemTyped == SystemSpec => []SystemTypeOK
<1>1. SystemTypeOK /\ [SystemNext]_systemVars => SystemTypeOK'
  BY SystemStepTyped
<1> QED BY <1>1, SystemInitTyped, PTL DEF SystemSpec

\* Two command sources, their arbitration and the web server's thread make no step
\* the state machine alone could not make: it is affected by them through the
\* packet of each pass and nothing else.
THEOREM SystemImplementsFsm == SystemSpec => FsmSpec
<1>1. SystemInit => FsmInit
  BY DEF SystemInit
<1>2. SystemTypeOK /\ [SystemNext]_systemVars => [FsmNext]_fsmVars
  BY SystemStepIsFsmStep
<1> QED BY <1>1, <1>2, SystemTyped, PTL DEF SystemSpec, FsmSpec

\* So the system keeps the flight contract too.
THEOREM SystemKeepsContract ==
    ASSUME PwmOutcomes = {Motor}, MAX_STALL_MS < FAILSAFE_TIMEOUT_MS
    PROVE  SystemSpec => ImplementsContract
BY SystemImplementsFsm, FsmKeepsContract, PTL

-----------------------------------------------------------------------------
\* A pass that ends in FLYING had an active packet.
LEMMA FlyingNeedsActive ==
    ASSUME NEW rc, Control(rc), current_state' = "FLYING"
    PROVE  rc.drone_active
BY DEF Control, state_idle, state_arming, state_armed, state_flying, state_failsafe,
       state_landing, state_error, SignalRecovered, FailsafeTimeout, HoldThrottle,
       LandingComplete, LandingStep, LandingWait, enter_state, stay

LEMMA StepIsCommanded ==
    ASSUME SystemTypeOK, FlyingIsCommanded, [SystemNext]_systemVars
    PROVE  FlyingIsCommanded'
<1> USE DEF FlyingIsCommanded
<1>0. rc_age \in Nat /\ loop_age \in Nat /\ RC_STALE_MS \in Nat
  BY BoxAssumption, FsmAssumption DEF SystemTypeOK, FsmTypeOK
<1>1. CASE SystemBoot
  <2>1. current_state' # "FLYING" \/ UNCHANGED <<current_state, loop_age, boxVars, data>>
    BY <1>1 DEF SystemBoot, linkVars, boxVars, Boot, EscInitFails, EscInitWorks, ImuInitFails,
                ImuInitWorks, MpuFault, enter_state, stay
  <2> QED BY <2>1 DEF boxVars
<1>2. CASE SystemPass
  <2>1. CASE ImuFailure
    BY <2>1 DEF ImuFailure, enter_state
  <2>2. CASE Control(Arbitrated(data')) /\ current_state' = "FLYING"
    <3>1. Arbitrated(data').drone_active
      BY <2>2, FlyingNeedsActive
    <3>2. CASE drone_webserver_get_rc.drone_active
      <4>1. rc_age' = rc_age /\ loop_age' = 0
        BY <1>2, <2>2 DEF SystemPass, boxVars, Control, Pass
      <4>2. rc_age <= RC_STALE_MS /\ wifi_rc' = wifi_rc /\ wifi_rc.drone_active
        BY <1>2, <3>2, ActiveIsFresh DEF SystemPass, boxVars
      <4> QED BY <1>0, <4>1, <4>2
    <3>3. CASE ~drone_webserver_get_rc.drone_active
      BY <3>1, <3>3 DEF Arbitrated
    <3> QED BY <3>2, <3>3
  <2> QED BY <1>2, <2>1, <2>2 DEF SystemPass, boxVars
<1>3. ASSUME NEW packet \in RcPackets, HandleRc(packet) PROVE FlyingIsCommanded'
  BY <1>0, <1>3 DEF HandleRc, Store, fsmVars, fsmOnly
<1>4. CASE SystemElapse
  <2>1. loop_age' = loop_age + 1 /\ UNCHANGED <<current_state, data, wifi_rc>>
    BY <1>4 DEF SystemElapse, Ages, Elapse
  <2>2. rc_age' <= rc_age + 1 /\ rc_age' \in Nat
    BY <1>0, <1>4, BoxAssumption DEF SystemElapse, Ages, Older
  <2> QED BY <1>0, <2>1, <2>2
<1>5. CASE UNCHANGED systemVars
  BY <1>5 DEF systemVars, linkVars, boxVars, fsmVars, fsmOnly
<1> QED BY <1>1, <1>2, <1>3, <1>4, <1>5 DEF SystemNext, Halted, systemVars

\* The drone flies only while the radio's last packet is active or an active web request
\* is at most RC_STALE_MS older than the last pass.
THEOREM FlightIsCommanded == SystemSpec => []FlyingIsCommanded
<1>1. SystemInit => FlyingIsCommanded
  BY DEF SystemInit, FsmInit, FlyingIsCommanded
<1>2. SystemTypeOK /\ FlyingIsCommanded /\ [SystemNext]_systemVars => FlyingIsCommanded'
  BY StepIsCommanded
<1> QED BY <1>1, <1>2, SystemTyped, PTL DEF SystemSpec
=============================================================================
