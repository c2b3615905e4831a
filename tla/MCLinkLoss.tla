----------------------------- MODULE MCLinkLoss -----------------------------
(***************************************************************************)
(* The system with a clock of the radio's silence, which the code does not *)
(* keep.                                                                   *)
(***************************************************************************)
EXTENDS MCSystem

CONSTANT RADIO_AGE_MAX

\* Time since read_data last found a packet.
VARIABLE radio_age

Init == SystemInit /\ radio_age = RADIO_AGE_MAX

Next ==
    \/ SystemBoot /\ UNCHANGED radio_age
    \/ SystemPass /\ radio_age' \in {0, radio_age} /\ (data' # data => radio_age' = 0)
    \/ \E packet \in RcPackets : HandleRc(packet) /\ UNCHANGED radio_age
    \/ SystemElapse /\ radio_age' = Older(radio_age, RADIO_AGE_MAX)
    \/ Halted /\ UNCHANGED <<linkVars, radio_age>>

Spec == Init /\ [][Next]_<<systemVars, radio_age>>

\* "After signal loss, wait this long for recovery before triggering
\* auto-landing": when neither source has delivered a packet for longer than the
\* failsafe timeout, the drone no longer flies on the old one.
LossIsDetected ==
    current_state = "FLYING" =>
        \/ radio_age <= FAILSAFE_TIMEOUT_MS + MAX_STALL_MS
        \/ rc_age <= RC_STALE_MS + loop_age
=============================================================================
