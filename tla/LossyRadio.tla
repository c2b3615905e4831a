------------------------------ MODULE LossyRadio ------------------------------
(***************************************************************************)
(* What the flight state machine may rely on of the radio: packets get     *)
(* lost, wait, and arrive as noise or as zeros, but a packet comes at most *)
(* once and never after one that was sent later.                           *)
(***************************************************************************)
EXTENDS Integers

CONSTANT NoPacket   \* what the driver may hold instead of a packet

VARIABLES
    sent,     \* number of packets the transmitter has sent
    waiting,  \* the packets that may still be delivered
    current   \* the packet the state machine is given

lineVars == <<sent, waiting, current>>

Init == sent = 0 /\ waiting = {} /\ current \in NoPacket

\* A packet is sent, and lost at once or not.
Send ==
    /\ sent' = sent + 1
    /\ waiting' \in {waiting, waiting \cup {sent'}}
    /\ UNCHANGED current

\* A packet is delivered, which ends the wait of every packet before it.
Deliver ==
    /\ \E p \in waiting : current' = p /\ waiting' \subseteq {q \in waiting : q > p}
    /\ UNCHANGED sent

\* Waiting packets are lost.
Lose == waiting' \subseteq waiting /\ UNCHANGED <<sent, current>>

\* The packet is lost, even in the driver, and packets that wait may be lost with it.
Spoil == current' \in NoPacket /\ waiting' \subseteq waiting /\ UNCHANGED sent

Next == Send \/ Deliver \/ Lose \/ Spoil

Spec == Init /\ [][Next]_lineVars
=============================================================================
