------------------------------ MODULE NrfReceiver ------------------------------
(***************************************************************************)
(* The radio receiver, src/src/drone_receiver.c: the driver's read_data()  *)
(* on one side of the SPI bus, the nRF24L01+ chip on the other.  The chip  *)
(* queues up to FIFO_DEPTH packets, drops what comes when the queue is     *)
(* full, and raises RX_DR when a packet enters.  read_data() looks at      *)
(* RX_DR and, if it is set, takes the oldest packet, clears RX_DR and      *)
(* flushes the queue.  Each is a bus transaction of its own: packets       *)
(* arrive between them, any of them may fail, and the microcontroller may  *)
(* restart at any point while the chip keeps its power.                    *)
(*                                                                         *)
(* Packets are numbered in the order in which the chip receives them.      *)
(***************************************************************************)
EXTENDS Integers, Sequences

CONSTANTS
    FIFO_DEPTH,   \* packets the chip can queue
    MAX_RECEIVED, \* packets received in a behaviour (bound of the instance)
    SpiMayFail,   \* spi_transceive may return an error; the driver ignores it
    MayRestart    \* the microcontroller may restart

ASSUME NrfAssumption ==
    /\ FIFO_DEPTH \in Nat \ {0}
    /\ MAX_RECEIVED \in Nat
    /\ SpiMayFail \in BOOLEAN
    /\ MayRestart \in BOOLEAN

VARIABLES
    fifo,       \* the packets queued in the chip, oldest first
    rx_dr,      \* the chip's "data ready" status bit
    listening,  \* the chip is configured as a receiver
    received,   \* number of packets the chip has received, dropped ones included
    data,       \* the driver's packet
    step        \* the driver's next bus transaction

chipVars == <<fifo, rx_dr, listening, received>>
nrfVars == <<chipVars, data, step>>

Zeroed == 0   \* the static packet before anything was read
Noise == -1   \* bytes that no transmitter sent

-----------------------------------------------------------------------------
\* A faulty variant: RX_DR is cleared after the flush.
FlushThenClear == <<"payload", "flush", "clear">>

\* The transactions of read_data() once RX_DR was seen, in their order.
Transactions == <<"payload", "clear", "flush">>

\* What follows a transaction; read_data() is polled again after the last.
After(s) ==
    LET i == CHOOSE i \in DOMAIN Transactions : Transactions[i] = s
    IN  IF i < Len(Transactions) THEN Transactions[i + 1] ELSE "status"

-----------------------------------------------------------------------------
NrfInit ==
    /\ fifo = <<>> /\ rx_dr = FALSE /\ listening = FALSE /\ received = 0
    /\ data = Zeroed
    /\ step = "init"

\* The chip receives a packet.
Receive ==
    /\ listening /\ received < MAX_RECEIVED
    /\ received' = received + 1
    /\ \/ /\ Len(fifo) < FIFO_DEPTH
          /\ fifo' = Append(fifo, received')
          /\ rx_dr' = TRUE
       \/ Len(fifo) = FIFO_DEPTH /\ UNCHANGED <<fifo, rx_dr>>
    /\ UNCHANGED <<listening, data, step>>

\* nrf_init_rx: with CE low the chip does not receive.  Its queue and its
\* status are left as they are.  (A chip of which some register was not written, in
\* SpiFails, does not receive, unless an earlier program has written the same.)
nrf_init_rx ==
    /\ step = "init"
    /\ listening' = TRUE
    /\ step' = "status"
    /\ UNCHANGED <<fifo, rx_dr, received, data>>

\* read_data returns the packet it has unless RX_DR is set.
ReadStatus ==
    /\ step = "status"
    /\ step' = IF rx_dr THEN Head(Transactions) ELSE "status"
    /\ UNCHANGED <<chipVars, data>>

\* A faulty variant: a read command that leaves the packet in the queue.
PeekPayload ==
    /\ step = "payload"
    /\ data' = IF fifo = <<>> THEN Noise ELSE Head(fifo)
    /\ step' = After(step)
    /\ UNCHANGED chipVars

\* R_RX_PAYLOAD of an empty queue yields no packet.
ReadPayload ==
    /\ step = "payload"
    /\ IF fifo = <<>>
       THEN data' = Noise /\ UNCHANGED fifo
       ELSE data' = Head(fifo) /\ fifo' = Tail(fifo)
    /\ step' = After(step)
    /\ UNCHANGED <<rx_dr, listening, received>>

ClearRxDr ==
    /\ step = "clear"
    /\ rx_dr' = FALSE
    /\ step' = After(step)
    /\ UNCHANGED <<fifo, listening, received, data>>

\* A faulty variant: what else is queued is left for the next calls.
FlushNothing ==
    /\ step = "flush"
    /\ step' = After(step)
    /\ UNCHANGED <<chipVars, data>>

FlushRx ==
    /\ step = "flush"
    /\ fifo' = <<>>
    /\ step' = After(step)
    /\ UNCHANGED <<rx_dr, listening, received, data>>

\* A transaction fails.  The driver looks at no result, so one that reached the chip all
\* the same is the action above; else the chip has not seen it, and the driver goes on
\* with what its uninitialised buffer holds: a status of either kind, and for a payload, which
\* the chip may have handed out or not, noise or the bytes of the read before.
SpiFails ==
    /\ SpiMayFail
    /\ \/ step = "init" /\ step' = "status" /\ UNCHANGED <<fifo, data>>
       \/ step = "status" /\ step' \in {"status", Head(Transactions)} /\ UNCHANGED <<fifo, data>>
       \/ /\ step = "payload" /\ step' = After(step)
          /\ data' \in {Noise, data}
          /\ UNCHANGED fifo \/ (fifo # <<>> /\ fifo' = Tail(fifo))
       \/ step \in {"clear", "flush"} /\ step' = After(step) /\ UNCHANGED <<fifo, data>>
    /\ UNCHANGED <<rx_dr, listening, received>>

\* The program starts over; nrf_driver_init does not touch the chip's queue.
Restart ==
    /\ MayRestart
    /\ data' = Zeroed
    /\ step' = "init"
    /\ UNCHANGED chipVars

NrfNext ==
    \/ Receive
    \/ nrf_init_rx \/ ReadStatus \/ ReadPayload \/ ClearRxDr \/ FlushRx
    \/ SpiFails
    \/ Restart

NrfSpec == NrfInit /\ [][NrfNext]_nrfVars

\* The driver's packet is older than every packet that is still queued.
NrfTypeOK ==
    /\ fifo \in Seq(1..MAX_RECEIVED) /\ Len(fifo) <= FIFO_DEPTH
    /\ rx_dr \in BOOLEAN
    /\ listening \in BOOLEAN
    /\ received \in 0..MAX_RECEIVED
    /\ data \in {Noise, Zeroed} \cup 1..MAX_RECEIVED
    /\ step \in {"init", "status", "payload", "clear", "flush"}
    /\ \A i \in DOMAIN fifo : data < fifo[i]

-----------------------------------------------------------------------------
(* What the driver promises: LossyRadio under this mapping *)

Line == INSTANCE LossyRadio WITH
            NoPacket <- {Zeroed, Noise},
            sent     <- received,
            waiting  <- {fifo[i] : i \in DOMAIN fifo},
            current  <- data

\* Whatever overflows, fails or restarts, the driver never delivers a packet twice and
\* never one after a packet that was received later.
ImplementsLine == Line!Spec
=============================================================================
