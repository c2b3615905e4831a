-------------------------------- MODULE MCNrf --------------------------------
(***************************************************************************)
(* The radio receiver with what it has seen: the history that says which   *)
(* packets a read may still deliver.                                       *)
(***************************************************************************)
EXTENDS NrfReceiver

VARIABLES
    unflushed, \* a flush failed, or a restart came before it, and none was carried out since
    flushed,   \* packets received up to the last flush that was carried out
    polled     \* packets received when the last read began

vars == <<nrfVars, unflushed, flushed, polled>>

Init == NrfInit /\ unflushed = FALSE /\ flushed = 0 /\ polled = 0

Polling == ReadStatus /\ polled' = received /\ UNCHANGED <<unflushed, flushed>>

Flushing == FlushRx /\ unflushed' = FALSE /\ flushed' = received /\ UNCHANGED polled

Spoiling ==
    /\ SpiFails \/ Restart
    /\ unflushed' = (unflushed \/ step = "flush")
    /\ UNCHANGED <<flushed, polled>>

Working ==
    /\ Receive \/ nrf_init_rx \/ ReadPayload \/ ClearRxDr
    /\ UNCHANGED <<unflushed, flushed, polled>>

Next == Polling \/ Flushing \/ Spoiling \/ Working

Spec == Init /\ [][Next]_vars

-----------------------------------------------------------------------------
\* A packet that is queued when read_data() looks is announced by RX_DR, whenever it
\* arrived during the previous read, and whatever else failed or was cut off by a restart,
\* but for one failure: the flush, of which the driver does not learn that it
\* was not carried out.  (Then the next arrival announces them all, if the queue has
\* a place for it; over a full queue RX_DR stays clear for ever.)
NothingStranded == step = "status" /\ fifo # <<>> /\ ~rx_dr => unflushed

\* Commands do not lag behind: a packet that read_data() delivers came after the
\* flush of the read before, so the queue never builds up a delay.
NoBacklog == [][data' # data /\ data' > 0 => data' > flushed]_vars

\* drone_receiver.h: data is the latest received packet.  After a read, no packet
\* that was received before the read began is newer than data, and data is a packet.
LatestPacket == step = "status" /\ data # Zeroed => data >= polled
=============================================================================
