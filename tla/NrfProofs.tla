------------------------------ MODULE NrfProofs ------------------------------
(***************************************************************************)
(* The radio receiver for every depth of the queue, whatever fails and     *)
(* whenever the program restarts: its packets stay in order, none lags     *)
(* behind, and none is stranded but by a lost flush.                       *)
(***************************************************************************)
EXTENDS MCNrf, TLAPS

\* The order of the transactions: the flag is cleared before the flush.
LEMMA AfterIs ==
    /\ After("payload") = "clear" /\ After("clear") = "flush" /\ After("flush") = "status"
    /\ Head(Transactions) = "payload"
<1>1. DOMAIN Transactions = 1..3 /\ Len(Transactions) = 3
  BY DEF Transactions
<1>2. /\ Transactions[1] = "payload" /\ Transactions[2] = "clear"
      /\ Transactions[3] = "flush" /\ Head(Transactions) = "payload"
  BY DEF Transactions
<1>3. ASSUME NEW s, NEW k \in 1..3, Transactions[k] = s
      PROVE  After(s) = IF k < 3 THEN Transactions[k + 1] ELSE "status"
  <2> DEFINE i == CHOOSE i \in DOMAIN Transactions : Transactions[i] = s
  <2>1. \A j \in 1..3 : Transactions[j] = s => j = k
    BY <1>2, <1>3
  <2>2. k \in DOMAIN Transactions /\ \A j \in DOMAIN Transactions : Transactions[j] = s => j = k
    BY <2>1, <1>1
  <2>3. i \in DOMAIN Transactions /\ Transactions[i] = s
    BY <2>2, <1>3
  <2>4. i = k
    BY <2>2, <2>3
  <2>5. After(s) = IF i < Len(Transactions) THEN Transactions[i + 1] ELSE "status"
    BY DEF After
  <2> QED BY <2>4, <2>5, <1>1
<1>4. After("payload") = "clear"
  BY <1>2, <1>3
<1>5. After("clear") = "flush"
  BY <1>2, <1>3
<1>6. After("flush") = "status"
  BY <1>2, <1>3
<1> QED BY <1>2, <1>4, <1>5, <1>6

-----------------------------------------------------------------------------
(* The packets and their order *)

\* The queue holds packets received since the last flush, in the order of their
\* receipt, and all of them newer than the driver's.
Queued ==
    /\ \A i \in DOMAIN fifo : flushed < fifo[i] /\ fifo[i] <= received
    /\ \A i, j \in DOMAIN fifo : i < j => fifo[i] < fifo[j]

OrderInv == NrfTypeOK /\ flushed \in 0..received /\ data <= received /\ Queued

LEMMA SeqElements ==
    ASSUME NEW S, NEW s \in Seq(S)
    PROVE  Len(s) \in Nat /\ DOMAIN s = 1..Len(s) /\ \A i \in DOMAIN s : s[i] \in S
OBVIOUS

\* What the proofs need to know of the queue.
LEMMA QueueOfInts ==
    ASSUME OrderInv
    PROVE  /\ fifo \in Seq(1..MAX_RECEIVED) /\ Len(fifo) \in Nat /\ DOMAIN fifo = 1..Len(fifo)
           /\ \A i \in DOMAIN fifo : fifo[i] \in 1..MAX_RECEIVED /\ fifo[i] \in Int
<1>1. fifo \in Seq(1..MAX_RECEIVED)
  BY DEF OrderInv, NrfTypeOK
<1>2. Len(fifo) \in Nat /\ DOMAIN fifo = 1..Len(fifo)
  BY <1>1, SeqElements
<1>3. \A i \in DOMAIN fifo : fifo[i] \in 1..MAX_RECEIVED
  BY <1>1, SeqElements
<1> QED BY <1>1, <1>2, <1>3, NrfAssumption

LEMMA OrderInit ==
    ASSUME Init
    PROVE  OrderInv
<1>1. rx_dr \in BOOLEAN /\ listening \in BOOLEAN
  BY Zenon DEF Init, NrfInit
<1>2. fifo = <<>> /\ received = 0 /\ data = 0 /\ flushed = 0 /\ step = "init"
  BY DEF Init, NrfInit, Zeroed
<1>3. fifo \in Seq(1..MAX_RECEIVED) /\ Len(fifo) = 0 /\ \A i \in DOMAIN fifo : FALSE
  BY <1>2
<1> QED BY <1>1, <1>2, <1>3, NrfAssumption DEF OrderInv, NrfTypeOK, Queued, Zeroed

LEMMA ReceiveOrdered ==
    ASSUME OrderInv, Receive, UNCHANGED <<unflushed, flushed, polled>>
    PROVE  OrderInv'
<1> USE NrfAssumption
<1>1. received' = received + 1 /\ received' \in 1..MAX_RECEIVED /\ received \in 0..MAX_RECEIVED
  BY DEF Receive, OrderInv, NrfTypeOK
<1>2. data' = data /\ data \in Int /\ data < received' /\ step' = step
  BY <1>1 DEF Receive, OrderInv, NrfTypeOK, Noise, Zeroed
<1>3. CASE Len(fifo) < FIFO_DEPTH
  <2>1. fifo' = Append(fifo, received') /\ rx_dr' = TRUE
    BY <1>3 DEF Receive, OrderInv, NrfTypeOK
  <2>2. /\ fifo' \in Seq(1..MAX_RECEIVED) /\ Len(fifo') = Len(fifo) + 1
        /\ \A i \in 1..Len(fifo) : fifo'[i] = fifo[i]
        /\ fifo'[Len(fifo) + 1] = received'
    BY <2>1, <1>1 DEF OrderInv, NrfTypeOK
  <2>3. DOMAIN fifo = 1..Len(fifo) /\ DOMAIN fifo' = 1..(Len(fifo) + 1) /\ Len(fifo) \in Nat
    BY <2>2 DEF OrderInv, NrfTypeOK
  <2>4. \A i \in DOMAIN fifo : fifo[i] \in Int
    BY QueueOfInts
  <2>5. Queued'
    <3>1. \A i \in DOMAIN fifo' : i \in DOMAIN fifo \/ i = Len(fifo) + 1
      BY <2>3
    <3>2. \A i \in DOMAIN fifo' : flushed' < fifo'[i] /\ fifo'[i] <= received'
      BY <2>2, <2>3, <2>4, <3>1, <1>1 DEF OrderInv, Queued
    <3>3. ASSUME NEW i \in DOMAIN fifo', NEW j \in DOMAIN fifo', i < j
          PROVE  fifo'[i] < fifo'[j]
      <4>1. i \in DOMAIN fifo
        BY <2>3, <3>3
      <4>2. CASE j \in DOMAIN fifo
        BY <4>1, <4>2, <3>3, <2>2, <2>3 DEF OrderInv, Queued
      <4>3. CASE j = Len(fifo) + 1
        <5>1. fifo[i] \in Int /\ fifo[i] <= received
          BY <4>1, <2>4 DEF OrderInv, Queued
        <5> QED BY <4>1, <4>3, <5>1, <2>2, <2>3, <1>1
      <4> QED BY <3>1, <4>2, <4>3
    <3> QED BY <3>2, <3>3 DEF Queued
  <2>6. \A i \in DOMAIN fifo' : data' < fifo'[i]
    <3>1. \A i \in DOMAIN fifo : data < fifo[i]
      BY DEF OrderInv, NrfTypeOK
    <3> QED BY <3>1, <2>2, <2>3, <1>1, <1>2
  <2>7. Len(fifo') <= FIFO_DEPTH
    BY <1>3, <2>2, <2>3
  <2>8. rx_dr' \in BOOLEAN
    BY <2>1, Zenon
  <2>9. NrfTypeOK'
    BY <2>2, <2>6, <2>7, <2>8, <1>1, <1>2 DEF OrderInv, NrfTypeOK, Receive
  <2> QED BY <2>5, <2>9, <1>1, <1>2 DEF OrderInv
<1>4. CASE ~(Len(fifo) < FIFO_DEPTH)
  <2>1. UNCHANGED <<fifo, rx_dr>>
    BY <1>4 DEF Receive, OrderInv, NrfTypeOK
  <2>2. \A i \in DOMAIN fifo : fifo[i] \in Int
    BY QueueOfInts
  <2>3. Queued'
    BY <2>1, <2>2, <1>1 DEF OrderInv, Queued
  <2>4. NrfTypeOK'
    BY <2>1, <1>1, <1>2 DEF OrderInv, NrfTypeOK, Receive
  <2> QED BY <2>3, <2>4, <1>1, <1>2 DEF OrderInv
<1> QED BY <1>3, <1>4

\* The chip hands out the head of its queue, whether or not the driver gets it.
LEMMA TailOrdered ==
    ASSUME OrderInv, fifo # <<>>, fifo' = Tail(fifo),
           UNCHANGED <<rx_dr, listening, received, flushed>>,
           data' \in {fifo[1], data, Noise}, step' = "clear"
    PROVE  OrderInv' /\ flushed < fifo[1] /\ fifo[1] \in Int
<1>1. /\ fifo \in Seq(1..MAX_RECEIVED) /\ Len(fifo) \in Nat /\ DOMAIN fifo = 1..Len(fifo)
      /\ \A i \in DOMAIN fifo : fifo[i] \in 1..MAX_RECEIVED /\ fifo[i] \in Int
  BY QueueOfInts
<1>2. 1 \in DOMAIN fifo
  BY <1>1
<1>3. /\ fifo' \in Seq(1..MAX_RECEIVED) /\ Len(fifo') = Len(fifo) - 1
      /\ DOMAIN fifo' = 1..(Len(fifo) - 1)
      /\ \A i \in 1..(Len(fifo) - 1) : fifo'[i] = fifo[i + 1]
  BY <1>1
<1>4. \A i \in DOMAIN fifo' : i + 1 \in DOMAIN fifo /\ fifo'[i] = fifo[i + 1] /\ 1 < i + 1
  BY <1>1, <1>3
<1>5. Queued'
  <2>1. received' = received /\ flushed' = flushed
    OBVIOUS
  <2>2. \A i \in DOMAIN fifo' : flushed' < fifo'[i] /\ fifo'[i] <= received'
    BY <1>4, <2>1 DEF OrderInv, Queued
  <2>3. ASSUME NEW i \in DOMAIN fifo', NEW j \in DOMAIN fifo', i < j
        PROVE  fifo'[i] < fifo'[j]
    <3>1. i + 1 \in DOMAIN fifo /\ j + 1 \in DOMAIN fifo /\ i + 1 < j + 1
      BY <1>3, <1>4, <2>3
    <3>2. fifo[i + 1] < fifo[j + 1]
      BY <3>1 DEF OrderInv, Queued
    <3> QED BY <3>2, <1>4
  <2> QED BY <2>2, <2>3 DEF Queued
<1>6. ASSUME NEW i \in DOMAIN fifo'
      PROVE  data' < fifo'[i]
  <2>1. i + 1 \in DOMAIN fifo /\ 1 < i + 1 /\ fifo'[i] = fifo[i + 1]
    BY <1>4
  <2>2. fifo[1] < fifo[i + 1]
    BY <1>2, <2>1 DEF OrderInv, Queued
  <2>3. data < fifo[i + 1] /\ Noise < fifo[i + 1]
    BY <1>1, <2>1 DEF OrderInv, NrfTypeOK, Noise
  <2> QED BY <2>1, <2>2, <2>3
<1>7. fifo[1] \in 1..MAX_RECEIVED /\ flushed < fifo[1] /\ fifo[1] <= received
  BY <1>1, <1>2 DEF OrderInv, Queued
<1>8. Len(fifo') <= FIFO_DEPTH
  BY <1>1, <1>3, NrfAssumption DEF OrderInv, NrfTypeOK
<1>9. NrfTypeOK'
  BY <1>3, <1>6, <1>7, <1>8 DEF OrderInv, NrfTypeOK
<1>10. data' <= received'
  BY <1>7, NrfAssumption DEF OrderInv, NrfTypeOK, Noise
<1> QED BY <1>1, <1>2, <1>5, <1>7, <1>9, <1>10 DEF OrderInv

LEMMA PayloadOrdered ==
    ASSUME OrderInv, ReadPayload, UNCHANGED <<unflushed, flushed, polled>>
    PROVE  OrderInv' /\ (data' # data /\ data' > 0 => data' > flushed)
<1>1. step' = "clear" /\ UNCHANGED <<rx_dr, listening, received, flushed>>
  BY AfterIs DEF ReadPayload
<1>2. CASE fifo = <<>>
  <2>1. data' = Noise /\ fifo' = fifo
    BY <1>2 DEF ReadPayload
  <2>2. NrfTypeOK'
    BY <2>1, <1>1, <1>2 DEF OrderInv, NrfTypeOK
  <2>3. Queued' /\ flushed' \in 0..received' /\ data' <= received'
    BY <2>1, <1>1, <1>2, NrfAssumption DEF OrderInv, NrfTypeOK, Queued, Noise
  <2> QED BY <2>1, <2>2, <2>3 DEF OrderInv, Noise
<1>3. CASE fifo # <<>>
  <2>1. data' = fifo[1] /\ fifo' = Tail(fifo)
    BY <1>3, QueueOfInts DEF ReadPayload
  <2> QED BY <1>1, <1>3, <2>1, TailOrdered DEF OrderInv, NrfTypeOK
<1> QED BY <1>2, <1>3

\* A step that leaves the queue alone, and data too or makes it no packet.
LEMMA OthersOrdered ==
    ASSUME OrderInv, UNCHANGED <<fifo, listening, received, flushed>>, rx_dr' \in BOOLEAN,
           data' \in {data, Noise, Zeroed},
           step' \in {"init", "status", "payload", "clear", "flush"}
    PROVE  OrderInv'
<1>1. \A i \in DOMAIN fifo : fifo[i] \in 1..MAX_RECEIVED
  BY QueueOfInts
<1>2. \A i \in DOMAIN fifo' : data' < fifo'[i]
  BY <1>1, NrfAssumption DEF OrderInv, NrfTypeOK, Noise, Zeroed
<1>3. NrfTypeOK'
  BY <1>2 DEF OrderInv, NrfTypeOK
<1>4. data' <= received'
  BY NrfAssumption DEF OrderInv, NrfTypeOK, Noise, Zeroed
<1> QED BY <1>3, <1>4 DEF OrderInv, Queued

LEMMA FlushOrdered ==
    ASSUME OrderInv, Flushing
    PROVE  OrderInv'
<1>1. fifo' = <<>> /\ flushed' = received /\ received' = received /\ step' = "status" /\ data' = data
  BY AfterIs DEF Flushing, FlushRx
<1>2. NrfTypeOK'
  BY <1>1, NrfAssumption DEF OrderInv, NrfTypeOK, Flushing, FlushRx
<1> QED BY <1>1, <1>2, NrfAssumption DEF OrderInv, NrfTypeOK, Queued

LEMMA StepOrdered ==
    ASSUME OrderInv, [Next]_vars
    PROVE  OrderInv' /\ (data' # data /\ data' > 0 => data' > flushed)
<1>0. rx_dr \in BOOLEAN /\ listening \in BOOLEAN
      /\ step \in {"init", "status", "payload", "clear", "flush"}
  BY DEF OrderInv, NrfTypeOK
<1>1. CASE Polling
  BY <1>0, <1>1, OthersOrdered, AfterIs DEF Polling, ReadStatus, chipVars
<1>2. CASE Flushing
  BY <1>2, FlushOrdered DEF Flushing, FlushRx
<1>3. CASE Spoiling
  <2>1. CASE SpiFails
    <3>1. UNCHANGED <<rx_dr, listening, received, flushed>> /\ data' \in {data, Noise}
      BY <1>3, <2>1 DEF Spoiling, SpiFails
    <3>2. step' \in {"status", "payload", "clear", "flush"}
      BY <2>1, AfterIs DEF SpiFails
    <3>3. CASE UNCHANGED fifo
      BY <1>0, <3>1, <3>2, <3>3, OthersOrdered DEF Noise
    <3>4. CASE ~UNCHANGED fifo
      <4>1. fifo # <<>> /\ fifo' = Tail(fifo) /\ step' = "clear"
        BY <2>1, <3>4, AfterIs DEF SpiFails
      <4> QED BY <3>1, <4>1, TailOrdered DEF Noise
    <3> QED BY <3>3, <3>4
  <2>2. CASE Restart
    BY <1>0, <1>3, <2>2, OthersOrdered DEF Spoiling, Restart, chipVars, Zeroed
  <2> QED BY <1>3, <2>1, <2>2 DEF Spoiling
<1>4. CASE Working
  <2>1. CASE Receive
    BY <1>4, <2>1, ReceiveOrdered DEF Working, Receive
  <2>2. CASE nrf_init_rx
    <3>1. NrfTypeOK'
      BY <2>2 DEF nrf_init_rx, OrderInv, NrfTypeOK
    <3> QED BY <1>4, <2>2, <3>1 DEF Working, nrf_init_rx, OrderInv, Queued
  <2>3. CASE ReadPayload
    BY <1>4, <2>3, PayloadOrdered DEF Working
  <2>4. CASE ClearRxDr
    BY <1>0, <1>4, <2>4, OthersOrdered, AfterIs DEF Working, ClearRxDr
  <2> QED BY <1>4, <2>1, <2>2, <2>3, <2>4 DEF Working
<1>5. CASE UNCHANGED vars
  BY <1>0, <1>5, OthersOrdered DEF vars, nrfVars, chipVars
<1> QED BY <1>1, <1>2, <1>3, <1>4, <1>5 DEF Next

\* The receiver stays within its types, and what it holds is older than what the
\* chip still queues, whatever fails.
THEOREM NrfTyped == Spec => []NrfTypeOK
<1>1. OrderInv /\ [Next]_vars => OrderInv'
  BY StepOrdered
<1>2. OrderInv => NrfTypeOK
  BY DEF OrderInv
<1> QED BY <1>1, <1>2, OrderInit, PTL DEF Spec

\* Commands do not lag behind, for every depth of the queue: what read_data()
\* delivers came after the last flush, even if that was before a restart.
THEOREM NeverBacklogged == Spec => NoBacklog
<1>1. OrderInv /\ [Next]_vars => OrderInv'
  BY StepOrdered
<1>2. OrderInv /\ [Next]_vars => [data' # data /\ data' > 0 => data' > flushed]_vars
  BY StepOrdered
<1> QED BY <1>1, <1>2, OrderInit, PTL DEF Spec, NoBacklog

-----------------------------------------------------------------------------
(* The announcement of packets *)

\* RX_DR may be clear over a packet only between the two transactions that end a
\* read: the flush that follows takes the packet away, unless it is lost.
AnnouncedInv == ~unflushed /\ fifo # <<>> /\ step # "flush" => rx_dr

LEMMA StepAnnounces ==
    ASSUME OrderInv, AnnouncedInv, [Next]_vars
    PROVE  AnnouncedInv'
<1> USE DEF AnnouncedInv
<1>1. CASE Polling
  BY <1>1, AfterIs DEF Polling, ReadStatus, chipVars
<1>2. CASE Flushing
  BY <1>2 DEF Flushing, FlushRx
<1>3. CASE Spoiling
  <2>1. CASE SpiFails
    BY <1>3, <2>1, AfterIs DEF Spoiling, SpiFails
  <2>2. CASE Restart
    BY <1>3, <2>2 DEF Spoiling, Restart, chipVars
  <2> QED BY <1>3, <2>1, <2>2 DEF Spoiling
<1>4. CASE Working
  <2>1. CASE Receive
    BY <1>4, <2>1, NrfAssumption DEF Working, Receive, OrderInv, NrfTypeOK
  <2>2. CASE nrf_init_rx
    BY <1>4, <2>2 DEF Working, nrf_init_rx
  <2>3. CASE ReadPayload
    BY <1>4, <2>3, AfterIs DEF Working, ReadPayload
  <2>4. CASE ClearRxDr
    BY <1>4, <2>4, AfterIs DEF Working, ClearRxDr
  <2> QED BY <1>4, <2>1, <2>2, <2>3, <2>4 DEF Working
<1>5. CASE UNCHANGED vars
  BY <1>5 DEF vars, nrfVars, chipVars
<1> QED BY <1>1, <1>2, <1>3, <1>4, <1>5 DEF Next

\* For every depth of the queue and whatever else fails or restarts, RX_DR announces each
\* queued packet to the next read, whenever it arrived during the last one, unless a flush
\* was lost and none has been carried out since.
THEOREM NeverStranded == Spec => []NothingStranded
<1>1. Init => AnnouncedInv
  BY DEF Init, NrfInit, AnnouncedInv
<1>2. OrderInv /\ AnnouncedInv /\ [Next]_vars => OrderInv' /\ AnnouncedInv'
  BY StepOrdered, StepAnnounces
<1>3. AnnouncedInv => NothingStranded
  BY DEF AnnouncedInv, NothingStranded
<1> QED BY <1>1, <1>2, <1>3, OrderInit, PTL DEF Spec
-----------------------------------------------------------------------------
(* What the driver delivers *)

Waiting == {fifo[i] : i \in DOMAIN fifo}

\* A packet that enters the queue waits.
LEMMA ReceiveIsSend ==
    ASSUME OrderInv, Receive
    PROVE  Line!Next
<1>1. received' = received + 1 /\ data' = data
  BY DEF Receive
<1>2. CASE Len(fifo) < FIFO_DEPTH
  <2>1. fifo' = Append(fifo, received')
    BY <1>2 DEF Receive, OrderInv, NrfTypeOK
  <2>2. /\ Len(fifo) \in Nat /\ DOMAIN fifo = 1..Len(fifo)
        /\ DOMAIN fifo' = 1..(Len(fifo) + 1)
        /\ \A i \in 1..Len(fifo) : fifo'[i] = fifo[i]
        /\ fifo'[Len(fifo) + 1] = received'
    BY <1>1, <2>1, QueueOfInts
  <2>3. DOMAIN fifo' = DOMAIN fifo \cup {Len(fifo) + 1}
    BY <2>2
  <2>4. Waiting' = Waiting \cup {received'}
    BY <2>2, <2>3 DEF Waiting
  <2> QED BY <1>1, <2>4 DEF Line!Next, Line!Send, Waiting
<1>3. CASE ~(Len(fifo) < FIFO_DEPTH)
  <2>1. fifo' = fifo
    BY <1>3 DEF Receive, OrderInv, NrfTypeOK
  <2> QED BY <1>1, <2>1 DEF Line!Next, Line!Send
<1> QED BY <1>2, <1>3

\* The head of the queue is delivered; what is behind it is newer.
LEMMA PayloadIsDeliver ==
    ASSUME OrderInv, ReadPayload
    PROVE  Line!Next
<1>0. received' = received
  BY DEF ReadPayload
<1>1. CASE fifo = <<>>
  BY <1>0, <1>1 DEF ReadPayload, Line!Next, Line!Spoil
<1>2. CASE fifo # <<>>
  <2>1. /\ fifo \in Seq(1..MAX_RECEIVED) /\ Len(fifo) \in Nat /\ DOMAIN fifo = 1..Len(fifo)
        /\ data' = fifo[1] /\ fifo' = Tail(fifo) /\ 1 \in DOMAIN fifo
    BY <1>2, QueueOfInts DEF ReadPayload
  <2>2. /\ DOMAIN fifo' = 1..(Len(fifo) - 1)
        /\ \A i \in 1..(Len(fifo) - 1) : fifo'[i] = fifo[i + 1]
    BY <2>1
  <2>3. ASSUME NEW i \in DOMAIN fifo'
        PROVE  fifo'[i] \in Waiting /\ fifo'[i] > data'
    <3>1. 1 \in DOMAIN fifo /\ i + 1 \in DOMAIN fifo /\ 1 < i + 1 /\ fifo'[i] = fifo[i + 1]
      BY <2>1, <2>2
    <3>2. fifo[1] < fifo[i + 1]
      BY <3>1 DEF OrderInv, Queued
    <3> QED BY <2>1, <3>1, <3>2 DEF Waiting
  <2>4. data' \in Waiting /\ Waiting' \subseteq {q \in Waiting : q > data'}
    BY <2>1, <2>3 DEF Waiting
  <2> QED BY <1>0, <2>4 DEF Line!Next, Line!Deliver, Waiting
<1> QED BY <1>1, <1>2

LEMMA StepOnLine ==
    ASSUME OrderInv, [Next]_vars
    PROVE  [Line!Next]_Line!lineVars
<1>1. CASE Polling
  BY <1>1 DEF Polling, ReadStatus, chipVars, Line!lineVars
<1>2. CASE Flushing
  BY <1>2 DEF Flushing, FlushRx, Line!Next, Line!Lose
<1>3. CASE Spoiling
  <2>1. CASE SpiFails
    <3>1. received' = received /\ data' \in {data, Noise}
      BY <2>1 DEF SpiFails
    <3>2. Waiting' \subseteq Waiting
      <4>1. CASE UNCHANGED fifo
        BY <4>1 DEF Waiting
      <4>2. CASE ~UNCHANGED fifo
        <5>1. fifo # <<>> /\ fifo' = Tail(fifo)
          BY <2>1, <4>2 DEF SpiFails
        <5>2. \A i \in DOMAIN fifo' : i + 1 \in DOMAIN fifo /\ fifo'[i] = fifo[i + 1]
          BY <5>1, QueueOfInts
        <5> QED BY <5>2 DEF Waiting
      <4> QED BY <4>1, <4>2
    <3> QED BY <3>1, <3>2 DEF Line!Next, Line!Spoil, Line!Lose, Waiting
  <2>2. CASE Restart
    BY <2>2 DEF Restart, chipVars, Line!Next, Line!Spoil
  <2> QED BY <1>3, <2>1, <2>2 DEF Spoiling
<1>4. CASE Working
  <2>1. CASE nrf_init_rx \/ ClearRxDr
    BY <2>1 DEF nrf_init_rx, ClearRxDr, Line!lineVars
  <2> QED BY <1>4, <2>1, ReceiveIsSend, PayloadIsDeliver DEF Working
<1>5. CASE UNCHANGED vars
  BY <1>5 DEF vars, nrfVars, chipVars, Line!lineVars
<1> QED BY <1>1, <1>2, <1>3, <1>4, <1>5 DEF Next

\* The driver is a lossy line: for every depth of the queue and whatever overflows, fails
\* or restarts, no packet is delivered twice or after a later one.
THEOREM RadioIsLine == Spec => ImplementsLine
<1>1. Init => Line!Init
  <2> SUFFICES ASSUME Init PROVE Line!Init
    OBVIOUS
  <2>1. received = 0 /\ data = Zeroed /\ fifo = <<>>
    BY DEF Init, NrfInit
  <2>2. Waiting = {}
    BY <2>1 DEF Waiting
  <2> QED BY <2>1, <2>2 DEF Line!Init, Waiting
<1>2. OrderInv /\ [Next]_vars => OrderInv'
  BY StepOrdered
<1>3. OrderInv /\ [Next]_vars => [Line!Next]_Line!lineVars
  BY StepOnLine
<1> QED BY <1>1, <1>2, <1>3, OrderInit, PTL DEF Spec, ImplementsLine, Line!Spec
=============================================================================
