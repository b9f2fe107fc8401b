----------------------------- MODULE SingSrc -----------------------------
(***************************************************************************)
(* The sending end of a SING flow: SingSrc with its SingSubflows. It keeps *)
(* one send record per unacknowledged DSN, a retransmission queue per      *)
(* subflow, the send times of what is in flight, and one retransmission    *)
(* timer. A packet of a flow is sent when the NIC picks the subflow.       *)
(***************************************************************************)
EXTENDS SingNetwork

CONSTANTS
  MaxUnackWindow, \* _max_unack_window in packets; 0 is unlimited
  MaxRtx,         \* bound: retransmissions of one DSN
  SpuriousRto     \* TRUE: the timer may fire while the packet or its ACK is on the way

ASSUME SrcAssumption == MaxUnackWindow \in Nat /\ MaxRtx \in Nat /\ SpuriousRto \in BOOLEAN

VARIABLES
  highestSent,  \* _highest_sent: the next new DSN
  tx,           \* _tx_bitmap: DSN -> send record
  sendTimes,    \* _send_times: <<time, DSN>> of every packet in flight
  now,          \* the clock: one tick per transmission
  rto,          \* _rto_send_time while _rtx_timeout_pending, else 0
  rtxQueue,     \* per subflow: _rtx_dsn_queue
  pendingRtx,   \* _pending_rtx_pkts
  inFlight,     \* _in_flight; the code subtracts from it without a floor
  recvdPkts,    \* _recvd_bytes: the highest count an ACK has carried
  highestSsn,   \* per subflow: _highest_ssn_sent
  ssnMap,       \* per subflow: the SSNs that have an entry in _ssn_info_map
  ssnInFlight,  \* per subflow: _ssn_in_flight
  done          \* _done_sending

srcVars == <<highestSent, tx, sendTimes, now, rto, rtxQueue, pendingRtx,
             inFlight, recvdPkts, highestSsn, ssnMap, ssnInFlight, done>>

\* sendRecord, with _rtx_times folded in; NoRecord for a DSN without one.
SendRecord == [state: {"in_flight", "pending_rtx"}, ssn: DSN, sf: Subflows, time: Nat, rtx: Nat]
NoRecord == [state |-> "none"]

SrcTypeOK ==
  /\ highestSent \in 0..NumPkts
  /\ tx \in [DSN -> SendRecord \cup {NoRecord}]
  /\ sendTimes \subseteq (1..now) \X DSN
  /\ now \in Nat
  /\ rto \in 0..now
  /\ rtxQueue \in [Subflows -> Seq(DSN)]
  /\ pendingRtx \in Nat
  /\ inFlight \in Int
  /\ recvdPkts \in Nat
  /\ highestSsn \in [Subflows -> 0..NumPkts]
  /\ ssnMap \in [Subflows -> SUBSET DSN]
  /\ ssnInFlight \in [Subflows -> Nat]
  /\ done \in BOOLEAN

\* The state after startConnection.
SrcInit ==
  /\ highestSent = 0
  /\ tx = [d \in DSN |-> NoRecord]
  /\ sendTimes = {}
  /\ now = 0
  /\ rto = 0
  /\ rtxQueue = [f \in Subflows |-> <<>>]
  /\ pendingRtx = 0
  /\ inFlight = 0
  /\ recvdPkts = 0
  /\ highestSsn = [f \in Subflows |-> 0]
  /\ ssnMap = [f \in Subflows |-> {}]
  /\ ssnInFlight = [f \in Subflows |-> 0]
  /\ done = FALSE

Backlog == NumPkts - highestSent
Tracked == {d \in DSN : tx[d].state # "none"}
Acked == {d \in 0..highestSent - 1 : tx[d].state = "none"}

\* A slip: the subtraction without its floor.
PlainSub(a, b) == a - b

\* How the code floors _ssn_in_flight and, in markDsnForRtx, _in_flight.
FloorSub(a, b) == IF a >= b THEN a - b ELSE 0

--------------------------------------------------------------------------
(* The retransmission timer                                                *)

\* startRTO: arm the timer, or bring it forward; t is a send time.
StartRto(t) == IF rto = 0 \/ t < rto THEN t ELSE rto

\* recalculateRTO: rearm for the earliest send time left, if any.
RecalculateRto(times) ==
  IF times = {} THEN 0
  ELSE LET first == CHOOSE e \in times : \A x \in times : e[1] <= x[1]
       IN first[1]

\* A slip: cancelling the timer with its packet and not rearming it.
RtoCancelled(gone) ==
  IF \E e \in sendTimes : e[1] = rto /\ e[2] \in gone THEN 0 ELSE rto

\* A slip: leaving the timer alone when its packet is acknowledged.
RtoKept(gone) == rto

\* The timer after the records of the DSNs in gone leave _send_times: it is
\* recalculated only if the one it was armed for is among them.
RtoWithout(gone) ==
  LET left == {e \in sendTimes : e[2] \notin gone}
  IN IF \E e \in sendTimes \ left : e[1] = rto THEN RecalculateRto(left) ELSE rto

--------------------------------------------------------------------------
(* Sending                                                                 *)

CanSendNewData == MaxUnackWindow = 0 \/ inFlight < MaxUnackWindow

\* createSendRecord and startRTO for a packet sent in this step.
RecordSend(d, s, f, n) ==
  /\ now' = now + 1
  /\ tx' = [tx EXCEPT ![d] = [state |-> "in_flight", ssn |-> s, sf |-> f,
                              time |-> now + 1, rtx |-> n]]
  /\ sendTimes' = sendTimes \cup {<<now + 1, d>>}
  /\ rto' = StartRto(now + 1)

Transmit(d, s, f, ar, n) ==
  data' = data \cup {[dsn |-> d, ssn |-> s, sf |-> f, ar |-> ar, n |-> n, trimmed |-> FALSE]}

\* sendNewPacket, when the NIC has picked subflow f. The congestion window
\* decides whether a packet before the last one asks for an ACK.
SendNewPacket(f, ar) ==
  LET d == highestSent
      s == highestSsn[f]
  IN /\ ~done
     /\ rtxQueue[f] = <<>>
     /\ Backlog > 0
     /\ CanSendNewData
     /\ Backlog = 1 => ar
     /\ highestSent' = d + 1
     /\ highestSsn' = [highestSsn EXCEPT ![f] = s + 1]
     /\ ssnMap' = [ssnMap EXCEPT ![f] = @ \cup {s}]
     /\ ssnInFlight' = [ssnInFlight EXCEPT ![f] = @ + 1]
     /\ inFlight' = inFlight + 1
     /\ RecordSend(d, s, f, 0)
     /\ Transmit(d, s, f, ar, 0)
     /\ UNCHANGED <<rtxQueue, pendingRtx, recvdPkts, done, ctrl, losses>>

\* The assertion of prepareDataPacketForSend for the packet at the head of
\* a retransmission queue: its SSN is still mapped.
HeadSsnIsMapped(f) == tx[Head(rtxQueue[f])].ssn \in ssnMap[f]

\* sendRtxPacket: the packet goes out again under its old SSN, asking for an
\* ACK.
SendRtxPacket(f) ==
  LET d == Head(rtxQueue[f])
  IN /\ ~done
     /\ rtxQueue[f] # <<>>
     /\ d \in Tracked
     /\ tx[d].state = "pending_rtx" /\ tx[d].rtx < MaxRtx
     /\ HeadSsnIsMapped(f)
     /\ rtxQueue' = [rtxQueue EXCEPT ![f] = Tail(@)]
     /\ pendingRtx' = pendingRtx - 1
     /\ inFlight' = inFlight + 1
     /\ ssnInFlight' = [ssnInFlight EXCEPT ![f] = @ + 1]
     /\ RecordSend(d, tx[d].ssn, f, tx[d].rtx + 1)
     /\ Transmit(d, tx[d].ssn, f, TRUE, tx[d].rtx + 1)
     /\ UNCHANGED <<highestSent, recvdPkts, highestSsn, ssnMap, done, ctrl, losses>>

--------------------------------------------------------------------------
(* Losing a packet                                                         *)

\* A slip: the loss does not leave the subflow's flight size.
SsnInFlightKept(f, n) == UNCHANGED ssnInFlight

\* SingSubflow::reduceSsnInFlight.
ReduceSsnInFlight(f, n) == ssnInFlight' = [ssnInFlight EXCEPT ![f] = FloorSub(@, n)]

\* markDsnForRtx for a packet in flight.
MarkDsnForRtx(d) ==
  /\ inFlight' = FloorSub(inFlight, 1)
  /\ sendTimes' = {e \in sendTimes : e[2] # d}
  /\ rto' = RtoWithout({d})
  /\ tx' = [tx EXCEPT ![d].state = "pending_rtx"]
  /\ rtxQueue' = [rtxQueue EXCEPT ![tx[d].sf] = Append(@, d)]
  /\ pendingRtx' = pendingRtx + 1

\* rtxTimerExpired: the oldest packet in flight is taken for lost. Without
\* SpuriousRto the minimum RTO exceeds every delay of the fabric, so the
\* timer fires only when neither the packet nor any answer is on its way.
RtxTimerExpired ==
  /\ rto # 0
  /\ \E e \in sendTimes :
       LET d == e[2]
       IN /\ d \in Tracked
          /\ \A x \in sendTimes : e[1] <= x[1]
          /\ SpuriousRto \/ (ctrl = {} /\ \A p \in data : p.dsn # d)
          /\ ReduceSsnInFlight(tx[d].sf, 1)
          /\ MarkDsnForRtx(d)
  /\ UNCHANGED <<highestSent, now, recvdPkts, highestSsn, ssnMap, done, data, ctrl, losses>>

--------------------------------------------------------------------------
(* ACKs and NACKs                                                          *)

\* A slip: an ACK that was overtaken takes packets back.
NewlyRecvdNet(a) == a.rcvd - recvdPkts

\* updateAckRecvdState: the packets this ACK reports for the first time.
NewlyRecvd(a) == FloorSub(a.rcvd, recvdPkts)

\* handleCumulativeAck and handleAckno: the records the ACK removes.
AckedBy(a) == {d \in Tracked : d < a.cum \/ d \in a.sack}

\* The sequence q with the elements of gone taken out.
Without(q, gone) ==
  LET Kept[i \in 0..Len(q)] ==
        IF i = 0 THEN <<>>
        ELSE IF q[i] \in gone THEN Kept[i - 1] ELSE Append(Kept[i - 1], q[i])
  IN Kept[Len(q)]

\* A slip: only the head of the queue is looked at.
EraseRtxHead(f, dsns) ==
  IF rtxQueue[f] # <<>> /\ Head(rtxQueue[f]) \in dsns THEN Tail(rtxQueue[f]) ELSE rtxQueue[f]

\* eraseRtxDsn for each of the acknowledged DSNs that was waiting.
EraseRtxDsns(f, dsns) == Without(rtxQueue[f], dsns)

\* A slip: an inclusive bound.
SsnsUpTo(a) == {s \in ssnMap[a.sf] : s <= a.ssn}

\* cleanupSsnMap: the SSNs below the next expected one of the ACK's subflow.
SsnsBelow(a) == {s \in ssnMap[a.sf] : s < a.ssn}

\* A slip: the last packet is taken for granted.
FinishesOneEarly(a) == ~done /\ a.cum >= NumPkts - 1

\* checkFinished for a source that has not reported completion yet.
Finishes(a) == ~done /\ a.cum >= NumPkts

\* processAck: the byte count, then the cumulative and the selective part,
\* then the subflow of the ACK, then completion.
ProcessAck(a) ==
  LET gone == AckedBy(a)
      pending == {d \in gone : tx[d].state = "pending_rtx"}
  IN /\ a.type = "ack"
     /\ ctrl' = ctrl \ {a}
     /\ recvdPkts' = recvdPkts + NewlyRecvd(a)
     /\ inFlight' = inFlight - NewlyRecvd(a)
     /\ tx' = [d \in DSN |-> IF d \in gone THEN NoRecord ELSE tx[d]]
     /\ sendTimes' = {e \in sendTimes : e[2] \notin gone}
     /\ rtxQueue' = [f \in Subflows |-> EraseRtxDsns(f, pending)]
     /\ pendingRtx' = pendingRtx - Cardinality(pending)
     /\ ssnMap' = [ssnMap EXCEPT ![a.sf] = @ \ SsnsBelow(a)]
     /\ ReduceSsnInFlight(a.sf, Cardinality(SsnsBelow(a)))
     /\ done' = (done \/ Finishes(a))
     /\ rto' = IF Finishes(a) THEN 0 ELSE RtoWithout(gone)
     /\ UNCHANGED <<highestSent, now, highestSsn, data, losses>>

\* processNack for a DSN that has no record or is queued already.
IgnoreNack(k) ==
  /\ k.type = "nack"
  /\ tx[k.dsn].state # "in_flight"
  /\ ctrl' = ctrl \ {k}
  /\ UNCHANGED <<srcVars, data, losses>>

\* processNack for a packet in flight, whichever transmission was trimmed.
ProcessNack(k) ==
  /\ k.type = "nack"
  /\ tx[k.dsn].state = "in_flight"
  /\ ctrl' = ctrl \ {k}
  /\ MarkDsnForRtx(k.dsn)
  /\ ReduceSsnInFlight(tx[k.dsn].sf, 1)
  /\ UNCHANGED <<highestSent, now, recvdPkts, highestSsn, ssnMap, done, data, losses>>

\* processNack when the port is idle: rescheduleSubflow lets the NIC send the
\* subflow's oldest lost packet from inside markDsnForRtx, so the subflow
\* counts it in flight before it counts the trimmed one out.
ProcessNackAndResend(k) ==
  LET f == tx[k.dsn].sf
      queue == Append(rtxQueue[f], k.dsn)
      d == Head(queue)
      marked == [tx EXCEPT ![k.dsn].state = "pending_rtx"]
      left == {e \in sendTimes : e[2] # k.dsn}
      timer == RtoWithout({k.dsn})
  IN /\ k.type = "nack"
     /\ tx[k.dsn].state = "in_flight"
     /\ d \in Tracked
     /\ tx[d].ssn \in ssnMap[f] /\ tx[d].rtx < MaxRtx
     /\ ctrl' = ctrl \ {k}
     /\ inFlight' = FloorSub(inFlight, 1) + 1
     /\ now' = now + 1
     /\ tx' = [marked EXCEPT ![d] = [state |-> "in_flight", ssn |-> tx[d].ssn, sf |-> f,
                                     time |-> now + 1, rtx |-> tx[d].rtx + 1]]
     /\ sendTimes' = left \cup {<<now + 1, d>>}
     /\ rto' = IF timer = 0 THEN now + 1 ELSE timer
     /\ rtxQueue' = [rtxQueue EXCEPT ![f] = Tail(queue)]
     /\ ssnInFlight' = [ssnInFlight EXCEPT ![f] = FloorSub(@ + 1, 1)]
     /\ Transmit(d, tx[d].ssn, f, TRUE, tx[d].rtx + 1)
     /\ UNCHANGED <<highestSent, pendingRtx, recvdPkts, highestSsn, ssnMap, done, losses>>

\* The retransmission queues as sendRtxPacket finds them: when the NIC picks
\* a subflow, or when it is called from inside processNack.
QueuesToSend ==
  {rtxQueue[f] : f \in Subflows} \cup
  {Append(rtxQueue[tx[k.dsn].sf], k.dsn) :
     k \in {c \in ctrl : c.type = "nack" /\ tx[c.dsn].state = "in_flight"}}

\* The assertion of prepareDataPacketForSend fails in one of these calls.
SendRtxAborts ==
  /\ ~done
  /\ \E q \in QueuesToSend : q # <<>> /\ tx[Head(q)].ssn \notin ssnMap[tx[Head(q)].sf]

SrcSends(f) == (\E ar \in BOOLEAN : SendNewPacket(f, ar)) \/ SendRtxPacket(f)

SrcReceives(c) ==
  ProcessAck(c) \/ IgnoreNack(c) \/ ProcessNack(c) \/ ProcessNackAndResend(c)
==========================================================================
