----------------------------- MODULE SingFlow -----------------------------
(***************************************************************************)
(* One SING flow: a source, a sink and the fabric between them.            *)
(***************************************************************************)
EXTENDS SingSrc, SingSink

VARIABLE aborted   \* a failed assertion has ended the program

flowVars == <<netVars, srcVars, sinkVars>>
vars == <<flowVars, aborted>>

TypeOK == NetTypeOK /\ SrcTypeOK /\ SinkTypeOK /\ aborted \in BOOLEAN

Init == NetInit /\ SrcInit /\ SinkInit /\ aborted = FALSE

\* The program goes on; the assertions of the step hold.
Running == ~aborted /\ UNCHANGED aborted

NicSends == Running /\ (\E f \in Subflows : SrcSends(f)) /\ UNCHANGED sinkVars
TimerFires == Running /\ RtxTimerExpired /\ UNCHANGED sinkVars
CtrlArrives == Running /\ (\E c \in ctrl : SrcReceives(c)) /\ UNCHANGED sinkVars
DataArrives == Running /\ (\E p \in data : SinkReceives(p)) /\ UNCHANGED srcVars
FabricActs == Running /\ Fabric /\ UNCHANGED <<srcVars, sinkVars>>

\* A retransmission ends the program; what its handler had changed by then is
\* gone with it.
Aborts == ~aborted /\ SendRtxAborts /\ aborted' = TRUE /\ UNCHANGED flowVars

Next == NicSends \/ TimerFires \/ CtrlArrives \/ DataArrives \/ FabricActs \/ Aborts

Spec == Init /\ [][Next]_vars

\* The event list runs every event that was scheduled: a NIC with something
\* to send, which may end the program, an armed timer, a packet on a wire.
FairSpec == /\ Spec
            /\ WF_vars(NicSends \/ Aborts) /\ WF_vars(TimerFires)
            /\ WF_vars(CtrlArrives) /\ WF_vars(DataArrives)

--------------------------------------------------------------------------
(* Safety                                                                  *)

\* A DSN whose send record was dropped as acknowledged is at the sink: no
\* combination of cumulative ACK, SACK bitmap and reordering of ACKs makes
\* handleCumulativeAck or handleAckno forget a packet that is still missing.
AckedWasReceived == Acked \subseteq Received

\* checkFinished reports completion only when the sink holds the whole flow.
DoneMeansDelivered == done => expectedDsn = NumPkts

\* Every unacknowledged packet is in exactly one place: in flight with its
\* own entry in _send_times, or once in the retransmission queue of the
\* subflow that owns it; _pending_rtx_pkts counts the latter.
RecordsMatchQueues ==
  LET InState(s) == {d \in DSN : tx[d].state = s}
      Queued(f) == {rtxQueue[f][i] : i \in 1..Len(rtxQueue[f])}
  IN /\ sendTimes = {<<tx[d].time, d>> : d \in InState("in_flight")}
     /\ \A f \in Subflows :
          /\ Queued(f) = {d \in InState("pending_rtx") : tx[d].sf = f}
          /\ Len(rtxQueue[f]) = Cardinality(Queued(f))
     /\ pendingRtx = Cardinality(InState("pending_rtx"))

\* The timer runs exactly while something is in flight, and it is armed for
\* the oldest transmission: no packet can outlive it unnoticed.
TimerCoversOldest ==
  rto = IF done \/ sendTimes = {} THEN 0 ELSE RecalculateRto(sendTimes)

\* The assertions of SingSrc::isActivelySending: with nothing left to send,
\* an unfinished flow has a timeout running and a finished one has none.
ActivelySendingAssertion ==
  Backlog = 0 /\ pendingRtx = 0 => (done <=> rto = 0)

\* The assertion of prepareDataPacketForSend (sing_src_tx.cpp:107): a packet
\* about to be retransmitted still has its SSN mapping.
RtxSsnIsMapped == \A f \in Subflows : rtxQueue[f] # <<>> => HeadSsnIsMapped(f)

\* Once the sink holds everything it has said so: the ACK request of the last
\* packet survives in _ack_request until the reorder queue drains.
FinalAckGenerated == expectedDsn = NumPkts => highestCumAck = NumPkts

\* The two sequence spaces agree: a packet the source still tracks is at the
\* sink in the DSN space exactly if it is in the SSN space of its subflow.
SsnAgreesWithDsn ==
  \A d \in Tracked :
    LET f == tx[d].sf
        s == tx[d].ssn
    IN IsReceived(d) <=> (s < expectedSsn[f] \/ s \in ssnRx[f])

\* With one subflow, _ssn_in_flight never counts a packet that is not in
\* flight: no loss leaks congestion window.
SsnInFlightNeverLeaks ==
  \A f \in Subflows :
    ssnInFlight[f] <= Cardinality(ssnMap[f])
                      - Cardinality({d \in Tracked : tx[d].state = "pending_rtx" /\ tx[d].sf = f})

\* updateAckRecvdState: however ACKs overtake each other and whatever their
\* bitmaps leave out, the count of the source (_recvd_bytes) covers every
\* packet it has forgotten and none that the sink does not have.
CountFollowsAcks ==
  Cardinality(Acked) <= recvdPkts /\ recvdPkts <= Cardinality(Received)

\* isActivelySending's first case: a source with backlog "is still being
\* serviced" - in particular with nothing unacknowledged it may send. Without
\* an unacked window it may; with one the code does not keep this.
BacklogIsServiced == Backlog > 0 /\ Tracked = {} => CanSendNewData

--------------------------------------------------------------------------
(* Refinement and liveness                                                 *)

\* The flow implements reliable delivery.
Abstract == INSTANCE ReliableDelivery
              WITH released <- highestSent, arrived <- Received,
                   confirmed <- Acked, finished <- done
ImplementsReliableDelivery == Abstract!Spec

\* Whatever the fabric loses, trims and reorders, the flow finishes, unless the
\* assertion of prepareDataPacketForSend ends the program, as it may with
\* several subflows (RtxSsnIsMapped).
Completion == <>[](done \/ aborted)
==========================================================================
