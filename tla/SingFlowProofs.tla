-------------------------- MODULE SingFlowProofs --------------------------
(***************************************************************************)
(* Theorems about a SING flow for every number of packets, set of          *)
(* subflows, ACK policy and loss bound: that it delivers reliably, and     *)
(* that the source's bookkeeping - send records, retransmission queues,    *)
(* send times and the timer - agrees.                                      *)
(***************************************************************************)
EXTENDS SingFlow, FiniteSetTheorems, WellFoundedInduction, TLAPS

--------------------------------------------------------------------------
(* The inductive invariant                                                 *)

\* The types the argument needs; TypeOK without the queues and counters.
CoreTypes ==
  /\ data \subseteq DataPacket
  /\ ctrl \subseteq AckPacket \cup NackPacket
  /\ highestSent \in 0..NumPkts
  /\ tx \in [DSN -> SendRecord \cup {NoRecord}]
  /\ now \in Nat
  /\ highestSsn \in [Subflows -> 0..NumPkts]
  /\ \A f \in Subflows : highestSsn[f] <= highestSent
  /\ done \in BOOLEAN
  /\ expectedDsn \in 0..NumPkts
  /\ dsnRx \subseteq DSN
  /\ rcvdPkts \in Nat
  /\ expectedSsn \in [Subflows -> 0..NumPkts]

\* The reorder queue starts behind the first hole.
HoleFirst == \A d \in dsnRx : d > expectedDsn

\* No trace of a packet before it is sent.
NothingAhead ==
  /\ \A p \in data : p.dsn < highestSent
  /\ \A d \in Received : d < highestSent
  /\ \A d \in DSN : d >= highestSent => tx[d].state = "none"

\* However old an ACK in flight is, what it claims to have arrived has.
AcksAreHonest ==
  \A a \in ctrl : a.type = "ack" => a.cum <= expectedDsn /\ a.sack \subseteq Received

\* A finished source has nothing left to track, and the sink has everything.
DoneMeansAll ==
  done => expectedDsn = NumPkts /\ \A d \in DSN : tx[d].state = "none"

FlowInv ==
  CoreTypes /\ HoleFirst /\ NothingAhead /\ AcksAreHonest /\ AckedWasReceived /\ DoneMeansAll

USE NumPktsAssumption

\* At the start nothing is sent, and every part of the invariant is empty.
LEMMA InitFlowInv == Init => FlowInv
<1> SUFFICES ASSUME Init PROVE FlowInv
  OBVIOUS
<1> USE DEF Init, NetInit, SrcInit, SinkInit
<1>0. /\ highestSent \in 0..NumPkts /\ expectedDsn \in 0..NumPkts
      /\ highestSsn \in [Subflows -> 0..NumPkts] /\ expectedSsn \in [Subflows -> 0..NumPkts]
      /\ now \in Nat /\ rcvdPkts \in Nat /\ \A f \in Subflows : highestSsn[f] <= highestSent
  OBVIOUS
<1>1. CoreTypes
  BY <1>0, Zenon DEF CoreTypes
<1>2. Received = {} /\ Acked = {}
  BY DEF Received, IsReceived, Acked, DSN
<1>3. HoleFirst /\ NothingAhead /\ AcksAreHonest /\ AckedWasReceived /\ DoneMeansAll
  BY <1>2 DEF HoleFirst, NothingAhead, AcksAreHonest, AckedWasReceived, DoneMeansAll, NoRecord
<1> QED
  BY <1>1, <1>3 DEF FlowInv

--------------------------------------------------------------------------
(* The source                                                              *)

\* What a DSN's record says does not depend on how it is looked at.
LEMMA RecordOrNot ==
  ASSUME CoreTypes, NEW d \in DSN
  PROVE  \/ tx[d] \in SendRecord /\ tx[d].state \in {"in_flight", "pending_rtx"}
         \/ tx[d] = NoRecord /\ tx[d].state = "none"
  BY DEF CoreTypes, SendRecord, NoRecord

\* A packet taken for lost keeps its record, and no other record changes.
LEMMA MarkKeepsRecords ==
  ASSUME CoreTypes, NEW d \in DSN, tx[d].state # "none", MarkDsnForRtx(d)
  PROVE  /\ tx' \in [DSN -> SendRecord \cup {NoRecord}]
         /\ \A x \in DSN : tx'[x].state = "none" <=> tx[x].state = "none"
<1>1. tx[d] \in SendRecord
  BY RecordOrNot
<1>2. [tx[d] EXCEPT !.state = "pending_rtx"] \in SendRecord
  BY <1>1 DEF SendRecord
<1>3. tx' = [tx EXCEPT ![d] = [tx[d] EXCEPT !.state = "pending_rtx"]]
  BY DEF MarkDsnForRtx
<1> QED
  BY <1>2, <1>3 DEF CoreTypes, SendRecord

\* A step that keeps the sink, adds no message to the source, removes no
\* record and sends only what was sent before preserves the invariant.
LEMMA QuietSourceStep ==
  ASSUME FlowInv, UNCHANGED sinkVars, UNCHANGED <<highestSent, highestSsn>>,
         now' \in Nat, ctrl' \subseteq ctrl, done' = done,
         data' \subseteq DataPacket, \A p \in data' : p.dsn < highestSent,
         tx' \in [DSN -> SendRecord \cup {NoRecord}],
         \A x \in DSN : tx'[x].state = "none" <=> tx[x].state = "none"
  PROVE  FlowInv' /\ Acked' = Acked
<1> USE DEF FlowInv, sinkVars
<1>1. Received' = Received
  BY DEF Received, IsReceived
<1>2. Acked' = Acked
  BY DEF Acked, DSN, CoreTypes
<1>3. CoreTypes'
  BY DEF CoreTypes
<1>4. HoleFirst' /\ NothingAhead' /\ AcksAreHonest'
  BY <1>1 DEF HoleFirst, NothingAhead, AcksAreHonest
<1>5. AckedWasReceived' /\ DoneMeansAll'
  BY <1>1, <1>2 DEF AckedWasReceived, DoneMeansAll
<1> QED
  BY <1>2, <1>3, <1>4, <1>5

\* A new packet takes the next numbers: the invariant is kept, and the step is
\* the release of the abstract specification.
LEMMA SendNewPacketStep ==
  ASSUME FlowInv, NEW f \in Subflows, NEW ar \in BOOLEAN,
         SendNewPacket(f, ar), UNCHANGED sinkVars
  PROVE  FlowInv' /\ Abstract!Release
<1> DEFINE d == highestSent
           r == [state |-> "in_flight", ssn |-> highestSsn[f], sf |-> f, time |-> now + 1, rtx |-> 0]
           p == [dsn |-> d, ssn |-> highestSsn[f], sf |-> f, ar |-> ar, n |-> 0, trimmed |-> FALSE]
<1> USE DEF FlowInv, sinkVars
<1>1. /\ d \in DSN /\ d < NumPkts /\ d' = d + 1 /\ ~done /\ done' = done
      /\ now' = now + 1 /\ ctrl' = ctrl
      /\ highestSsn' = [highestSsn EXCEPT ![f] = highestSsn[f] + 1]
  BY DEF SendNewPacket, RecordSend, Backlog, CoreTypes, DSN
<1>2. tx' = [tx EXCEPT ![d] = r] /\ data' = data \cup {p}
  BY DEF SendNewPacket, RecordSend, Transmit
<1>3. highestSsn[f] \in DSN
  BY <1>1 DEF CoreTypes, DSN
<1>4. r \in SendRecord /\ p \in DataPacket /\ p.dsn = d /\ r.state # "none"
  BY <1>1, <1>3 DEF SendRecord, DataPacket, CoreTypes
<1> HIDE DEF p, r
<1>5. Received' = Received
  BY DEF Received, IsReceived
<1>6. \A x \in DSN : tx'[x].state = "none" <=> x # d /\ tx[x].state = "none"
  BY <1>1, <1>2, <1>4 DEF CoreTypes
<1>7. Acked' = Acked
  <2>1. \A x \in 0..d : x \in DSN /\ (x \in 0..d - 1 <=> x # d)
    BY <1>1 DEF DSN
  <2>2. Acked' = {x \in 0..d : tx'[x].state = "none"}
    <3>1. highestSent' - 1 = highestSent
      BY <1>1 DEF DSN
    <3> QED
      BY <3>1 DEF Acked
  <2>3. \A x : x \in 0..d - 1 => x \in 0..d
    BY <1>1 DEF DSN
  <2>4. \A x : x \in Acked' <=> x \in Acked
    BY <2>1, <2>2, <2>3, <1>6 DEF Acked
  <2> QED
    BY <2>4
<1>8. CoreTypes'
  <2>1. tx' \in [DSN -> SendRecord \cup {NoRecord}]
    BY <1>1, <1>2, <1>4 DEF CoreTypes
  <2>2. highestSsn' \in [Subflows -> 0..NumPkts] /\ \A g \in Subflows : highestSsn'[g] <= d'
    BY <1>1, <1>3 DEF CoreTypes, DSN
  <2> QED
    BY <1>1, <1>2, <1>4, <2>1, <2>2 DEF CoreTypes
<1>9. NothingAhead'
  <2>1. \A q \in data' : q.dsn < d'
    BY <1>1, <1>2, <1>4 DEF NothingAhead, CoreTypes, DataPacket, DSN
  <2>2. \A x \in Received' : x < d'
    <3>1. \A x \in Received : x \in Int /\ x < highestSent
      BY DEF NothingAhead, Received, DSN
    <3>2. \A x : x \in Int /\ x < highestSent => x < highestSent'
      BY <1>1 DEF DSN
    <3> QED
      BY <1>1, <1>5, <3>1, <3>2
  <2>3. \A x \in DSN : x >= d' => tx'[x].state = "none"
    <3>1. \A x \in DSN : x >= d' => x >= d /\ x # d
      BY <1>1 DEF DSN, CoreTypes
    <3> QED
      BY <3>1, <1>6 DEF NothingAhead
  <2> QED
    BY <2>1, <2>2, <2>3 DEF NothingAhead
<1>10. HoleFirst' /\ AcksAreHonest' /\ AckedWasReceived' /\ DoneMeansAll'
  BY <1>1, <1>5, <1>7 DEF HoleFirst, AcksAreHonest, AckedWasReceived, DoneMeansAll
<1>11. Abstract!Release
  BY <1>1, <1>5, <1>7 DEF Abstract!Release
<1> QED
  BY <1>8, <1>9, <1>10, <1>11

\* A retransmission sends a DSN that has a record, and only changes it.
LEMMA SendRtxPacketStep ==
  ASSUME FlowInv, NEW f \in Subflows, SendRtxPacket(f), UNCHANGED sinkVars
  PROVE  FlowInv' /\ Acked' = Acked
<1> DEFINE d == Head(rtxQueue[f])
           r == [state |-> "in_flight", ssn |-> tx[d].ssn, sf |-> f, time |-> now + 1,
                 rtx |-> tx[d].rtx + 1]
           p == [dsn |-> d, ssn |-> tx[d].ssn, sf |-> f, ar |-> TRUE, n |-> tx[d].rtx + 1,
                 trimmed |-> FALSE]
<1>1. d \in DSN /\ tx[d].state # "none" /\ CoreTypes
  BY DEF SendRtxPacket, Tracked, FlowInv
<1>2. tx[d] \in SendRecord
  BY <1>1, RecordOrNot
<1>3. tx' = [tx EXCEPT ![d] = r] /\ data' = data \cup {p}
  BY DEF SendRtxPacket, RecordSend, Transmit
<1>4. r \in SendRecord /\ p \in DataPacket /\ p.dsn = d /\ r.state # "none"
  BY <1>1, <1>2 DEF SendRecord, DataPacket, CoreTypes
<1> HIDE DEF p, r
<1>5. d < highestSent
  BY <1>1 DEF FlowInv, NothingAhead, CoreTypes, DSN
<1>6. /\ UNCHANGED <<highestSent, highestSsn, ctrl, done>>
      /\ now' \in Nat
  BY <1>1 DEF SendRtxPacket, RecordSend, CoreTypes
<1>7. tx' \in [DSN -> SendRecord \cup {NoRecord}]
  BY <1>1, <1>3, <1>4 DEF CoreTypes
<1>8. \A x \in DSN : tx'[x].state = "none" <=> tx[x].state = "none"
  BY <1>1, <1>3, <1>4 DEF CoreTypes
<1>9. data' \subseteq DataPacket /\ \A q \in data' : q.dsn < highestSent
  BY <1>1, <1>3, <1>4, <1>5 DEF FlowInv, NothingAhead, CoreTypes
<1> QED
  BY <1>6, <1>7, <1>8, <1>9, QuietSourceStep

\* An expired timer marks packets and acknowledges none.
LEMMA RtxTimerExpiredStep ==
  ASSUME FlowInv, RtxTimerExpired, UNCHANGED sinkVars
  PROVE  FlowInv' /\ Acked' = Acked
<1>1. PICK e \in sendTimes : e[2] \in Tracked /\ MarkDsnForRtx(e[2])
  BY DEF RtxTimerExpired
<1>2. UNCHANGED <<highestSent, now, highestSsn, done, data, ctrl>>
  BY DEF RtxTimerExpired
<1>3. /\ tx' \in [DSN -> SendRecord \cup {NoRecord}]
      /\ \A x \in DSN : tx'[x].state = "none" <=> tx[x].state = "none"
  BY <1>1, MarkKeepsRecords DEF Tracked, FlowInv
<1>4. now' \in Nat /\ data' \subseteq DataPacket /\ \A p \in data' : p.dsn < highestSent
  BY <1>2 DEF FlowInv, CoreTypes, NothingAhead
<1> QED
  BY <1>2, <1>3, <1>4, QuietSourceStep

\* A NACK, obeyed or not, acknowledges nothing.
LEMMA NackStep ==
  ASSUME FlowInv, NEW k \in ctrl, IgnoreNack(k) \/ ProcessNack(k), UNCHANGED sinkVars
  PROVE  FlowInv' /\ Acked' = Acked
<1>1. /\ UNCHANGED <<highestSent, now, highestSsn, done, data>>
      /\ ctrl' \subseteq ctrl
  BY DEF IgnoreNack, ProcessNack, srcVars
<1>2. k.type = "nack"
  BY DEF IgnoreNack, ProcessNack
<1>3. k.dsn \in DSN
  BY <1>2 DEF FlowInv, CoreTypes, AckPacket, NackPacket
<1>4. /\ tx' \in [DSN -> SendRecord \cup {NoRecord}]
      /\ \A x \in DSN : tx'[x].state = "none" <=> tx[x].state = "none"
  <2>1. CASE IgnoreNack(k)
    BY <2>1 DEF IgnoreNack, srcVars, FlowInv, CoreTypes
  <2>2. CASE ProcessNack(k)
    BY <2>2, <1>3, MarkKeepsRecords DEF ProcessNack, FlowInv
  <2> QED
    BY <2>1, <2>2
<1>5. now' \in Nat /\ data' \subseteq DataPacket /\ \A p \in data' : p.dsn < highestSent
  BY <1>1 DEF FlowInv, CoreTypes, NothingAhead
<1> QED
  BY <1>1, <1>4, <1>5, QuietSourceStep

\* Nor does a NACK whose packet is sent again at once.
LEMMA NackAndResendStep ==
  ASSUME FlowInv, NEW k \in ctrl, ProcessNackAndResend(k), UNCHANGED sinkVars
  PROVE  FlowInv' /\ Acked' = Acked
<1> DEFINE f == tx[k.dsn].sf
           d == Head(Append(rtxQueue[f], k.dsn))
           marked == [tx EXCEPT ![k.dsn].state = "pending_rtx"]
           m == [tx[k.dsn] EXCEPT !.state = "pending_rtx"]
           r == [state |-> "in_flight", ssn |-> tx[d].ssn, sf |-> f, time |-> now + 1,
                 rtx |-> tx[d].rtx + 1]
           p == [dsn |-> d, ssn |-> tx[d].ssn, sf |-> f, ar |-> TRUE, n |-> tx[d].rtx + 1,
                 trimmed |-> FALSE]
<1>1. /\ k.type = "nack" /\ tx[k.dsn].state = "in_flight" /\ d \in Tracked
      /\ tx' = [marked EXCEPT ![d] = r] /\ data' = data \cup {p}
      /\ now' = now + 1 /\ ctrl' = ctrl \ {k}
      /\ UNCHANGED <<highestSent, highestSsn, done>>
  BY DEF ProcessNackAndResend, Transmit
<1>2. CoreTypes /\ k.dsn \in DSN /\ d \in DSN /\ tx[d].state # "none"
  BY <1>1 DEF FlowInv, CoreTypes, AckPacket, NackPacket, Tracked
<1>3. tx[k.dsn] \in SendRecord /\ tx[d] \in SendRecord
  BY <1>1, <1>2, RecordOrNot
<1>4. /\ r \in SendRecord /\ r.state # "none" /\ p \in DataPacket /\ p.dsn = d
      /\ m \in SendRecord /\ m.state # "none" /\ marked = [tx EXCEPT ![k.dsn] = m]
  <2>1. r \in SendRecord /\ r.state # "none" /\ p \in DataPacket /\ p.dsn = d
    <3>1. f \in Subflows /\ tx[d].ssn \in DSN /\ tx[d].rtx + 1 \in Nat /\ now + 1 \in Nat
      <4>1. \A q \in SendRecord : q.sf \in Subflows /\ q.ssn \in DSN /\ q.rtx \in Nat
        BY DEF SendRecord
      <4> HIDE DEF d
      <4> QED
        BY <1>2, <1>3, <4>1 DEF CoreTypes
    <3> HIDE DEF f, d
    <3> QED
      BY <1>2, <3>1 DEF SendRecord, DataPacket
  <2>2. m \in SendRecord /\ m.state # "none"
    BY <1>3 DEF SendRecord
  <2>3. marked = [tx EXCEPT ![k.dsn] = m]
    OBVIOUS
  <2> QED
    BY <2>1, <2>2, <2>3
<1> HIDE DEF p, r, m
<1>5. d < highestSent
  BY <1>2 DEF FlowInv, NothingAhead, CoreTypes, DSN
<1>6. tx' = [[tx EXCEPT ![k.dsn] = m] EXCEPT ![d] = r]
  BY <1>1, <1>4
<1> HIDE DEF d, f, marked
<1>7. tx' \in [DSN -> SendRecord \cup {NoRecord}]
  BY <1>2, <1>4, <1>6 DEF CoreTypes
<1>8. \A x \in DSN : tx'[x].state = "none" <=> tx[x].state = "none"
  BY <1>1, <1>2, <1>4, <1>6 DEF CoreTypes
<1>9. /\ now' \in Nat /\ ctrl' \subseteq ctrl
      /\ data' \subseteq DataPacket /\ \A q \in data' : q.dsn < highestSent
  BY <1>1, <1>2, <1>4, <1>5 DEF FlowInv, NothingAhead, CoreTypes
<1> QED
  BY <1>1, <1>7, <1>8, <1>9, QuietSourceStep

\* An ACK removes the records of packets that have arrived, and completion is
\* reported only with all of them.
LEMMA ProcessAckStep ==
  ASSUME FlowInv, NEW a \in ctrl, ProcessAck(a), UNCHANGED sinkVars
  PROVE  FlowInv' /\ Abstract!Confirm
<1> USE DEF FlowInv, sinkVars
<1> DEFINE gone == AckedBy(a)
<1>1. /\ a.type = "ack"
      /\ tx' = [d \in DSN |-> IF d \in gone THEN NoRecord ELSE tx[d]]
      /\ UNCHANGED <<highestSent, highestSsn, now, data>>
      /\ ctrl' \subseteq ctrl
      /\ done' = (done \/ Finishes(a))
  BY DEF ProcessAck
<1>2. /\ a.cum \in 0..NumPkts /\ a.cum <= expectedDsn
      /\ a.sack \subseteq Received
  BY <1>1 DEF AcksAreHonest, CoreTypes, AckPacket, NackPacket
<1>3. gone \subseteq Received
  BY <1>2 DEF AckedBy, Tracked, Received, IsReceived, CoreTypes, DSN
<1>4. \A d \in DSN : tx'[d].state = "none" <=> d \in gone \/ tx[d].state = "none"
  BY <1>1 DEF NoRecord
<1>5. Received' = Received
  BY DEF Received, IsReceived
<1>6. \A d \in gone : d \in DSN /\ d < highestSent
  BY DEF AckedBy, Tracked, NothingAhead, CoreTypes, DSN
<1>7. Acked' = Acked \cup gone
  <2>1. 0..highestSent - 1 \subseteq DSN
    BY DEF CoreTypes, DSN
  <2>2. \A d \in gone : d \in 0..highestSent - 1
    BY <1>6 DEF CoreTypes, DSN
  <2>3. \A d \in 0..highestSent - 1 : tx'[d].state = "none" <=> d \in gone \/ tx[d].state = "none"
    BY <2>1, <1>4
  <2> HIDE DEF gone
  <2> QED
    BY <1>1, <2>2, <2>3 DEF Acked
<1>8. Finishes(a) => expectedDsn = NumPkts /\ \A d \in DSN : tx'[d].state = "none"
  <2> SUFFICES ASSUME Finishes(a) PROVE expectedDsn = NumPkts /\ \A d \in DSN : tx'[d].state = "none"
    OBVIOUS
  <2>1. a.cum = NumPkts /\ expectedDsn = NumPkts
    BY <1>2 DEF Finishes, CoreTypes
  <2>2. \A d \in DSN : d < a.cum
    BY <2>1 DEF DSN
  <2>3. \A d \in DSN : d \in gone \/ tx[d].state = "none"
    BY <2>2 DEF AckedBy, Tracked
  <2> HIDE DEF gone
  <2> QED
    BY <2>1, <2>3, <1>4
<1>9. DoneMeansAll'
  BY <1>1, <1>4, <1>8 DEF DoneMeansAll
<1>10. CoreTypes'
  <2>1. tx' \in [DSN -> SendRecord \cup {NoRecord}]
    BY <1>1 DEF CoreTypes
  <2>2. done' \in BOOLEAN
    BY <1>1 DEF CoreTypes, Finishes
  <2> QED
    BY <1>1, <2>1, <2>2 DEF CoreTypes
<1>11. HoleFirst' /\ AcksAreHonest' /\ AckedWasReceived'
  BY <1>1, <1>3, <1>5, <1>7 DEF HoleFirst, AcksAreHonest, AckedWasReceived
<1>12. NothingAhead'
  BY <1>1, <1>4, <1>5 DEF NothingAhead
<1>13. Abstract!Confirm
  <2>1. done' => Acked' = 0..NumPkts - 1
    <3> SUFFICES ASSUME done' PROVE Acked' = 0..NumPkts - 1
      OBVIOUS
    <3>1. expectedDsn = NumPkts /\ \A d \in DSN : tx'[d].state = "none"
      BY <1>9 DEF DoneMeansAll
    <3>2. NumPkts - 1 \in Received
      BY <3>1 DEF Received, IsReceived, DSN
    <3>3. highestSent = NumPkts
      BY <3>2 DEF NothingAhead, CoreTypes
    <3> QED
      BY <1>1, <3>1, <3>3 DEF Acked, DSN
  <2>2. done' \in {done, TRUE}
    BY <1>1 DEF CoreTypes
  <2>3. Acked' = Acked \cup gone /\ gone \in SUBSET Received
    BY <1>3, <1>7
  <2> QED
    BY <1>1, <1>5, <2>1, <2>2, <2>3 DEF Abstract!Confirm
<1> QED
  BY <1>9, <1>10, <1>11, <1>12, <1>13

--------------------------------------------------------------------------
(* The sink                                                                *)

\* What taking a new packet does to the receive state.
LEMMA UpdateOooStateEffect ==
  ASSUME CoreTypes, HoleFirst, NEW d \in DSN, ~IsReceived(d), UpdateOooState(d)
  PROVE  /\ expectedDsn' \in expectedDsn..NumPkts
         /\ dsnRx' \subseteq DSN
         /\ HoleFirst'
         /\ Received' = Received \cup {d}
<1> USE DEF CoreTypes, DSN
<1>1. CASE d = expectedDsn
  <2>1. PICK e \in d+1..NumPkts :
          /\ \A x \in d+1..e-1 : x \in dsnRx
          /\ e \notin dsnRx
          /\ expectedDsn' = e
          /\ dsnRx' = {x \in dsnRx : x > e}
    BY <1>1 DEF UpdateOooState
  <2>2. expectedDsn' \in expectedDsn..NumPkts /\ dsnRx' \subseteq DSN /\ HoleFirst'
    <3>1. d \in Nat /\ e \in Nat /\ d < e /\ e <= NumPkts
      BY <2>1
    <3>2. expectedDsn' \in expectedDsn..NumPkts
      BY <1>1, <2>1, <3>1
    <3>3. dsnRx' \subseteq DSN
      BY <2>1
    <3>4. HoleFirst'
      BY <2>1 DEF HoleFirst
    <3> QED
      BY <3>2, <3>3, <3>4
  <2>3. \A x \in DSN : IsReceived(x)' <=> IsReceived(x) \/ x = d
    BY <1>1, <2>1 DEF IsReceived, HoleFirst
  <2> QED
    BY <2>2, <2>3 DEF Received
<1>2. CASE d # expectedDsn
  <2>1. expectedDsn' = expectedDsn /\ dsnRx' = dsnRx \cup {d}
    BY <1>2 DEF UpdateOooState
  <2>2. HoleFirst'
    BY <1>2, <2>1 DEF HoleFirst, IsReceived
  <2>3. \A x \in DSN : IsReceived(x)' <=> IsReceived(x) \/ x = d
    BY <2>1 DEF IsReceived
  <2> QED
    BY <2>1, <2>2, <2>3 DEF Received
<1> QED
  BY <1>1, <1>2

\* The ACK a sink makes is well formed and claims nothing it does not hold.
LEMMA MakeAckHonest ==
  ASSUME NEW f \in Subflows, NEW base,
         expectedDsn' \in 0..NumPkts, dsnRx' \subseteq DSN, rcvdPkts' \in Nat,
         expectedSsn' \in [Subflows -> 0..NumPkts]
  PROVE  /\ MakeAck(base, f) \in AckPacket
         /\ MakeAck(base, f).cum <= expectedDsn'
         /\ MakeAck(base, f).sack \subseteq Received'
<1>1. {d \in dsnRx' : base <= d /\ d < base + SackBits} \subseteq Received'
  BY DEF Received, IsReceived
<1>2. Received' \subseteq DSN
  BY DEF Received
<1> QED
  BY <1>1, <1>2 DEF MakeAck, AckPacket

\* A step of the sink that only adds to what it holds, and answers with an
\* honest ACK, a NACK or nothing, preserves the invariant.
LEMMA SinkStep ==
  ASSUME FlowInv, UNCHANGED srcVars, data' \subseteq data, rcvdPkts' \in Nat,
         expectedDsn' \in expectedDsn..NumPkts, dsnRx' \subseteq DSN, HoleFirst',
         expectedSsn' \in [Subflows -> 0..NumPkts],
         Received \subseteq Received', \A d \in Received' : d < highestSent,
         \A a \in ctrl' : \/ a \in ctrl
                         \/ a \in NackPacket
                         \/ /\ a \in AckPacket
                            /\ a.cum <= expectedDsn' /\ a.sack \subseteq Received'
  PROVE  FlowInv'
<1> USE DEF FlowInv, srcVars
<1>1. CoreTypes'
  BY DEF CoreTypes
<1>2. NothingAhead'
  BY DEF NothingAhead
<1>3. AcksAreHonest'
  BY DEF AcksAreHonest, CoreTypes, AckPacket, NackPacket
<1>4. AckedWasReceived' /\ DoneMeansAll'
  BY DEF AckedWasReceived, Acked, DoneMeansAll, CoreTypes
<1> QED
  BY <1>1, <1>2, <1>3, <1>4

\* What is new to the sink is the arrival of the abstract specification.
LEMMA ReceiveNewStep ==
  ASSUME FlowInv, NEW p \in data, NEW ce \in BOOLEAN, NEW pathEnd \in BOOLEAN,
         ReceiveNew(p, ce, pathEnd), UNCHANGED srcVars
  PROVE  FlowInv' /\ Abstract!Arrive
<1> DEFINE d == p.dsn
           f == p.sf
<1>1. /\ p \in DataPacket /\ d \in DSN /\ f \in Subflows /\ p.ssn \in DSN /\ d < highestSent
      /\ CoreTypes /\ HoleFirst
  BY DEF FlowInv, CoreTypes, NothingAhead, DataPacket
<1>2. /\ ~IsReceived(d) /\ data' = data \ {p} /\ rcvdPkts' = rcvdPkts + 1
      /\ SubflowProcessData(f, p.ssn) /\ UpdateOooState(d)
      /\ ctrl' = ctrl \/ \E base : ctrl' = ctrl \cup {MakeAck(base, f)}
  BY DEF ReceiveNew, SendAck
<1>3. /\ expectedDsn' \in expectedDsn..NumPkts /\ dsnRx' \subseteq DSN /\ HoleFirst'
      /\ Received' = Received \cup {d}
  BY <1>1, <1>2, UpdateOooStateEffect
<1>4. expectedSsn' \in [Subflows -> 0..NumPkts]
  <2>1. CASE p.ssn = expectedSsn[f]
    <3>1. PICK e \in p.ssn+1..NumPkts : expectedSsn' = [expectedSsn EXCEPT ![f] = e]
      BY <1>2, <2>1 DEF SubflowProcessData
    <3>2. e \in 0..NumPkts
      BY <1>1, <3>1 DEF DSN
    <3> QED
      BY <1>1, <3>1, <3>2 DEF CoreTypes
  <2>2. CASE p.ssn # expectedSsn[f]
    BY <1>1, <1>2, <2>2 DEF SubflowProcessData, CoreTypes
  <2> QED
    BY <2>1, <2>2
<1>5. rcvdPkts' \in Nat /\ expectedDsn' \in 0..NumPkts
  BY <1>1, <1>2, <1>3 DEF CoreTypes
<1>6. \A base : /\ MakeAck(base, f) \in AckPacket /\ MakeAck(base, f).cum <= expectedDsn'
                /\ MakeAck(base, f).sack \subseteq Received'
  BY <1>1, <1>3, <1>4, <1>5, MakeAckHonest
<1>7. \A x \in Received' : x < highestSent
  BY <1>1, <1>3 DEF FlowInv, NothingAhead
<1> HIDE DEF d, f
<1>8. FlowInv'
  BY <1>2, <1>3, <1>4, <1>5, <1>6, <1>7, SinkStep
<1>9. Abstract!Arrive
  <2>1. d \in (0..highestSent - 1) \ Received
    BY <1>1, <1>2 DEF Received, DSN, CoreTypes
  <2>2. UNCHANGED <<highestSent, Acked, done>>
    BY DEF srcVars, Acked
  <2> QED
    BY <1>3, <2>1, <2>2 DEF Abstract!Arrive
<1> QED
  BY <1>8, <1>9

\* Duplicates and trimmed packets change nothing the sink has.
LEMMA ReceiveOtherStep ==
  ASSUME FlowInv, NEW p \in data, UNCHANGED srcVars,
         \/ \E ce \in BOOLEAN : ReceiveDuplicate(p, ce)
         \/ ReceiveTrimmedDuplicate(p)
         \/ ReceiveTrimmed(p)
  PROVE  FlowInv' /\ UNCHANGED <<highestSent, Received, Acked, done>>
<1> DEFINE f == p.sf
           nack == [type |-> "nack", dsn |-> p.dsn, n |-> p.n]
<1>1. f \in Subflows /\ nack \in NackPacket /\ CoreTypes /\ HoleFirst
  BY DEF FlowInv, CoreTypes, DataPacket, NackPacket
<1>2. /\ data' \subseteq data
      /\ UNCHANGED <<expectedDsn, dsnRx, rcvdPkts, expectedSsn>>
      /\ \/ \E base : ctrl' = ctrl \cup {MakeAck(base, f)}
         \/ ctrl' = ctrl \cup {nack}
  BY DEF ReceiveDuplicate, ReceiveTrimmedDuplicate, ReceiveTrimmed, ReceiveStateUnchanged, SendAck
<1>3. Received' = Received /\ HoleFirst'
  BY <1>1, <1>2 DEF Received, IsReceived, HoleFirst
<1>4. /\ expectedDsn' \in expectedDsn..NumPkts /\ expectedDsn' \in 0..NumPkts
      /\ dsnRx' \subseteq DSN /\ rcvdPkts' \in Nat
      /\ expectedSsn' \in [Subflows -> 0..NumPkts]
  BY <1>1, <1>2 DEF CoreTypes
<1>5. \A base : /\ MakeAck(base, f) \in AckPacket /\ MakeAck(base, f).cum <= expectedDsn'
                /\ MakeAck(base, f).sack \subseteq Received'
  BY <1>1, <1>4, MakeAckHonest
<1>6. \A x \in Received' : x < highestSent
  BY <1>3 DEF FlowInv, NothingAhead
<1> HIDE DEF f, nack
<1>7. FlowInv'
  BY <1>1, <1>2, <1>3, <1>4, <1>5, <1>6, SinkStep
<1>8. UNCHANGED <<highestSent, Acked, done>>
  BY DEF srcVars, Acked
<1> QED
  BY <1>3, <1>7, <1>8

--------------------------------------------------------------------------
(* The fabric, and every step                                              *)

\* The fabric loses and trims packets: nothing promised to the flow changes.
LEMMA FabricStep ==
  ASSUME FlowInv, FabricActs
  PROVE  FlowInv' /\ UNCHANGED <<highestSent, Received, Acked, done>>
<1>1. UNCHANGED <<srcVars, sinkVars>>
  BY DEF FabricActs
<1>2. data' \subseteq DataPacket /\ \A p \in data' : p.dsn < highestSent
  <2>1. CASE TrimData
    <3>1. PICK p \in data : data' = (data \ {p}) \cup {[p EXCEPT !.trimmed = TRUE]}
      BY <2>1 DEF TrimData
    <3>2. p \in DataPacket /\ p.dsn < highestSent
      BY DEF FlowInv, CoreTypes, NothingAhead
    <3>3. [p EXCEPT !.trimmed = TRUE] \in DataPacket /\ [p EXCEPT !.trimmed = TRUE].dsn = p.dsn
      BY <3>2 DEF DataPacket
    <3> QED
      BY <3>1, <3>2, <3>3 DEF FlowInv, CoreTypes, NothingAhead
  <2>2. CASE DropData \/ DropCtrl
    BY <2>2 DEF DropData, DropCtrl, FlowInv, CoreTypes, NothingAhead
  <2> QED
    BY <2>1, <2>2 DEF FabricActs, Fabric
<1>3. ctrl' \subseteq ctrl
  BY DEF FabricActs, Fabric, DropData, DropCtrl, TrimData
<1>4. /\ tx' \in [DSN -> SendRecord \cup {NoRecord}] /\ now' \in Nat
      /\ UNCHANGED <<highestSent, highestSsn, done, tx>>
  BY <1>1 DEF srcVars, FlowInv, CoreTypes
<1>5. UNCHANGED Received
  BY <1>1 DEF sinkVars, Received, IsReceived
<1> QED
  BY <1>1, <1>2, <1>3, <1>4, <1>5, QuietSourceStep

\* Every step keeps the invariant and is one of the abstract specification, or
\* none.
LEMMA StepFlowInv ==
  ASSUME FlowInv, [Next]_vars
  PROVE  FlowInv' /\ [Abstract!Next]_(Abstract!vars)
<1> USE DEF Abstract!Next, Abstract!vars
<1>1. CASE NicSends
  <2>1. PICK f \in Subflows : SrcSends(f)
    BY <1>1 DEF NicSends
  <2>2. UNCHANGED sinkVars
    BY <1>1 DEF NicSends
  <2>3. CASE \E ar \in BOOLEAN : SendNewPacket(f, ar)
    BY <2>2, <2>3, SendNewPacketStep
  <2>4. CASE SendRtxPacket(f)
    <3>1. FlowInv' /\ Acked' = Acked
      BY <2>2, <2>4, SendRtxPacketStep
    <3>2. UNCHANGED <<highestSent, Received, done>>
      BY <2>2, <2>4 DEF SendRtxPacket, sinkVars, Received, IsReceived
    <3> QED
      BY <3>1, <3>2
  <2> QED
    BY <2>1, <2>3, <2>4 DEF SrcSends
<1>2. CASE TimerFires
  <2>1. FlowInv' /\ Acked' = Acked
    BY <1>2, RtxTimerExpiredStep DEF TimerFires
  <2>2. UNCHANGED <<highestSent, Received, done>>
    BY <1>2 DEF TimerFires, RtxTimerExpired, sinkVars, Received, IsReceived
  <2> QED
    BY <2>1, <2>2
<1>3. CASE CtrlArrives
  <2>1. PICK c \in ctrl : SrcReceives(c)
    BY <1>3 DEF CtrlArrives
  <2>2. UNCHANGED sinkVars
    BY <1>3 DEF CtrlArrives
  <2>3. UNCHANGED Received
    BY <2>2 DEF sinkVars, Received, IsReceived
  <2>4. CASE ProcessAck(c)
    BY <2>2, <2>4, ProcessAckStep
  <2>5. CASE IgnoreNack(c) \/ ProcessNack(c)
    <3>1. FlowInv' /\ Acked' = Acked
      BY <2>2, <2>5, NackStep
    <3>2. UNCHANGED <<highestSent, done>>
      BY <2>5 DEF IgnoreNack, ProcessNack, srcVars
    <3> QED
      BY <2>3, <3>1, <3>2
  <2>6. CASE ProcessNackAndResend(c)
    <3>1. FlowInv' /\ Acked' = Acked
      BY <2>2, <2>6, NackAndResendStep
    <3>2. UNCHANGED <<highestSent, done>>
      BY <2>6 DEF ProcessNackAndResend
    <3> QED
      BY <2>3, <3>1, <3>2
  <2> QED
    BY <2>1, <2>4, <2>5, <2>6 DEF SrcReceives
<1>4. CASE DataArrives
  <2>1. PICK p \in data : SinkReceives(p)
    BY <1>4 DEF DataArrives
  <2>2. UNCHANGED srcVars
    BY <1>4 DEF DataArrives
  <2>3. CASE \E ce, pathEnd \in BOOLEAN : ReceiveNew(p, ce, pathEnd)
    BY <2>2, <2>3, ReceiveNewStep
  <2>4. CASE \/ \E ce \in BOOLEAN : ReceiveDuplicate(p, ce)
             \/ ReceiveTrimmedDuplicate(p)
             \/ ReceiveTrimmed(p)
    <3>1. FlowInv' /\ UNCHANGED <<highestSent, Received, Acked, done>>
      BY <2>2, <2>4, ReceiveOtherStep
    <3> QED
      BY <3>1
  <2> QED
    BY <2>1, <2>3, <2>4 DEF SinkReceives
<1>5. CASE FabricActs
  BY <1>5, FabricStep
<1>6. CASE UNCHANGED flowVars
  <2>1. UNCHANGED <<netVars, srcVars, sinkVars>>
    BY <1>6 DEF flowVars
  <2>2. UNCHANGED <<data, ctrl, highestSent, tx, now, highestSsn, done>>
    BY <2>1 DEF netVars, srcVars
  <2>3. FlowInv' /\ Acked' = Acked
    BY <2>1, <2>2, QuietSourceStep DEF FlowInv, CoreTypes, NothingAhead
  <2>4. UNCHANGED Received
    BY <2>1 DEF sinkVars, Received, IsReceived
  <2> QED
    BY <2>2, <2>3, <2>4
<1> QED
  BY <1>1, <1>2, <1>3, <1>4, <1>5, <1>6 DEF Next, Aborts, vars

--------------------------------------------------------------------------
(* Theorems                                                                *)

\* The invariant holds in every reachable state.
THEOREM FlowInvariant == Spec => []FlowInv
<1>1. Init => FlowInv
  BY InitFlowInv
<1>2. FlowInv /\ [Next]_vars => FlowInv'
  BY StepFlowInv
<1> QED
  BY <1>1, <1>2, PTL DEF Spec

\* handleCumulativeAck and handleAckno never forget a packet that the sink
\* does not have, whatever was lost, reordered or retransmitted.
THEOREM AckedIsReceived == Spec => []AckedWasReceived
<1>1. FlowInv => AckedWasReceived
  BY DEF FlowInv
<1> QED
  BY <1>1, FlowInvariant, PTL

\* checkFinished reports completion only once the sink holds every packet.
THEOREM CompletionIsDelivery == Spec => []DoneMeansDelivered
<1>1. FlowInv => DoneMeansDelivered
  BY DEF FlowInv, DoneMeansAll, DoneMeansDelivered
<1> QED
  BY <1>1, FlowInvariant, PTL

\* Seen through what it has sent, received and confirmed, the flow is
\* reliable delivery: in order release, at most one arrival, honest confirms.
THEOREM FlowRefinesDelivery == Spec => ImplementsReliableDelivery
<1>1. Init => Abstract!Init
  <2> SUFFICES ASSUME Init PROVE Abstract!Init
    OBVIOUS
  <2>1. Received = {} /\ Acked = {}
    BY DEF Init, SrcInit, SinkInit, Received, IsReceived, Acked, DSN
  <2> QED
    BY <2>1 DEF Init, SrcInit, Abstract!Init
<1>2. FlowInv /\ [Next]_vars => [Abstract!Next]_(Abstract!vars)
  BY StepFlowInv
<1> QED
  BY <1>1, <1>2, FlowInvariant, PTL DEF Spec, Abstract!Spec, ImplementsReliableDelivery

--------------------------------------------------------------------------
(* Sequences and their least elements                                      *)

\* No element stands twice in q.
NoneTwice(q) == \A i, j \in DOMAIN q : q[i] = q[j] => i = j

\* A set of naturals that is not empty has a least element.
LEMMA LeastNatural ==
  ASSUME NEW S \in SUBSET Nat, S # {}
  PROVE  \E m \in S : \A n \in S : m <= n
<1> DEFINE R == {ab \in Nat \X Nat : ab[1] < ab[2]}
<1>1. IsWellFoundedOn(R, Nat)
  <2>1. R = OpToRel(<, Nat)
    BY DEF OpToRel
  <2> QED
    BY <2>1, NatLessThanWellFounded
<1>2. \A a, b \in Nat : a < b => <<a, b>> \in R
  OBVIOUS
<1>3. S \subseteq Nat
  OBVIOUS
<1> HIDE DEF R
<1>4. PICK m \in S : \A n \in S : ~(<<n, m>> \in R)
  BY <1>1, <1>3, WFMin
<1>5. \A n \in S : ~(n < m)
  BY <1>2, <1>3, <1>4
<1> QED
  BY <1>3, <1>5

\* The recursion that defines Without.
Keeps(q, gone, F, n) ==
  F = [i \in 0..n |-> IF i = 0 THEN <<>>
                      ELSE IF q[i] \in gone THEN F[i - 1] ELSE Append(F[i - 1], q[i])]

\* It has a solution for every length.
LEMMA KeepsExists ==
  ASSUME NEW q, NEW gone, NEW n \in Nat
  PROVE  \E F : Keeps(q, gone, F, n)
<1> DEFINE Bad == {k \in Nat : ~ \E F : Keeps(q, gone, F, k)}
<1> SUFFICES ASSUME Bad # {} PROVE FALSE
  OBVIOUS
<1>1. PICK m \in Bad : \A k \in Bad : m <= k
  BY LeastNatural
<1>2. m # 0
  <2>1. Keeps(q, gone, [i \in 0..0 |-> <<>>], 0)
    BY DEF Keeps
  <2> QED
    BY <2>1, <1>1
<1>3. m \in Nat /\ m - 1 \in Nat /\ m - 1 \notin Bad
  BY <1>1, <1>2
<1>4. PICK F : Keeps(q, gone, F, m - 1)
  BY <1>3
<1> DEFINE G == [i \in 0..m |-> IF i < m THEN F[i]
                       ELSE IF q[m] \in gone THEN F[m - 1] ELSE Append(F[m - 1], q[m])]
<1>5. \A i \in 0..m - 1 : F[i] = IF i = 0 THEN <<>>
                      ELSE IF q[i] \in gone THEN F[i - 1] ELSE Append(F[i - 1], q[i])
  BY <1>4 DEF Keeps
<1>6. \A i \in 0..m : G[i] = IF i = 0 THEN <<>>
                      ELSE IF q[i] \in gone THEN G[i - 1] ELSE Append(G[i - 1], q[i])
  <2> SUFFICES ASSUME NEW i \in 0..m PROVE G[i] = IF i = 0 THEN <<>>
                      ELSE IF q[i] \in gone THEN G[i - 1] ELSE Append(G[i - 1], q[i])
    OBVIOUS
  <2>1. CASE i = m
    <3>1. G[i] = IF q[m] \in gone THEN F[m - 1] ELSE Append(F[m - 1], q[m])
      BY <2>1, <1>3
    <3>2. G[i - 1] = F[m - 1]
      BY <2>1, <1>2, <1>3
    <3> QED
      BY <2>1, <1>2, <3>1, <3>2
  <2>2. CASE i # m
    <3>1. i \in 0..m - 1 /\ G[i] = F[i]
      BY <2>2, <1>3
    <3>2. i # 0 => i - 1 \in 0..m /\ i - 1 < m /\ G[i - 1] = F[i - 1]
      BY <2>2, <1>3
    <3> QED
      BY <3>1, <3>2, <1>5
  <2> QED
    BY <2>1, <2>2
<1>7. DOMAIN G = 0..m /\ G = [i \in 0..m |-> G[i]]
  OBVIOUS
<1> HIDE DEF G
<1>8. Keeps(q, gone, G, m)
  BY <1>6, <1>7 DEF Keeps
<1> QED
  BY <1>8, <1>1

\* Without keeps the other elements, in a sequence without new repetitions.
LEMMA WithoutKeeps ==
  ASSUME NEW S, NEW q \in Seq(S), NEW gone, NoneTwice(q)
  PROVE  /\ Without(q, gone) \in Seq(S)
         /\ NoneTwice(Without(q, gone))
         /\ \A x : (\E i \in DOMAIN Without(q, gone) : Without(q, gone)[i] = x)
                     <=> x \notin gone /\ \E i \in DOMAIN q : q[i] = x
<1> DEFINE F == CHOOSE f : f = [i \in 0..Len(q) |-> IF i = 0 THEN <<>>
                      ELSE IF q[i] \in gone THEN f[i - 1] ELSE Append(f[i - 1], q[i])]
<1>1. Len(q) \in Nat /\ DOMAIN q = 1..Len(q)
  OBVIOUS
<1>2. Keeps(q, gone, F, Len(q))
  <2>1. \E f : f = [i \in 0..Len(q) |-> IF i = 0 THEN <<>>
                      ELSE IF q[i] \in gone THEN f[i - 1] ELSE Append(f[i - 1], q[i])]
    <3>1. \E f : Keeps(q, gone, f, Len(q))
      BY <1>1, KeepsExists
    <3> QED
      BY <3>1, Zenon DEF Keeps
  <2> QED
    BY <2>1, Zenon DEF Keeps
<1>3. Without(q, gone) = F[Len(q)]
  BY DEF Without
<1> HIDE DEF F
<1>4. \A i \in 0..Len(q) : F[i] = IF i = 0 THEN <<>>
                      ELSE IF q[i] \in gone THEN F[i - 1] ELSE Append(F[i - 1], q[i])
  <2>1. F = [i \in 0..Len(q) |-> IF i = 0 THEN <<>>
                      ELSE IF q[i] \in gone THEN F[i - 1] ELSE Append(F[i - 1], q[i])]
    BY <1>2 DEF Keeps
  <2> DEFINE E(i) == IF i = 0 THEN <<>>
                      ELSE IF q[i] \in gone THEN F[i - 1] ELSE Append(F[i - 1], q[i])
  <2>2. F = [i \in 0..Len(q) |-> E(i)]
    BY <2>1
  <2> HIDE DEF E
  <2>3. \A i \in 0..Len(q) : F[i] = E(i)
    BY <2>2
  <2> QED
    BY <2>3 DEF E
<1> DEFINE Good(k) == /\ F[k] \in Seq(S)
                      /\ NoneTwice(F[k])
                      /\ \A x : (\E i \in DOMAIN F[k] : F[k][i] = x)
                           <=> x \notin gone /\ \E i \in 1..k : q[i] = x
<1>5. Good(Len(q))
  <2> DEFINE Bad == {k \in 0..Len(q) : ~Good(k)}
  <2> SUFFICES ASSUME Bad # {} PROVE FALSE
    <3>1. Len(q) \in 0..Len(q)
      BY <1>1
    <3> HIDE DEF Good
    <3> QED
      BY <3>1
  <2>1. PICK m \in Bad : \A k \in Bad : m <= k
    <3>1. Bad \in SUBSET Nat
      BY <1>1
    <3> HIDE DEF Bad
    <3> QED
      BY <3>1, LeastNatural
  <2>2. m \in 0..Len(q) /\ ~Good(m)
    BY <2>1
  <2>3. m # 0
    <3>1. F[0] = <<>>
      BY <1>1, <1>4
    <3>2. Good(0)
      BY <3>1 DEF NoneTwice
    <3> QED
      BY <3>2, <2>2
  <2>4. Good(m - 1)
    <3>1. m - 1 \in 0..Len(q) /\ ~(m <= m - 1)
      BY <2>2, <2>3
    <3> HIDE DEF Good
    <3>2. m - 1 \notin Bad
      BY <3>1, <2>1
    <3> QED
      BY <3>1, <3>2
  <2>5. m \in 1..Len(q) /\ q[m] \in S
    BY <2>2, <2>3, <1>1
  <2>6. CASE q[m] \in gone
    <3>1. F[m] = F[m - 1]
      BY <2>5, <2>6, <1>4
    <3>2. \A x : (\E i \in 1..m : q[i] = x) <=> (\E i \in 1..m - 1 : q[i] = x) \/ x = q[m]
      BY <2>5
    <3> QED
      BY <3>1, <3>2, <2>2, <2>4, <2>6
  <2>7. CASE q[m] \notin gone
    <3> DEFINE s == F[m - 1]
    <3>1. F[m] = Append(s, q[m])
      BY <2>2, <2>3, <2>7, <1>4
    <3>2. \A x : (\E i \in 1..m : q[i] = x) <=> (\E i \in 1..m - 1 : q[i] = x) \/ x = q[m]
      BY <2>5
    <3>3. s \in Seq(S) /\ Len(s) \in Nat /\ DOMAIN s = 1..Len(s)
      BY <2>4
    <3>4. \A i \in DOMAIN s : s[i] # q[m]
      <4>1. \A i \in 1..m - 1 : q[i] # q[m]
        BY <2>5, <1>1 DEF NoneTwice
      <4> QED
        BY <4>1, <2>4
    <3>5. NoneTwice(s) /\ \A x : (\E i \in DOMAIN s : s[i] = x)
                           <=> x \notin gone /\ \E i \in 1..m - 1 : q[i] = x
      BY <2>4
    <3> HIDE DEF s
    <3>6. /\ Append(s, q[m]) \in Seq(S)
          /\ DOMAIN Append(s, q[m]) = 1..Len(s) + 1
          /\ Append(s, q[m])[Len(s) + 1] = q[m]
          /\ \A i \in 1..Len(s) : Append(s, q[m])[i] = s[i]
      BY <3>3, <2>5
    <3>7. NoneTwice(Append(s, q[m]))
      BY <3>3, <3>4, <3>5, <3>6 DEF NoneTwice
    <3>8. \A x : (\E i \in DOMAIN Append(s, q[m]) : Append(s, q[m])[i] = x)
                   <=> x = q[m] \/ \E i \in DOMAIN s : s[i] = x
      <4> DEFINE t == Append(s, q[m])
      <4>1. DOMAIN t = DOMAIN s \cup {Len(s) + 1}
        BY <3>3, <3>6
      <4>2. t[Len(s) + 1] = q[m] /\ \A i \in DOMAIN s : t[i] = s[i]
        BY <3>3, <3>6
      <4> HIDE DEF t
      <4>3. \A x : (\E i \in DOMAIN t : t[i] = x) <=> x = q[m] \/ \E i \in DOMAIN s : s[i] = x
        BY <4>1, <4>2, Zenon
      <4> QED
        BY <4>3 DEF t
    <3>9. \A x : (\E i \in DOMAIN Append(s, q[m]) : Append(s, q[m])[i] = x)
                   <=> x \notin gone /\ \E i \in 1..m : q[i] = x
      BY <3>2, <3>5, <3>8, <2>7
    <3>10. Good(m)
      BY <3>1, <3>6, <3>7, <3>9
    <3> QED
      BY <3>10, <2>2
  <2> QED
    BY <2>6, <2>7
<1> QED
  BY <1>1, <1>3, <1>5
--------------------------------------------------------------------------
(* Records and send times                                                  *)

TxType == [DSN -> SendRecord \cup {NoRecord}]
WithState(t, s) == {d \in DSN : t[d].state = s}

\* The send times are those of the records in flight, none is in the future,
\* and the timer r is armed for the earliest.
FlightOK(t, times, r, n) ==
  /\ times = {<<t[d].time, d>> : d \in WithState(t, "in_flight")}
  /\ \A d \in WithState(t, "in_flight") : t[d].time \in 1..n
  /\ IF times = {} THEN r = 0
     ELSE (\E e \in times : e[1] = r) /\ \A e \in times : r <= e[1]

\* recalculateRTO finds the earliest send time.
LEMMA EarliestTime ==
  ASSUME NEW times, times # {}, \A e \in times : e[1] \in Nat
  PROVE  /\ \E e \in times : e[1] = RecalculateRto(times)
         /\ \A e \in times : RecalculateRto(times) <= e[1]
<1> DEFINE S == {e[1] : e \in times}
<1>1. S \in SUBSET Nat /\ S # {}
  OBVIOUS
<1>2. PICK m \in S : \A k \in S : m <= k
  <2> HIDE DEF S
  <2> QED
    BY <1>1, LeastNatural
<1>3. \E e \in times : \A x \in times : e[1] <= x[1]
  BY <1>2
<1> DEFINE first == CHOOSE e \in times : \A x \in times : e[1] <= x[1]
<1>4. first \in times /\ \A x \in times : first[1] <= x[1]
  BY <1>3
<1>5. RecalculateRto(times) = first[1]
  BY DEF RecalculateRto
<1> HIDE DEF first
<1> QED
  BY <1>4, <1>5

\* Send times are times of the past, and so is the timer when it runs.
LEMMA TimesAreSends ==
  ASSUME NEW t, NEW times, NEW r, NEW n, FlightOK(t, times, r, n)
  PROVE  /\ \A e \in times : e[1] \in 1..n
         /\ IF times = {} THEN r = 0 ELSE r \in 1..n
<1>1. \A e \in times : e[1] \in 1..n
  BY DEF FlightOK
<1> QED
  BY <1>1 DEF FlightOK

\* A packet sent now is the latest: it gets an entry of its own, and the timer
\* is armed for it only if nothing else is in flight.
LEMMA EntersFlight ==
  ASSUME NEW n \in Nat, NEW t \in TxType, NEW times, NEW r, NEW d \in DSN, NEW rec,
         rec.state = "in_flight", rec.time = n + 1,
         t[d].state # "in_flight", FlightOK(t, times, r, n)
  PROVE  FlightOK([t EXCEPT ![d] = rec], times \cup {<<n + 1, d>>},
                  IF r = 0 \/ n + 1 < r THEN n + 1 ELSE r, n + 1)
<1> DEFINE u == [t EXCEPT ![d] = rec]
           after == IF r = 0 \/ n + 1 < r THEN n + 1 ELSE r
           more == times \cup {<<n + 1, d>>}
<1>1. \A x \in DSN : u[x] = IF x = d THEN rec ELSE t[x]
  BY DEF TxType
<1> HIDE DEF u
<1>2. WithState(u, "in_flight") = WithState(t, "in_flight") \cup {d} /\ d \notin WithState(t, "in_flight")
  BY <1>1 DEF WithState
<1>3. more = {<<u[x].time, x>> : x \in WithState(u, "in_flight")}
  <2>1. \A x \in WithState(t, "in_flight") : u[x].time = t[x].time
    BY <1>1, <1>2 DEF WithState
  <2>2. u[d].time = n + 1
    BY <1>1
  <2> QED
    BY <2>1, <2>2, <1>2 DEF FlightOK
<1>4. \A x \in WithState(u, "in_flight") : u[x].time \in 1..n + 1
  <2>1. \A x \in WithState(t, "in_flight") : u[x].time \in 1..n
    BY <1>1, <1>2 DEF FlightOK, WithState
  <2>2. u[d].time \in 1..n + 1
    BY <1>1
  <2> QED
    BY <2>1, <2>2, <1>2
<1>5. \A e \in times : e[1] \in 1..n
  BY DEF FlightOK
<1>6. (\E e \in more : e[1] = after) /\ \A e \in more : after <= e[1]
  <2>1. CASE times = {}
    <3>1. r = 0 /\ after = n + 1
      BY <2>1 DEF FlightOK
    <3> QED
      BY <2>1, <3>1
  <2>2. CASE times # {}
    <3>1. (\E e \in times : e[1] = r) /\ \A e \in times : r <= e[1]
      BY <2>2 DEF FlightOK
    <3>2. r \in 1..n
      BY <3>1, <1>5
    <3>3. after = r
      BY <3>2
    <3> QED
      BY <3>1, <3>2, <3>3
  <2> QED
    BY <2>1, <2>2
<1> QED
  BY <1>3, <1>4, <1>6 DEF FlightOK, u

\* Packets that are lost or acknowledged take their entries with them, and the
\* timer moves on if it was armed for one of them.
LEMMA LeavesFlight ==
  ASSUME NEW n \in Nat, NEW t, NEW u, NEW gone,
         FlightOK(t, sendTimes, rto, n),
         \A x \in DSN : u[x].state = "in_flight" <=> t[x].state = "in_flight" /\ x \notin gone,
         \A x \in DSN : u[x].state = "in_flight" => u[x].time = t[x].time
  PROVE  FlightOK(u, {e \in sendTimes : e[2] \notin gone}, RtoWithout(gone), n)
<1> DEFINE left == {e \in sendTimes : e[2] \notin gone}
           after == RtoWithout(gone)
<1>1. WithState(u, "in_flight") = WithState(t, "in_flight") \ gone
  BY DEF WithState
<1>2. \A x \in WithState(u, "in_flight") : u[x].time = t[x].time
  BY DEF WithState
<1>3. left = {<<u[x].time, x>> : x \in WithState(u, "in_flight")}
  <2>1. sendTimes = {<<t[d].time, d>> : d \in WithState(t, "in_flight")}
    BY DEF FlightOK
  <2> QED
    BY <2>1, <1>1, <1>2
<1>4. \A x \in WithState(u, "in_flight") : u[x].time \in 1..n
  BY <1>1, <1>2 DEF FlightOK
<1>5. \A e \in sendTimes : e[1] \in 1..n
  BY DEF FlightOK
<1>6. after = IF \E e \in sendTimes \ left : e[1] = rto THEN RecalculateRto(left) ELSE rto
  BY DEF RtoWithout
<1>7. left \subseteq sendTimes /\ \A e \in left : e[1] \in Nat
  BY <1>5
<1>8. IF sendTimes = {} THEN rto = 0
      ELSE (\E e \in sendTimes : e[1] = rto) /\ \A e \in sendTimes : rto <= e[1]
  BY DEF FlightOK
<1> HIDE DEF left, after
<1>9. IF left = {} THEN after = 0
      ELSE (\E e \in left : e[1] = after) /\ \A e \in left : after <= e[1]
  <2>1. CASE left = {} /\ sendTimes = {}
    BY <2>1, <1>6, <1>8
  <2>2. CASE left = {} /\ sendTimes # {}
    BY <2>2, <1>6, <1>8 DEF RecalculateRto
  <2>3. CASE left # {} /\ \E e \in sendTimes \ left : e[1] = rto
    BY <2>3, <1>6, <1>7, EarliestTime
  <2>4. CASE left # {} /\ ~ \E e \in sendTimes \ left : e[1] = rto
    BY <2>4, <1>6, <1>7, <1>8
  <2> QED
    BY <2>1, <2>2, <2>3, <2>4
<1> QED
  BY <1>3, <1>4, <1>9 DEF FlightOK, left, after

--------------------------------------------------------------------------
(* Records and retransmission queues                                       *)

Holds(q, d) == \E i \in DOMAIN q : q[i] = d

\* Each packet to be retransmitted waits once, in the queue of its subflow.
QueuesOK(t, qs) ==
  /\ qs \in [Subflows -> Seq(DSN)]
  /\ \A f \in Subflows : NoneTwice(qs[f])
  /\ \A f \in Subflows, d \in DSN :
       Holds(qs[f], d) <=> t[d].state = "pending_rtx" /\ t[d].sf = f

\* A lost packet goes to the end of its subflow's queue.
LEMMA JoinsQueue ==
  ASSUME NEW t \in TxType, NEW qs, QueuesOK(t, qs), NEW d \in DSN,
         t[d].state = "in_flight", t[d].sf \in Subflows, NEW u \in TxType,
         u[d].state = "pending_rtx", u[d].sf = t[d].sf,
         \A x \in DSN \ {d} : u[x] = t[x]
  PROVE  QueuesOK(u, [qs EXCEPT ![t[d].sf] = Append(@, d)])
<1> DEFINE f == t[d].sf
           q == qs[f]
           rs == [qs EXCEPT ![f] = Append(@, d)]
<1>1. q \in Seq(DSN) /\ Len(q) \in Nat /\ DOMAIN q = 1..Len(q) /\ NoneTwice(q)
  BY DEF QueuesOK
<1>2. ~Holds(q, d)
  BY DEF QueuesOK
<1>3. rs = [qs EXCEPT ![f] = Append(q, d)]
  BY DEF QueuesOK
<1>4. rs[f] = Append(q, d) /\ \A g \in Subflows \ {f} : rs[g] = qs[g]
  BY <1>3 DEF QueuesOK
<1> HIDE DEF q
<1>5. /\ Append(q, d) \in Seq(DSN)
      /\ DOMAIN Append(q, d) = 1..Len(q) + 1
      /\ Append(q, d)[Len(q) + 1] = d
      /\ \A i \in 1..Len(q) : Append(q, d)[i] = q[i]
  BY <1>1
<1>6. NoneTwice(Append(q, d))
  BY <1>1, <1>2, <1>5 DEF NoneTwice, Holds
<1>7. \A x : Holds(Append(q, d), x) <=> Holds(q, x) \/ x = d
  BY <1>1, <1>5 DEF Holds
<1>8. rs \in [Subflows -> Seq(DSN)]
  BY <1>3, <1>5 DEF QueuesOK
<1>9. \A g \in Subflows : NoneTwice(rs[g])
  BY <1>4, <1>6 DEF QueuesOK
<1>10. \A g \in Subflows, x \in DSN :
          Holds(rs[g], x) <=> u[x].state = "pending_rtx" /\ u[x].sf = g
  <2> SUFFICES ASSUME NEW g \in Subflows, NEW x \in DSN
               PROVE  Holds(rs[g], x) <=> u[x].state = "pending_rtx" /\ u[x].sf = g
    OBVIOUS
  <2>1. Holds(qs[g], x) <=> t[x].state = "pending_rtx" /\ t[x].sf = g
    BY DEF QueuesOK
  <2>2. Holds(rs[g], x) <=> Holds(qs[g], x) \/ (g = f /\ x = d)
    BY <1>4, <1>7 DEF q
  <2> HIDE DEF rs
  <2>3. CASE x = d
    BY <2>1, <2>2, <2>3
  <2>4. CASE x # d
    BY <2>1, <2>2, <2>4
  <2> QED
    BY <2>3, <2>4
<1> QED
  BY <1>8, <1>9, <1>10 DEF QueuesOK

\* The packet at the head of a queue is one to be retransmitted, and once it is
\* in flight it waits no longer.
LEMMA LeavesQueue ==
  ASSUME NEW t \in TxType, NEW qs, QueuesOK(t, qs), NEW f \in Subflows, qs[f] # <<>>,
         NEW u \in TxType, u[Head(qs[f])].state = "in_flight",
         \A x \in DSN \ {Head(qs[f])} : u[x] = t[x]
  PROVE  /\ Head(qs[f]) \in DSN
         /\ t[Head(qs[f])].state = "pending_rtx" /\ t[Head(qs[f])].sf = f
         /\ QueuesOK(u, [qs EXCEPT ![f] = Tail(@)])
<1> DEFINE q == qs[f]
           d == Head(q)
           rs == [qs EXCEPT ![f] = Tail(@)]
<1>1. /\ q \in Seq(DSN) /\ q # <<>> /\ Len(q) \in Nat \ {0} /\ DOMAIN q = 1..Len(q)
      /\ NoneTwice(q) /\ d = q[1] /\ d \in DSN
  BY DEF QueuesOK
<1>2. Holds(q, d)
  BY <1>1 DEF Holds
<1>3. t[d].state = "pending_rtx" /\ t[d].sf = f
  BY <1>1, <1>2 DEF QueuesOK
<1>4. rs[f] = Tail(q) /\ \A g \in Subflows \ {f} : rs[g] = qs[g]
  BY DEF QueuesOK
<1>5. rs = [qs EXCEPT ![f] = Tail(q)]
  BY DEF QueuesOK
<1> HIDE DEF q, d
<1>6. /\ Tail(q) \in Seq(DSN)
      /\ DOMAIN Tail(q) = 1..Len(q) - 1
      /\ \A i \in 1..Len(q) - 1 : Tail(q)[i] = q[i + 1]
  BY <1>1
<1>7. NoneTwice(Tail(q))
  BY <1>1, <1>6 DEF NoneTwice
<1>8. \A x : Holds(Tail(q), x) <=> Holds(q, x) /\ x # d
  <2> SUFFICES ASSUME NEW x PROVE Holds(Tail(q), x) <=> Holds(q, x) /\ x # d
    OBVIOUS
  <2>1. ASSUME Holds(Tail(q), x) PROVE Holds(q, x) /\ x # d
    <3>1. PICK i \in 1..Len(q) - 1 : q[i + 1] = x
      BY <2>1, <1>6 DEF Holds
    <3>2. i + 1 \in DOMAIN q /\ 1 \in DOMAIN q /\ i + 1 # 1
      BY <1>1
    <3>3. q[i + 1] # q[1]
      BY <1>1, <3>2 DEF NoneTwice
    <3> QED
      BY <1>1, <3>1, <3>2, <3>3 DEF Holds
  <2>2. ASSUME Holds(q, x), x # d PROVE Holds(Tail(q), x)
    <3>1. PICK i \in DOMAIN q : q[i] = x
      BY <2>2 DEF Holds
    <3>2. i - 1 \in 1..Len(q) - 1 /\ (i - 1) + 1 = i
      BY <1>1, <2>2, <3>1
    <3> QED
      BY <1>6, <3>1, <3>2 DEF Holds
  <2> QED
    BY <2>1, <2>2
<1>9. rs \in [Subflows -> Seq(DSN)]
  BY <1>5, <1>6 DEF QueuesOK
<1>10. \A g \in Subflows : NoneTwice(rs[g])
  BY <1>4, <1>7 DEF QueuesOK
<1>11. \A g \in Subflows, x \in DSN :
          Holds(rs[g], x) <=> u[x].state = "pending_rtx" /\ u[x].sf = g
  <2> SUFFICES ASSUME NEW g \in Subflows, NEW x \in DSN
               PROVE  Holds(rs[g], x) <=> u[x].state = "pending_rtx" /\ u[x].sf = g
    OBVIOUS
  <2>1. Holds(qs[g], x) <=> t[x].state = "pending_rtx" /\ t[x].sf = g
    BY DEF QueuesOK
  <2>2. Holds(rs[g], x) <=> Holds(qs[g], x) /\ ~(g = f /\ x = d)
    BY <1>4, <1>8 DEF q
  <2> HIDE DEF rs
  <2>3. CASE x = d
    BY <2>1, <2>2, <2>3, <1>3 DEF d, q
  <2>4. CASE x # d
    BY <2>1, <2>2, <2>4 DEF d, q
  <2> QED
    BY <2>3, <2>4
<1> QED
  BY <1>1, <1>3, <1>9, <1>10, <1>11 DEF QueuesOK, d, q

--------------------------------------------------------------------------
(* The inductive invariant                                                 *)

\* When the sink has everything and the source does not know yet, a packet is
\* still tracked that no ACK on its way reports, but for one that completes
\* the flow: the packet that arrived last.
LastToArrive ==
  expectedDsn = NumPkts /\ ~done =>
    \E d \in Tracked : \A a \in ctrl :
      a.type = "ack" /\ a.cum < NumPkts => a.cum <= d /\ d \notin a.sack

Pending(t) == WithState(t, "pending_rtx")

Books == /\ QueuesOK(tx, rtxQueue)
         /\ FlightOK(tx, sendTimes, rto, now)
         /\ pendingRtx = Cardinality(Pending(tx))

RecordsInv == FlowInv /\ Books /\ LastToArrive


\* Sets of DSNs are finite.
LEMMA DsnsFinite ==
  ASSUME NEW S \in SUBSET DSN
  PROVE  IsFiniteSet(S) /\ Cardinality(S) \in Nat
<1>1. IsFiniteSet(DSN)
  BY FS_Interval DEF DSN
<1> QED
  BY <1>1, FS_Subset, FS_CardinalityType

\* Nothing is tracked at the start.
LEMMA InitRecordsInv == Init => RecordsInv
<1> SUFFICES ASSUME Init PROVE RecordsInv
  OBVIOUS
<1>1. FlowInv
  BY InitFlowInv
<1>2. /\ tx = [d \in DSN |-> NoRecord] /\ rtxQueue = [f \in Subflows |-> <<>>]
      /\ sendTimes = {} /\ rto = 0 /\ pendingRtx = 0 /\ expectedDsn = 0
  BY DEF Init, SrcInit, SinkInit
<1>3. \A d \in DSN : tx[d].state = "none"
  BY <1>2 DEF NoRecord
<1>4. \A s : s # "none" => WithState(tx, s) = {}
  BY <1>3 DEF WithState
<1>5. QueuesOK(tx, rtxQueue)
  BY <1>2, <1>3 DEF QueuesOK, Holds, NoneTwice
<1>6. FlightOK(tx, sendTimes, rto, now)
  BY <1>2, <1>4 DEF FlightOK
<1>7. pendingRtx = Cardinality(Pending(tx))
  BY <1>2, <1>4, FS_EmptySet DEF Pending
<1>8. LastToArrive
  BY <1>2 DEF LastToArrive
<1> QED
  BY <1>1, <1>5, <1>6, <1>7, <1>8 DEF RecordsInv, Books

\* Whoever is not at the sink and has been sent is tracked.
LEMMA MissingIsTracked ==
  ASSUME FlowInv, NEW d \in DSN, d < highestSent, ~IsReceived(d)
  PROVE  d \in Tracked
<1>1. d \notin Acked
  BY DEF FlowInv, AckedWasReceived, Received
<1> QED
  BY <1>1 DEF Acked, Tracked, FlowInv, CoreTypes, DSN

\* The last to arrive stays tracked while the source hears nothing.
LEMMA LastStays ==
  ASSUME LastToArrive, expectedDsn' = expectedDsn, ctrl' \subseteq ctrl, done' = done,
         Tracked \subseteq Tracked'
  PROVE  LastToArrive'
  BY DEF LastToArrive

\* Records that are and stay outside of a queue leave the queues alone.
LEMMA QueuesIgnore ==
  ASSUME NEW t, NEW u, NEW qs, QueuesOK(t, qs), NEW d \in DSN,
         t[d].state # "pending_rtx", u[d].state # "pending_rtx",
         \A x \in DSN \ {d} : u[x] = t[x]
  PROVE  QueuesOK(u, qs) /\ Pending(u) = Pending(t)
<1>1. \A x \in DSN : \A f : u[x].state = "pending_rtx" /\ u[x].sf = f
                          <=> t[x].state = "pending_rtx" /\ t[x].sf = f
  <2> TAKE x \in DSN
  <2> QED
    BY (x = d) \/ (x # d)
<1>2. \A x \in DSN : u[x].state = "pending_rtx" <=> t[x].state = "pending_rtx"
  <2> TAKE x \in DSN
  <2> QED
    BY (x = d) \/ (x # d)
<1>3. QueuesOK(u, qs)
  BY <1>1 DEF QueuesOK
<1>4. Pending(u) = Pending(t)
  BY <1>2 DEF Pending, WithState
<1> QED
  BY <1>3, <1>4

--------------------------------------------------------------------------
(* The source                                                              *)

\* A packet sent again has a record of the same kind.
LEMMA RecordInFlight ==
  ASSUME CoreTypes, NEW t \in TxType, NEW d \in DSN, t[d].state # "none", NEW f \in Subflows
  PROVE  [t EXCEPT ![d] = [state |-> "in_flight", ssn |-> t[d].ssn, sf |-> f,
                           time |-> now + 1, rtx |-> t[d].rtx + 1]] \in TxType
<1>1. t[d] \in SendRecord
  BY DEF TxType, NoRecord
<1>2. t[d].ssn \in DSN /\ t[d].rtx + 1 \in Nat /\ now + 1 \in Nat
  <2>1. \A q \in SendRecord : q.ssn \in DSN /\ q.rtx \in Nat
    BY DEF SendRecord
  <2> QED
    BY <1>1, <2>1 DEF CoreTypes
<1>3. [state |-> "in_flight", ssn |-> t[d].ssn, sf |-> f,
       time |-> now + 1, rtx |-> t[d].rtx + 1] \in SendRecord
  BY <1>2 DEF SendRecord
<1> QED
  BY <1>3 DEF TxType

\* A new packet gets a record and a send time.
LEMMA SendNewBooks ==
  ASSUME RecordsInv, NEW f \in Subflows, NEW ar \in BOOLEAN, SendNewPacket(f, ar)
  PROVE  Books' /\ Tracked \subseteq Tracked'
<1> DEFINE d == highestSent
           rec == [state |-> "in_flight", ssn |-> highestSsn[f], sf |-> f,
                   time |-> now + 1, rtx |-> 0]
<1>1. /\ d \in DSN /\ now \in Nat /\ tx \in TxType
      /\ tx[d].state = "none"
  BY DEF SendNewPacket, Backlog, RecordsInv, FlowInv, CoreTypes, NothingAhead, DSN, TxType
<1>2. /\ tx' = [tx EXCEPT ![d] = rec]
      /\ sendTimes' = sendTimes \cup {<<now + 1, d>>}
      /\ rto' = IF rto = 0 \/ now + 1 < rto THEN now + 1 ELSE rto
      /\ now' = now + 1 /\ rtxQueue' = rtxQueue /\ pendingRtx' = pendingRtx
  BY DEF SendNewPacket, RecordSend, StartRto
<1>3. rec.state = "in_flight" /\ rec.time = now + 1
  OBVIOUS
<1> HIDE DEF d, rec
<1>4. FlightOK(tx', sendTimes', rto', now')
  BY <1>1, <1>2, <1>3, EntersFlight DEF RecordsInv, Books
<1>5. tx'[d] = rec /\ \A x \in DSN \ {d} : tx'[x] = tx[x]
  BY <1>1, <1>2 DEF TxType
<1>6. QueuesOK(tx', rtxQueue') /\ Pending(tx') = Pending(tx)
  BY <1>1, <1>2, <1>3, <1>5, QueuesIgnore DEF RecordsInv, Books
<1>7. Tracked \subseteq Tracked'
  BY <1>3, <1>5 DEF Tracked
<1> QED
  BY <1>2, <1>4, <1>6, <1>7 DEF RecordsInv, Books

\* The packet at the head of the queue is the one the assertions of
\* sendRtxPacket ask for: lost, and owned by this subflow.
LEMMA SendRtxBooks ==
  ASSUME RecordsInv, NEW f \in Subflows, SendRtxPacket(f)
  PROVE  Books' /\ Tracked \subseteq Tracked'
<1> DEFINE d == Head(rtxQueue[f])
           rec == [state |-> "in_flight", ssn |-> tx[d].ssn, sf |-> f,
                   time |-> now + 1, rtx |-> tx[d].rtx + 1]
<1>1. /\ now \in Nat /\ tx \in TxType /\ rtxQueue[f] # <<>> /\ d \in DSN
      /\ tx[d].state = "pending_rtx" /\ QueuesOK(tx, rtxQueue)
  BY DEF SendRtxPacket, RecordsInv, FlowInv, CoreTypes, Books, TxType, Tracked
<1>2. /\ tx' = [tx EXCEPT ![d] = rec]
      /\ sendTimes' = sendTimes \cup {<<now + 1, d>>}
      /\ rto' = IF rto = 0 \/ now + 1 < rto THEN now + 1 ELSE rto
      /\ now' = now + 1 /\ rtxQueue' = [rtxQueue EXCEPT ![f] = Tail(@)]
      /\ pendingRtx' = pendingRtx - 1
  BY DEF SendRtxPacket, RecordSend, StartRto
<1>3. rec.state = "in_flight" /\ rec.time = now + 1
  OBVIOUS
<1>4. tx' \in TxType
  BY <1>1, <1>2, RecordInFlight DEF RecordsInv, FlowInv
<1> HIDE DEF rec
<1>5. FlightOK(tx', sendTimes', rto', now')
  <2> HIDE DEF d
  <2> QED
    BY <1>1, <1>2, <1>3, EntersFlight DEF RecordsInv, Books
<1>6. tx'[d] = rec /\ \A x \in DSN \ {d} : tx'[x] = tx[x]
  BY <1>1, <1>2 DEF TxType
<1>7. QueuesOK(tx', rtxQueue')
  <2>1. /\ rtxQueue[f] # <<>> /\ tx'[Head(rtxQueue[f])].state = "in_flight"
        /\ \A x \in DSN \ {Head(rtxQueue[f])} : tx'[x] = tx[x]
    BY <1>1, <1>3, <1>6
  <2>2. QueuesOK(tx', [rtxQueue EXCEPT ![f] = Tail(@)])
    BY <2>1, <1>1, <1>4, LeavesQueue
  <2> QED
    BY <2>2, <1>2
<1>8. Pending(tx') = Pending(tx) \ {d} /\ d \in Pending(tx)
  BY <1>1, <1>3, <1>6 DEF Pending, WithState
<1>9. pendingRtx' = Cardinality(Pending(tx'))
  <2>1. IsFiniteSet(Pending(tx))
    BY DsnsFinite DEF Pending, WithState
  <2> QED
    BY <2>1, <1>2, <1>8, FS_RemoveElement DEF RecordsInv, Books
<1>10. Tracked \subseteq Tracked'
  BY <1>3, <1>6 DEF Tracked
<1> QED
  BY <1>5, <1>7, <1>9, <1>10 DEF Books

\* A lost packet moves from the packets in flight to the queue of its subflow.
LEMMA MarkBooks ==
  ASSUME RecordsInv, NEW d \in DSN, tx[d].state = "in_flight", MarkDsnForRtx(d), now' = now
  PROVE  Books' /\ Tracked \subseteq Tracked'
<1> DEFINE m == [tx[d] EXCEPT !.state = "pending_rtx"]
<1>1. CoreTypes /\ tx \in TxType /\ tx[d] \in SendRecord
  BY RecordOrNot DEF RecordsInv, FlowInv, CoreTypes, TxType
<1>2. m.state = "pending_rtx" /\ m.sf = tx[d].sf /\ tx[d].sf \in Subflows /\ m \in SendRecord
  BY <1>1 DEF SendRecord
<1>3. tx' = [tx EXCEPT ![d] = m]
  BY DEF MarkDsnForRtx
<1>4. /\ sendTimes' = {e \in sendTimes : e[2] \notin {d}} /\ rto' = RtoWithout({d})
      /\ rtxQueue' = [rtxQueue EXCEPT ![tx[d].sf] = Append(@, d)]
      /\ pendingRtx' = pendingRtx + 1
  BY DEF MarkDsnForRtx
<1> HIDE DEF m
<1>5. tx'[d] = m /\ \A x \in DSN \ {d} : tx'[x] = tx[x]
  BY <1>1, <1>3 DEF TxType
<1>6. tx' \in TxType
  BY <1>1, <1>2, <1>3 DEF TxType
<1>7. FlightOK(tx', sendTimes', rto', now')
  <2>1. now \in Nat /\ FlightOK(tx, sendTimes, rto, now)
    BY <1>1 DEF CoreTypes, RecordsInv, Books
  <2>2. \A x \in DSN : tx'[x].state = "in_flight" <=> tx[x].state = "in_flight" /\ x \notin {d}
    BY <1>2, <1>5
  <2>3. \A x \in DSN : tx'[x].state = "in_flight" => tx'[x].time = tx[x].time
    BY <1>2, <1>5
  <2> QED
    BY <2>1, <2>2, <2>3, <1>4, LeavesFlight
<1>8. QueuesOK(tx', rtxQueue')
  BY <1>1, <1>2, <1>4, <1>5, <1>6, JoinsQueue DEF RecordsInv, Books
<1>9. Pending(tx') = Pending(tx) \cup {d} /\ d \notin Pending(tx)
  BY <1>2, <1>5 DEF Pending, WithState
<1>10. pendingRtx' = Cardinality(Pending(tx'))
  <2>1. IsFiniteSet(Pending(tx))
    BY DsnsFinite DEF Pending, WithState
  <2> QED
    BY <2>1, <1>4, <1>9, FS_AddElement DEF RecordsInv, Books
<1>11. Tracked \subseteq Tracked'
  BY <1>2, <1>5 DEF Tracked
<1> QED
  BY <1>7, <1>8, <1>10, <1>11 DEF Books

\* A packet lost and the oldest of its subflow sent again in one step.
LEMMA NackAndResendBooks ==
  ASSUME RecordsInv, NEW k \in ctrl, ProcessNackAndResend(k)
  PROVE  Books' /\ Tracked \subseteq Tracked'
<1> DEFINE l == k.dsn
           f == tx[l].sf
           m == [tx[l] EXCEPT !.state = "pending_rtx"]
           marked == [tx EXCEPT ![l] = m]
           queues == [rtxQueue EXCEPT ![f] = Append(@, l)]
           d == Head(queues[f])
           rec == [state |-> "in_flight", ssn |-> marked[d].ssn, sf |-> f,
                   time |-> now + 1, rtx |-> marked[d].rtx + 1]
           left == {e \in sendTimes : e[2] \notin {l}}
           timer == RtoWithout({l})
<1>1. k.type = "nack" /\ tx[l].state = "in_flight"
  BY DEF ProcessNackAndResend
<1>2. /\ CoreTypes /\ tx \in TxType /\ l \in DSN /\ tx[l] \in SendRecord /\ now \in Nat
      /\ QueuesOK(tx, rtxQueue) /\ FlightOK(tx, sendTimes, rto, now)
  <2>1. CoreTypes /\ tx \in TxType /\ l \in DSN /\ now \in Nat
    BY <1>1 DEF RecordsInv, FlowInv, CoreTypes, AckPacket, NackPacket, TxType
  <2> QED
    BY <2>1, <1>1, RecordOrNot DEF RecordsInv, Books
<1>3. /\ m.state = "pending_rtx" /\ m.sf = f /\ f \in Subflows /\ m \in SendRecord
      /\ m.ssn = tx[l].ssn /\ m.rtx = tx[l].rtx
  BY <1>2 DEF SendRecord
<1>4. rtxQueue[f] \in Seq(DSN) /\ queues[f] = Append(rtxQueue[f], l) /\ queues[f] # <<>>
  <2>1. rtxQueue[f] \in Seq(DSN) /\ queues[f] = Append(rtxQueue[f], l)
    BY <1>2, <1>3 DEF QueuesOK
  <2>2. l \in DSN
    BY <1>2
  <2> HIDE DEF m, f, l, queues
  <2>3. Append(rtxQueue[f], l) # <<>>
    BY <2>1, <2>2
  <2> QED
    BY <2>1, <2>3
<1> HIDE DEF m, f, l
<1>5. /\ marked \in TxType /\ marked[l] = m /\ \A x \in DSN \ {l} : marked[x] = tx[x]
  BY <1>2, <1>3 DEF TxType
<1>6. \A x \in DSN : marked[x].ssn = tx[x].ssn /\ marked[x].rtx = tx[x].rtx
  <2> TAKE x \in DSN
  <2>1. CASE x = l
    BY <2>1, <1>3, <1>5
  <2>2. CASE x # l
    BY <2>2, <1>5
  <2> QED
    BY <2>1, <2>2
<1>7. d \in DSN
  <2>1. queues[f] \in Seq(DSN) /\ queues[f] # <<>>
    BY <1>2, <1>4
  <2> HIDE DEF queues
  <2> QED
    BY <2>1
<1>8. /\ tx' = [marked EXCEPT ![d] = rec]
      /\ sendTimes' = left \cup {<<now + 1, d>>}
      /\ rto' = IF timer = 0 THEN now + 1 ELSE timer
      /\ now' = now + 1
      /\ rtxQueue' = [queues EXCEPT ![f] = Tail(@)]
      /\ pendingRtx' = pendingRtx
  <2>1. Head(Append(rtxQueue[f], l)) = d /\ tx[d].ssn = marked[d].ssn /\ tx[d].rtx = marked[d].rtx
    BY <1>4, <1>6, <1>7
  <2>2. /\ tx' = [[tx EXCEPT ![l].state = "pending_rtx"] EXCEPT ![d] =
                    [state |-> "in_flight", ssn |-> tx[d].ssn, sf |-> f,
                     time |-> now + 1, rtx |-> tx[d].rtx + 1]]
        /\ sendTimes' = {e \in sendTimes : e[2] # l} \cup {<<now + 1, d>>}
    BY <2>1 DEF ProcessNackAndResend, l, f
  <2>3. [tx EXCEPT ![l].state = "pending_rtx"] = marked
    BY DEF m
  <2>4. rtxQueue' = [rtxQueue EXCEPT ![f] = Tail(Append(rtxQueue[f], l))]
    BY DEF ProcessNackAndResend, l, f
  <2>5. rtxQueue' = [queues EXCEPT ![f] = Tail(@)]
    BY <2>4, <1>2, <1>3, <1>4 DEF QueuesOK
  <2>6. /\ rto' = IF timer = 0 THEN now + 1 ELSE timer
        /\ now' = now + 1 /\ pendingRtx' = pendingRtx
    BY DEF ProcessNackAndResend, l
  <2> QED
    BY <2>1, <2>2, <2>3, <2>5, <2>6
<1>9. FlightOK(marked, left, timer, now)
  <2>1. \A x \in DSN : marked[x].state = "in_flight" <=> tx[x].state = "in_flight" /\ x \notin {l}
    BY <1>3, <1>5
  <2>2. \A x \in DSN : marked[x].state = "in_flight" => marked[x].time = tx[x].time
    BY <1>3, <1>5
  <2> HIDE DEF marked
  <2> QED
    BY <2>1, <2>2, <1>2, LeavesFlight
<1>10. QueuesOK(marked, queues)
  <2>1. f = tx[l].sf
    BY DEF f
  <2>2. QueuesOK(marked, [rtxQueue EXCEPT ![tx[l].sf] = Append(@, l)])
    <3> HIDE DEF marked
    <3> QED
      BY <2>1, <1>1, <1>2, <1>3, <1>5, JoinsQueue DEF l
  <2> QED
    BY <2>1, <2>2
<1> HIDE DEF timer, left
<1>11. rto' = IF timer = 0 \/ now + 1 < timer THEN now + 1 ELSE timer
  <2>1. timer = 0 \/ timer \in 1..now
    <3> HIDE DEF marked
    <3> QED
      BY <1>9, TimesAreSends
  <2> QED
    BY <2>1, <1>2, <1>8
<1>12. marked[d].state = "pending_rtx" /\ marked[d].sf = f
  <2>1. Holds(queues[f], d)
    BY <1>4, <1>7 DEF Holds
  <2> HIDE DEF marked, queues, d
  <2> QED
    BY <2>1, <1>3, <1>7, <1>10 DEF QueuesOK
<1>13. rec.state = "in_flight" /\ rec.time = now + 1
  OBVIOUS
<1>14. tx' \in TxType
  <2> HIDE DEF marked, d
  <2> QED
    BY <1>2, <1>3, <1>5, <1>7, <1>8, <1>12, RecordInFlight
<1> HIDE DEF rec, marked
<1>15. tx'[d] = rec /\ \A x \in DSN \ {d} : tx'[x] = marked[x]
  BY <1>5, <1>7, <1>8 DEF TxType
<1>16. FlightOK(tx', sendTimes', rto', now')
  <2> HIDE DEF d
  <2> QED
    <3>1. FlightOK([marked EXCEPT ![d] = rec], left \cup {<<now + 1, d>>},
                   IF timer = 0 \/ now + 1 < timer THEN now + 1 ELSE timer, now + 1)
      BY <1>2, <1>5, <1>7, <1>9, <1>12, <1>13, EntersFlight
    <3> QED
      BY <3>1, <1>8, <1>11
<1>17. QueuesOK(tx', rtxQueue')
  <2>1. /\ queues[f] # <<>> /\ tx'[Head(queues[f])].state = "in_flight"
        /\ \A x \in DSN \ {Head(queues[f])} : tx'[x] = marked[x]
    BY <1>4, <1>13, <1>15
  <2> HIDE DEF queues
  <2>2. QueuesOK(tx', [queues EXCEPT ![f] = Tail(@)])
    BY <2>1, <1>3, <1>5, <1>10, <1>14, LeavesQueue
  <2> QED
    BY <2>2, <1>8
<1> HIDE DEF d
<1>18. /\ Pending(marked) = Pending(tx) \cup {l} /\ l \notin Pending(tx)
       /\ Pending(tx') = Pending(marked) \ {d} /\ d \in Pending(marked)
  BY <1>1, <1>2, <1>3, <1>5, <1>7, <1>12, <1>13, <1>15 DEF Pending, WithState, l
<1>19. pendingRtx' = Cardinality(Pending(tx'))
  <2>1. IsFiniteSet(Pending(tx)) /\ Cardinality(Pending(tx)) \in Nat
    BY DsnsFinite DEF Pending, WithState
  <2>2. IsFiniteSet(Pending(marked)) /\ Cardinality(Pending(marked)) = Cardinality(Pending(tx)) + 1
    BY <2>1, <1>18, FS_AddElement
  <2>3. Cardinality(Pending(tx')) = Cardinality(Pending(tx))
    <3>1. Cardinality(Pending(marked) \ {d}) = Cardinality(Pending(marked)) - 1
      BY <2>2, <1>18, FS_RemoveElement
    <3> QED
      BY <3>1, <2>1, <2>2, <1>18
  <2> QED
    BY <2>3, <1>8 DEF RecordsInv, Books
<1>20. Tracked \subseteq Tracked'
  <2>1. \A x \in DSN : tx[x].state # "none" => tx'[x].state # "none"
    BY <1>1, <1>2, <1>3, <1>5, <1>13, <1>15 DEF l
  <2> QED
    BY <2>1 DEF Tracked
<1> QED
  BY <1>16, <1>17, <1>19, <1>20 DEF Books

\* Acknowledged packets leave every list at once, whatever state they were in.
LEMMA ProcessAckBooks ==
  ASSUME RecordsInv, NEW a \in ctrl, ProcessAck(a)
  PROVE  Books'
<1> DEFINE gone == AckedBy(a)
           pending == {d \in gone : tx[d].state = "pending_rtx"}
<1>1. /\ tx' = [d \in DSN |-> IF d \in gone THEN NoRecord ELSE tx[d]]
      /\ sendTimes' = {e \in sendTimes : e[2] \notin gone}
      /\ rtxQueue' = [f \in Subflows |-> Without(rtxQueue[f], pending)]
      /\ pendingRtx' = pendingRtx - Cardinality(pending)
      /\ rto' = IF Finishes(a) THEN 0 ELSE RtoWithout(gone)
      /\ now' = now
  BY DEF ProcessAck, EraseRtxDsns
<1>2. CoreTypes /\ QueuesOK(tx, rtxQueue) /\ FlightOK(tx, sendTimes, rto, now) /\ now \in Nat
  BY DEF RecordsInv, FlowInv, CoreTypes, Books
<1>3. \A x \in DSN : IF x \in gone THEN tx'[x].state = "none" ELSE tx'[x] = tx[x]
  BY <1>1 DEF NoRecord
<1>4. pending \subseteq DSN /\ gone \subseteq DSN
  BY DEF AckedBy, Tracked
<1>5. Finishes(a) => \A x \in DSN : tx[x].state = "in_flight" => x \in gone
  <2> SUFFICES ASSUME Finishes(a), NEW x \in DSN, tx[x].state = "in_flight" PROVE x \in gone
    OBVIOUS
  <2>1. a.cum = NumPkts
    BY DEF ProcessAck, Finishes, RecordsInv, FlowInv, AcksAreHonest, CoreTypes, AckPacket, NackPacket
  <2> QED
    BY <2>1 DEF AckedBy, Tracked, DSN
<1> HIDE DEF gone
<1>6. FlightOK(tx', sendTimes', rto', now')
  <2>1. FlightOK(tx', sendTimes', RtoWithout(gone), now')
    <3>1. \A x \in DSN : tx'[x].state = "in_flight" <=> tx[x].state = "in_flight" /\ x \notin gone
      BY <1>3
    <3>2. \A x \in DSN : tx'[x].state = "in_flight" => tx'[x].time = tx[x].time
      BY <1>3
    <3> QED
      BY <3>1, <3>2, <1>1, <1>2, LeavesFlight
  <2>2. CASE Finishes(a)
    <3>1. WithState(tx', "in_flight") = {}
      BY <2>2, <1>3, <1>5 DEF WithState
    <3>2. sendTimes' = {}
      BY <2>1, <3>1 DEF FlightOK
    <3> QED
      BY <2>1, <2>2, <3>2, <1>1 DEF FlightOK
  <2>3. CASE ~Finishes(a)
    BY <2>1, <2>3, <1>1
  <2> QED
    BY <2>2, <2>3
<1>7. QueuesOK(tx', rtxQueue')
  <2>1. \A f \in Subflows : /\ rtxQueue'[f] \in Seq(DSN) /\ NoneTwice(rtxQueue'[f])
                            /\ \A x : Holds(rtxQueue'[f], x) <=> x \notin pending /\ Holds(rtxQueue[f], x)
    <3> TAKE f \in Subflows
    <3>1. rtxQueue'[f] = Without(rtxQueue[f], pending) /\ rtxQueue[f] \in Seq(DSN) /\ NoneTwice(rtxQueue[f])
      BY <1>1, <1>2 DEF QueuesOK
    <3> HIDE DEF pending
    <3>2. /\ Without(rtxQueue[f], pending) \in Seq(DSN)
          /\ NoneTwice(Without(rtxQueue[f], pending))
          /\ \A x : Holds(Without(rtxQueue[f], pending), x) <=> x \notin pending /\ Holds(rtxQueue[f], x)
      BY <3>1, WithoutKeeps DEF Holds
    <3> QED
      BY <3>1, <3>2
  <2>2. rtxQueue' \in [Subflows -> Seq(DSN)]
    <3>1. rtxQueue' = [f \in Subflows |-> rtxQueue'[f]]
      BY <1>1
    <3> QED
      BY <2>1, <3>1
  <2>3. \A f \in Subflows, x \in DSN :
           Holds(rtxQueue'[f], x) <=> tx'[x].state = "pending_rtx" /\ tx'[x].sf = f
    <3> TAKE f \in Subflows, x \in DSN
    <3>1. Holds(rtxQueue[f], x) <=> tx[x].state = "pending_rtx" /\ tx[x].sf = f
      BY <1>2 DEF QueuesOK
    <3>2. Holds(rtxQueue'[f], x) <=> x \notin pending /\ Holds(rtxQueue[f], x)
      BY <2>1
    <3> QED
      BY <3>1, <3>2, <1>3
  <2> QED
    BY <2>1, <2>2, <2>3 DEF QueuesOK
<1>8. Pending(tx') = Pending(tx) \ pending /\ Pending(tx) \cap pending = pending
  BY <1>3, <1>4 DEF Pending, WithState
<1>9. pendingRtx' = Cardinality(Pending(tx'))
  <2>1. IsFiniteSet(Pending(tx))
    BY DsnsFinite DEF Pending, WithState
  <2> HIDE DEF pending
  <2>2. Cardinality(Pending(tx) \ pending) = Cardinality(Pending(tx)) - Cardinality(pending)
    BY <2>1, <1>8, FS_Difference
  <2> QED
    BY <2>2, <1>1, <1>8 DEF RecordsInv, Books
<1> QED
  BY <1>6, <1>7, <1>9 DEF Books

\* An ACK that does not finish the flow leaves the last packet tracked.
LEMMA ProcessAckLast ==
  ASSUME RecordsInv, NEW a \in ctrl, ProcessAck(a), UNCHANGED sinkVars
  PROVE  LastToArrive'
<1> SUFFICES ASSUME expectedDsn' = NumPkts, ~done'
             PROVE  \E d \in Tracked' : \A c \in ctrl' :
                      c.type = "ack" /\ c.cum < NumPkts => c.cum <= d /\ d \notin c.sack
  BY DEF LastToArrive
<1>1. /\ a.type = "ack" /\ ctrl' = ctrl \ {a} /\ done' = (done \/ Finishes(a))
      /\ tx' = [d \in DSN |-> IF d \in AckedBy(a) THEN NoRecord ELSE tx[d]]
  BY DEF ProcessAck
<1>2. a.cum \in 0..NumPkts /\ expectedDsn = NumPkts /\ ~done
  BY <1>1 DEF RecordsInv, FlowInv, CoreTypes, AckPacket, NackPacket, sinkVars
<1>3. PICK d \in Tracked : \A c \in ctrl :
        c.type = "ack" /\ c.cum < NumPkts => c.cum <= d /\ d \notin c.sack
  BY <1>2 DEF RecordsInv, LastToArrive
<1>4. a.cum < NumPkts
  <2>1. ~Finishes(a)
    BY <1>1, Zenon
  <2> QED
    BY <2>1, <1>2 DEF Finishes
<1>5. d \notin AckedBy(a)
  BY <1>1, <1>2, <1>3, <1>4 DEF AckedBy, Tracked, DSN
<1>6. d \in Tracked'
  BY <1>1, <1>3, <1>5 DEF Tracked
<1> QED
  BY <1>1, <1>3, <1>6

--------------------------------------------------------------------------
(* The sink and every step                                                 *)

\* The packet that makes the sink complete is tracked, and no ACK on its way
\* can report it.
LEMMA ReceiveNewLast ==
  ASSUME RecordsInv, NEW p \in data, NEW ce \in BOOLEAN, NEW pathEnd \in BOOLEAN,
         ReceiveNew(p, ce, pathEnd), UNCHANGED srcVars
  PROVE  LastToArrive'
<1> SUFFICES ASSUME expectedDsn' = NumPkts
             PROVE  \E d \in Tracked' : \A c \in ctrl' :
                      c.type = "ack" /\ c.cum < NumPkts => c.cum <= d /\ d \notin c.sack
  BY DEF LastToArrive
<1>1. /\ p.dsn \in DSN /\ p.dsn < highestSent /\ ~IsReceived(p.dsn)
      /\ ctrl' = ctrl \/ \E base : ctrl' = ctrl \cup {MakeAck(base, p.sf)}
  BY DEF RecordsInv, FlowInv, CoreTypes, NothingAhead, DataPacket, ReceiveNew, SendAck
<1>2. p.dsn \in Tracked /\ Tracked' = Tracked
  BY <1>1, MissingIsTracked DEF RecordsInv, Tracked, srcVars
<1>3. \A c \in ctrl : c.type = "ack" => c.cum <= p.dsn /\ p.dsn \notin c.sack
  <2> SUFFICES ASSUME NEW c \in ctrl, c.type = "ack" PROVE c.cum <= p.dsn /\ p.dsn \notin c.sack
    OBVIOUS
  <2>1. c.cum <= expectedDsn /\ c.sack \subseteq Received /\ c.cum \in Int /\ expectedDsn \in Int
    BY DEF RecordsInv, FlowInv, AcksAreHonest, CoreTypes, AckPacket, NackPacket
  <2>2. p.dsn >= expectedDsn /\ p.dsn \notin Received /\ p.dsn \in Int
    BY <1>1, <2>1 DEF IsReceived, Received, DSN
  <2> QED
    BY <2>1, <2>2
<1>4. \A base : MakeAck(base, p.sf).cum = NumPkts
  BY DEF MakeAck
<1>5. \A c \in ctrl' : c \in ctrl \/ c.cum = NumPkts
  BY <1>1, <1>4
<1>6. ~(NumPkts < NumPkts)
  OBVIOUS
<1> QED
  BY <1>2, <1>3, <1>5, <1>6

\* Duplicates and trimmed packets make the sink complete no packet.
LEMMA ReceiveOtherLast ==
  ASSUME RecordsInv, NEW p \in data, UNCHANGED srcVars,
         \/ \E ce \in BOOLEAN : ReceiveDuplicate(p, ce)
         \/ ReceiveTrimmedDuplicate(p)
         \/ ReceiveTrimmed(p)
  PROVE  LastToArrive'
<1> DEFINE nack == [type |-> "nack", dsn |-> p.dsn, n |-> p.n]
<1>1. /\ expectedDsn' = expectedDsn
      /\ \/ \E base : ctrl' = ctrl \cup {MakeAck(base, p.sf)}
         \/ ctrl' = ctrl \cup {nack}
  BY DEF ReceiveDuplicate, ReceiveTrimmedDuplicate, ReceiveTrimmed, ReceiveStateUnchanged, SendAck
<1>2. \A base : MakeAck(base, p.sf).cum = expectedDsn
  BY <1>1 DEF MakeAck
<1>3. \A c \in ctrl' : c \in ctrl \/ c.type # "ack" \/ c.cum = expectedDsn
  BY <1>1, <1>2
<1>4. UNCHANGED <<Tracked, done>>
  BY DEF Tracked, srcVars
<1>5. ~(NumPkts < NumPkts)
  OBVIOUS
<1> QED
  BY <1>1, <1>3, <1>4, <1>5 DEF RecordsInv, LastToArrive

\* Every step keeps the books.
LEMMA StepRecordsInv ==
  ASSUME RecordsInv, [Next]_vars PROVE RecordsInv'
<1>1. FlowInv'
  BY StepFlowInv DEF RecordsInv
<1>2. ASSUME UNCHANGED srcVars PROVE Books' /\ Tracked' = Tracked
  BY <1>2 DEF srcVars, RecordsInv, Books, Tracked
<1>3. ASSUME UNCHANGED sinkVars, ctrl' \subseteq ctrl, done' = done, Tracked \subseteq Tracked'
      PROVE  LastToArrive'
  BY <1>3, LastStays DEF RecordsInv, sinkVars
<1>4. CASE NicSends
  <2>1. PICK f \in Subflows : SrcSends(f)
    BY <1>4 DEF NicSends
  <2>2. CASE \E ar \in BOOLEAN : SendNewPacket(f, ar)
    <3>1. Books' /\ Tracked \subseteq Tracked'
      BY <2>2, SendNewBooks
    <3>2. ctrl' = ctrl /\ done' = done
      BY <2>2 DEF SendNewPacket
    <3> QED
      BY <1>1, <1>3, <1>4, <3>1, <3>2 DEF NicSends, RecordsInv
  <2>3. CASE SendRtxPacket(f)
    <3>1. Books' /\ Tracked \subseteq Tracked'
      BY <2>3, SendRtxBooks
    <3>2. ctrl' = ctrl /\ done' = done
      BY <2>3 DEF SendRtxPacket
    <3> QED
      BY <1>1, <1>3, <1>4, <3>1, <3>2 DEF NicSends, RecordsInv
  <2> QED
    BY <2>1, <2>2, <2>3 DEF SrcSends
<1>5. CASE TimerFires
  <2>1. PICK e \in sendTimes : e[2] \in Tracked /\ MarkDsnForRtx(e[2])
    BY <1>5 DEF TimerFires, RtxTimerExpired
  <2>2. tx[e[2]].state = "in_flight" /\ e[2] \in DSN
    BY <2>1 DEF RecordsInv, Books, FlightOK, WithState
  <2>3. UNCHANGED <<now, done, ctrl, sinkVars>>
    BY <1>5 DEF TimerFires, RtxTimerExpired
  <2>4. Books' /\ Tracked \subseteq Tracked'
    BY <2>1, <2>2, <2>3, MarkBooks
  <2> QED
    BY <1>1, <1>3, <2>3, <2>4 DEF RecordsInv
<1>6. CASE CtrlArrives
  <2>1. PICK c \in ctrl : SrcReceives(c)
    BY <1>6 DEF CtrlArrives
  <2>2. UNCHANGED sinkVars
    BY <1>6 DEF CtrlArrives
  <2>3. CASE ProcessAck(c)
    BY <1>1, <2>2, <2>3, ProcessAckBooks, ProcessAckLast DEF RecordsInv
  <2>4. CASE IgnoreNack(c)
    <3>1. UNCHANGED srcVars /\ ctrl' \subseteq ctrl
      BY <2>4 DEF IgnoreNack
    <3>2. done' = done
      BY <3>1 DEF srcVars
    <3> QED
      BY <1>1, <1>2, <1>3, <2>2, <3>1, <3>2 DEF RecordsInv
  <2>5. CASE ProcessNack(c)
    <3>1. /\ c.type = "nack" /\ tx[c.dsn].state = "in_flight" /\ MarkDsnForRtx(c.dsn)
          /\ UNCHANGED <<now, done>> /\ ctrl' \subseteq ctrl
      BY <2>5 DEF ProcessNack
    <3>2. c.dsn \in DSN
      BY <3>1 DEF RecordsInv, FlowInv, CoreTypes, AckPacket, NackPacket
    <3>3. Books' /\ Tracked \subseteq Tracked'
      BY <3>1, <3>2, MarkBooks
    <3> QED
      BY <1>1, <1>3, <2>2, <3>1, <3>3 DEF RecordsInv
  <2>6. CASE ProcessNackAndResend(c)
    <3>1. done' = done /\ ctrl' \subseteq ctrl
      BY <2>6 DEF ProcessNackAndResend
    <3> QED
      BY <1>1, <1>3, <2>2, <2>6, <3>1, NackAndResendBooks DEF RecordsInv
  <2> QED
    BY <2>1, <2>3, <2>4, <2>5, <2>6 DEF SrcReceives
<1>7. CASE DataArrives
  <2>1. PICK p \in data : SinkReceives(p)
    BY <1>7 DEF DataArrives
  <2>2. UNCHANGED srcVars
    BY <1>7 DEF DataArrives
  <2>3. LastToArrive'
    BY <2>1, <2>2, ReceiveNewLast, ReceiveOtherLast DEF SinkReceives
  <2> QED
    BY <1>1, <1>2, <2>2, <2>3 DEF RecordsInv
<1>8. CASE FabricActs
  <2>1. UNCHANGED srcVars /\ UNCHANGED sinkVars /\ ctrl' \subseteq ctrl
    BY <1>8 DEF FabricActs, Fabric, DropData, DropCtrl, TrimData
  <2>2. done' = done
    BY <2>1 DEF srcVars
  <2> QED
    BY <1>1, <1>2, <1>3, <2>1, <2>2 DEF RecordsInv
<1>9. CASE UNCHANGED flowVars
  <2>1. UNCHANGED srcVars /\ UNCHANGED sinkVars /\ ctrl' = ctrl
    BY <1>9 DEF flowVars, netVars
  <2>2. done' = done
    BY <2>1 DEF srcVars
  <2> QED
    BY <1>1, <1>2, <1>3, <2>1, <2>2 DEF RecordsInv
<1> QED
  BY <1>4, <1>5, <1>6, <1>7, <1>8, <1>9 DEF Next, Aborts, vars

--------------------------------------------------------------------------
(* Theorems                                                                *)

\* The books hold in every reachable state.
THEOREM RecordsInvariant == Spec => []RecordsInv
<1>1. Init => RecordsInv
  BY InitRecordsInv
<1>2. RecordsInv /\ [Next]_vars => RecordsInv'
  BY StepRecordsInv
<1> QED
  BY <1>1, <1>2, PTL DEF Spec

\* A queue is as long as the set of its elements.
LEMMA LengthOfQueue ==
  ASSUME NEW q \in Seq(DSN), NoneTwice(q)
  PROVE  Len(q) = Cardinality({q[i] : i \in 1..Len(q)})
<1> DEFINE S == {q[i] : i \in 1..Len(q)}
           b == [i \in 1..Len(q) |-> q[i]]
<1>1. Len(q) \in Nat /\ DOMAIN q = 1..Len(q)
  OBVIOUS
<1>2. b \in Bijection(1..Len(q), S)
  BY <1>1 DEF Bijection, Injection, Surjection, IsInjective, NoneTwice
<1> HIDE DEF S, b
<1>3. ExistsBijection(1..Len(q), S)
  BY <1>2 DEF ExistsBijection
<1> QED
  BY <1>1, <1>3, FS_CountingElements DEF S

\* Each unacknowledged packet is in flight with its send time or waits once,
\* in its subflow's queue, however losses, NACKs and ACKs interleave: the
\* assertions of sendRtxPacket (sing_src_tx.cpp:199) hold.
THEOREM RecordsAlwaysMatch == Spec => []RecordsMatchQueues
<1>1. RecordsInv => RecordsMatchQueues
  <2> SUFFICES ASSUME RecordsInv PROVE RecordsMatchQueues
    OBVIOUS
  <2>1. QueuesOK(tx, rtxQueue) /\ FlightOK(tx, sendTimes, rto, now)
        /\ pendingRtx = Cardinality(Pending(tx))
    BY DEF RecordsInv, Books
  <2>2. ASSUME NEW f \in Subflows
        PROVE  /\ {rtxQueue[f][i] : i \in 1..Len(rtxQueue[f])}
                    = {d \in {x \in DSN : tx[x].state = "pending_rtx"} : tx[d].sf = f}
               /\ Len(rtxQueue[f]) = Cardinality({rtxQueue[f][i] : i \in 1..Len(rtxQueue[f])})
    <3>1. rtxQueue[f] \in Seq(DSN) /\ NoneTwice(rtxQueue[f]) /\ DOMAIN rtxQueue[f] = 1..Len(rtxQueue[f])
      BY <2>1 DEF QueuesOK
    <3>2. \A d \in DSN : Holds(rtxQueue[f], d) <=> tx[d].state = "pending_rtx" /\ tx[d].sf = f
      BY <2>1 DEF QueuesOK
    <3>3. \A i \in 1..Len(rtxQueue[f]) : rtxQueue[f][i] \in DSN
      BY <3>1
    <3>4. {rtxQueue[f][i] : i \in 1..Len(rtxQueue[f])}
            = {d \in {x \in DSN : tx[x].state = "pending_rtx"} : tx[d].sf = f}
      BY <3>1, <3>2, <3>3 DEF Holds
    <3> QED
      BY <3>1, <3>4, LengthOfQueue
  <2>3. sendTimes = {<<tx[d].time, d>> : d \in {x \in DSN : tx[x].state = "in_flight"}}
    BY <2>1 DEF FlightOK, WithState
  <2>4. pendingRtx = Cardinality({x \in DSN : tx[x].state = "pending_rtx"})
    BY <2>1 DEF Pending, WithState
  <2> QED
    BY <2>2, <2>3, <2>4 DEF RecordsMatchQueues
<1> QED
  BY <1>1, RecordsInvariant, PTL

\* The timer is armed for the oldest packet in flight and runs for nothing
\* else, through spurious timeouts, retransmissions and late ACKs.
THEOREM TimerAlwaysCovers == Spec => []TimerCoversOldest
<1>1. RecordsInv => TimerCoversOldest
  <2> SUFFICES ASSUME RecordsInv PROVE TimerCoversOldest
    OBVIOUS
  <2>1. FlightOK(tx, sendTimes, rto, now) /\ now \in Nat
    BY DEF RecordsInv, Books, FlowInv, CoreTypes
  <2>2. done => sendTimes = {}
    BY <2>1 DEF RecordsInv, FlowInv, DoneMeansAll, FlightOK, WithState
  <2>3. CASE sendTimes = {}
    BY <2>1, <2>3 DEF FlightOK, TimerCoversOldest
  <2>4. CASE sendTimes # {}
    <3>1. \A e \in sendTimes : e[1] \in Nat
      BY <2>1, TimesAreSends
    <3>2. /\ \E e \in sendTimes : e[1] = RecalculateRto(sendTimes)
          /\ \A e \in sendTimes : RecalculateRto(sendTimes) <= e[1]
      BY <2>4, <3>1, EarliestTime
    <3>3. (\E e \in sendTimes : e[1] = rto) /\ \A e \in sendTimes : rto <= e[1]
      BY <2>1, <2>4 DEF FlightOK
    <3>4. rto = RecalculateRto(sendTimes)
      BY <3>1, <3>2, <3>3
    <3> QED
      BY <2>2, <2>4, <3>4 DEF TimerCoversOldest
  <2> QED
    BY <2>3, <2>4
<1> QED
  BY <1>1, RecordsInvariant, PTL

\* The assertions of isActivelySending (sing_src.cpp): a source with nothing
\* to send that is not finished has a timeout running, so it cannot hang.
THEOREM SourceNeverHangs == Spec => []ActivelySendingAssertion
<1>1. RecordsInv => ActivelySendingAssertion
  <2> SUFFICES ASSUME RecordsInv, Backlog = 0, pendingRtx = 0 PROVE done <=> rto = 0
    BY DEF ActivelySendingAssertion
  <2>1. /\ FlightOK(tx, sendTimes, rto, now) /\ FlowInv /\ CoreTypes
        /\ pendingRtx = Cardinality(Pending(tx))
    BY DEF RecordsInv, Books, FlowInv
  <2>2. highestSent = NumPkts
    BY <2>1 DEF Backlog, CoreTypes
  <2>3. Pending(tx) = {}
    <3>1. IsFiniteSet(Pending(tx))
      BY DsnsFinite DEF Pending, WithState
    <3> QED
      BY <2>1, <3>1, FS_EmptySet
  <2>4. ASSUME done PROVE rto = 0
    BY <2>1, <2>4 DEF FlowInv, DoneMeansAll, FlightOK, WithState
  <2>5. ASSUME ~done PROVE rto # 0
    <3>1. \E d \in DSN : d \in Tracked
      <4>1. CASE expectedDsn = NumPkts
        BY <4>1, <2>5 DEF RecordsInv, LastToArrive, Tracked
      <4>2. CASE expectedDsn # NumPkts
        <5>1. expectedDsn \in DSN /\ expectedDsn < highestSent /\ ~IsReceived(expectedDsn)
          BY <4>2, <2>1, <2>2 DEF CoreTypes, DSN, IsReceived, FlowInv, HoleFirst
        <5> QED
          BY <5>1, <2>1, MissingIsTracked
      <4> QED
        BY <4>1, <4>2
    <3>2. PICK d \in DSN : tx[d].state # "none"
      BY <3>1 DEF Tracked
    <3>3. tx[d].state = "in_flight"
      BY <2>1, <2>3, <3>2, RecordOrNot DEF Pending, WithState
    <3>4. sendTimes # {}
      BY <2>1, <3>3 DEF FlightOK, WithState
    <3> QED
      BY <2>1, <3>4, TimesAreSends
  <2> QED
    BY <2>4, <2>5
<1> QED
  BY <1>1, RecordsInvariant, PTL

--------------------------------------------------------------------------
(* What ACKs count                                                         *)

Covers(a, d) == d < a.cum \/ d \in a.sack

\* What the source and the ACKs that count at most n packets speak for: the
\* packets the source has forgotten, if its own count is no larger, and those
\* such an ACK will let it forget.
SpokenFor(n) ==
  {d \in Acked : recvdPkts <= n}
    \cup {d \in DSN : \E a \in ctrl : a.type = "ack" /\ a.rcvd <= n /\ Covers(a, d)}

\* A count of n speaks for n packets at most; no ACK counts more than the sink.
CountInv ==
  /\ recvdPkts \in Nat
  /\ rcvdPkts = Cardinality(Received)
  /\ recvdPkts <= rcvdPkts
  /\ \A a \in ctrl : a.type = "ack" => a.rcvd \in Nat /\ a.rcvd <= rcvdPkts
  /\ \A n \in Nat : Cardinality(SpokenFor(n)) <= n

\* Nothing is counted at the start.
LEMMA InitCountInv == Init => CountInv
<1> SUFFICES ASSUME Init PROVE CountInv
  OBVIOUS
<1>1. recvdPkts = 0 /\ rcvdPkts = 0 /\ ctrl = {}
  BY DEF Init, NetInit, SrcInit, SinkInit
<1>2. Received = {} /\ Acked = {}
  BY DEF Init, SrcInit, SinkInit, Received, IsReceived, Acked, DSN
<1>3. \A n \in Nat : SpokenFor(n) = {}
  BY <1>1, <1>2 DEF SpokenFor
<1> QED
  BY <1>1, <1>2, <1>3, FS_EmptySet DEF CountInv

SpokenArrived == \A n \in Nat : SpokenFor(n) \subseteq Received /\ SpokenFor(n) \in SUBSET DSN

\* What is spoken for is at the sink.
LEMMA SpokenForArrived == FlowInv => SpokenArrived
<1> SUFFICES ASSUME FlowInv, NEW n \in Nat
             PROVE  SpokenFor(n) \subseteq Received /\ SpokenFor(n) \in SUBSET DSN
  BY DEF SpokenArrived
<1>1. Acked \subseteq Received /\ Received \subseteq DSN
  BY DEF FlowInv, AckedWasReceived, Received
<1>2. ASSUME NEW d \in DSN, NEW a \in ctrl, a.type = "ack", Covers(a, d)
      PROVE  d \in Received
  <2>1. a.cum \in 0..NumPkts /\ a.cum <= expectedDsn /\ a.sack \subseteq Received
    BY <1>2 DEF FlowInv, AcksAreHonest, CoreTypes, AckPacket, NackPacket
  <2>2. CASE d < a.cum
    BY <2>1, <2>2 DEF Received, IsReceived, DSN, FlowInv, CoreTypes
  <2> QED
    BY <1>2, <2>1, <2>2 DEF Covers
<1> QED
  BY <1>1, <1>2 DEF SpokenFor

\* The same after a step.
LEMMA SpokenForArrivedNext == FlowInv' => SpokenArrived'
  BY SpokenForArrived, PTL

\* A set that loses elements does not grow in number.
LEMMA FewerDsns ==
  ASSUME NEW S \in SUBSET DSN, NEW T \in SUBSET S
  PROVE  Cardinality(T) <= Cardinality(S)
  BY DsnsFinite, FS_Subset

\* A step that leaves the sink and the source's count and memory alone, and
\* tells the source nothing new.
LEMMA CountIdle ==
  ASSUME FlowInv, CountInv, Acked' = Acked, recvdPkts' = recvdPkts,
         Received' = Received, rcvdPkts' = rcvdPkts,
         \A a \in ctrl' : a.type = "ack" => a \in ctrl
  PROVE  CountInv'
<1>1. ASSUME NEW n \in Nat PROVE Cardinality(SpokenFor(n)') <= n
  <2>1. SpokenFor(n)' \subseteq SpokenFor(n)
    BY DEF SpokenFor, Covers
  <2>2. Cardinality(SpokenFor(n)') <= Cardinality(SpokenFor(n))
    BY <2>1, SpokenForArrived, FewerDsns DEF SpokenArrived
  <2>3. SpokenFor(n)' \in SUBSET DSN
    BY <2>1, SpokenForArrived DEF SpokenArrived
  <2> QED
    BY <2>2, <2>3, SpokenForArrived, DsnsFinite DEF CountInv, SpokenArrived
<1> QED
  BY <1>1 DEF CountInv

\* An ACK: its count is taken over if it is news, and what it covers is
\* forgotten; both were spoken for by the larger of the two counts.
LEMMA ProcessAckCount ==
  ASSUME FlowInv, CountInv, NEW a \in ctrl, ProcessAck(a), UNCHANGED sinkVars
  PROVE  CountInv'
<1>1. /\ a.type = "ack" /\ ctrl' = ctrl \ {a}
      /\ recvdPkts' = recvdPkts + NewlyRecvd(a)
      /\ tx' = [d \in DSN |-> IF d \in AckedBy(a) THEN NoRecord ELSE tx[d]]
      /\ highestSent' = highestSent
  BY DEF ProcessAck
<1>2. /\ recvdPkts \in Nat /\ a.rcvd \in Nat /\ rcvdPkts \in Nat
      /\ a.rcvd <= rcvdPkts /\ recvdPkts <= rcvdPkts
  BY <1>1 DEF CountInv, FlowInv, CoreTypes
<1>3. /\ recvdPkts' \in Nat /\ recvdPkts' <= rcvdPkts
      /\ recvdPkts <= recvdPkts' /\ a.rcvd <= recvdPkts'
  BY <1>1, <1>2 DEF NewlyRecvd, FloorSub
<1>4. \A d \in Acked' : d \notin Acked => (d \in DSN /\ Covers(a, d))
  <2> SUFFICES ASSUME NEW d \in Acked', d \notin Acked PROVE d \in DSN /\ Covers(a, d)
    OBVIOUS
  <2>1. d \in 0..highestSent - 1 /\ tx'[d].state = "none" /\ tx[d].state # "none"
    BY <1>1 DEF Acked
  <2>2. d \in DSN
    BY <2>1 DEF FlowInv, CoreTypes, DSN
  <2>3. d \in AckedBy(a)
    BY <1>1, <2>1, <2>2
  <2> QED
    BY <2>2, <2>3 DEF AckedBy, Covers
<1>5. Received' = Received /\ rcvdPkts' = rcvdPkts
  BY DEF sinkVars, Received, IsReceived
<1>6. ASSUME NEW n \in Nat PROVE Cardinality(SpokenFor(n)') <= n
  <2>1. ASSUME NEW d \in Acked', recvdPkts' <= n PROVE d \in SpokenFor(n)
    <3>1. recvdPkts <= n /\ a.rcvd <= n
      BY <1>2, <1>3, <2>1
    <3> QED
      BY <3>1, <1>1, <1>4, <2>1 DEF SpokenFor
  <2>2. SpokenFor(n)' \subseteq SpokenFor(n)
    BY <1>1, <2>1 DEF SpokenFor, Covers
  <2>3. Cardinality(SpokenFor(n)') <= Cardinality(SpokenFor(n))
    BY <2>2, SpokenForArrived, FewerDsns DEF SpokenArrived
  <2>4. SpokenFor(n)' \in SUBSET DSN
    BY <2>2, SpokenForArrived DEF SpokenArrived
  <2> QED
    BY <2>3, <2>4, SpokenForArrived, DsnsFinite DEF CountInv, SpokenArrived
<1> QED
  BY <1>1, <1>2, <1>3, <1>5, <1>6 DEF CountInv

\* The sink adds to what it has and to its count alike, and an ACK it sends
\* counts all it has.
LEMMA SinkCount ==
  ASSUME FlowInv, FlowInv', CountInv, UNCHANGED srcVars,
         Received \subseteq Received', rcvdPkts' = Cardinality(Received'),
         \A a \in ctrl' : a.type = "ack" => a \in ctrl \/ a.rcvd = rcvdPkts'
  PROVE  CountInv'
<1>1. Acked' = Acked /\ recvdPkts' = recvdPkts
  BY DEF srcVars, Acked
<1>2. Received \in SUBSET DSN /\ Received' \in SUBSET DSN
  BY DEF Received
<1>3. rcvdPkts <= rcvdPkts' /\ rcvdPkts \in Nat /\ rcvdPkts' \in Nat
  BY <1>2, FewerDsns, DsnsFinite DEF CountInv
<1>4. \A a \in ctrl' : a.type = "ack" => a.rcvd \in Nat /\ a.rcvd <= rcvdPkts'
  BY <1>3 DEF CountInv
<1>5. ASSUME NEW n \in Nat PROVE Cardinality(SpokenFor(n)') <= n
  <2>1. SpokenFor(n)' \subseteq Received' /\ SpokenFor(n)' \in SUBSET DSN
    BY SpokenForArrivedNext DEF SpokenArrived
  <2>2. CASE rcvdPkts' <= n
    <3>1. Cardinality(SpokenFor(n)') <= Cardinality(Received')
      BY <1>2, <2>1, FewerDsns
    <3> QED
      BY <3>1, <1>3, <2>1, <2>2, DsnsFinite
  <2>3. CASE ~(rcvdPkts' <= n)
    <3>1. \A a \in ctrl' : a.type = "ack" /\ a.rcvd <= n => a \in ctrl
      BY <2>3
    <3>2. SpokenFor(n)' \subseteq SpokenFor(n)
      BY <1>1, <3>1 DEF SpokenFor, Covers
    <3>3. Cardinality(SpokenFor(n)') <= Cardinality(SpokenFor(n))
      BY <3>2, SpokenForArrived, FewerDsns DEF SpokenArrived
    <3> QED
      BY <3>3, <2>1, SpokenForArrived, DsnsFinite DEF CountInv, SpokenArrived
  <2> QED
    BY <2>2, <2>3
<1> QED
  BY <1>1, <1>3, <1>4, <1>5 DEF CountInv

\* Every step keeps the invariant.
LEMMA StepCountInv ==
  ASSUME FlowInv, FlowInv', CountInv, [Next]_vars
  PROVE  CountInv'
<1>1. CASE NicSends
  <2>1. PICK f \in Subflows : SrcSends(f)
    BY <1>1 DEF NicSends
  <2>2. UNCHANGED sinkVars
    BY <1>1 DEF NicSends
  <2>3. Received' = Received /\ rcvdPkts' = rcvdPkts
    BY <2>2 DEF sinkVars, Received, IsReceived
  <2>4. CASE \E ar \in BOOLEAN : SendNewPacket(f, ar)
    <3>1. PICK ar \in BOOLEAN : SendNewPacket(f, ar)
      BY <2>4
    <3>2. /\ recvdPkts' = recvdPkts /\ ctrl' = ctrl /\ highestSent' = highestSent + 1
          /\ tx' = [tx EXCEPT ![highestSent] = [state |-> "in_flight", ssn |-> highestSsn[f], sf |-> f,
                                                time |-> now + 1, rtx |-> 0]]
      BY <3>1 DEF SendNewPacket, RecordSend
    <3>3. highestSent \in DSN
      BY <3>1 DEF SendNewPacket, Backlog, FlowInv, CoreTypes, DSN
    <3>4. tx'[highestSent].state # "none"
      BY <3>2, <3>3 DEF FlowInv, CoreTypes
    <3>5. \A d \in DSN \ {highestSent} : tx'[d] = tx[d]
      BY <3>2 DEF FlowInv, CoreTypes
    <3>6. Acked' = Acked
      BY <3>2, <3>3, <3>4, <3>5 DEF Acked, FlowInv, CoreTypes, DSN
    <3> QED
      BY <2>3, <3>2, <3>6, CountIdle
  <2>5. CASE SendRtxPacket(f)
    <3>1. Acked' = Acked
      BY <2>2, <2>5, SendRtxPacketStep
    <3>2. recvdPkts' = recvdPkts /\ ctrl' = ctrl
      BY <2>5 DEF SendRtxPacket
    <3> QED
      BY <2>3, <3>1, <3>2, CountIdle
  <2> QED
    BY <2>1, <2>4, <2>5 DEF SrcSends
<1>2. CASE TimerFires
  <2>1. Acked' = Acked
    BY <1>2, RtxTimerExpiredStep DEF TimerFires
  <2>2. UNCHANGED <<recvdPkts, ctrl, Received, rcvdPkts>>
    BY <1>2 DEF TimerFires, RtxTimerExpired, sinkVars, Received, IsReceived
  <2> QED
    BY <2>1, <2>2, CountIdle
<1>3. CASE CtrlArrives
  <2>1. PICK c \in ctrl : SrcReceives(c)
    BY <1>3 DEF CtrlArrives
  <2>2. UNCHANGED sinkVars
    BY <1>3 DEF CtrlArrives
  <2>3. Received' = Received /\ rcvdPkts' = rcvdPkts
    BY <2>2 DEF sinkVars, Received, IsReceived
  <2>4. CASE ProcessAck(c)
    BY <2>2, <2>4, ProcessAckCount
  <2>5. CASE IgnoreNack(c) \/ ProcessNack(c)
    <3>1. Acked' = Acked
      BY <2>2, <2>5, NackStep
    <3>2. recvdPkts' = recvdPkts /\ ctrl' \subseteq ctrl
      BY <2>5 DEF IgnoreNack, ProcessNack, srcVars
    <3> QED
      BY <2>3, <3>1, <3>2, CountIdle
  <2>6. CASE ProcessNackAndResend(c)
    <3>1. Acked' = Acked
      BY <2>2, <2>6, NackAndResendStep
    <3>2. recvdPkts' = recvdPkts /\ ctrl' \subseteq ctrl
      BY <2>6 DEF ProcessNackAndResend
    <3> QED
      BY <2>3, <3>1, <3>2, CountIdle
  <2> QED
    BY <2>1, <2>4, <2>5, <2>6 DEF SrcReceives
<1>4. CASE DataArrives
  <2>1. PICK p \in data : SinkReceives(p)
    BY <1>4 DEF DataArrives
  <2>2. UNCHANGED srcVars
    BY <1>4 DEF DataArrives
  <2>3. CASE \E ce, pathEnd \in BOOLEAN : ReceiveNew(p, ce, pathEnd)
    <3>1. PICK ce, pathEnd \in BOOLEAN : ReceiveNew(p, ce, pathEnd)
      BY <2>3
    <3>2. /\ ~IsReceived(p.dsn) /\ rcvdPkts' = rcvdPkts + 1 /\ UpdateOooState(p.dsn)
          /\ ctrl' = ctrl \/ \E base : ctrl' = ctrl \cup {MakeAck(base, p.sf)}
      BY <3>1 DEF ReceiveNew, SendAck
    <3>3. p.dsn \in DSN /\ CoreTypes /\ HoleFirst
      BY DEF FlowInv, CoreTypes, DataPacket
    <3>4. Received' = Received \cup {p.dsn}
      BY <3>2, <3>3, UpdateOooStateEffect
    <3>5. p.dsn \notin Received /\ Received \in SUBSET DSN
      BY <3>2 DEF Received
    <3>6. rcvdPkts' = Cardinality(Received')
      BY <3>2, <3>4, <3>5, DsnsFinite, FS_AddElement DEF CountInv
    <3>7. \A a \in ctrl' : a.type = "ack" => a \in ctrl \/ a.rcvd = rcvdPkts'
      BY <3>2 DEF MakeAck
    <3> QED
      BY <2>2, <3>4, <3>6, <3>7, SinkCount
  <2>4. CASE \/ \E ce \in BOOLEAN : ReceiveDuplicate(p, ce)
             \/ ReceiveTrimmedDuplicate(p)
             \/ ReceiveTrimmed(p)
    <3>1. /\ UNCHANGED <<expectedDsn, dsnRx, rcvdPkts>>
          /\ \/ \E base : ctrl' = ctrl \cup {MakeAck(base, p.sf)}
             \/ ctrl' = ctrl \cup {[type |-> "nack", dsn |-> p.dsn, n |-> p.n]}
      BY <2>4 DEF ReceiveDuplicate, ReceiveTrimmedDuplicate, ReceiveTrimmed, ReceiveStateUnchanged, SendAck
    <3>2. Received' = Received
      BY <3>1 DEF Received, IsReceived
    <3>3. \A a \in ctrl' : a.type = "ack" => a \in ctrl \/ a.rcvd = rcvdPkts'
      BY <3>1 DEF MakeAck
    <3> QED
      BY <2>2, <3>1, <3>2, <3>3, SinkCount DEF CountInv
  <2> QED
    BY <2>1, <2>3, <2>4 DEF SinkReceives
<1>5. CASE FabricActs
  <2>1. UNCHANGED <<Received, Acked>> /\ UNCHANGED <<recvdPkts, rcvdPkts>>
    BY <1>5, FabricStep DEF FabricActs, srcVars, sinkVars
  <2>2. ctrl' \subseteq ctrl
    BY <1>5 DEF FabricActs, Fabric, DropData, DropCtrl, TrimData
  <2> QED
    BY <2>1, <2>2, CountIdle
<1>6. CASE UNCHANGED flowVars
  <2>1. UNCHANGED <<recvdPkts, rcvdPkts, ctrl, highestSent, tx, expectedDsn, dsnRx>>
    BY <1>6 DEF flowVars, netVars, srcVars, sinkVars
  <2>2. UNCHANGED <<Received, Acked>>
    BY <2>1 DEF Received, IsReceived, Acked
  <2> QED
    BY <2>1, <2>2, CountIdle
<1> QED
  BY <1>1, <1>2, <1>3, <1>4, <1>5, <1>6 DEF Next, Aborts, vars

\* updateAckRecvdState: the count of the source covers what it has forgotten,
\* and nothing the sink does not have, although each ACK reports a part only
\* and ACKs overtake each other.
THEOREM CountAlwaysFollows == Spec => []CountFollowsAcks
<1>1. Init => CountInv
  BY InitCountInv
<1>2. FlowInv /\ FlowInv' /\ CountInv /\ [Next]_vars => CountInv'
  BY StepCountInv
<1>3. FlowInv /\ CountInv => CountFollowsAcks
  <2> SUFFICES ASSUME FlowInv, CountInv PROVE CountFollowsAcks
    OBVIOUS
  <2>1. recvdPkts \in Nat /\ Cardinality(SpokenFor(recvdPkts)) <= recvdPkts
    BY DEF CountInv
  <2>2. Acked \subseteq SpokenFor(recvdPkts)
    BY <2>1 DEF SpokenFor
  <2>3. SpokenFor(recvdPkts) \in SUBSET DSN /\ Acked \in SUBSET DSN
    BY <2>1, <2>2, SpokenForArrived DEF SpokenArrived
  <2>4. Cardinality(Acked) <= Cardinality(SpokenFor(recvdPkts))
    BY <2>2, <2>3, FewerDsns
  <2> QED
    BY <2>1, <2>3, <2>4, DsnsFinite DEF CountFollowsAcks, CountInv
<1> QED
  BY <1>1, <1>2, <1>3, FlowInvariant, PTL DEF Spec
=============================================================================
