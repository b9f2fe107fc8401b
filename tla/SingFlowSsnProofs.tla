------------------------ MODULE SingFlowSsnProofs ------------------------
(***************************************************************************)
(* Theorems about the two sequence spaces of a flow. DSNs count the        *)
(* packets of the connection, SSNs those of a subflow; each end keeps      *)
(* windows in both, and the source's send records join them.               *)
(*                                                                         *)
(* At the end, theorems about the sink's last word - the ACK that lets the *)
(* source finish is sent, whatever the policy that decides when to answer  *)
(* - and about the types of a flow.                                        *)
(***************************************************************************)
EXTENDS SingFlowProofs

--------------------------------------------------------------------------
(* DSN and SSN: the invariant                                              *)

SsnReceived(f, s) == s < expectedSsn[f] \/ s \in ssnRx[f]

\* A tracked packet has an SSN of its own, one that was handed out.
OwnSsn ==
  /\ \A d \in Tracked : tx[d].ssn < highestSsn[tx[d].sf]
  /\ \A d, e \in Tracked : tx[d].sf = tx[e].sf /\ tx[d].ssn = tx[e].ssn => d = e

\* A packet on its way that would be new carries the SSN of its record.
DataMatches ==
  \A p \in data : ~IsReceived(p.dsn) => tx[p.dsn].sf = p.sf /\ tx[p.dsn].ssn = p.ssn

\* A subflow's sink has no SSN that was not handed out.
SsnSent == \A f \in Subflows, s \in DSN : SsnReceived(f, s) => s < highestSsn[f]

SsnInv == /\ ssnRx \in [Subflows -> SUBSET DSN]
          /\ OwnSsn /\ DataMatches /\ SsnSent /\ SsnAgreesWithDsn

USE NumPktsAssumption

\* Nothing has been sent or received at the start.
LEMMA InitSsnInv == Init => SsnInv
<1> SUFFICES ASSUME Init PROVE SsnInv
  OBVIOUS
<1>1. /\ tx = [d \in DSN |-> NoRecord] /\ data = {}
      /\ expectedSsn = [f \in Subflows |-> 0] /\ ssnRx = [f \in Subflows |-> {}]
  BY DEF Init, NetInit, SrcInit, SinkInit
<1>2. Tracked = {}
  BY <1>1 DEF Tracked, NoRecord
<1>3. \A f \in Subflows, s \in DSN : ~SsnReceived(f, s)
  BY <1>1 DEF SsnReceived, DSN
<1> QED
  BY <1>1, <1>2, <1>3 DEF SsnInv, OwnSsn, DataMatches, SsnSent, SsnAgreesWithDsn

\* Packets that stay tracked keep their SSN, and what is sent carries it.
LEMMA KeysStay ==
  ASSUME FlowInv, FlowInv', SsnInv, UNCHANGED sinkVars, highestSsn' = highestSsn,
         Tracked' \subseteq Tracked,
         \A d \in Tracked' : tx'[d].sf = tx[d].sf /\ tx'[d].ssn = tx[d].ssn,
         \A p \in data' : \/ p.sf = tx'[p.dsn].sf /\ p.ssn = tx'[p.dsn].ssn
                         \/ \E q \in data : p.dsn = q.dsn /\ p.sf = q.sf /\ p.ssn = q.ssn
  PROVE  SsnInv'
<1>1. /\ \A d : IsReceived(d)' <=> IsReceived(d)
      /\ \A f, s : SsnReceived(f, s)' <=> SsnReceived(f, s)
      /\ ssnRx' = ssnRx
  BY DEF IsReceived, SsnReceived, sinkVars
<1>2. OwnSsn'
  BY DEF SsnInv, OwnSsn
<1>3. DataMatches'
  <2> SUFFICES ASSUME NEW p \in data', ~IsReceived(p.dsn)
               PROVE  tx'[p.dsn].sf = p.sf /\ tx'[p.dsn].ssn = p.ssn
    BY <1>1 DEF DataMatches
  <2>1. CASE \E q \in data : p.dsn = q.dsn /\ p.sf = q.sf /\ p.ssn = q.ssn
    <3>1. tx[p.dsn].sf = p.sf /\ tx[p.dsn].ssn = p.ssn
      BY <2>1 DEF SsnInv, DataMatches
    <3>2. p.dsn \in DSN /\ p.dsn < highestSent' /\ p.dsn \notin Received'
      BY <1>1 DEF FlowInv, CoreTypes, NothingAhead, DataPacket, Received
    <3>3. p.dsn \in Tracked'
      BY <3>2 DEF FlowInv, CoreTypes, AckedWasReceived, Acked, Tracked, DSN
    <3> QED
      BY <3>1, <3>3
  <2>2. CASE p.sf = tx'[p.dsn].sf /\ p.ssn = tx'[p.dsn].ssn
    BY <2>2
  <2> QED
    BY <2>1, <2>2
<1>4. SsnSent' /\ SsnAgreesWithDsn'
  <2>1. UNCHANGED <<expectedDsn, dsnRx, expectedSsn, ssnRx>>
    BY DEF sinkVars
  <2>2. SsnSent'
    BY <2>1 DEF SsnInv, SsnSent, SsnReceived
  <2>3. SsnAgreesWithDsn'
    BY <2>1 DEF SsnInv, SsnAgreesWithDsn, IsReceived
  <2> QED
    BY <2>2, <2>3
<1> QED
  BY <1>1, <1>2, <1>3, <1>4 DEF SsnInv

--------------------------------------------------------------------------
(* DSN and SSN: the steps                                                  *)

\* A new packet takes the next SSN of its subflow.
LEMMA SendNewSsn ==
  ASSUME FlowInv, SsnInv, NEW f \in Subflows, NEW ar \in BOOLEAN,
         SendNewPacket(f, ar), UNCHANGED sinkVars
  PROVE  SsnInv'
<1> DEFINE n == highestSent
           s == highestSsn[f]
           rec == [state |-> "in_flight", ssn |-> s, sf |-> f, time |-> now + 1, rtx |-> 0]
           new == [dsn |-> n, ssn |-> s, sf |-> f, ar |-> ar, n |-> 0, trimmed |-> FALSE]
<1>1. /\ n \in DSN /\ s \in DSN /\ tx[n].state = "none" /\ n \notin Received
      /\ highestSsn \in [Subflows -> 0..NumPkts]
  BY DEF SendNewPacket, Backlog, FlowInv, CoreTypes, NothingAhead, DSN
<1>2. /\ tx' = [tx EXCEPT ![n] = rec] /\ data' = data \cup {new}
      /\ highestSsn' = [highestSsn EXCEPT ![f] = s + 1]
  BY DEF SendNewPacket, RecordSend, Transmit
<1>3. rec.state # "none" /\ rec.ssn = s /\ rec.sf = f /\ new.dsn = n /\ new.ssn = s /\ new.sf = f
  OBVIOUS
<1> HIDE DEF rec, new
<1>4. tx'[n] = rec /\ \A d \in DSN \ {n} : tx'[d] = tx[d]
  BY <1>1, <1>2 DEF FlowInv, CoreTypes
<1>5. /\ \A d : IsReceived(d)' <=> IsReceived(d)
      /\ \A g, x : SsnReceived(g, x)' <=> SsnReceived(g, x)
      /\ ssnRx' = ssnRx
  BY DEF IsReceived, SsnReceived, sinkVars
<1>6. Tracked' = Tracked \cup {n} /\ n \notin Tracked
  BY <1>1, <1>3, <1>4 DEF Tracked
<1>7. \A d \in Tracked : /\ tx'[d] = tx[d] /\ tx[d].sf \in Subflows /\ tx[d].ssn \in DSN
                         /\ tx[d].ssn < highestSsn[tx[d].sf]
  <2> SUFFICES ASSUME NEW d \in Tracked
               PROVE  /\ tx'[d] = tx[d] /\ tx[d].sf \in Subflows /\ tx[d].ssn \in DSN
                      /\ tx[d].ssn < highestSsn[tx[d].sf]
    OBVIOUS
  <2>1. d \in DSN /\ d # n /\ tx[d].state # "none"
    BY <1>1 DEF Tracked
  <2>2. tx[d] \in SendRecord
    BY <2>1, RecordOrNot DEF FlowInv
  <2> QED
    BY <2>1, <2>2, <1>4 DEF SendRecord, SsnInv, OwnSsn
<1>8. OwnSsn'
  <2> HIDE DEF n
  <2>1. \A d \in Tracked' : tx'[d].ssn < highestSsn'[tx'[d].sf]
    <3>1. tx'[n].ssn < highestSsn'[tx'[n].sf]
      BY <1>1, <1>2, <1>3, <1>4 DEF DSN
    <3>2. \A d \in Tracked : tx'[d].ssn < highestSsn'[tx'[d].sf]
      BY <1>1, <1>2, <1>7 DEF DSN
    <3> QED
      BY <3>1, <3>2, <1>6
  <2>2. \A d \in Tracked : ~(tx'[d].sf = f /\ tx'[d].ssn = s)
    BY <1>7 DEF DSN
  <2>3. \A d, e \in Tracked : tx'[d].sf = tx'[e].sf /\ tx'[d].ssn = tx'[e].ssn => d = e
    BY <1>7 DEF SsnInv, OwnSsn
  <2>4. tx'[n].sf = f /\ tx'[n].ssn = s
    BY <1>3, <1>4
  <2> HIDE DEF s
  <2> QED
    BY <2>1, <2>2, <2>3, <2>4, <1>6 DEF OwnSsn
<1>9. DataMatches'
  <2> SUFFICES ASSUME NEW p \in data', ~IsReceived(p.dsn)
               PROVE  tx'[p.dsn].sf = p.sf /\ tx'[p.dsn].ssn = p.ssn
    BY <1>5 DEF DataMatches
  <2>1. CASE p \in data
    <3>1. p.dsn \in DSN /\ p.dsn < n
      BY <2>1 DEF FlowInv, CoreTypes, NothingAhead, DataPacket
    <3>2. p.dsn # n
      BY <3>1 DEF DSN
    <3> QED
      BY <3>1, <3>2, <2>1, <1>4 DEF SsnInv, DataMatches
  <2>2. CASE p = new
    BY <2>2, <1>3, <1>4
  <2> QED
    BY <2>1, <2>2, <1>2
<1>10. SsnSent'
  <2>1. \A g \in Subflows : highestSsn[g] \in Int /\ highestSsn[g] <= highestSsn'[g] /\ highestSsn'[g] \in Int
    BY <1>1, <1>2
  <2>2. \A g \in Subflows, x \in DSN : SsnReceived(g, x) => x < highestSsn[g] /\ x \in Int
    BY DEF SsnInv, SsnSent, DSN
  <2>3. \A g \in Subflows, x \in DSN : SsnReceived(g, x) => x < highestSsn'[g]
    BY <2>1, <2>2
  <2> QED
    BY <2>3, <1>5 DEF SsnSent
<1>11. ~SsnReceived(f, s)
  BY <1>1 DEF SsnInv, SsnSent, DSN
<1>12. ~IsReceived(n)
  BY <1>1 DEF Received
<1>13. \A d \in Tracked' : IsReceived(d) <=> \/ tx'[d].ssn < expectedSsn[tx'[d].sf]
                                            \/ tx'[d].ssn \in ssnRx[tx'[d].sf]
  <2>1. \A d \in Tracked : IsReceived(d) <=> \/ tx'[d].ssn < expectedSsn[tx'[d].sf]
                                            \/ tx'[d].ssn \in ssnRx[tx'[d].sf]
    BY <1>7 DEF SsnInv, SsnAgreesWithDsn
  <2>2. tx'[n].sf = f /\ tx'[n].ssn = s
    BY <1>3, <1>4
  <2>3. ~(tx'[n].ssn < expectedSsn[tx'[n].sf] \/ tx'[n].ssn \in ssnRx[tx'[n].sf])
    BY <2>2, <1>11 DEF SsnReceived
  <2> HIDE DEF s, n
  <2> QED
    BY <2>1, <2>3, <1>6, <1>12
<1>14. SsnAgreesWithDsn'
  <2>1. UNCHANGED <<expectedDsn, dsnRx, expectedSsn, ssnRx>>
    BY DEF sinkVars
  <2> QED
    BY <2>1, <1>13 DEF SsnAgreesWithDsn, IsReceived
<1> QED
  BY <1>5, <1>8, <1>9, <1>10, <1>14 DEF SsnInv

\* The head of a retransmission queue belongs to the queue's subflow.
LEMMA HeadOfQueue ==
  ASSUME NEW f \in Subflows, QueuesOK(tx, rtxQueue), rtxQueue[f] # <<>>
  PROVE  /\ Head(rtxQueue[f]) \in DSN /\ tx[Head(rtxQueue[f])].sf = f
         /\ tx[Head(rtxQueue[f])].state = "pending_rtx"
<1>1. rtxQueue[f] \in Seq(DSN) /\ 1 \in DOMAIN rtxQueue[f] /\ Head(rtxQueue[f]) = rtxQueue[f][1]
  BY DEF QueuesOK
<1>2. Head(rtxQueue[f]) \in DSN /\ Holds(rtxQueue[f], Head(rtxQueue[f]))
  BY <1>1 DEF Holds
<1> QED
  BY <1>2 DEF QueuesOK

\* A retransmission carries the SSN of the first transmission.
LEMMA SendRtxSsn ==
  ASSUME RecordsInv, FlowInv', SsnInv, NEW f \in Subflows, SendRtxPacket(f), UNCHANGED sinkVars
  PROVE  SsnInv'
<1> DEFINE d == Head(rtxQueue[f])
           rec == [state |-> "in_flight", ssn |-> tx[d].ssn, sf |-> f,
                   time |-> now + 1, rtx |-> tx[d].rtx + 1]
           p == [dsn |-> d, ssn |-> tx[d].ssn, sf |-> f, ar |-> TRUE, n |-> tx[d].rtx + 1,
                 trimmed |-> FALSE]
<1>1. d \in DSN /\ tx[d].sf = f /\ tx[d].state = "pending_rtx"
  BY HeadOfQueue DEF SendRtxPacket, RecordsInv, Books
<1>2. /\ tx' = [tx EXCEPT ![d] = rec] /\ data' = data \cup {p} /\ highestSsn' = highestSsn
  BY DEF SendRtxPacket, RecordSend, Transmit
<1>3. /\ rec.state # "none" /\ rec.ssn = tx[d].ssn /\ rec.sf = tx[d].sf
      /\ p.dsn = d /\ p.ssn = tx[d].ssn /\ p.sf = tx[d].sf
  BY <1>1
<1> HIDE DEF rec, p, d
<1>4. tx'[d] = rec /\ \A x \in DSN \ {d} : tx'[x] = tx[x]
  BY <1>1, <1>2 DEF RecordsInv, FlowInv, CoreTypes
<1>5. Tracked' \subseteq Tracked
  BY <1>1, <1>4 DEF Tracked
<1>6. \A x \in Tracked' : tx'[x].sf = tx[x].sf /\ tx'[x].ssn = tx[x].ssn
  BY <1>3, <1>4 DEF Tracked
<1>7. \A q \in data' : q \in data \/ (q.sf = tx'[q.dsn].sf /\ q.ssn = tx'[q.dsn].ssn)
  BY <1>2, <1>3, <1>4
<1> QED
  BY <1>2, <1>5, <1>6, <1>7, KeysStay DEF RecordsInv

\* A loss changes no SSN.
LEMMA MarkSsn ==
  ASSUME FlowInv, FlowInv', SsnInv, NEW d \in DSN, tx[d].state = "in_flight", MarkDsnForRtx(d),
         UNCHANGED <<sinkVars, highestSsn, data>>
  PROVE  SsnInv'
<1> DEFINE m == [tx[d] EXCEPT !.state = "pending_rtx"]
<1>1. tx[d] \in SendRecord
  BY RecordOrNot DEF FlowInv
<1>2. tx' = [tx EXCEPT ![d] = m] /\ m.sf = tx[d].sf /\ m.ssn = tx[d].ssn
  BY <1>1 DEF MarkDsnForRtx, SendRecord
<1> HIDE DEF m
<1>3. tx'[d] = m /\ \A x \in DSN \ {d} : tx'[x] = tx[x]
  BY <1>2 DEF FlowInv, CoreTypes
<1>4. Tracked' \subseteq Tracked
  BY <1>3 DEF Tracked
<1>5. \A x \in Tracked' : tx'[x].sf = tx[x].sf /\ tx'[x].ssn = tx[x].ssn
  BY <1>2, <1>3 DEF Tracked
<1> QED
  BY <1>4, <1>5, KeysStay

\* Nor does a loss with a retransmission in one step.
LEMMA NackAndResendSsn ==
  ASSUME RecordsInv, FlowInv', SsnInv, NEW k \in ctrl, ProcessNackAndResend(k), UNCHANGED sinkVars
  PROVE  SsnInv'
<1> DEFINE l == k.dsn
           f == tx[l].sf
           m == [tx[l] EXCEPT !.state = "pending_rtx"]
           d == Head(Append(rtxQueue[f], l))
           rec == [state |-> "in_flight", ssn |-> tx[d].ssn, sf |-> f,
                   time |-> now + 1, rtx |-> tx[d].rtx + 1]
           p == [dsn |-> d, ssn |-> tx[d].ssn, sf |-> f, ar |-> TRUE, n |-> tx[d].rtx + 1,
                 trimmed |-> FALSE]
<1>1. /\ k.type = "nack" /\ tx[l].state = "in_flight" /\ highestSsn' = highestSsn
      /\ tx' = [[tx EXCEPT ![l] = m] EXCEPT ![d] = rec] /\ data' = data \cup {p}
  BY DEF ProcessNackAndResend, Transmit
<1>2. /\ CoreTypes /\ l \in DSN /\ tx[l] \in SendRecord /\ QueuesOK(tx, rtxQueue)
  <2>1. CoreTypes /\ l \in DSN
    BY <1>1 DEF RecordsInv, FlowInv, CoreTypes, AckPacket, NackPacket
  <2> QED
    BY <2>1, <1>1, RecordOrNot DEF RecordsInv, Books
<1>3. m.sf = tx[l].sf /\ m.ssn = tx[l].ssn /\ m.state # "none" /\ f \in Subflows
  BY <1>2 DEF SendRecord
<1>4. d \in DSN /\ tx[d].sf = f /\ tx[d].state # "none"
  <2>1. rtxQueue[f] \in Seq(DSN)
    BY <1>2, <1>3 DEF QueuesOK
  <2>2. CASE rtxQueue[f] = <<>>
    <3>1. d = l
      BY <2>2, <1>2
    <3> QED
      BY <3>1, <1>1, <1>2
  <2>3. CASE rtxQueue[f] # <<>>
    <3>1. d = Head(rtxQueue[f])
      BY <2>1, <2>3, <1>2
    <3> HIDE DEF d, f
    <3> QED
      BY <3>1, <2>3, <1>2, <1>3, HeadOfQueue
  <2> QED
    BY <2>2, <2>3
<1>5. /\ rec.ssn = tx[d].ssn /\ rec.sf = tx[d].sf /\ rec.state # "none"
      /\ p.dsn = d /\ p.ssn = tx[d].ssn /\ p.sf = tx[d].sf
  BY <1>4
<1> HIDE DEF rec, p, d, m, f
<1>6. /\ tx'[d] = rec
      /\ \A x \in DSN \ {d} : tx'[x] = IF x = l THEN m ELSE tx[x]
  <2>1. DOMAIN tx = DSN
    BY <1>2 DEF CoreTypes
  <2> HIDE DEF l
  <2> QED
    BY <2>1, <1>1, <1>2, <1>4
<1>7. Tracked' \subseteq Tracked
  BY <1>1, <1>2, <1>4, <1>6 DEF Tracked
<1>8. \A x \in Tracked' : tx'[x].sf = tx[x].sf /\ tx'[x].ssn = tx[x].ssn
  <2> TAKE x \in Tracked'
  <2>1. x \in DSN
    BY DEF Tracked
  <2>2. CASE x = d
    BY <2>2, <1>5, <1>6
  <2>3. CASE x # d /\ x = l
    BY <2>1, <2>3, <1>3, <1>6
  <2>4. CASE x # d /\ x # l
    BY <2>1, <2>4, <1>6
  <2> QED
    BY <2>2, <2>3, <2>4
<1>9. \A q \in data' : q \in data \/ (q.sf = tx'[q.dsn].sf /\ q.ssn = tx'[q.dsn].ssn)
  BY <1>1, <1>5, <1>6
<1> QED
  BY <1>1, <1>7, <1>8, <1>9, KeysStay DEF RecordsInv

\* What a subflow's sink makes of a packet of its own.
LEMMA SubflowEffect ==
  ASSUME CoreTypes, ssnRx \in [Subflows -> SUBSET DSN], NEW f \in Subflows, NEW s \in DSN,
         SubflowProcessData(f, s)
  PROVE  /\ ssnRx' \in [Subflows -> SUBSET DSN]
         /\ \A g \in Subflows, x \in DSN :
              SsnReceived(g, x)' <=> SsnReceived(g, x) \/ (g = f /\ x = s)
<1>1. expectedSsn \in [Subflows -> 0..NumPkts]
  BY DEF CoreTypes
<1>2. CASE s = expectedSsn[f]
  <2>1. PICK e \in s+1..NumPkts :
          /\ \A x \in s+1..e-1 : x \in ssnRx[f]
          /\ e \notin ssnRx[f]
          /\ expectedSsn' = [expectedSsn EXCEPT ![f] = e]
          /\ ssnRx' = [ssnRx EXCEPT ![f] = {x \in @ : x > e}]
    BY <1>2 DEF SubflowProcessData
  <2>2. expectedSsn'[f] = e /\ ssnRx'[f] = {x \in ssnRx[f] : x > e}
    BY <2>1, <1>1
  <2>3. \A g \in Subflows \ {f} : expectedSsn'[g] = expectedSsn[g] /\ ssnRx'[g] = ssnRx[g]
    BY <2>1, <1>1
  <2>4. ssnRx' \in [Subflows -> SUBSET DSN]
    BY <2>1
  <2>5. \A x \in DSN : (x < e \/ (x \in ssnRx[f] /\ x > e)) <=> (x < s \/ x \in ssnRx[f] \/ x = s)
    BY <2>1 DEF DSN
  <2> QED
    BY <2>2, <2>3, <2>4, <2>5, <1>2 DEF SsnReceived
<1>3. CASE s # expectedSsn[f]
  <2>1. /\ ssnRx' = [ssnRx EXCEPT ![f] = IF s > expectedSsn[f] THEN @ \cup {s} ELSE @]
        /\ expectedSsn' = expectedSsn
    BY <1>3 DEF SubflowProcessData
  <2>2. ssnRx'[f] = IF s > expectedSsn[f] THEN ssnRx[f] \cup {s} ELSE ssnRx[f]
    BY <2>1
  <2>3. \A g \in Subflows \ {f} : ssnRx'[g] = ssnRx[g]
    BY <2>1
  <2>4. ssnRx' \in [Subflows -> SUBSET DSN]
    BY <2>1
  <2>5. s > expectedSsn[f] \/ s < expectedSsn[f]
    BY <1>1, <1>3 DEF DSN
  <2> QED
    BY <2>1, <2>2, <2>3, <2>4, <2>5 DEF SsnReceived
<1> QED
  BY <1>2, <1>3

\* A new packet is new in both spaces, and to no other record.
LEMMA ReceiveNewSsn ==
  ASSUME FlowInv, SsnInv, NEW p \in data, NEW ce \in BOOLEAN, NEW pathEnd \in BOOLEAN,
         ReceiveNew(p, ce, pathEnd), UNCHANGED srcVars
  PROVE  SsnInv'
<1> DEFINE d == p.dsn
           f == p.sf
           s == p.ssn
<1>1. /\ d \in DSN /\ f \in Subflows /\ s \in DSN /\ d < highestSent /\ ~IsReceived(d)
      /\ data' = data \ {p} /\ SubflowProcessData(f, s) /\ UpdateOooState(d)
      /\ CoreTypes /\ HoleFirst
  BY DEF FlowInv, CoreTypes, NothingAhead, DataPacket, ReceiveNew
<1>2. Received' = Received \cup {d}
  BY <1>1, UpdateOooStateEffect
<1>3. \A x \in DSN : IsReceived(x)' <=> IsReceived(x) \/ x = d
  BY <1>2 DEF Received
<1>4. /\ ssnRx' \in [Subflows -> SUBSET DSN]
      /\ \A g \in Subflows, x \in DSN :
           SsnReceived(g, x)' <=> SsnReceived(g, x) \/ (g = f /\ x = s)
  <2> HIDE DEF f, s
  <2> QED
    BY <1>1, SubflowEffect DEF SsnInv
<1>5. d \in Tracked /\ tx[d].sf = f /\ tx[d].ssn = s
  BY <1>1, MissingIsTracked DEF SsnInv, DataMatches
<1>6. UNCHANGED <<tx, highestSsn, Tracked>>
  BY DEF srcVars, Tracked
<1>7. OwnSsn' /\ DataMatches'
  <2>1. OwnSsn'
    BY <1>6 DEF SsnInv, OwnSsn
  <2>2. \A q \in data' : q \in data /\ q.dsn \in DSN
    BY <1>1 DEF CoreTypes, DataPacket
  <2>3. DataMatches'
    BY <2>2, <1>3, <1>6 DEF SsnInv, DataMatches
  <2> QED
    BY <2>1, <2>3
<1> HIDE DEF d, f, s
<1>8. SsnSent'
  <2>1. s < highestSsn[f]
    BY <1>5 DEF SsnInv, OwnSsn
  <2> QED
    BY <2>1, <1>4, <1>6 DEF SsnInv, SsnSent
<1>9. \A x \in Tracked : \A g, y :
        g = tx[x].sf /\ y = tx[x].ssn => (IsReceived(x)' <=> SsnReceived(g, y)')
  <2> SUFFICES ASSUME NEW x \in Tracked, NEW g, NEW y, g = tx[x].sf, y = tx[x].ssn
               PROVE  IsReceived(x)' <=> SsnReceived(g, y)'
    OBVIOUS
  <2>1. x \in DSN /\ tx[x] \in SendRecord
    BY <1>1, RecordOrNot DEF Tracked
  <2>2. g \in Subflows /\ y \in DSN
    BY <2>1 DEF SendRecord
  <2>3. IsReceived(x) <=> SsnReceived(g, y)
    BY DEF SsnInv, SsnAgreesWithDsn, SsnReceived
  <2>4. g = f /\ y = s <=> x = d
    BY <1>5 DEF SsnInv, OwnSsn
  <2>5. IsReceived(x)' <=> IsReceived(x) \/ x = d
    BY <2>1, <1>3
  <2>6. SsnReceived(g, y)' <=> SsnReceived(g, y) \/ (g = f /\ y = s)
    BY <2>2, <1>4
  <2> QED
    BY <2>3, <2>4, <2>5, <2>6
<1>10. SsnAgreesWithDsn'
  BY <1>6, <1>9 DEF SsnAgreesWithDsn, SsnReceived
<1> QED
  BY <1>4, <1>7, <1>8, <1>10 DEF SsnInv

\* Every step keeps the two spaces in agreement.
LEMMA StepSsnInv ==
  ASSUME RecordsInv, SsnInv, [Next]_vars PROVE SsnInv'
<1>1. FlowInv /\ FlowInv'
  BY StepFlowInv DEF RecordsInv
<1>2. ASSUME UNCHANGED sinkVars, tx' = tx, highestSsn' = highestSsn, data' \subseteq data
      PROVE  SsnInv'
  <2>1. Tracked' = Tracked
    BY <1>2 DEF Tracked
  <2> QED
    BY <1>1, <1>2, <2>1, KeysStay
<1>3. CASE NicSends
  <2>1. PICK f \in Subflows : SrcSends(f)
    BY <1>3 DEF NicSends
  <2> QED
    BY <2>1, <1>1, <1>3, SendNewSsn, SendRtxSsn DEF NicSends, SrcSends
<1>4. CASE TimerFires
  <2>1. PICK e \in sendTimes : MarkDsnForRtx(e[2])
    BY <1>4 DEF TimerFires, RtxTimerExpired
  <2>2. tx[e[2]].state = "in_flight" /\ e[2] \in DSN
    BY <2>1 DEF RecordsInv, Books, FlightOK, WithState
  <2>3. UNCHANGED <<sinkVars, highestSsn, data>>
    BY <1>4 DEF TimerFires, RtxTimerExpired
  <2> QED
    BY <2>1, <2>2, <2>3, <1>1, MarkSsn
<1>5. CASE CtrlArrives
  <2>1. PICK c \in ctrl : SrcReceives(c)
    BY <1>5 DEF CtrlArrives
  <2>2. UNCHANGED sinkVars
    BY <1>5 DEF CtrlArrives
  <2>3. CASE ProcessAck(c)
    <3>1. /\ tx' = [d \in DSN |-> IF d \in AckedBy(c) THEN NoRecord ELSE tx[d]]
          /\ highestSsn' = highestSsn /\ data' = data
      BY <2>3 DEF ProcessAck
    <3>2. \A d \in Tracked' : d \in Tracked /\ tx'[d] = tx[d]
      BY <3>1 DEF Tracked, NoRecord
    <3> QED
      BY <3>1, <3>2, <2>2, <1>1, KeysStay
  <2>4. CASE IgnoreNack(c)
    BY <2>2, <2>4, <1>2 DEF IgnoreNack, srcVars
  <2>5. CASE ProcessNack(c)
    <3>1. /\ c.type = "nack" /\ tx[c.dsn].state = "in_flight" /\ MarkDsnForRtx(c.dsn)
          /\ UNCHANGED <<highestSsn, data>>
      BY <2>5 DEF ProcessNack
    <3>2. c.dsn \in DSN
      BY <3>1, <1>1 DEF FlowInv, CoreTypes, AckPacket, NackPacket
    <3> QED
      BY <3>1, <3>2, <2>2, <1>1, MarkSsn
  <2>6. CASE ProcessNackAndResend(c)
    BY <2>2, <2>6, <1>1, NackAndResendSsn
  <2> QED
    BY <2>1, <2>3, <2>4, <2>5, <2>6 DEF SrcReceives
<1>6. CASE DataArrives
  <2>1. PICK p \in data : SinkReceives(p)
    BY <1>6 DEF DataArrives
  <2>2. UNCHANGED srcVars
    BY <1>6 DEF DataArrives
  <2>3. CASE \E ce, pathEnd \in BOOLEAN : ReceiveNew(p, ce, pathEnd)
    BY <2>2, <2>3, <1>1, ReceiveNewSsn
  <2>4. CASE \/ \E ce \in BOOLEAN : ReceiveDuplicate(p, ce)
             \/ ReceiveTrimmedDuplicate(p)
             \/ ReceiveTrimmed(p)
    <3>1. /\ data' \subseteq data
          /\ UNCHANGED <<expectedDsn, dsnRx, expectedSsn, ssnRx>>
      BY <2>4 DEF ReceiveDuplicate, ReceiveTrimmedDuplicate, ReceiveTrimmed, ReceiveStateUnchanged
    <3>2. UNCHANGED <<tx, highestSsn, Tracked>>
      BY <2>2 DEF srcVars, Tracked
    <3>3. \A d : IsReceived(d)' <=> IsReceived(d)
      BY <3>1 DEF IsReceived
    <3>4. \A f, s : SsnReceived(f, s)' <=> SsnReceived(f, s)
      BY <3>1 DEF SsnReceived
    <3>5. DataMatches' /\ OwnSsn' /\ SsnSent'
      BY <3>1, <3>2, <3>3, <3>4 DEF SsnInv, DataMatches, OwnSsn, SsnSent
    <3>6. SsnAgreesWithDsn'
      BY <3>1, <3>2 DEF SsnInv, SsnAgreesWithDsn, IsReceived
    <3> QED
      BY <3>1, <3>5, <3>6 DEF SsnInv
  <2> QED
    BY <2>1, <2>3, <2>4 DEF SinkReceives
<1>7. CASE FabricActs
  <2>1. UNCHANGED <<srcVars, sinkVars>>
    BY <1>7 DEF FabricActs
  <2>2. UNCHANGED <<tx, highestSsn, Tracked>>
    BY <2>1 DEF srcVars, Tracked
  <2>3. \A p \in data' : \E q \in data : p.dsn = q.dsn /\ p.sf = q.sf /\ p.ssn = q.ssn
    <3>1. CASE TrimData
      <4>1. PICK q \in data : data' = (data \ {q}) \cup {[q EXCEPT !.trimmed = TRUE]}
        BY <3>1 DEF TrimData
      <4>2. q \in DataPacket
        BY <1>1 DEF FlowInv, CoreTypes
      <4>3. /\ [q EXCEPT !.trimmed = TRUE].dsn = q.dsn
            /\ [q EXCEPT !.trimmed = TRUE].sf = q.sf
            /\ [q EXCEPT !.trimmed = TRUE].ssn = q.ssn
        BY <4>2 DEF DataPacket
      <4> QED
        BY <4>1, <4>3
    <3>2. CASE DropData \/ DropCtrl
      BY <3>2 DEF DropData, DropCtrl
    <3> QED
      BY <3>1, <3>2, <1>7 DEF FabricActs, Fabric
  <2> QED
    BY <2>1, <2>2, <2>3, <1>1, KeysStay
<1>8. CASE UNCHANGED flowVars
  BY <1>2, <1>8 DEF flowVars, netVars, srcVars
<1> QED
  BY <1>3, <1>4, <1>5, <1>6, <1>7, <1>8 DEF Next, Aborts, vars

\* A packet the source tracks is at the sink in the DSN space exactly if it is
\* there in the SSN space of its subflow, for any number of subflows.
THEOREM SpacesAgree == Spec => []SsnAgreesWithDsn
<1>1. Init => SsnInv
  BY InitSsnInv
<1>2. RecordsInv /\ SsnInv /\ [Next]_vars => SsnInv'
  BY StepSsnInv
<1>3. SsnInv => SsnAgreesWithDsn
  BY DEF SsnInv
<1> QED
  BY <1>1, <1>2, <1>3, RecordsInvariant, PTL DEF Spec

--------------------------------------------------------------------------
(* One subflow                                                             *)

\* With native load balancing the only subflow numbers its packets like the
\* connection: both ends keep the same windows twice.
OneSpace(f) ==
  /\ highestSsn[f] = highestSent
  /\ \A d \in Tracked : tx[d].ssn = d
  /\ \A p \in data : p.ssn = p.dsn
  /\ expectedSsn[f] = expectedDsn /\ ssnRx[f] = dsnRx
  /\ \A a \in ctrl : a.type = "ack" => a.ssn = a.cum

\* What is tracked is mapped, and the flight size counts no lost packet.
MappedInFlight(f) ==
  /\ ssnMap \in [Subflows -> SUBSET DSN]
  /\ ssnInFlight \in [Subflows -> Nat]
  /\ \A s \in ssnMap[f] : s < highestSent
  /\ Tracked \subseteq ssnMap[f]
  /\ ssnInFlight[f] <= Cardinality(ssnMap[f]) - Cardinality(Pending(tx))

\* Both hold at the start.
LEMMA InitOneSubflow ==
  ASSUME NEW f, Subflows = {f}, Init
  PROVE  OneSpace(f) /\ MappedInFlight(f)
<1>1. /\ tx = [d \in DSN |-> NoRecord] /\ data = {} /\ ctrl = {} /\ f \in Subflows
      /\ highestSsn = [g \in Subflows |-> 0] /\ highestSent = 0
      /\ expectedSsn = [g \in Subflows |-> 0] /\ ssnRx = [g \in Subflows |-> {}]
      /\ expectedDsn = 0 /\ dsnRx = {}
      /\ ssnMap = [g \in Subflows |-> {}] /\ ssnInFlight = [g \in Subflows |-> 0]
  BY DEF Init, NetInit, SrcInit, SinkInit
<1>2. Tracked = {} /\ Pending(tx) = {}
  BY <1>1 DEF Tracked, NoRecord, Pending, WithState
<1>3. OneSpace(f)
  BY <1>1, <1>2 DEF OneSpace
<1>4. MappedInFlight(f)
  <2>1. ssnMap[f] = {} /\ ssnInFlight[f] = 0 /\ Cardinality({}) = 0
    BY <1>1, FS_EmptySet
  <2>2. ssnInFlight[f] <= Cardinality(ssnMap[f]) - Cardinality(Pending(tx))
    BY <2>1, <1>2
  <2> QED
    BY <2>1, <2>2, <1>1, <1>2 DEF MappedInFlight
<1> QED
  BY <1>3, <1>4

\* The sink does the same to both windows.
LEMMA SameWindows ==
  ASSUME CoreTypes, NEW f \in Subflows, NEW d \in DSN, ~IsReceived(d),
         expectedSsn[f] = expectedDsn, ssnRx[f] = dsnRx, ssnRx \in [Subflows -> SUBSET DSN],
         SubflowProcessData(f, d), UpdateOooState(d)
  PROVE  expectedSsn'[f] = expectedDsn' /\ ssnRx'[f] = dsnRx'
<1>1. expectedSsn \in [Subflows -> 0..NumPkts] /\ expectedDsn \in 0..NumPkts
  BY DEF CoreTypes
<1>2. CASE d = expectedDsn
  <2>1. PICK e \in d+1..NumPkts :
          /\ \A x \in d+1..e-1 : x \in dsnRx
          /\ e \notin dsnRx
          /\ expectedDsn' = e
          /\ dsnRx' = {x \in dsnRx : x > e}
    BY <1>2 DEF UpdateOooState
  <2>2. PICK e2 \in d+1..NumPkts :
          /\ \A x \in d+1..e2-1 : x \in ssnRx[f]
          /\ e2 \notin ssnRx[f]
          /\ expectedSsn' = [expectedSsn EXCEPT ![f] = e2]
          /\ ssnRx' = [ssnRx EXCEPT ![f] = {x \in @ : x > e2}]
    BY <1>2 DEF SubflowProcessData
  <2>3. e = e2
    <3>1. ~(e < e2)
      BY <2>1, <2>2 DEF DSN
    <3>2. ~(e2 < e)
      BY <2>1, <2>2 DEF DSN
    <3> QED
      BY <3>1, <3>2, <2>1, <2>2 DEF DSN
  <2>4. expectedSsn'[f] = e2 /\ ssnRx'[f] = {x \in ssnRx[f] : x > e2}
    BY <2>2, <1>1
  <2> QED
    BY <2>1, <2>3, <2>4
<1>3. CASE d # expectedDsn
  <2>1. d > expectedDsn
    BY <1>1, <1>3 DEF IsReceived, DSN
  <2>2. /\ ssnRx' = [ssnRx EXCEPT ![f] = @ \cup {d}] /\ expectedSsn' = expectedSsn
    BY <1>3, <2>1 DEF SubflowProcessData
  <2>3. dsnRx' = dsnRx \cup {d} /\ expectedDsn' = expectedDsn
    BY <1>3 DEF UpdateOooState
  <2>4. ssnRx'[f] = ssnRx[f] \cup {d}
    BY <2>2
  <2> QED
    BY <2>2, <2>3, <2>4
<1> QED
  BY <1>2, <1>3

\* A step of the source that removes no ACK's claim: what it sends carries its
\* DSN as SSN.
LEMMA SourceOneSpace ==
  ASSUME NEW f \in Subflows, OneSpace(f), UNCHANGED sinkVars,
         highestSsn'[f] = highestSent', ctrl' \subseteq ctrl,
         \A d \in Tracked' : tx'[d].ssn = d,
         \A p \in data' : p.ssn = p.dsn
  PROVE  OneSpace(f)'
  BY DEF OneSpace, sinkVars

\* A packet taken for lost stays mapped; the flight size does not rise.
LEMMA LostMapped ==
  ASSUME NEW f, Subflows = {f}, FlowInv, MappedInFlight(f), NEW d \in DSN,
         tx[d].state = "in_flight", UNCHANGED <<ssnMap, highestSent>>,
         ReduceSsnInFlight(f, 1),
         Tracked' = Tracked, Pending(tx') = Pending(tx) \cup {d}
  PROVE  MappedInFlight(f)'
<1>1. d \in Tracked /\ d \notin Pending(tx) /\ Pending(tx) \subseteq Tracked
  BY DEF Tracked, Pending, WithState
<1>2. IsFiniteSet(ssnMap[f]) /\ Cardinality(ssnMap[f]) \in Nat
  BY DsnsFinite DEF MappedInFlight
<1>3. Pending(tx) \cup {d} \subseteq ssnMap[f]
  BY <1>1 DEF MappedInFlight
<1>4. /\ IsFiniteSet(Pending(tx)) /\ Cardinality(Pending(tx)) \in Nat
      /\ Cardinality(Pending(tx) \cup {d}) = Cardinality(Pending(tx)) + 1
      /\ Cardinality(Pending(tx) \cup {d}) <= Cardinality(ssnMap[f])
  <2>1. IsFiniteSet(Pending(tx)) /\ Cardinality(Pending(tx)) \in Nat
    BY DsnsFinite DEF Pending, WithState
  <2>2. Cardinality(Pending(tx) \cup {d}) = Cardinality(Pending(tx)) + 1
    BY <2>1, <1>1, FS_AddElement
  <2>3. Cardinality(Pending(tx) \cup {d}) <= Cardinality(ssnMap[f])
    BY <1>2, <1>3, FS_Subset
  <2> QED
    BY <2>1, <2>2, <2>3
<1>5. /\ ssnInFlight \in [Subflows -> Nat] /\ f \in Subflows
      /\ ssnInFlight' = [ssnInFlight EXCEPT ![f] = FloorSub(@, 1)]
  BY DEF MappedInFlight, ReduceSsnInFlight
<1>6. ssnInFlight' \in [Subflows -> Nat] /\ ssnInFlight'[f] = FloorSub(ssnInFlight[f], 1)
  BY <1>5 DEF FloorSub
<1>7. ssnInFlight'[f] <= Cardinality(ssnMap[f]) - Cardinality(Pending(tx'))
  BY <1>2, <1>4, <1>5, <1>6 DEF FloorSub, MappedInFlight
<1> QED
  BY <1>6, <1>7 DEF MappedInFlight

\* A new packet gets the next number of both spaces and an entry in the map.
LEMMA SendNewOneSubflow ==
  ASSUME NEW f, Subflows = {f}, RecordsInv, OneSpace(f), MappedInFlight(f), NEW ar \in BOOLEAN,
         SendNewPacket(f, ar), UNCHANGED sinkVars
  PROVE  OneSpace(f)' /\ MappedInFlight(f)'
<1> DEFINE n == highestSent
           rec == [state |-> "in_flight", ssn |-> n, sf |-> f, time |-> now + 1, rtx |-> 0]
           new == [dsn |-> n, ssn |-> n, sf |-> f, ar |-> ar, n |-> 0, trimmed |-> FALSE]
<1>1. /\ f \in Subflows /\ CoreTypes /\ n \in DSN /\ tx[n].state = "none"
  BY DEF SendNewPacket, Backlog, RecordsInv, FlowInv, CoreTypes, NothingAhead, DSN
<1>2. /\ tx' = [tx EXCEPT ![n] = rec] /\ data' = data \cup {new} /\ ctrl' = ctrl
      /\ highestSent' = n + 1 /\ highestSsn' = [highestSsn EXCEPT ![f] = n + 1]
      /\ ssnMap' = [ssnMap EXCEPT ![f] = @ \cup {n}]
      /\ ssnInFlight' = [ssnInFlight EXCEPT ![f] = @ + 1]
  BY DEF SendNewPacket, RecordSend, Transmit, OneSpace
<1>3. rec.state = "in_flight" /\ rec.ssn = n /\ new.dsn = n /\ new.ssn = n
  OBVIOUS
<1> HIDE DEF rec, new
<1>4. tx'[n] = rec /\ \A d \in DSN \ {n} : tx'[d] = tx[d]
  BY <1>1, <1>2 DEF CoreTypes
<1>5. Tracked' = Tracked \cup {n} /\ Pending(tx') = Pending(tx)
  BY <1>1, <1>3, <1>4 DEF Tracked, Pending, WithState
<1>6. OneSpace(f)'
  <2>1. highestSsn'[f] = highestSent'
    BY <1>1, <1>2 DEF CoreTypes
  <2>2. \A d \in Tracked' : tx'[d].ssn = d
    BY <1>1, <1>3, <1>4, <1>5 DEF OneSpace, Tracked
  <2>3. \A p \in data' : p.ssn = p.dsn
    BY <1>2, <1>3 DEF OneSpace
  <2> QED
    BY <2>1, <2>2, <2>3, <1>1, <1>2, SourceOneSpace
<1>7. /\ ssnMap' \in [Subflows -> SUBSET DSN] /\ ssnInFlight' \in [Subflows -> Nat]
      /\ ssnMap'[f] = ssnMap[f] \cup {n} /\ ssnInFlight'[f] = ssnInFlight[f] + 1
      /\ ssnMap[f] \subseteq DSN /\ ssnInFlight[f] \in Nat
  BY <1>1, <1>2 DEF MappedInFlight
<1>8. n \notin ssnMap[f] /\ \A s \in ssnMap'[f] : s < highestSent'
  BY <1>1, <1>2, <1>7 DEF MappedInFlight, DSN
<1>9. Cardinality(ssnMap'[f]) = Cardinality(ssnMap[f]) + 1
  <2> HIDE DEF n
  <2> QED
    BY <1>7, <1>8, DsnsFinite, FS_AddElement
<1>10. Cardinality(ssnMap[f]) \in Nat /\ Cardinality(Pending(tx)) \in Nat
  BY <1>7, DsnsFinite DEF Pending, WithState
<1>11. ssnInFlight'[f] <= Cardinality(ssnMap'[f]) - Cardinality(Pending(tx'))
  BY <1>5, <1>7, <1>9, <1>10 DEF MappedInFlight
<1>12. Tracked' \subseteq ssnMap'[f]
  BY <1>5, <1>7 DEF MappedInFlight
<1> QED
  BY <1>6, <1>7, <1>8, <1>11, <1>12 DEF MappedInFlight

\* A retransmission leaves the map and goes from the lost to those in flight.
LEMMA SendRtxOneSubflow ==
  ASSUME NEW f, Subflows = {f}, RecordsInv, OneSpace(f), MappedInFlight(f),
         SendRtxPacket(f), UNCHANGED sinkVars
  PROVE  OneSpace(f)' /\ MappedInFlight(f)'
<1> DEFINE d == Head(rtxQueue[f])
           rec == [state |-> "in_flight", ssn |-> tx[d].ssn, sf |-> f,
                   time |-> now + 1, rtx |-> tx[d].rtx + 1]
           p == [dsn |-> d, ssn |-> tx[d].ssn, sf |-> f, ar |-> TRUE, n |-> tx[d].rtx + 1,
                 trimmed |-> FALSE]
<1>1. f \in Subflows /\ CoreTypes /\ d \in DSN /\ d \in Tracked /\ tx[d].state = "pending_rtx"
  BY HeadOfQueue DEF SendRtxPacket, RecordsInv, FlowInv, Books
<1>2. /\ tx' = [tx EXCEPT ![d] = rec] /\ data' = data \cup {p} /\ ctrl' = ctrl
      /\ UNCHANGED <<highestSent, highestSsn, ssnMap>>
      /\ ssnInFlight' = [ssnInFlight EXCEPT ![f] = @ + 1]
  BY DEF SendRtxPacket, RecordSend, Transmit
<1>3. rec.state = "in_flight" /\ rec.ssn = d /\ p.dsn = d /\ p.ssn = d
  BY <1>1 DEF OneSpace
<1> HIDE DEF rec, p, d
<1>4. tx'[d] = rec /\ \A x \in DSN \ {d} : tx'[x] = tx[x]
  BY <1>1, <1>2 DEF CoreTypes
<1>5. Tracked' = Tracked /\ Pending(tx') = Pending(tx) \ {d} /\ d \in Pending(tx)
  BY <1>1, <1>3, <1>4 DEF Tracked, Pending, WithState
<1>6. OneSpace(f)'
  <2>1. highestSsn'[f] = highestSent'
    BY <1>2 DEF OneSpace
  <2>2. \A x \in Tracked' : tx'[x].ssn = x
    BY <1>1, <1>3, <1>4, <1>5 DEF OneSpace, Tracked
  <2>3. \A q \in data' : q.ssn = q.dsn
    BY <1>2, <1>3 DEF OneSpace
  <2> QED
    BY <2>1, <2>2, <2>3, <1>1, <1>2, SourceOneSpace
<1>7. /\ ssnInFlight' \in [Subflows -> Nat] /\ ssnInFlight'[f] = ssnInFlight[f] + 1
      /\ ssnInFlight[f] \in Nat /\ ssnMap[f] \subseteq DSN
  BY <1>1, <1>2 DEF MappedInFlight
<1>8. /\ Cardinality(ssnMap[f]) \in Nat /\ Cardinality(Pending(tx)) \in Nat
      /\ Cardinality(Pending(tx')) = Cardinality(Pending(tx)) - 1
  <2>1. IsFiniteSet(Pending(tx)) /\ Cardinality(Pending(tx)) \in Nat
    BY DsnsFinite DEF Pending, WithState
  <2> QED
    BY <2>1, <1>5, <1>7, DsnsFinite, FS_RemoveElement
<1>9. ssnInFlight'[f] <= Cardinality(ssnMap'[f]) - Cardinality(Pending(tx'))
  BY <1>2, <1>7, <1>8 DEF MappedInFlight
<1> QED
  BY <1>2, <1>5, <1>6, <1>7, <1>9 DEF MappedInFlight

\* A packet taken for lost keeps its numbers.
LEMMA MarkOneSubflow ==
  ASSUME NEW f, Subflows = {f}, RecordsInv, OneSpace(f), MappedInFlight(f),
         NEW d \in DSN, tx[d].state = "in_flight", MarkDsnForRtx(d), ReduceSsnInFlight(tx[d].sf, 1),
         UNCHANGED <<sinkVars, highestSent, highestSsn, ssnMap, data>>, ctrl' \subseteq ctrl
  PROVE  OneSpace(f)' /\ MappedInFlight(f)'
<1> DEFINE m == [tx[d] EXCEPT !.state = "pending_rtx"]
<1>1. FlowInv /\ CoreTypes /\ f \in Subflows /\ tx[d] \in SendRecord
  BY RecordOrNot DEF RecordsInv, FlowInv
<1>2. /\ tx' = [tx EXCEPT ![d] = m] /\ m.sf = tx[d].sf /\ m.ssn = tx[d].ssn
      /\ m.state = "pending_rtx" /\ tx[d].sf = f
  BY <1>1 DEF MarkDsnForRtx, SendRecord
<1> HIDE DEF m
<1>3. tx'[d] = m /\ \A x \in DSN \ {d} : tx'[x] = tx[x]
  BY <1>1, <1>2 DEF CoreTypes
<1>4. Tracked' = Tracked /\ Pending(tx') = Pending(tx) \cup {d} /\ d \in Tracked
  BY <1>2, <1>3 DEF Tracked, Pending, WithState
<1>5. OneSpace(f)'
  <2>1. \A x \in Tracked' : tx'[x].ssn = x
    BY <1>2, <1>3, <1>4 DEF OneSpace, Tracked
  <2>2. highestSsn'[f] = highestSent' /\ \A p \in data' : p.ssn = p.dsn
    BY DEF OneSpace
  <2> QED
    BY <2>1, <2>2, <1>1, SourceOneSpace
<1>6. MappedInFlight(f)'
  BY <1>1, <1>2, <1>4, LostMapped
<1> QED
  BY <1>5, <1>6

\* A loss with a retransmission in one step: the counters end where they were.
LEMMA NackAndResendOneSubflow ==
  ASSUME NEW f, Subflows = {f}, RecordsInv, OneSpace(f), MappedInFlight(f),
         NEW k \in ctrl, ProcessNackAndResend(k), UNCHANGED sinkVars
  PROVE  OneSpace(f)' /\ MappedInFlight(f)'
<1> DEFINE l == k.dsn
           m == [tx[l] EXCEPT !.state = "pending_rtx"]
           d == Head(Append(rtxQueue[tx[l].sf], l))
           rec == [state |-> "in_flight", ssn |-> tx[d].ssn, sf |-> tx[l].sf,
                   time |-> now + 1, rtx |-> tx[d].rtx + 1]
           p == [dsn |-> d, ssn |-> tx[d].ssn, sf |-> tx[l].sf, ar |-> TRUE, n |-> tx[d].rtx + 1,
                 trimmed |-> FALSE]
<1>1. /\ k.type = "nack" /\ tx[l].state = "in_flight" /\ d \in Tracked
      /\ tx' = [[tx EXCEPT ![l] = m] EXCEPT ![d] = rec] /\ data' = data \cup {p}
      /\ ctrl' \subseteq ctrl /\ UNCHANGED <<highestSent, highestSsn, ssnMap, pendingRtx>>
      /\ ssnInFlight' = [ssnInFlight EXCEPT ![tx[l].sf] = FloorSub(@ + 1, 1)]
  BY DEF ProcessNackAndResend, Transmit
<1>2. /\ CoreTypes /\ l \in DSN /\ tx[l] \in SendRecord /\ f \in Subflows
      /\ d \in DSN /\ tx[d].ssn = d /\ l \in Tracked
  <2>1. CoreTypes /\ l \in DSN
    BY <1>1 DEF RecordsInv, FlowInv, CoreTypes, AckPacket, NackPacket
  <2> QED
    BY <2>1, <1>1, RecordOrNot DEF OneSpace, Tracked
<1>3. m.ssn = tx[l].ssn /\ m.state = "pending_rtx" /\ tx[l].sf = f
  BY <1>2 DEF SendRecord
<1>4. rec.state = "in_flight" /\ rec.ssn = d /\ p.dsn = d /\ p.ssn = d
  BY <1>2
<1> HIDE DEF rec, p, d, m
<1>5. tx'[d] = rec /\ \A x \in DSN \ {d} : tx'[x] = IF x = l THEN m ELSE tx[x]
  <2>1. DOMAIN tx = DSN
    BY <1>2 DEF CoreTypes
  <2> HIDE DEF l
  <2> QED
    BY <2>1, <1>1, <1>2
<1>6. Tracked' = Tracked
  <2>1. \A x \in DSN : tx'[x].state # "none" <=> tx[x].state # "none"
    <3> TAKE x \in DSN
    <3>1. tx[l].state # "none" /\ tx[d].state # "none"
      BY <1>1, <1>2 DEF Tracked
    <3>2. CASE x = d
      BY <3>1, <3>2, <1>4, <1>5
    <3>3. CASE x # d /\ x = l
      BY <3>1, <3>3, <1>3, <1>5
    <3>4. CASE x # d /\ x # l
      BY <3>4, <1>5
    <3> QED
      BY <3>2, <3>3, <3>4
  <2> QED
    BY <2>1 DEF Tracked
<1>7. OneSpace(f)'
  <2>1. \A x \in Tracked' : tx'[x].ssn = x
    <3> TAKE x \in Tracked'
    <3>1. x \in DSN /\ x \in Tracked
      BY <1>6 DEF Tracked
    <3>2. tx[x].ssn = x
      BY <3>1 DEF OneSpace
    <3> QED
      BY <3>1, <3>2, <1>3, <1>4, <1>5
  <2>2. highestSsn'[f] = highestSent' /\ \A q \in data' : q.ssn = q.dsn
    BY <1>1, <1>4 DEF OneSpace
  <2> QED
    BY <2>1, <2>2, <1>1, <1>2, SourceOneSpace
<1>8. Cardinality(Pending(tx')) = Cardinality(Pending(tx))
  <2>1. Books'
    BY NackAndResendBooks
  <2>2. Cardinality(Pending(tx)) = pendingRtx
    BY DEF RecordsInv, Books
  <2>3. pendingRtx' = Cardinality(Pending(tx'))
    BY <2>1 DEF Books
  <2> QED
    BY <2>2, <2>3, <1>1
<1>9. ssnInFlight' = ssnInFlight
  BY <1>1, <1>3 DEF MappedInFlight, FloorSub
<1> QED
  BY <1>1, <1>6, <1>7, <1>8, <1>9 DEF MappedInFlight

\* The ACK's SSN is its cumulative DSN: the map loses no tracked packet.
LEMMA ProcessAckOneSubflow ==
  ASSUME NEW f, Subflows = {f}, RecordsInv, OneSpace(f), MappedInFlight(f),
         NEW a \in ctrl, ProcessAck(a), UNCHANGED sinkVars
  PROVE  OneSpace(f)' /\ MappedInFlight(f)'
<1> DEFINE below == SsnsBelow(a)
<1>1. a.type = "ack" /\ a.sf = f /\ a.ssn = a.cum /\ a.cum \in Int /\ f \in Subflows
  BY DEF ProcessAck, RecordsInv, FlowInv, CoreTypes, AckPacket, NackPacket, OneSpace
<1>2. /\ tx' = [d \in DSN |-> IF d \in AckedBy(a) THEN NoRecord ELSE tx[d]]
      /\ ctrl' \subseteq ctrl /\ UNCHANGED <<highestSent, highestSsn, data>>
      /\ ssnMap' = [ssnMap EXCEPT ![f] = @ \ below]
      /\ ssnInFlight' = [ssnInFlight EXCEPT ![f] = FloorSub(@, Cardinality(below))]
  BY <1>1 DEF ProcessAck, ReduceSsnInFlight
<1>3. \A d \in Tracked' : d \in Tracked /\ d \notin AckedBy(a) /\ tx'[d] = tx[d]
  BY <1>2 DEF Tracked, NoRecord
<1>4. OneSpace(f)'
  <2>1. highestSsn'[f] = highestSent' /\ \A p \in data' : p.ssn = p.dsn
    BY <1>2 DEF OneSpace
  <2>2. \A d \in Tracked' : tx'[d].ssn = d
    BY <1>3 DEF OneSpace
  <2> QED
    BY <2>1, <2>2, <1>1, <1>2, SourceOneSpace
<1>5. /\ ssnMap' \in [Subflows -> SUBSET DSN] /\ ssnMap'[f] = ssnMap[f] \ below
      /\ ssnMap[f] \subseteq DSN /\ below \subseteq ssnMap[f] /\ ssnInFlight[f] \in Nat
  BY <1>1, <1>2 DEF MappedInFlight, SsnsBelow
<1>6. Tracked' \subseteq ssnMap'[f]
  <2> SUFFICES ASSUME NEW d \in Tracked' PROVE d \in ssnMap'[f]
    OBVIOUS
  <2>1. d \in ssnMap[f] /\ ~(d < a.cum)
    BY <1>3 DEF MappedInFlight, AckedBy
  <2> QED
    BY <2>1, <1>1, <1>5 DEF SsnsBelow
<1>7. Pending(tx') \subseteq Pending(tx) /\ Pending(tx') \subseteq ssnMap'[f]
  <2>1. Pending(tx') \subseteq Tracked'
    BY DEF Pending, WithState, Tracked
  <2>2. Pending(tx') \subseteq Pending(tx)
    BY <2>1, <1>3 DEF Pending, WithState
  <2> QED
    BY <2>1, <2>2, <1>6
<1> HIDE DEF below
<1>8. /\ IsFiniteSet(below) /\ Cardinality(below) \in Nat
      /\ Cardinality(ssnMap[f]) \in Nat /\ Cardinality(ssnMap'[f]) \in Nat
      /\ Cardinality(ssnMap'[f]) = Cardinality(ssnMap[f]) - Cardinality(below)
  <2>1. /\ IsFiniteSet(ssnMap[f]) /\ Cardinality(ssnMap[f]) \in Nat
        /\ IsFiniteSet(below) /\ Cardinality(below) \in Nat /\ Cardinality(ssnMap'[f]) \in Nat
    BY <1>5, DsnsFinite
  <2>2. ssnMap[f] \cap below = below
    BY <1>5
  <2>3. Cardinality(ssnMap[f] \ below) = Cardinality(ssnMap[f]) - Cardinality(below)
    BY <2>1, <2>2, FS_Difference
  <2> QED
    BY <2>1, <2>3, <1>5
<1>9. /\ Cardinality(Pending(tx)) \in Nat /\ Cardinality(Pending(tx')) \in Nat
      /\ Cardinality(Pending(tx')) <= Cardinality(Pending(tx))
      /\ Cardinality(Pending(tx')) <= Cardinality(ssnMap'[f])
  <2>1. IsFiniteSet(Pending(tx)) /\ Cardinality(Pending(tx)) \in Nat
    BY DsnsFinite DEF Pending, WithState
  <2>2. Pending(tx') \subseteq DSN /\ ssnMap'[f] \subseteq DSN
    BY <1>5 DEF Pending, WithState
  <2>3. Cardinality(Pending(tx')) \in Nat /\ IsFiniteSet(ssnMap'[f])
    BY <2>2, DsnsFinite
  <2> QED
    BY <2>1, <2>3, <1>7, FS_Subset
<1>10. /\ ssnInFlight' \in [Subflows -> Nat]
       /\ ssnInFlight'[f] = FloorSub(ssnInFlight[f], Cardinality(below))
  BY <1>1, <1>2, <1>5, <1>8 DEF MappedInFlight, FloorSub
<1>11. ssnInFlight'[f] <= Cardinality(ssnMap'[f]) - Cardinality(Pending(tx'))
  BY <1>5, <1>8, <1>9, <1>10 DEF FloorSub, MappedInFlight
<1>12. \A s \in ssnMap'[f] : s < highestSent'
  BY <1>2, <1>5 DEF MappedInFlight
<1> QED
  BY <1>4, <1>5, <1>6, <1>10, <1>11, <1>12 DEF MappedInFlight

\* The sink answers with the same number in both spaces.
LEMMA SinkOneSubflow ==
  ASSUME NEW f, Subflows = {f}, RecordsInv, SsnInv, OneSpace(f), NEW p \in data, SinkReceives(p),
         UNCHANGED srcVars
  PROVE  OneSpace(f)'
<1>1. /\ f \in Subflows /\ CoreTypes /\ p.dsn \in DSN /\ p.sf = f /\ p.ssn = p.dsn
      /\ expectedSsn[f] = expectedDsn /\ ssnRx[f] = dsnRx /\ data' = data \ {p}
  BY DEF RecordsInv, FlowInv, CoreTypes, DataPacket, OneSpace, SinkReceives, ReceiveNew,
         ReceiveDuplicate, ReceiveTrimmedDuplicate, ReceiveTrimmed
<1>2. expectedSsn'[f] = expectedDsn' /\ ssnRx'[f] = dsnRx'
  <2>1. CASE \E ce, pathEnd \in BOOLEAN : ReceiveNew(p, ce, pathEnd)
    <3>1. ~IsReceived(p.dsn) /\ SubflowProcessData(f, p.dsn) /\ UpdateOooState(p.dsn)
      BY <2>1, <1>1 DEF ReceiveNew
    <3> QED
      BY <3>1, <1>1, SameWindows DEF SsnInv
  <2>2. CASE ~ \E ce, pathEnd \in BOOLEAN : ReceiveNew(p, ce, pathEnd)
    BY <2>2, <1>1 DEF SinkReceives, ReceiveDuplicate, ReceiveTrimmedDuplicate, ReceiveTrimmed,
                      ReceiveStateUnchanged
  <2> QED
    BY <2>1, <2>2
<1>3. \A b : MakeAck(b, f).ssn = expectedDsn' /\ MakeAck(b, f).cum = expectedDsn'
  BY <1>2 DEF MakeAck
<1>4. \A a \in ctrl' : a.type = "ack" =>
         a \in ctrl \/ (a.ssn = expectedDsn' /\ a.cum = expectedDsn')
  <2>1. CASE \E b : SendAck(b, f)
    BY <2>1, <1>3 DEF SendAck
  <2>2. CASE ctrl' = ctrl
    BY <2>2
  <2>3. CASE ReceiveTrimmed(p)
    BY <2>3 DEF ReceiveTrimmed
  <2>4. \/ \E b : SendAck(b, f)
        \/ ctrl' = ctrl
        \/ ReceiveTrimmed(p)
    <3>1. CASE \E ce, pathEnd \in BOOLEAN : ReceiveNew(p, ce, pathEnd)
      BY <3>1, <1>1, Zenon DEF ReceiveNew
    <3>2. CASE \E ce \in BOOLEAN : ReceiveDuplicate(p, ce)
      BY <3>2, <1>1, Zenon DEF ReceiveDuplicate
    <3>3. CASE ReceiveTrimmedDuplicate(p)
      BY <3>3, <1>1, Zenon DEF ReceiveTrimmedDuplicate
    <3> QED
      BY <3>1, <3>2, <3>3 DEF SinkReceives
  <2> QED
    BY <2>1, <2>2, <2>3, <2>4
<1>5. UNCHANGED <<tx, highestSsn, highestSent, Tracked>>
  BY DEF srcVars, Tracked
<1> QED
  BY <1>1, <1>2, <1>4, <1>5 DEF OneSpace

\* The inductive invariant of a flow with native load balancing.
OneInv(f) == RecordsInv /\ SsnInv /\ OneSpace(f) /\ MappedInFlight(f)

\* Every step keeps it.
LEMMA StepOneSubflow ==
  ASSUME NEW f, Subflows = {f}, OneInv(f), [Next]_vars
  PROVE  OneSpace(f)' /\ MappedInFlight(f)'
<1> USE DEF OneInv
<1>1. /\ f \in Subflows /\ RecordsInv /\ SsnInv /\ CoreTypes
      /\ OneSpace(f) /\ MappedInFlight(f)
  BY DEF RecordsInv, FlowInv
<1>2. ASSUME UNCHANGED sinkVars, tx' = tx, data' \subseteq data, ctrl' \subseteq ctrl,
             UNCHANGED <<highestSent, highestSsn, ssnMap, ssnInFlight>>
      PROVE  OneSpace(f)' /\ MappedInFlight(f)'
  <2>1. Tracked' = Tracked
    BY <1>2 DEF Tracked
  <2> QED
    BY <1>1, <1>2, <2>1, SourceOneSpace DEF OneSpace, MappedInFlight
<1>3. CASE NicSends
  <2>1. SrcSends(f) /\ UNCHANGED sinkVars
    BY <1>3 DEF NicSends
  <2> QED
    BY <2>1, <1>1, SendNewOneSubflow, SendRtxOneSubflow DEF SrcSends
<1>4. CASE TimerFires
  <2>1. PICK e \in sendTimes : ReduceSsnInFlight(tx[e[2]].sf, 1) /\ MarkDsnForRtx(e[2])
    BY <1>4 DEF TimerFires, RtxTimerExpired
  <2>2. tx[e[2]].state = "in_flight" /\ e[2] \in DSN
    BY <2>1, <1>1 DEF RecordsInv, Books, FlightOK, WithState
  <2>3. UNCHANGED <<sinkVars, highestSent, highestSsn, ssnMap, data>> /\ ctrl' \subseteq ctrl
    BY <1>4 DEF TimerFires, RtxTimerExpired
  <2> QED
    BY <2>1, <2>2, <2>3, <1>1, MarkOneSubflow
<1>5. CASE CtrlArrives
  <2>1. PICK c \in ctrl : SrcReceives(c)
    BY <1>5 DEF CtrlArrives
  <2>2. UNCHANGED sinkVars
    BY <1>5 DEF CtrlArrives
  <2>3. CASE IgnoreNack(c)
    BY <2>2, <2>3, <1>2 DEF IgnoreNack, srcVars
  <2>4. CASE ProcessNack(c)
    <3>1. /\ c.type = "nack" /\ tx[c.dsn].state = "in_flight" /\ MarkDsnForRtx(c.dsn)
          /\ ReduceSsnInFlight(tx[c.dsn].sf, 1)
          /\ UNCHANGED <<highestSent, highestSsn, ssnMap, data>> /\ ctrl' \subseteq ctrl
      BY <2>4 DEF ProcessNack
    <3>2. c.dsn \in DSN
      BY <3>1, <1>1 DEF CoreTypes, AckPacket, NackPacket
    <3> QED
      BY <3>1, <3>2, <2>2, <1>1, MarkOneSubflow
  <2> QED
    BY <2>1, <2>2, <2>3, <2>4, <1>1, ProcessAckOneSubflow, NackAndResendOneSubflow DEF SrcReceives
<1>6. CASE DataArrives
  <2>1. PICK p \in data : SinkReceives(p)
    BY <1>6 DEF DataArrives
  <2>2. UNCHANGED srcVars
    BY <1>6 DEF DataArrives
  <2>3. OneSpace(f)'
    BY <2>1, <2>2, <1>1, SinkOneSubflow
  <2>4. UNCHANGED <<tx, highestSent, ssnMap, ssnInFlight, Tracked>>
    BY <2>2 DEF srcVars, Tracked
  <2> QED
    BY <2>3, <2>4 DEF MappedInFlight
<1>7. CASE FabricActs
  <2>1. UNCHANGED <<srcVars, sinkVars>> /\ ctrl' \subseteq ctrl
    BY <1>7 DEF FabricActs, Fabric, DropData, DropCtrl, TrimData
  <2>2. UNCHANGED <<tx, highestSent, highestSsn, ssnMap, ssnInFlight, Tracked>>
    BY <2>1 DEF srcVars, Tracked
  <2>3. \A p \in data' : p.ssn = p.dsn
    <3>1. CASE TrimData
      <4>1. PICK q \in data : data' = (data \ {q}) \cup {[q EXCEPT !.trimmed = TRUE]}
        BY <3>1 DEF TrimData
      <4>2. q \in DataPacket /\ q.ssn = q.dsn
        BY <1>1 DEF CoreTypes, OneSpace
      <4>3. [q EXCEPT !.trimmed = TRUE].ssn = [q EXCEPT !.trimmed = TRUE].dsn
        BY <4>2 DEF DataPacket
      <4> QED
        BY <4>1, <4>3, <1>1 DEF OneSpace
    <3>2. CASE DropData \/ DropCtrl
      BY <3>2, <1>1 DEF DropData, DropCtrl, OneSpace
    <3> QED
      BY <3>1, <3>2, <1>7 DEF FabricActs, Fabric
  <2>4. OneSpace(f)'
    <3>1. highestSsn'[f] = highestSent' /\ \A d \in Tracked' : tx'[d].ssn = d
      BY <2>2, <1>1 DEF OneSpace
    <3> QED
      BY <3>1, <2>1, <2>3, <1>1, SourceOneSpace
  <2> QED
    BY <2>2, <2>4 DEF MappedInFlight
<1>8. CASE UNCHANGED flowVars
  BY <1>2, <1>8 DEF flowVars, netVars, srcVars
<1> QED
  BY <1>3, <1>4, <1>5, <1>6, <1>7, <1>8 DEF Next, Aborts, vars

\* The invariant holds in every reachable state.
LEMMA OneInvariant == ASSUME NEW f, Subflows = {f} PROVE Spec => []OneInv(f)
<1>1. Init => OneSpace(f) /\ MappedInFlight(f)
  BY InitOneSubflow
<1>2. RecordsInv /\ SsnInv /\ OneSpace(f) /\ MappedInFlight(f) /\ [Next]_vars
        => OneSpace(f)' /\ MappedInFlight(f)'
  BY StepOneSubflow DEF OneInv
<1>3. Init => SsnInv
  BY InitSsnInv
<1>4. RecordsInv /\ SsnInv /\ [Next]_vars => SsnInv'
  BY StepSsnInv
<1>5. RecordsInv /\ SsnInv /\ OneSpace(f) /\ MappedInFlight(f) => OneInv(f)
  BY DEF OneInv
<1> QED
  BY <1>1, <1>2, <1>3, <1>4, <1>5, RecordsInvariant, PTL DEF Spec

\* With one subflow every tracked packet is its own, and mapped.
LEMMA TrackedMapped ==
  ASSUME NEW f, Subflows = {f}, OneInv(f), NEW d \in Tracked
  PROVE  tx[d].sf = f /\ tx[d].ssn \in ssnMap[f]
<1>1. CoreTypes /\ d \in DSN /\ tx[d].state # "none"
  BY DEF OneInv, RecordsInv, FlowInv, Tracked
<1>2. tx[d] \in SendRecord
  BY <1>1, RecordOrNot
<1> QED
  BY <1>2 DEF OneInv, OneSpace, MappedInFlight, SendRecord

\* With one subflow the assertion of prepareDataPacketForSend holds at the
\* head of the queue: a packet waiting to be sent again still has its SSN
\* mapping.
THEOREM RtxAlwaysMapped == ASSUME NEW f, Subflows = {f} PROVE Spec => []RtxSsnIsMapped
<1>1. Spec => []OneInv(f)
  BY OneInvariant
<1>2. OneInv(f) => RtxSsnIsMapped
  <2> SUFFICES ASSUME OneInv(f), rtxQueue[f] # <<>>
               PROVE  HeadSsnIsMapped(f)
    BY DEF RtxSsnIsMapped
  <2>1. f \in Subflows /\ QueuesOK(tx, rtxQueue)
    BY DEF OneInv, RecordsInv, Books
  <2>2. Head(rtxQueue[f]) \in Tracked
    BY <2>1, HeadOfQueue DEF Tracked
  <2> QED
    BY <2>2, TrackedMapped DEF HeadSsnIsMapped
<1> QED
  BY <1>1, <1>2, PTL

\* With one subflow that assertion never ends the program, neither when the
\* NIC picks the subflow nor from inside the processing of a NACK.
THEOREM OneSubflowNeverAborts == ASSUME NEW f, Subflows = {f} PROVE Spec => []~aborted
<1>1. Spec => []OneInv(f)
  BY OneInvariant
<1>2. OneInv(f) => ~SendRtxAborts
  <2> SUFFICES ASSUME OneInv(f), NEW q \in QueuesToSend, q # <<>>
               PROVE  tx[Head(q)].ssn \in ssnMap[tx[Head(q)].sf]
    BY DEF SendRtxAborts
  <2>1. f \in Subflows /\ QueuesOK(tx, rtxQueue) /\ CoreTypes
    BY DEF OneInv, RecordsInv, FlowInv, Books
  <2>2. rtxQueue[f] # <<>> => Head(rtxQueue[f]) \in Tracked
    BY <2>1, HeadOfQueue DEF Tracked
  <2>3. Head(q) \in Tracked
    <3>1. CASE q = rtxQueue[f]
      BY <2>2, <3>1
    <3>2. CASE \E k \in ctrl : /\ k.type = "nack" /\ tx[k.dsn].state = "in_flight"
                               /\ q = Append(rtxQueue[tx[k.dsn].sf], k.dsn)
      <4>1. PICK k \in ctrl : /\ k.type = "nack" /\ tx[k.dsn].state = "in_flight"
                              /\ q = Append(rtxQueue[tx[k.dsn].sf], k.dsn)
        BY <3>2
      <4>2. k.dsn \in Tracked
        BY <4>1, <2>1 DEF CoreTypes, AckPacket, NackPacket, Tracked
      <4>3. tx[k.dsn].sf = f /\ rtxQueue[f] \in Seq(DSN) /\ k.dsn \in DSN
        BY <4>2, <2>1, TrackedMapped DEF QueuesOK, Tracked
      <4>4. Head(q) = IF rtxQueue[f] = <<>> THEN k.dsn ELSE Head(rtxQueue[f])
        BY <4>1, <4>3
      <4> QED
        BY <4>2, <4>4, <2>2
    <3> QED
      BY <3>1, <3>2 DEF QueuesToSend
  <2> QED
    BY <2>3, TrackedMapped
<1>3. Init => ~aborted
  BY DEF Init
<1>4. ~SendRtxAborts /\ ~aborted /\ [Next]_vars => ~aborted'
  BY DEF Next, NicSends, TimerFires, CtrlArrives, DataArrives, FabricActs, Running, Aborts, vars
<1> QED
  BY <1>1, <1>2, <1>3, <1>4, PTL DEF Spec

\* With one subflow no loss leaks congestion window: _ssn_in_flight counts at
\* most the mapped packets that do not wait to be sent again.
THEOREM FlightNeverLeaks == ASSUME NEW f, Subflows = {f} PROVE Spec => []SsnInFlightNeverLeaks
<1>1. Spec => []OneInv(f)
  BY OneInvariant
<1>2. OneInv(f) => SsnInFlightNeverLeaks
  <2> SUFFICES ASSUME OneInv(f) PROVE SsnInFlightNeverLeaks
    OBVIOUS
  <2>1. \A d \in Tracked : tx[d].sf = f
    BY TrackedMapped
  <2>2. {d \in Tracked : tx[d].state = "pending_rtx" /\ tx[d].sf = f} = Pending(tx)
    BY <2>1 DEF Tracked, Pending, WithState
  <2> QED
    BY <2>2 DEF OneInv, MappedInFlight, SsnInFlightNeverLeaks
<1> QED
  BY <1>1, <1>2, PTL

--------------------------------------------------------------------------
(* The last ACK and the types                                              *)

Last == NumPkts - 1

\* The request for an ACK of the last packet is on the packet, or at the sink
\* as long as the packet waits in the reorder queue.
RequestKept ==
  /\ \A p \in data : p.dsn = Last => p.ar
  /\ Last \in dsnRx => ackRequest

\* _out_of_order_count is what tells that the reorder queue has drained.
SinkInv ==
  /\ ackRequest \in BOOLEAN
  /\ highestCumAck \in 0..NumPkts
  /\ oooCount = Cardinality(dsnRx)
  /\ RequestKept
  /\ FinalAckGenerated


\* Nothing is received at the start.
LEMMA InitSinkInv == Init => SinkInv
<1> SUFFICES ASSUME Init PROVE SinkInv
  OBVIOUS
<1>1. /\ data = {} /\ dsnRx = {} /\ oooCount = 0 /\ ackRequest = FALSE
      /\ highestCumAck = 0 /\ expectedDsn = 0
  BY DEF Init, NetInit, SinkInit
<1>2. oooCount = Cardinality(dsnRx)
  BY <1>1, FS_EmptySet
<1>3. ackRequest \in BOOLEAN
  BY <1>1, Zenon
<1>4. highestCumAck \in 0..NumPkts
  BY <1>1
<1>5. RequestKept /\ FinalAckGenerated
  BY <1>1 DEF RequestKept, FinalAckGenerated
<1> QED
  BY <1>2, <1>3, <1>4, <1>5 DEF SinkInv

\* A step that leaves the sink alone and sends the last packet only with a request.
LEMMA SinkIdle ==
  ASSUME SinkInv, UNCHANGED sinkVars, \A p \in data' : p.dsn = Last => p.ar
  PROVE  SinkInv'
  BY DEF SinkInv, RequestKept, FinalAckGenerated, sinkVars

\* Draining takes as many packets from the count as from the queue.
LEMMA DrainCounts ==
  ASSUME FlowInv, oooCount = Cardinality(dsnRx), NEW d \in DSN, d = expectedDsn,
         NEW e \in d+1..NumPkts, \A x \in d+1..e-1 : x \in dsnRx, e \notin dsnRx
  PROVE  oooCount - (e - (d + 1)) = Cardinality({x \in dsnRx : x > e})
<1> DEFINE run == d+1..e-1
<1>1. dsnRx \subseteq DSN /\ \A x \in dsnRx : x \in Int /\ x > d
  BY DEF FlowInv, CoreTypes, HoleFirst, DSN
<1>2. d \in Int /\ e \in Int /\ d + 1 <= e
  BY DEF DSN
<1>3. IsFiniteSet(run) /\ Cardinality(run) = e - (d + 1)
  <2>1. d + 1 \in Int /\ e - 1 \in Int
    BY <1>2
  <2>2. IsFiniteSet(run) /\ Cardinality(run) = IF d + 1 > e - 1 THEN 0 ELSE (e - 1) - (d + 1) + 1
    BY <2>1, FS_Interval
  <2> QED
    BY <2>2, <1>2
<1>4. dsnRx \cap run = run /\ dsnRx \ run = {x \in dsnRx : x > e}
  <2>1. \A x \in run : x \in dsnRx /\ ~(x > e)
    BY <1>2
  <2>2. \A x \in dsnRx : x \notin run => x > e
    <3> TAKE x \in dsnRx
    <3>1. x \in Int /\ x > d /\ x # e
      BY <1>1
    <3> QED
      BY <3>1, <1>2
  <2> HIDE DEF run
  <2> QED
    BY <2>1, <2>2
<1> HIDE DEF run
<1>5. Cardinality(dsnRx \ run) = Cardinality(dsnRx) - Cardinality(run)
  BY <1>1, <1>3, <1>4, DsnsFinite, FS_Difference
<1> QED
  BY <1>3, <1>4, <1>5

\* A new packet: if it completes the flow, the request it carries or the one
\* an earlier packet left behind forces the ACK.
LEMMA ReceiveNewSink ==
  ASSUME FlowInv, SinkInv, NEW p \in data, NEW ce \in BOOLEAN, NEW pathEnd \in BOOLEAN,
         ReceiveNew(p, ce, pathEnd)
  PROVE  SinkInv'
<1> DEFINE d == p.dsn
           drained == d = expectedDsn /\ oooCount' = 0
<1>1. /\ d \in DSN /\ p.ar \in BOOLEAN /\ ~IsReceived(d) /\ data' \subseteq data
      /\ UpdateOooState(d) /\ expectedDsn \in 0..NumPkts /\ dsnRx \subseteq DSN
      /\ \A x \in dsnRx : x > expectedDsn
  BY DEF FlowInv, CoreTypes, HoleFirst, DataPacket, ReceiveNew
<1>2. /\ ackRequest' = (AckIsWanted(p) /\ ~drained)
      /\ d = Last => p.ar
  BY <1>1 DEF ReceiveNew, SinkInv, RequestKept
<1>3. \/ \E b : SendAck(b, p.sf)
      \/ UNCHANGED highestCumAck
  <2> HIDE DEF d
  <2> QED
    BY Zenon DEF ReceiveNew
<1>4. drained /\ AckIsWanted(p) => \E b : SendAck(b, p.sf)
  BY Zenon DEF ReceiveNew
<1> HIDE DEF d
<1>5. \A p2 \in data' : p2.dsn = Last => p2.ar
  BY <1>1 DEF SinkInv, RequestKept
<1>6. ackRequest' \in BOOLEAN
  BY <1>2, Zenon
<1>7. CASE d = expectedDsn
  <2>1. PICK e \in d+1..NumPkts :
          /\ \A x \in d+1..e-1 : x \in dsnRx
          /\ e \notin dsnRx
          /\ expectedDsn' = e
          /\ dsnRx' = {x \in dsnRx : x > e}
          /\ oooCount' = oooCount - (e - (d + 1))
    BY <1>1, <1>7 DEF UpdateOooState
  <2>2. oooCount' = Cardinality(dsnRx')
    BY <2>1, <1>1, <1>7, DrainCounts DEF SinkInv
  <2>3. IsFiniteSet(dsnRx') /\ (oooCount' = 0 <=> dsnRx' = {})
    <3>1. dsnRx' \subseteq DSN
      BY <2>1, <1>1
    <3> QED
      BY <3>1, <2>2, DsnsFinite, FS_EmptySet
  <2>4. Last \in dsnRx' => ackRequest'
    <3> SUFFICES ASSUME Last \in dsnRx' PROVE ackRequest'
      OBVIOUS
    <3>1. ackRequest
      BY <2>1 DEF SinkInv, RequestKept
    <3> QED
      BY <3>1, <2>3, <1>2 DEF AckIsWanted
  <2>5. e = NumPkts => \E b : SendAck(b, p.sf)
    <3> SUFFICES ASSUME e = NumPkts PROVE \E b : SendAck(b, p.sf)
      OBVIOUS
    <3>1. dsnRx' = {}
      <4>1. \A x \in DSN : ~(x > e)
        BY DEF DSN
      <4> QED
        BY <4>1, <2>1, <1>1
    <3>2. drained
      BY <3>1, <2>3, <1>7 DEF d
    <3>3. d = Last \/ Last \in d+1..e-1
      BY <2>1, <1>1 DEF Last, DSN
    <3>4. AckIsWanted(p)
      BY <3>3, <2>1, <1>2 DEF AckIsWanted, SinkInv, RequestKept
    <3> QED
      BY <3>2, <3>4, <1>4
  <2>6. /\ highestCumAck' \in 0..NumPkts
        /\ expectedDsn' = NumPkts => highestCumAck' = NumPkts
    <3>1. expectedDsn' \in 0..NumPkts /\ highestCumAck \in 0..NumPkts
      BY <2>1, <1>1 DEF SinkInv, DSN
    <3> QED
      BY <3>1, <2>1, <2>5, <1>3 DEF SendAck
  <2> QED
    BY <2>2, <2>4, <2>6, <1>5, <1>6 DEF SinkInv, RequestKept, FinalAckGenerated
<1>8. CASE d # expectedDsn
  <2>1. dsnRx' = dsnRx \cup {d} /\ oooCount' = oooCount + 1 /\ expectedDsn' = expectedDsn
    BY <1>1, <1>8 DEF UpdateOooState
  <2>2. d \notin dsnRx /\ expectedDsn < NumPkts
    BY <1>1, <1>8 DEF IsReceived, DSN
  <2>3. oooCount' = Cardinality(dsnRx')
    BY <2>1, <2>2, <1>1, DsnsFinite, FS_AddElement DEF SinkInv
  <2>4. Last \in dsnRx' => ackRequest'
    BY <2>1, <1>2, <1>8 DEF AckIsWanted, SinkInv, RequestKept, d
  <2>5. highestCumAck' \in 0..NumPkts
    <3>1. expectedDsn' \in 0..NumPkts /\ highestCumAck \in 0..NumPkts
      BY <2>1, <1>1 DEF SinkInv
    <3> QED
      BY <3>1, <1>3 DEF SendAck
  <2>6. expectedDsn' # NumPkts
    BY <2>1, <2>2, <1>1
  <2> QED
    BY <2>3, <2>4, <2>5, <2>6, <1>5, <1>6 DEF SinkInv, RequestKept, FinalAckGenerated
<1> QED
  BY <1>7, <1>8

\* A packet that brings nothing new: what the sink says can only confirm more.
LEMMA ReceiveOtherSink ==
  ASSUME FlowInv, SinkInv, NEW p \in data,
         \/ \E ce \in BOOLEAN : ReceiveDuplicate(p, ce)
         \/ ReceiveTrimmedDuplicate(p)
         \/ ReceiveTrimmed(p)
  PROVE  SinkInv'
<1>1. /\ data' \subseteq data
      /\ UNCHANGED <<expectedDsn, dsnRx, oooCount, ackRequest>>
  BY DEF ReceiveDuplicate, ReceiveTrimmedDuplicate, ReceiveTrimmed, ReceiveStateUnchanged
<1>2. highestCumAck' \in {highestCumAck, IF expectedDsn' > highestCumAck THEN expectedDsn' ELSE highestCumAck}
  BY DEF ReceiveDuplicate, ReceiveTrimmedDuplicate, ReceiveTrimmed, SendAck
<1>3. expectedDsn' = expectedDsn /\ expectedDsn \in 0..NumPkts /\ highestCumAck \in 0..NumPkts
  BY <1>1 DEF FlowInv, CoreTypes, SinkInv
<1>4. /\ highestCumAck' \in 0..NumPkts
      /\ expectedDsn' = NumPkts => highestCumAck' = NumPkts
  BY <1>2, <1>3 DEF SinkInv, FinalAckGenerated
<1> QED
  BY <1>1, <1>4 DEF SinkInv, RequestKept, FinalAckGenerated

\* Whatever the source sends of the last packet asks for an ACK.
LEMMA SourceAsks ==
  ASSUME FlowInv, SinkInv, NicSends \/ TimerFires \/ CtrlArrives
  PROVE  SinkInv'
<1>1. UNCHANGED sinkVars
  BY DEF NicSends, TimerFires, CtrlArrives
<1>2. \A q \in data' : q.dsn = Last => q.ar
  <2>1. CASE \E f \in Subflows, ar \in BOOLEAN : SendNewPacket(f, ar)
    <3>1. PICK f \in Subflows, ar \in BOOLEAN : SendNewPacket(f, ar)
      BY <2>1
    <3>2. /\ data' = data \cup {[dsn |-> highestSent, ssn |-> highestSsn[f], sf |-> f,
                                 ar |-> ar, n |-> 0, trimmed |-> FALSE]}
          /\ highestSent = Last => ar
      BY <3>1 DEF SendNewPacket, Transmit, Backlog, Last, FlowInv, CoreTypes
    <3> QED
      BY <3>2 DEF SinkInv, RequestKept
  <2>2. CASE \E d, s, f, n : Transmit(d, s, f, TRUE, n)
    BY <2>2 DEF Transmit, SinkInv, RequestKept
  <2>3. CASE data' = data
    BY <2>3 DEF SinkInv, RequestKept
  <2>4. \/ \E f \in Subflows, ar \in BOOLEAN : SendNewPacket(f, ar)
        \/ \E d, s, f, n : Transmit(d, s, f, TRUE, n)
        \/ data' = data
    <3>1. CASE NicSends
      BY <3>1, Zenon DEF NicSends, SrcSends, SendRtxPacket
    <3>2. CASE TimerFires
      BY <3>2 DEF TimerFires, RtxTimerExpired
    <3>3. CASE CtrlArrives
      <4>1. PICK c \in ctrl : SrcReceives(c)
        BY <3>3 DEF CtrlArrives
      <4>2. CASE ProcessNackAndResend(c)
        BY <4>2, Zenon DEF ProcessNackAndResend
      <4>3. CASE ProcessAck(c) \/ IgnoreNack(c) \/ ProcessNack(c)
        BY <4>3 DEF ProcessAck, IgnoreNack, ProcessNack
      <4> QED
        BY <4>1, <4>2, <4>3 DEF SrcReceives
    <3> QED
      BY <3>1, <3>2, <3>3
  <2> QED
    BY <2>1, <2>2, <2>3, <2>4
<1> QED
  BY <1>1, <1>2, SinkIdle

\* Every step keeps the invariant.
LEMMA StepSinkInv ==
  ASSUME FlowInv, SinkInv, [Next]_vars PROVE SinkInv'
<1>1. CASE NicSends \/ TimerFires \/ CtrlArrives
  BY <1>1, SourceAsks
<1>2. CASE DataArrives
  BY <1>2, ReceiveNewSink, ReceiveOtherSink DEF DataArrives, SinkReceives
<1>3. CASE FabricActs
  <2>1. UNCHANGED sinkVars
    BY <1>3 DEF FabricActs
  <2>2. \A q \in data' : q.dsn = Last => q.ar
    <3>1. CASE TrimData
      <4>1. PICK p \in data : data' = (data \ {p}) \cup {[p EXCEPT !.trimmed = TRUE]}
        BY <3>1 DEF TrimData
      <4>2. p \in DataPacket
        BY DEF FlowInv, CoreTypes
      <4>3. [p EXCEPT !.trimmed = TRUE].dsn = p.dsn /\ [p EXCEPT !.trimmed = TRUE].ar = p.ar
        BY <4>2 DEF DataPacket
      <4> QED
        BY <4>1, <4>3 DEF SinkInv, RequestKept
    <3>2. CASE DropData \/ DropCtrl
      BY <3>2 DEF DropData, DropCtrl, SinkInv, RequestKept
    <3> QED
      BY <3>1, <3>2, <1>3 DEF FabricActs, Fabric
  <2> QED
    BY <2>1, <2>2, SinkIdle
<1>4. CASE UNCHANGED flowVars
  BY <1>4, SinkIdle DEF flowVars, netVars, SinkInv, RequestKept
<1> QED
  BY <1>1, <1>2, <1>3, <1>4 DEF Next, Aborts, vars

\* Once the sink holds the whole flow it has said so in an ACK, under every
\* ACK policy and threshold: the request of the last packet outlives the
\* reorder queue the packet waited in.
THEOREM SinkSaysItHasAll == Spec => []FinalAckGenerated
<1>1. Init => SinkInv
  BY InitSinkInv
<1>2. FlowInv /\ SinkInv /\ [Next]_vars => SinkInv'
  BY StepSinkInv
<1>3. SinkInv => FinalAckGenerated
  BY DEF SinkInv
<1> QED
  BY <1>1, <1>2, <1>3, FlowInvariant, PTL DEF Spec

--------------------------------------------------------------------------
(* Types                                                                   *)

\* What the other invariants leave open of the types of a flow.
Counters ==
  /\ losses \in 0..MaxLosses
  /\ inFlight \in Int
  /\ recvdPkts \in Nat
  /\ ssnMap \in [Subflows -> SUBSET DSN]
  /\ ssnInFlight \in [Subflows -> Nat]
  /\ sinceLastAck \in [AckCounters -> Nat]

\* Floored subtraction stays a natural number.
LEMMA FloorSubType == ASSUME NEW a \in Nat, NEW b \in Nat PROVE FloorSub(a, b) \in Nat
  BY DEF FloorSub

\* All counters start at zero.
LEMMA InitCounters == Init => Counters
<1> SUFFICES ASSUME Init PROVE Counters
  OBVIOUS
<1>1. /\ losses = 0 /\ inFlight = 0 /\ recvdPkts = 0
      /\ ssnMap = [f \in Subflows |-> {}] /\ ssnInFlight = [f \in Subflows |-> 0]
      /\ sinceLastAck = [c \in AckCounters |-> 0]
  BY DEF Init, NetInit, SrcInit, SinkInit
<1>2. losses \in 0..MaxLosses
  BY <1>1, MaxLossesAssumption
<1> QED
  BY <1>1, <1>2 DEF Counters

\* A loss is counted out of both flight sizes, never below zero in a subflow.
LEMMA LossCounters ==
  ASSUME Counters, NEW d \in DSN, tx[d] \in SendRecord, MarkDsnForRtx(d),
         ReduceSsnInFlight(tx[d].sf, 1), UNCHANGED <<losses, recvdPkts, ssnMap, sinceLastAck>>
  PROVE  Counters'
<1>1. inFlight' = FloorSub(inFlight, 1)
  BY DEF MarkDsnForRtx
<1>2. inFlight' \in Int
  BY <1>1 DEF FloorSub, Counters
<1>3. ssnInFlight' = [ssnInFlight EXCEPT ![tx[d].sf] = FloorSub(@, 1)]
  BY DEF ReduceSsnInFlight
<1>4. ssnInFlight' \in [Subflows -> Nat]
  BY <1>3, FloorSubType DEF Counters
<1> QED
  BY <1>2, <1>4 DEF Counters

\* What the source sends and hears keeps its counters.
LEMMA SourceCounters ==
  ASSUME RecordsInv, Counters, NicSends \/ TimerFires \/ CtrlArrives
  PROVE  Counters'
<1>1. CoreTypes /\ sinceLastAck' = sinceLastAck
  BY DEF RecordsInv, FlowInv, NicSends, TimerFires, CtrlArrives, sinkVars
<1>2. ASSUME NEW f \in Subflows, NEW ar \in BOOLEAN, SendNewPacket(f, ar) PROVE Counters'
  <2>1. highestSsn[f] \in DSN
    BY <1>1, <1>2 DEF SendNewPacket, Backlog, CoreTypes, DSN
  <2>2. /\ inFlight' = inFlight + 1 /\ UNCHANGED <<losses, recvdPkts>>
        /\ ssnMap' = [ssnMap EXCEPT ![f] = @ \cup {highestSsn[f]}]
        /\ ssnInFlight' = [ssnInFlight EXCEPT ![f] = @ + 1]
    BY <1>2 DEF SendNewPacket
  <2>3. ssnMap' \in [Subflows -> SUBSET DSN]
    BY <2>1, <2>2 DEF Counters
  <2>4. ssnInFlight' \in [Subflows -> Nat]
    BY <2>2 DEF Counters
  <2> QED
    BY <1>1, <2>2, <2>3, <2>4 DEF Counters
<1>3. ASSUME NEW f \in Subflows, SendRtxPacket(f) PROVE Counters'
  <2>1. /\ inFlight' = inFlight + 1 /\ UNCHANGED <<losses, recvdPkts, ssnMap>>
        /\ ssnInFlight' = [ssnInFlight EXCEPT ![f] = @ + 1]
    BY <1>3 DEF SendRtxPacket
  <2>2. ssnInFlight' \in [Subflows -> Nat]
    BY <2>1 DEF Counters
  <2> QED
    BY <1>1, <2>1, <2>2 DEF Counters
<1>4. CASE NicSends
  BY <1>2, <1>3, <1>4 DEF NicSends, SrcSends
<1>5. CASE TimerFires
  <2>1. PICK e \in sendTimes : ReduceSsnInFlight(tx[e[2]].sf, 1) /\ MarkDsnForRtx(e[2])
    BY <1>5 DEF TimerFires, RtxTimerExpired
  <2>2. tx[e[2]].state = "in_flight" /\ e[2] \in DSN
    BY <2>1 DEF RecordsInv, Books, FlightOK, WithState
  <2>3. tx[e[2]] \in SendRecord
    BY <2>2, <1>1, RecordOrNot
  <2>4. UNCHANGED <<losses, recvdPkts, ssnMap>>
    BY <1>5 DEF TimerFires, RtxTimerExpired
  <2> QED
    BY <1>1, <2>1, <2>2, <2>3, <2>4, LossCounters
<1>6. ASSUME NEW a \in ctrl, ProcessAck(a) PROVE Counters'
  <2>1. a.rcvd \in Nat /\ a.sf \in Subflows
    BY <1>1, <1>6 DEF ProcessAck, CoreTypes, AckPacket, NackPacket
  <2>2. NewlyRecvd(a) \in Nat
    BY <2>1, FloorSubType DEF NewlyRecvd, Counters
  <2>3. SsnsBelow(a) \in SUBSET DSN
    BY <2>1 DEF SsnsBelow, Counters
  <2>4. Cardinality(SsnsBelow(a)) \in Nat
    BY <2>3, DsnsFinite
  <2>5. /\ inFlight' = inFlight - NewlyRecvd(a) /\ recvdPkts' = recvdPkts + NewlyRecvd(a)
        /\ ssnMap' = [ssnMap EXCEPT ![a.sf] = @ \ SsnsBelow(a)] /\ losses' = losses
        /\ ssnInFlight' = [ssnInFlight EXCEPT ![a.sf] = FloorSub(@, Cardinality(SsnsBelow(a)))]
    BY <1>6 DEF ProcessAck, ReduceSsnInFlight
  <2>6. ssnMap' \in [Subflows -> SUBSET DSN]
    BY <2>5 DEF Counters
  <2>7. ssnInFlight' \in [Subflows -> Nat]
    BY <2>4, <2>5, FloorSubType DEF Counters
  <2>8. inFlight' \in Int /\ recvdPkts' \in Nat
    BY <2>2, <2>5 DEF Counters
  <2> QED
    BY <1>1, <2>5, <2>6, <2>7, <2>8 DEF Counters
<1>7. ASSUME NEW k \in ctrl, ProcessNack(k) PROVE Counters'
  <2>1. k.type = "nack" /\ tx[k.dsn].state = "in_flight" /\ k.dsn \in DSN
    BY <1>1, <1>7 DEF ProcessNack, CoreTypes, AckPacket, NackPacket
  <2>2. tx[k.dsn] \in SendRecord
    BY <2>1, <1>1, RecordOrNot
  <2>3. /\ MarkDsnForRtx(k.dsn) /\ ReduceSsnInFlight(tx[k.dsn].sf, 1)
        /\ UNCHANGED <<losses, recvdPkts, ssnMap>>
    BY <1>7 DEF ProcessNack
  <2> QED
    BY <1>1, <2>1, <2>2, <2>3, LossCounters
<1>8. ASSUME NEW k \in ctrl, ProcessNackAndResend(k) PROVE Counters'
  <2>1. /\ inFlight' = FloorSub(inFlight, 1) + 1 /\ UNCHANGED <<losses, recvdPkts, ssnMap>>
        /\ ssnInFlight' = [ssnInFlight EXCEPT ![tx[k.dsn].sf] = FloorSub(@ + 1, 1)]
    BY <1>8 DEF ProcessNackAndResend
  <2>2. inFlight' \in Int
    BY <2>1 DEF FloorSub, Counters
  <2>3. ssnInFlight' \in [Subflows -> Nat]
    <3>1. \A n \in Nat : FloorSub(n + 1, 1) = n
      BY DEF FloorSub
    <3>2. ssnInFlight \in [Subflows -> Nat]
      BY DEF Counters
    <3> QED
      BY <3>1, <3>2, <2>1
  <2> QED
    BY <1>1, <2>1, <2>2, <2>3 DEF Counters
<1>9. ASSUME NEW k \in ctrl, IgnoreNack(k) PROVE Counters'
  BY <1>1, <1>9 DEF IgnoreNack, srcVars, Counters
<1>10. CASE CtrlArrives
  BY <1>6, <1>7, <1>8, <1>9, <1>10 DEF CtrlArrives, SrcReceives
<1> QED
  BY <1>4, <1>5, <1>10

\* Every step keeps the counters' types.
LEMMA StepCounters ==
  ASSUME RecordsInv, Counters, [Next]_vars PROVE Counters'
<1>1. CASE NicSends \/ TimerFires \/ CtrlArrives
  BY <1>1, SourceCounters
<1>2. CASE DataArrives
  <2>1. PICK p \in data : SinkReceives(p)
    BY <1>2 DEF DataArrives
  <2>2. UNCHANGED <<inFlight, recvdPkts, ssnMap, ssnInFlight>>
    BY <1>2 DEF DataArrives, srcVars
  <2>3. CounterOf(p.sf) \in AckCounters
    <3>1. p.sf \in Subflows
      BY DEF RecordsInv, FlowInv, CoreTypes, DataPacket
    <3> QED
      BY <3>1 DEF CounterOf, AckCounters
  <2>4. /\ losses' = losses
        /\ \/ sinceLastAck' = [sinceLastAck EXCEPT ![CounterOf(p.sf)] = 0]
           \/ sinceLastAck' = [sinceLastAck EXCEPT ![CounterOf(p.sf)] = @ + 1]
           \/ sinceLastAck' = sinceLastAck
    <3>1. CASE \E ce, pathEnd \in BOOLEAN : ReceiveNew(p, ce, pathEnd)
      BY <3>1 DEF ReceiveNew, ResetAckCounter
    <3>2. CASE \E ce \in BOOLEAN : ReceiveDuplicate(p, ce)
      BY <3>2 DEF ReceiveDuplicate, ResetAckCounter
    <3>3. CASE ReceiveTrimmedDuplicate(p) \/ ReceiveTrimmed(p)
      BY <3>3 DEF ReceiveTrimmedDuplicate, ReceiveTrimmed
    <3> QED
      BY <2>1, <3>1, <3>2, <3>3 DEF SinkReceives
  <2>5. sinceLastAck' \in [AckCounters -> Nat]
    <3> HIDE DEF CounterOf, AckCounters
    <3> QED
      BY <2>3, <2>4 DEF Counters
  <2> QED
    BY <2>2, <2>4, <2>5 DEF Counters
<1>3. CASE FabricActs
  <2>1. UNCHANGED <<inFlight, recvdPkts, ssnMap, ssnInFlight, sinceLastAck>>
    BY <1>3 DEF FabricActs, srcVars, sinkVars
  <2>2. losses < MaxLosses /\ losses' = losses + 1
    BY <1>3 DEF FabricActs, Fabric, DropData, DropCtrl, TrimData
  <2>3. losses' \in 0..MaxLosses
    BY <2>2, MaxLossesAssumption DEF Counters
  <2> QED
    BY <2>1, <2>3 DEF Counters
<1>4. CASE UNCHANGED flowVars
  BY <1>4 DEF flowVars, netVars, srcVars, sinkVars, Counters
<1> QED
  BY <1>1, <1>2, <1>3, <1>4 DEF Next, Aborts, vars

\* A flow is well typed: send times lie in the past and belong to its packets,
\* the timer is one of them, and no count of packets is ever negative but
\* _in_flight, from which the code subtracts without a floor.
THEOREM FlowTypeCorrect == Spec => []TypeOK
<1>1. RecordsInv /\ SsnInv /\ SinkInv /\ Counters /\ aborted \in BOOLEAN => TypeOK
  <2> SUFFICES ASSUME RecordsInv, SsnInv, SinkInv, Counters, aborted \in BOOLEAN PROVE TypeOK
    OBVIOUS
  <2>1. CoreTypes /\ Books /\ FlightOK(tx, sendTimes, rto, now) /\ QueuesOK(tx, rtxQueue)
    BY DEF RecordsInv, FlowInv, Books
  <2>2. NetTypeOK
    BY <2>1 DEF NetTypeOK, CoreTypes, Counters
  <2>3. sendTimes \subseteq (1..now) \X DSN /\ rto \in 0..now
    <3>1. rto \in 0..now
      BY <2>1, TimesAreSends DEF CoreTypes
    <3>2. sendTimes \subseteq (1..now) \X DSN
      BY <2>1 DEF FlightOK, WithState
    <3> QED
      BY <3>1, <3>2
  <2>4. pendingRtx \in Nat
    <3>1. Cardinality(Pending(tx)) \in Nat
      BY DsnsFinite DEF Pending, WithState
    <3> QED
      BY <3>1, <2>1 DEF Books
  <2>5. rtxQueue \in [Subflows -> Seq(DSN)]
    BY <2>1 DEF QueuesOK
  <2>6. SrcTypeOK
    BY <2>1, <2>3, <2>4, <2>5 DEF SrcTypeOK, CoreTypes, Counters
  <2>7. oooCount \in Nat /\ dsnRx \subseteq DSN
    <3>1. dsnRx \in SUBSET DSN
      BY <2>1 DEF CoreTypes
    <3> QED
      BY <3>1, DsnsFinite DEF SinkInv
  <2>8. SinkTypeOK
    BY <2>1, <2>7 DEF SinkTypeOK, CoreTypes, Counters, SsnInv, SinkInv
  <2> QED
    BY <2>2, <2>6, <2>8 DEF TypeOK
<1>2. Init => SinkInv /\ SsnInv /\ Counters /\ aborted \in BOOLEAN
  BY InitSinkInv, InitSsnInv, InitCounters DEF Init
<1>3. RecordsInv /\ SinkInv /\ [Next]_vars => SinkInv'
  BY StepSinkInv DEF RecordsInv
<1>4. RecordsInv /\ SsnInv /\ [Next]_vars => SsnInv'
  BY StepSsnInv
<1>5. RecordsInv /\ Counters /\ [Next]_vars => Counters'
  BY StepCounters
<1>6. aborted \in BOOLEAN /\ [Next]_vars => (aborted \in BOOLEAN)'
  BY DEF Next, NicSends, TimerFires, CtrlArrives, DataArrives, FabricActs, Running, Aborts, vars
<1> QED
  BY <1>1, <1>2, <1>3, <1>4, <1>5, <1>6, RecordsInvariant, PTL DEF Spec
==========================================================================
