----------------------------- MODULE SingSink -----------------------------
(***************************************************************************)
(* The receiving end of a SING flow: SingSink with its SingSubflowSinks.   *)
(* It tracks received packets in two sequence spaces at once - the DSN of  *)
(* the connection and the SSN of the subflow a packet came through - and   *)
(* decides when to answer with an ACK or a NACK.                           *)
(***************************************************************************)
EXTENDS SingNetwork

VARIABLES
  expectedDsn,   \* every DSN below it has been received
  dsnRx,         \* _dsn_rx_bitmap: DSNs received above a hole
  oooCount,      \* _out_of_order_count
  ackRequest,    \* _ack_request: ACK once more when the reorder queue drains
  sinceLastAck,  \* _bytes_since_last_ack, of the connection or per subflow
  rcvdPkts,      \* _recvd_bytes
  expectedSsn,   \* per subflow: every SSN below it has been received
  ssnRx,         \* per subflow: _ssn_rx_bitmap
  highestCumAck  \* history: the highest next_expected_dsn sent in an ACK

sinkVars == <<expectedDsn, dsnRx, oooCount, ackRequest, sinceLastAck,
              rcvdPkts, expectedSsn, ssnRx, highestCumAck>>

AckCounters == IF AckTrigger = "GLOBAL" THEN {"connection"} ELSE Subflows
CounterOf(f) == IF AckTrigger = "GLOBAL" THEN "connection" ELSE f

SinkTypeOK ==
  /\ expectedDsn \in 0..NumPkts
  /\ dsnRx \subseteq DSN
  /\ oooCount \in Nat
  /\ ackRequest \in BOOLEAN
  /\ sinceLastAck \in [AckCounters -> Nat]
  /\ rcvdPkts \in Nat
  /\ expectedSsn \in [Subflows -> 0..NumPkts]
  /\ ssnRx \in [Subflows -> SUBSET DSN]
  /\ highestCumAck \in 0..NumPkts

SinkInit ==
  /\ expectedDsn = 0
  /\ dsnRx = {}
  /\ oooCount = 0
  /\ ackRequest = FALSE
  /\ sinceLastAck = [c \in AckCounters |-> 0]
  /\ rcvdPkts = 0
  /\ expectedSsn = [f \in Subflows |-> 0]
  /\ ssnRx = [f \in Subflows |-> {}]
  /\ highestCumAck = 0

\* The test of SingSink::processData for a packet it already has.
IsReceived(d) == d < expectedDsn \/ d \in dsnRx
Received == {d \in DSN : IsReceived(d)}

--------------------------------------------------------------------------
(* Acknowledgements                                                        *)

\* sackBitmapBase: the bitmap ends at dsn unless that would reach back into
\* what the cumulative ACK covers. e is _expected_dsn at the time of the call.
SackBase(d, e) == IF d - (SackBits - 1) > e + 1 THEN d - (SackBits - 1) ELSE e + 1

\* A slip: bit i of the bitmap is taken for base + i + 1.
ShiftedAck(base, f) ==
  [type |-> "ack", cum |-> expectedDsn',
   sack |-> {d \in DSN : d - 1 \in dsnRx' /\ base < d /\ d <= base + SackBits},
   rcvd |-> rcvdPkts', ssn |-> expectedSsn'[f], sf |-> f]

\* makeAck, called after the receive state was updated, hence the primes.
MakeAck(base, f) ==
  [type |-> "ack", cum |-> expectedDsn',
   sack |-> {d \in dsnRx' : base <= d /\ d < base + SackBits},
   rcvd |-> rcvdPkts', ssn |-> expectedSsn'[f], sf |-> f]

SendAck(base, f) ==
  /\ ctrl' = ctrl \cup {MakeAck(base, f)}
  /\ highestCumAck' = IF expectedDsn' > highestCumAck THEN expectedDsn' ELSE highestCumAck

ResetAckCounter(f) == sinceLastAck' = [sinceLastAck EXCEPT ![CounterOf(f)] = 0]

--------------------------------------------------------------------------
(* New data                                                                *)

\* A slip: a packet out of SSN order is not remembered.
SubflowSkipsOutOfOrder(f, s) ==
  /\ expectedSsn' = [expectedSsn EXCEPT ![f] = IF s = @ THEN s + 1 ELSE @]
  /\ UNCHANGED ssnRx

\* SingSubflowSink::processData: advance over everything contiguous.
SubflowProcessData(f, s) ==
  IF s = expectedSsn[f]
  THEN \E e \in s+1..NumPkts :
         /\ \A x \in s+1..e-1 : x \in ssnRx[f]
         /\ e \notin ssnRx[f]
         /\ expectedSsn' = [expectedSsn EXCEPT ![f] = e]
         /\ ssnRx' = [ssnRx EXCEPT ![f] = {x \in @ : x > e}]
  ELSE /\ ssnRx' = [ssnRx EXCEPT ![f] = IF s > expectedSsn[f] THEN @ \cup {s} ELSE @]
       /\ UNCHANGED expectedSsn

\* updateOooState, the receive state: the packet that fills the first hole
\* drains every packet behind it.
UpdateOooState(d) ==
  IF d = expectedDsn
  THEN \E e \in d+1..NumPkts :
         /\ \A x \in d+1..e-1 : x \in dsnRx
         /\ e \notin dsnRx
         /\ expectedDsn' = e
         /\ dsnRx' = {x \in dsnRx : x > e}
         /\ oooCount' = oooCount - (e - (d + 1))
  ELSE /\ dsnRx' = dsnRx \cup {d}
       /\ oooCount' = oooCount + 1
       /\ UNCHANGED expectedDsn

\* A slip: the request of an earlier packet is forgotten.
AsksItself(p) == p.ar

\* An ACK was asked for, by this packet or by one still behind a hole.
AckIsWanted(p) == ackRequest \/ p.ar

\* processData for a packet the sink does not have yet. ce is the ECN mark,
\* pathEnd the path_sel_end flag; only the legacy policy reacts to them.
ReceiveNew(p, ce, pathEnd) ==
  LET f == p.sf
      drained == p.dsn = expectedDsn /\ oooCount' = 0
      force == \/ rcvdPkts = 0
               \/ p.ar
               \/ AckMode = "LEGACY" /\ pathEnd
               \/ drained /\ AckIsWanted(p)
      counted == sinceLastAck[CounterOf(f)] + 1
      ackDue == \/ AckMode = "LEGACY" /\ ce
                \/ counted >= AckThreshold
                \/ force
      base == IF p.ar \/ (AckMode = "LEGACY" /\ ce) THEN p.dsn
              ELSE SackBase(p.dsn, expectedDsn')
  IN /\ pathEnd => Cardinality(Subflows) = 1  \* path-wise packets carry no path_sel_end
     /\ ~p.trimmed
     /\ ~IsReceived(p.dsn)
     /\ data' = data \ {p}
     /\ rcvdPkts' = rcvdPkts + 1
     /\ SubflowProcessData(f, p.ssn)
     /\ UpdateOooState(p.dsn)
     /\ ackRequest' = (AckIsWanted(p) /\ ~drained)
     /\ IF ackDue
        THEN SendAck(base, f) /\ ResetAckCounter(f)
        ELSE /\ sinceLastAck' = [sinceLastAck EXCEPT ![CounterOf(f)] = counted]
             /\ UNCHANGED <<ctrl, highestCumAck>>
     /\ UNCHANGED losses

--------------------------------------------------------------------------
(* Packets the sink already has, and trimmed packets                       *)

ReceiveStateUnchanged ==
  UNCHANGED <<expectedDsn, dsnRx, oooCount, ackRequest, rcvdPkts, expectedSsn, ssnRx>>

\* processData, stage 2: a duplicate is answered at once.
ReceiveDuplicate(p, ce) ==
  /\ ~p.trimmed
  /\ IsReceived(p.dsn)
  /\ data' = data \ {p}
  /\ ReceiveStateUnchanged
  /\ SendAck(IF AckMode = "LEGACY" /\ ce THEN p.dsn ELSE SackBase(p.dsn, expectedDsn), p.sf)
  /\ ResetAckCounter(p.sf)
  /\ UNCHANGED losses

\* handleDuplicateTrimmed: only the header came, but the sink has the packet.
ReceiveTrimmedDuplicate(p) ==
  /\ p.trimmed
  /\ IsReceived(p.dsn)
  /\ data' = data \ {p}
  /\ ReceiveStateUnchanged
  /\ SendAck(SackBase(p.dsn, expectedDsn), p.sf)
  /\ UNCHANGED <<sinceLastAck, losses>>

\* processTrimmed: ask for the packet again.
ReceiveTrimmed(p) ==
  /\ p.trimmed
  /\ ~IsReceived(p.dsn)
  /\ data' = data \ {p}
  /\ ctrl' = ctrl \cup {[type |-> "nack", dsn |-> p.dsn, n |-> p.n]}
  /\ ReceiveStateUnchanged
  /\ UNCHANGED <<sinceLastAck, highestCumAck, losses>>

SinkReceives(p) ==
  \/ \E ce, pathEnd \in BOOLEAN : ReceiveNew(p, ce, pathEnd)
  \/ \E ce \in BOOLEAN : ReceiveDuplicate(p, ce)
  \/ ReceiveTrimmedDuplicate(p)
  \/ ReceiveTrimmed(p)
==========================================================================
