--------------------------- MODULE SingNetwork ---------------------------
(***************************************************************************)
(* What travels between a SING source and its sink, and what the fabric    *)
(* between them may do to it.                                              *)
(*                                                                         *)
(* Sizes are abstracted to one unit per data packet: the byte counters of  *)
(* the code (_in_flight, _recvd_bytes, _backlog, ...) count packets here.  *)
(* The spraying fabric delivers in any order, so both directions are sets. *)
(* A set is enough: a data packet is identified by its DSN and by how many *)
(* times that DSN had been retransmitted, a NACK by the packet that caused *)
(* it, and a second ACK with the same contents changes nothing.            *)
(***************************************************************************)
EXTENDS Integers, Sequences, FiniteSets

CONSTANTS
  NumPkts,      \* packets of the flow: ceil(_flow_size / _mss)
  Subflows,     \* one subflow (native load balancing) or several (path-wise)
  AckMode,      \* "LEGACY" or "ACKAGG" (the REPS and the bitmap aggregating policies)
  AckTrigger,   \* "GLOBAL" or "PER_SUBFLOW": which counter the ACK threshold looks at
  AckThreshold, \* _bytes_unacked_threshold, in packets
  SackBits,     \* width of the SACK bitmap: 64 in the code
  MaxLosses     \* bound: packets the fabric may drop or trim in a behaviour

ASSUME NumPktsAssumption == NumPkts \in Nat \ {0}
ASSUME SackBitsAssumption == SackBits \in Nat \ {0}
ASSUME AckAssumption == /\ AckMode \in {"LEGACY", "ACKAGG"}
                        /\ AckTrigger \in {"GLOBAL", "PER_SUBFLOW"}
                        /\ AckThreshold \in Nat \ {0}
ASSUME SubflowsAssumption == Subflows # {} /\ IsFiniteSet(Subflows)
ASSUME MaxLossesAssumption == MaxLosses \in Nat

DSN == 0..NumPkts - 1

\* Fields of SingDataPacket that the protocol reads; n distinguishes the
\* transmissions of one DSN. trimmed is header_only(), ce the ECN mark.
DataPacket ==
  [dsn: DSN, ssn: DSN, sf: Subflows, ar: BOOLEAN, n: Nat, trimmed: BOOLEAN]

\* SingAck: next_expected_dsn, the DSNs whose SACK bit is set, recvd_bytes,
\* next_expected_ssn of one subflow.
AckPacket ==
  [type: {"ack"}, cum: 0..NumPkts, sack: SUBSET DSN, rcvd: Nat,
   ssn: Nat, sf: Subflows]

\* SingNack: ref_dsn; n is the transmission that was trimmed.
NackPacket == [type: {"nack"}, dsn: DSN, n: Nat]

VARIABLES
  data,    \* data packets on their way to the sink
  ctrl,    \* ACKs and NACKs on their way to the source
  losses   \* packets dropped or trimmed so far

netVars == <<data, ctrl, losses>>

NetTypeOK ==
  /\ data \subseteq DataPacket
  /\ ctrl \subseteq (AckPacket \cup NackPacket)
  /\ losses \in 0..MaxLosses

NetInit == data = {} /\ ctrl = {} /\ losses = 0

\* A full queue drops a packet of either direction.
DropData == /\ losses < MaxLosses
            /\ \E p \in data : data' = data \ {p}
            /\ losses' = losses + 1
            /\ UNCHANGED ctrl

DropCtrl == /\ losses < MaxLosses
            /\ \E c \in ctrl : ctrl' = ctrl \ {c}
            /\ losses' = losses + 1
            /\ UNCHANGED data

\* A full queue with trimming enabled strips the payload; the header goes on.
TrimData == /\ losses < MaxLosses
            /\ \E p \in data : /\ ~p.trimmed
                               /\ data' = (data \ {p}) \cup {[p EXCEPT !.trimmed = TRUE]}
            /\ losses' = losses + 1
            /\ UNCHANGED ctrl

Fabric == DropData \/ DropCtrl \/ TrimData
==========================================================================
