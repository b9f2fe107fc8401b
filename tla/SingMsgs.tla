------------------------------ MODULE SingMsgs ------------------------------
(***************************************************************************)
(* Messages over one connection.  SingPdcSes moves a message through its   *)
(* queues: scheduled or triggered, eligible, in flight, complete.  It cuts *)
(* messages into packets when the source sends, and hears of packets that  *)
(* the sink receives and of ACKs the source handles.  When a message is    *)
(* sent or received, a trigger may make another one eligible.              *)
(*                                                                         *)
(* The transport below is reduced to what the tracker sees of it: packets  *)
(* arrive in any order and as late as it takes, and ACKs report any part   *)
(* of what was received.  Packet d has the DSN d - 1.                      *)
(***************************************************************************)
EXTENDS Naturals, Sequences, FiniteSets, SequencesExt

CONSTANTS
  NumMsgs,
  Size,        \* the bytes of each message
  Scheduled,   \* the messages with a start time; the others have a trigger
  After,       \* the message and the status that triggers; message 0 is elsewhere
  Mss, Hdr

Msgs == 1 .. NumMsgs

ASSUME MsgsAssumption ==
  /\ {NumMsgs, Mss, Hdr} \subseteq Nat \ {0}
  /\ Size \in [Msgs -> Nat \ {0}]
  /\ Scheduled \subseteq Msgs
  /\ After \in [Msgs -> [msg : 0 .. NumMsgs, status : {"SentLast", "RecvdLast"}]]

VARIABLES
  status, sent, recvd, acked,   \* per message: _state and the byte counts
  notrecvd, notacked,           \* per message: _sent_pkt_notrecvd, _sent_pkt_notacked
  scheduled, triggered, eligible, inFlight, cur, complete,   \* the queues
  bytes,       \* the tracker's packet byte counters
  packets,     \* the message and size of every packet sent, by DSN
  seqToMsg,    \* the packets _seq_to_msg still holds
  conn,        \* of the source: _backlog, _done_sending, and whether it started
  tracked,     \* of the source: the packets in _tx_bitmap
  received,    \* the packets the sink has
  fired,       \* triggers that are pending
  stopped      \* an assertion of checkFinished has failed

msgVars == <<status, sent, recvd, acked, notrecvd, notacked>>
queueVars == <<scheduled, triggered, eligible, inFlight, cur, complete>>
tpVars == <<tracked, received>>
vars == <<msgVars, queueVars, bytes, packets, seqToMsg, conn, tpVars, fired, stopped>>

None == 0

\* A slip: the last, partial packet has no header.
PacketedFloor(size) == (size \div Mss) * Hdr + size
\* calc_packeted_size
Packeted(size) == ((size + Mss - 1) \div Mss) * Hdr + size
SumUpTo(n, w) ==
  LET upTo[k \in 0 .. n] == IF k = 0 THEN 0 ELSE upTo[k - 1] + w[k]
  IN upTo[n]
PacketedSum(ms) ==
  SumUpTo(NumMsgs, [m \in Msgs |-> IF m \in ms THEN Packeted(Size[m]) ELSE 0])
Rank(ms, m) == Cardinality({a \in ms : a <= m})
InIdOrder(ms) == [k \in 1 .. Cardinality(ms) |-> CHOOSE m \in ms : Rank(ms, m) = k]

Init ==
  /\ status = [m \in Msgs |-> "Init"]
  /\ sent = [m \in Msgs |-> 0] /\ recvd = sent /\ acked = sent
  /\ notrecvd = [m \in Msgs |-> {}] /\ notacked = notrecvd
  /\ scheduled = Scheduled /\ triggered = Msgs \ Scheduled
  /\ eligible = <<>> /\ inFlight = {} /\ cur = None /\ complete = 0
  /\ bytes = [scheduled |-> PacketedSum(Scheduled), triggered |-> PacketedSum(Msgs \ Scheduled),
              eligible |-> 0, sent |-> 0, recvd |-> 0, acked |-> 0]
  /\ packets = <<>> /\ seqToMsg = {}
  /\ conn = [started |-> FALSE, done |-> FALSE, backlog |-> 0]
  /\ tracked = {} /\ received = {}
  /\ fired = <<>> /\ stopped = FALSE

\* Pending triggers run before the next event.
Quiet == ~stopped /\ fired = <<>>

--------------------------------------------------------------------------
(* Messages become eligible                                                *)

\* A slip: a connection that is sending does not hear of more.
BacklogOfIdle(c, size) == IF c.backlog > 0 THEN c ELSE [c EXCEPT !.backlog = @ + size]
\* addToBacklog
Backlog(c, size) == [c EXCEPT !.backlog = @ + size, !.done = FALSE]

\* schedule_connection: the connection starts, continues, or goes on.
ScheduleConnection(size) == conn' = [Backlog(conn, size) EXCEPT !.started = TRUE]

\* SingPdcSes::doNextEvent, with the messages that are due at one time.
MessagesDue(ms) ==
  /\ Quiet
  /\ eligible' = eligible \o InIdOrder(ms)
  /\ scheduled' = scheduled \ ms
  /\ bytes' = [bytes EXCEPT !.eligible = @ + PacketedSum(ms),
                            !.scheduled = @ - PacketedSum(ms)]
  /\ ScheduleConnection(PacketedSum(ms))
  /\ UNCHANGED <<msgVars, triggered, inFlight, cur, complete, packets, seqToMsg,
                 tpVars, fired, stopped>>

MakeMsgEligible(m) ==
  /\ m \in triggered
  /\ eligible' = Append(eligible, m)
  /\ triggered' = triggered \ {m}
  /\ bytes' = [bytes EXCEPT !.eligible = @ + Packeted(Size[m]),
                            !.triggered = @ - Packeted(Size[m])]
  /\ ScheduleConnection(Packeted(Size[m]))
  /\ UNCHANGED <<msgVars, scheduled, inFlight, cur, complete, packets, seqToMsg,
                 tpVars, stopped>>

\* SingMsg::activate, for a trigger of this connection, the last one first, or
\* of another one.
Activate ==
  /\ ~stopped /\ fired # <<>>
  /\ MakeMsgEligible(Last(fired))
  /\ fired' = Front(fired)
TriggeredElsewhere(m) ==
  /\ Quiet /\ After[m].msg = 0
  /\ MakeMsgEligible(m)
  /\ UNCHANGED fired

--------------------------------------------------------------------------
(* Sending                                                                 *)

\* A slip: nothing is triggered before a message is finished.
FireLate(m, st) ==
  IF st # "Finished" THEN <<>>
  ELSE InIdOrder({w \in triggered : After[w].msg = m})
\* set_status fires the triggers of the new status.
Fires(m, st) == InIdOrder({w \in triggered : After[w] = [msg |-> m, status |-> st]})

\* The message to send from, and the queue without it.
Sending == IF cur # None THEN cur ELSE Head(eligible)
\* A slip: the message stays in the queue.
RestStays == eligible
Rest == IF cur # None THEN eligible ELSE Tail(eligible)
\* A slip: messages take turns.
TakeTurns(m, isLast) == [cur |-> None, eligible |-> IF isLast THEN Rest ELSE Append(Rest, m)]
\* A message is sent to its end before the next one.
AfterSending(m, isLast) == [cur |-> IF isLast THEN None ELSE m, eligible |-> Rest]

Segment(left) == IF left < Mss THEN left ELSE Mss

\* sendNewPacket with getNextPacket and getNextSegment.
SendNewPacket ==
  /\ Quiet /\ conn.started /\ conn.backlog > 0
  /\ cur # None \/ eligible # <<>>
  /\ \E m \in Msgs :
     LET d == Len(packets) + 1
         left == Size[m] - sent[m]
         segment == Segment(left)
         isLast == segment = left
     IN /\ m = Sending
        /\ packets' = Append(packets, [msg |-> m, size |-> segment])
        /\ sent' = [sent EXCEPT ![m] = @ + segment]
        /\ notrecvd' = [notrecvd EXCEPT ![m] = @ \cup {d}]
        /\ status' = [status EXCEPT ![m] = IF isLast THEN "SentLast" ELSE "SentFirst"]
        /\ fired' = IF isLast THEN Fires(m, "SentLast") ELSE fired
        /\ inFlight' = inFlight \cup {m}
        /\ eligible' = AfterSending(m, isLast).eligible
        /\ cur' = AfterSending(m, isLast).cur
        /\ seqToMsg' = seqToMsg \cup {d} /\ tracked' = tracked \cup {d}
        /\ bytes' = [bytes EXCEPT !.sent = @ + segment + Hdr]
        /\ conn' = [conn EXCEPT !.backlog = @ - (segment + Hdr)]
  /\ UNCHANGED <<recvd, acked, notacked, scheduled, triggered, complete, received, stopped>>

--------------------------------------------------------------------------
(* Packets arrive, ACKs come back                                          *)

\* A slip: the packet with the last sequence number tells.
LastOfMsg(m, d) == sent[m] = Size[m] /\ \A e \in DOMAIN packets : packets[e].msg = m => e <= d
\* The last bytes of a message, in whatever order they come.
IsWhole(m, d) == recvd[m] + packets[d].size = Size[m]

\* The sink takes a new packet: addRecvd.
Arrive(d) ==
  /\ Quiet /\ d \notin received
  /\ received' = received \cup {d}
  /\ LET m == packets[d].msg
         last == IsWhole(m, d)
     IN IF d \in seqToMsg /\ d \in notrecvd[m]
        THEN /\ notrecvd' = [notrecvd EXCEPT ![m] = @ \ {d}]
             /\ notacked' = [notacked EXCEPT ![m] = @ \cup {d}]
             /\ recvd' = [recvd EXCEPT ![m] = @ + packets[d].size]
             /\ bytes' = [bytes EXCEPT !.recvd = @ + packets[d].size + Hdr]
             /\ status' = IF last THEN [status EXCEPT ![m] = "RecvdLast"] ELSE status
             /\ fired' = IF last THEN Fires(m, "RecvdLast") ELSE fired
        ELSE UNCHANGED <<notrecvd, notacked, recvd, bytes, status, fired>>
  /\ UNCHANGED <<sent, acked, queueVars, packets, seqToMsg, conn, tracked, stopped>>

\* What a cumulative ACK may say, and what the newest one says.
Cumulative(cum) == \A d \in 1 .. cum - 1 : d \in received
NextExpected == CHOOSE d \in 1 .. Len(packets) + 1 : d \notin received /\ Cumulative(d)

\* A slip: the message does not hear of the packets of the bitmap.
SackedOnly(cum, sacks) == {d \in seqToMsg : d < cum}
\* The packets an ACK confirms: addCumAck below cum, and addSAck for those of
\* the bitmap the source still has a record of.
Confirmed(cum, sacks) == {d \in seqToMsg : d < cum \/ d \in sacks \cap tracked}

\* addAck counts a packet that the sink has and that was not acked before.
NewlyAcked(cum, sacks) == {d \in Confirmed(cum, sacks) : d \in notacked[packets[d].msg]}
\* A slip: next_expected_dsn is taken for the last packet received.
TrackedAfterCum(cum, sacks) == {d \in tracked : d > cum /\ d \notin sacks}
\* handleCumulativeAck and handleAckno
TrackedAfter(cum, sacks) == {d \in tracked : d >= cum /\ d \notin sacks}

BytesIn(ds) ==
  SumUpTo(Len(packets), [d \in DOMAIN packets |-> IF d \in ds THEN packets[d].size ELSE 0])

\* processAck: addCumAck, addSAck, then checkFinished.
ProcessAck(cum, sacks) ==
  /\ Quiet
  /\ \E new \in {NewlyAcked(cum, sacks)} :
     LET Of(m) == {d \in new : packets[d].msg = m}
         ended == {m \in inFlight : Of(m) # {} /\ acked[m] + BytesIn(Of(m)) = Size[m]}
     IN /\ notacked' = [m \in Msgs |-> notacked[m] \ new]
        /\ acked' = [m \in Msgs |-> acked[m] + BytesIn(Of(m))]
        /\ status' = [m \in Msgs |-> IF m \in ended THEN "Finished" ELSE status[m]]
        /\ inFlight' = inFlight \ ended
        /\ complete' = complete + Cardinality(ended)
        /\ bytes' = [bytes EXCEPT !.acked = @ + BytesIn(new) + Hdr * Cardinality(new)]
        /\ seqToMsg' = seqToMsg \ (new \cup (sacks \cap tracked))
  /\ tracked' = TrackedAfter(cum, sacks)
  /\ conn' = [conn EXCEPT !.done = bytes'.acked = bytes'.eligible]
  /\ stopped' = (~conn.done /\ conn'.done /\ complete' # NumMsgs)
  /\ UNCHANGED <<sent, recvd, notrecvd, scheduled, triggered, eligible, cur,
                 packets, received, fired>>

\* The sink's ACKs, however old; one that tells nothing new changes nothing.
AnyAck ==
  /\ received # {}
  /\ \E cum \in 1 .. Len(packets) + 1 :
       /\ Cumulative(cum)
       /\ \E sacks \in SUBSET {d \in received : d >= cum} : ProcessAck(cum, sacks)
FullAck ==
  /\ received \cap tracked # {}
  /\ ProcessAck(NextExpected, {d \in received : d >= NextExpected})

Arrivals == \E d \in 1 .. Len(packets) : Arrive(d)
Starts == \/ \E ms \in SUBSET scheduled \ {{}} : MessagesDue(ms)
          \/ \E m \in triggered : TriggeredElsewhere(m)
Next == Starts \/ Activate \/ SendNewPacket \/ Arrivals \/ AnyAck

Spec == Init /\ [][Next]_vars
\* Triggers run, the NIC serves a connection with a backlog, and what was sent
\* arrives in the end and is reported.
FairSpec ==
  /\ Spec
  /\ WF_vars(Activate) /\ WF_vars(SendNewPacket) /\ WF_vars(Arrivals) /\ WF_vars(FullAck)

--------------------------------------------------------------------------
(* Properties                                                              *)

\* The source's backlog is what the tracker still has to cut into packets.
\* The two are counted apart: one by message from the rounded-up number of
\* packets, the other packet by packet.  Beyond it, sendNewPacket would find a
\* backlog and no packet; short of it, a message would never be sent whole.
BacklogIsUnsent ==
  /\ conn.backlog + bytes.sent = bytes.eligible
  /\ bytes.scheduled + bytes.triggered + bytes.eligible = PacketedSum(Msgs)
  /\ conn.backlog = 0 <=> cur = None /\ eligible = <<>>

\* The order of sending, receiving and ACK: the source never counts more than
\* the sink took, and a message changes its status when the last byte does.
StatusFollowsBytes ==
  /\ bytes.acked <= bytes.recvd /\ bytes.recvd <= bytes.sent
  /\ \A m \in Msgs :
       /\ status[m] \in {"SentLast", "RecvdLast", "Finished"} <=> sent[m] = Size[m]
       /\ status[m] \in {"RecvdLast", "Finished"} <=> recvd[m] = Size[m]
       /\ status[m] = "Finished" <=> acked[m] = Size[m]

\* A message is in one queue at a time, and completes once.
OneQueueEach ==
  /\ \A m \in Msgs :
       Cardinality({k \in 1 .. 5 :
         \/ k = 1 /\ m \in scheduled
         \/ k = 2 /\ m \in triggered
         \/ k = 3 /\ m \in ToSet(eligible)
         \/ k = 4 /\ m \in inFlight
         \/ k = 5 /\ status[m] = "Finished"}) = 1
  /\ complete = Cardinality({m \in Msgs : status[m] = "Finished"})
  /\ IsInjective(eligible)

\* The assertions of checkFinished and checkDoneSending on what the byte
\* counters say of the queues.
CountersTellQueues ==
  /\ bytes.acked = bytes.eligible <=> inFlight = {} /\ eligible = <<>>
  /\ bytes.sent = bytes.eligible => eligible = <<>> /\ cur = None

\* The tracker and the source forget a packet at the same ACK.
TrackerAgreesWithSource == seqToMsg = tracked

\* getMsgSeq reports a message as a range of sequence numbers: its packets have
\* no packet of another message between them.
MessagesAreContiguous ==
  \A d, e \in DOMAIN packets :
    packets[d].msg = packets[e].msg =>
      \A k \in d .. e : packets[k].msg = packets[d].msg

\* A connection that stops at the assertion waits for a message from outside:
\* a message that follows one of its own is eligible before the ACK that would
\* find nothing left to do.
ChainsGoOn ==
  stopped => \E m \in scheduled \cup triggered : m \in Scheduled \/ After[m].msg = 0

\* No message waits for itself: among any messages, one is scheduled, is
\* triggered from outside, or follows a message that is not one of them.
Acyclic == \A S \in SUBSET Msgs : S # {} => \E m \in S : m \in Scheduled \/ After[m].msg \notin S

\* A message that has become eligible finishes, unless the program stops at the
\* assertion of checkFinished.
EligibleFinishes ==
  \A m \in Msgs : m \in ToSet(eligible) ~> (status[m] = "Finished" \/ stopped)

\* checkFinished can say that the connection is done for now while messages
\* are still scheduled or wait for a trigger.
DoneForNow == ~stopped
=============================================================================
