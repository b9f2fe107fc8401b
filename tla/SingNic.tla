------------------------------ MODULE SingNic ------------------------------
(***************************************************************************)
(* The NIC of a host.  It has one port, a queue of control packets with    *)
(* absolute priority, and a schedule of subflows ordered by the time they  *)
(* may send next.  Three things make it look at its queues: the port that  *)
(* becomes free, an event of its own, and calls of sources and sinks; none *)
(* of them polls, so a missed one would leave the host silent.             *)
(*                                                                         *)
(* All times are relative to now and count down; a time that is over stays *)
(* 0, which keeps the order of the schedule.                               *)
(***************************************************************************)
EXTENDS Integers, FiniteSets, SequencesExt

CONSTANTS
  Sources,
  SubflowsOf,     \* the subflows of each source, in their order
  Gaps,           \* what computeNextSendTime may return for a packet
  BaseRtt,        \* _base_rtt
  SendTime,       \* how long a packet occupies the port
  MaxUnack,       \* _max_unack_window in packets; 0 is unlimited
  NumPkts,        \* bound: the packets of each source
  MaxControl,     \* bound: control packets handed to the NIC
  MaxLosses       \* bound: packets taken for lost

Subflows == UNION {ToSet(SubflowsOf[s]) : s \in Sources}

\* A subflow is one object of one source. An interval is at least 100 ps, and a base RTT of 0 would make scheduleNext
\* register a subflow for now and call itself.
ASSUME NicAssumption ==
  /\ SubflowsOf \in [Sources -> Seq(Subflows) \ {<<>>}]
  /\ \A s, t \in Sources : \A j \in DOMAIN SubflowsOf[s], k \in DOMAIN SubflowsOf[t] :
       SubflowsOf[s][j] = SubflowsOf[t][k] => s = t /\ j = k
  /\ Gaps \subseteq Nat \ {0} /\ Gaps # {}
  /\ {BaseRtt, SendTime} \subseteq Nat \ {0}
  /\ NumPkts \in [Sources -> Nat \ {0}]
  /\ {MaxUnack, MaxControl, MaxLosses} \subseteq Nat

VARIABLES
  schedule,   \* _data_schedule_queue
  wakeups,    \* when events of the NIC are pending
  control,    \* the length of _control
  port,       \* Idle, or the time until _send_end_time
  started,    \* the sources that have started
  backlog,    \* per source: packets never sent
  inFlight,   \* per subflow: packets sent and not answered
  rtx,        \* per subflow: the length of _rtx_dsn_queue
  unacked,    \* per source: _in_flight, which the window limits
  counted,    \* per source: _recvd_bytes, what ACKs have counted as received
  budget      \* bound: control packets and losses still to come

nicVars == <<schedule, wakeups, control, port>>
vars == <<nicVars, started, backlog, inFlight, rtx, unacked, counted, budget>>

Idle == SendTime + 1
SrcOf(f) == CHOOSE s \in Sources : f \in ToSet(SubflowsOf[s])

Init ==
  /\ schedule = <<>> /\ wakeups = {} /\ control = 0 /\ port = Idle
  /\ started = {}
  /\ backlog = NumPkts
  /\ inFlight = [f \in Subflows |-> 0]
  /\ rtx = [f \in Subflows |-> 0]
  /\ unacked = [s \in Sources |-> 0]
  /\ counted = [s \in Sources |-> 0]
  /\ budget = [control |-> MaxControl, losses |-> MaxLosses]

--------------------------------------------------------------------------
(* The schedule, a multimap: first come, first served among equal times    *)

\* Entry j comes before entry k, or is k.
Before(q, j, k) == q[j].left < q[k].left \/ (q[j].left = q[k].left /\ j <= k)
Place(q, keep, k) == Cardinality({j \in keep : Before(q, j, k)})
\* What inserting the entries of q at the positions in keep one after another
\* comes to.
InOrder(q, keep) ==
  [p \in 1 .. Cardinality(keep) |-> q[CHOOSE k \in keep : Place(q, keep, k) = p]]

\* unregisterSubflow
Others(q, f) == {k \in DOMAIN q : q[k].sf # f}
Now(f) == [sf |-> f, left |-> 0]

\* A slip: the old entry of the subflow stays.
RegisterAgain(q, f) == InOrder(Append(q, Now(f)), 1 .. Len(q) + 1)
\* registerSubflowForScheduling for now: a subflow has one entry.
RegisterNow(q, f) == InOrder(Append(q, Now(f)), Others(q, f) \cup {Len(q) + 1})

--------------------------------------------------------------------------
(* What a source has to send, given its retransmissions r, its flight n    *)
(* and what it counts as in flight, u                                      *)

Finished(s, r, n) ==
  backlog[s] = 0 /\ \A f \in ToSet(SubflowsOf[s]) : r[f] = 0 /\ n[f] = 0
CanSendNewData(s, u) == MaxUnack = 0 \/ u[s] < MaxUnack
CanSend(f, r, u) ==
  r[f] > 0 \/ (backlog[SrcOf(f)] > 0 /\ CanSendNewData(SrcOf(f), u))

\* When a subflow comes next: after the interval of its next packet, or a
\* base RTT if it has none.
NextTime(f, r, b, gap) == IF r[f] = 0 /\ b[SrcOf(f)] = 0 THEN BaseRtt ELSE gap

--------------------------------------------------------------------------
(* scheduleNext                                                            *)

\* A slip: the NIC relies on the event of the last registration.
NoWakeup(q) == {}
\* The event for a schedule whose first entry is in the future.
WakeupFor(q) == IF q = <<>> THEN {} ELSE {Head(q).left}

\* A slip: a subflow that waits for answers leaves, as if they brought it back.
UnlessInFlight(f, r, n) == ~Finished(SrcOf(f), r, n) /\ n[f] = 0
\* A subflow that was due and could not send comes back unless its source is
\* finished.
ComesBack(f, r, n) == ~Finished(SrcOf(f), r, n)

\* Subflow f is sent, a retransmission before new data, and comes back.
SendData(f, q, keep, r, n, u) ==
  LET again == IF r[f] > 0 THEN 1 ELSE 0
  IN /\ rtx' = [r EXCEPT ![f] = @ - again]
     /\ backlog' = [backlog EXCEPT ![SrcOf(f)] = @ - (1 - again)]
     /\ inFlight' = [n EXCEPT ![f] = @ + 1]
     /\ unacked' = [u EXCEPT ![SrcOf(f)] = @ + 1]
     /\ port' = SendTime
     /\ \E gap \in Gaps :
          schedule' = InOrder(Append(q, [sf |-> f, left |-> NextTime(f, rtx', backlog', gap)]),
                              keep \cup {Len(q) + 1})

Skipped(q, k) == {q[j].sf : j \in 1 .. k}
\* The first k subflows of q are due and cannot send: they go behind the rest,
\* with a new time, and those that come back remain.
Rotate(q, k, gap, r) ==
  [j \in DOMAIN q |->
     IF j <= Len(q) - k THEN q[j + k]
     ELSE LET f == q[j + k - Len(q)].sf IN [sf |-> f, left |-> NextTime(f, r, backlog, gap[f])]]
Remaining(q, k, r, n) ==
  {j \in DOMAIN q : j <= Len(q) - k \/ ComesBack(q[j + k - Len(q)].sf, r, n)}

\* The next one sends, or is not due: then the port stays idle until an event.
ScheduleData(q, w, r, n, u) ==
  \E k \in 0 .. Len(q) : \E gap \in [Skipped(q, k) -> Gaps] :
    LET around == Rotate(q, k, gap, r)
        remaining == Remaining(q, k, r, n)
    IN /\ \A j \in 1 .. k : q[j].left = 0 /\ ~CanSend(q[j].sf, r, u)
       /\ \/ /\ k < Len(q) => q[k + 1].left > 0
             /\ schedule' = InOrder(around, remaining)
             /\ wakeups' = w \cup WakeupFor(schedule')
             /\ rtx' = r /\ inFlight' = n /\ unacked' = u /\ port' = Idle
             /\ UNCHANGED backlog
          \/ /\ k < Len(q) /\ q[k + 1].left = 0 /\ CanSend(q[k + 1].sf, r, u)
             /\ SendData(q[k + 1].sf, around, remaining \ {1}, r, n, u)
             /\ wakeups' = w

\* Control packets first, c of them.  The caller has already changed the
\* schedule to q, the events to w, and the source to r, n and u.
ScheduleNext(q, c, w, r, n, u) ==
  \/ /\ c > 0
     /\ control' = c - 1 /\ port' = SendTime
     /\ schedule' = q /\ wakeups' = w /\ rtx' = r /\ inFlight' = n /\ unacked' = u
     /\ UNCHANGED backlog
  \/ c = 0 /\ control' = c /\ ScheduleData(q, w, r, n, u)

--------------------------------------------------------------------------
(* Who calls the NIC                                                       *)

\* A registered subflow f that comes first on an idle port is served at once;
\* behind others that are due it waits for the event they have.
Registered(q, f, r, n, u) ==
  IF port = Idle /\ Head(q).sf = f
  THEN ScheduleNext(q, control, wakeups, r, n, u)
  ELSE /\ schedule' = q /\ rtx' = r /\ inFlight' = n /\ unacked' = u
       /\ UNCHANGED <<wakeups, control, port, backlog>>

\* startConnection: all subflows register for now; if the first one is served,
\* the others find the port busy.
Start(s) ==
  /\ s \notin started
  /\ started' = started \cup {s}
  /\ LET new == [k \in DOMAIN SubflowsOf[s] |-> Now(SubflowsOf[s][k])]
     IN Registered(InOrder(schedule \o new, DOMAIN (schedule \o new)), SubflowsOf[s][1],
                   rtx, inFlight, [unacked EXCEPT ![s] = 0])
  /\ UNCHANGED <<counted, budget>>

\* markDsnForRtx, after a NACK or a timeout. The packet may have been counted
\* out by an ACK before, so _in_flight stops at 0.
Lose(f) ==
  /\ inFlight[f] > 0 /\ budget.losses > 0
  /\ budget' = [budget EXCEPT !.losses = @ - 1]
  /\ Registered(RegisterNow(schedule, f), f,
                [rtx EXCEPT ![f] = @ + 1], [inFlight EXCEPT ![f] = @ - 1],
                [unacked EXCEPT ![SrcOf(f)] = IF @ >= 1 THEN @ - 1 ELSE 0])
  /\ UNCHANGED <<started, counted>>

\* The packets of source s that were answered, given r and n.
Answered(s, r, n) ==
  NumPkts[s] - backlog[s] - MapThenSumSet(LAMBDA f : r[f] + n[f], ToSet(SubflowsOf[s]))

\* An ACK takes a packet out of flight, or out of the retransmission queue.
\* Of _in_flight it takes what the sink has newly counted as received, which
\* may come before the bits that answer the packets, and so without any, but
\* not after. The source does not tell the NIC.
Ack(f) ==
  /\ \/ inFlight[f] > 0 /\ inFlight' = [inFlight EXCEPT ![f] = @ - 1] /\ UNCHANGED rtx
     \/ rtx[f] > 0 /\ rtx' = [rtx EXCEPT ![f] = @ - 1] /\ UNCHANGED inFlight
     \/ UNCHANGED <<inFlight, rtx>>
  /\ \E newly \in 0 .. NumPkts[SrcOf(f)] :
       /\ counted' = [counted EXCEPT ![SrcOf(f)] = @ + newly]
       /\ unacked' = [unacked EXCEPT ![SrcOf(f)] = @ - newly]
  /\ Answered(SrcOf(f), rtx', inFlight') <= counted'[SrcOf(f)]
  /\ counted'[SrcOf(f)] <= NumPkts[SrcOf(f)] - backlog[SrcOf(f)]
  /\ UNCHANGED <<nicVars, started, backlog, budget>>

SendControlPacket ==
  /\ budget.control > 0
  /\ budget' = [budget EXCEPT !.control = @ - 1]
  /\ IF port = Idle
     THEN ScheduleNext(schedule, control + 1, wakeups, rtx, inFlight, unacked)
     ELSE /\ control' = control + 1
          /\ UNCHANGED <<schedule, wakeups, port, backlog, rtx, inFlight, unacked>>
  /\ UNCHANGED <<started, counted>>

--------------------------------------------------------------------------
(* Events                                                                  *)

\* SingNIC::doNextEvent does nothing while the port is busy.
NicEvent ==
  /\ 0 \in wakeups
  /\ IF port = Idle
     THEN ScheduleNext(schedule, control, wakeups \ {0}, rtx, inFlight, unacked)
     ELSE /\ wakeups' = wakeups \ {0}
          /\ UNCHANGED <<schedule, control, port, backlog, rtx, inFlight, unacked>>
  /\ UNCHANGED <<started, counted, budget>>

\* SingNICPort::doNextEvent.
PortDone ==
  /\ port = 0
  /\ ScheduleNext(schedule, control, wakeups, rtx, inFlight, unacked)
  /\ UNCHANGED <<started, counted, budget>>

Tick ==
  /\ 0 \notin wakeups /\ port # 0
  /\ wakeups # {} \/ port # Idle
  /\ wakeups' = {t - 1 : t \in wakeups}
  /\ port' = IF port = Idle THEN Idle ELSE port - 1
  /\ schedule' = [k \in DOMAIN schedule |->
                   [schedule[k] EXCEPT !.left = IF @ = 0 THEN 0 ELSE @ - 1]]
  /\ UNCHANGED <<control, started, backlog, inFlight, rtx, unacked, counted, budget>>

Calls == SendControlPacket \/ \E s \in Sources : Start(s)
Answers == \E f \in Subflows : Lose(f) \/ Ack(f)
EventLoop == NicEvent \/ PortDone \/ Tick
Next == Calls \/ Answers \/ EventLoop

Spec == Init /\ [][Next]_vars
\* The event loop goes on, and what is in flight is answered.
FairSpec ==
  /\ Spec
  /\ WF_vars(EventLoop)
  /\ WF_vars(\E f \in Subflows : Ack(f))

--------------------------------------------------------------------------
(* Properties                                                              *)

\* The NIC never goes to sleep for good: while its port is idle, no control
\* packet waits, and an event will come no later than the next subflow is due.
NoLostWakeup ==
  port = Idle =>
    /\ control = 0
    /\ schedule # <<>> => \E t \in wakeups : t <= Head(schedule).left

\* _data_schedule_queue and _scheduled_subflows agree: no subflow is scheduled
\* twice, and none drops out of the schedule while its source is not finished,
\* for nothing would bring it back.
ScheduledOnce ==
  \A f \in Subflows :
    LET entries == {k \in DOMAIN schedule : schedule[k].sf = f}
    IN /\ Cardinality(entries) <= 1
       /\ SrcOf(f) \in started /\ ~Finished(SrcOf(f), rtx, inFlight) => entries # {}

\* Every retransmission of a source gets its turn, and every packet, whatever
\* the other sources and the control packets do, unless _in_flight has drifted
\* so far from the packets in flight that the window stays closed for good.
EverythingIsSent ==
  \A s \in Sources :
    s \in started ~>
      /\ \A f \in ToSet(SubflowsOf[s]) : rtx[f] = 0
      /\ backlog[s] = 0 \/ []~CanSendNewData(s, unacked)
==========================================================================
