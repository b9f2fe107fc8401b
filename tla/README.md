# SING transport and switch: a TLA+ verification project

SING is the multipath datacenter transport, and the lossless switch that goes
with it, which this repository adds to the htsim simulator in
`src/uet-htsim/htsim/sim/sing_*`. The rest of the repository is the upstream
simulator, a copy of the RDMA perftest suite, and small RDMA examples and
scripts. Paths below are relative to `src/uet-htsim/htsim/sim/`; "finding"
points to the list of that name in `PROJECT.json`, which also has the map from
every definition to its lines, the mutants, and the hazards.

## 1. Inventory

Everything runs from one event list, one event at a time. All calls inside an
event are synchronous, and no state is shared between threads or kept on disk.
Concurrency is the order of events: packets that arrive at either host or at a
switch, ports that finish a packet, timers, messages that become due. Chains of
calls inside one event are long, though, and re-enter components that are in
the middle of an operation.

| part | code | state | operations |
|---|---|---|---|
| source | `sing_src*.cpp`, `sing_subflow.cpp` | a send record per unacknowledged DSN, retransmission queue and SSN map per subflow, send times, one timer, flight sizes | start, send new or again, ACK, NACK, timeout, finish |
| sink | `sing_sink.cpp`, `sing_subflow.cpp` | receive windows in DSN and SSN space, count of out-of-order packets, ACK counters, pending final ACK | data, duplicate, trimmed packet; ACK and NACK |
| NIC | `sing_nic.cpp` | queue of control packets, schedule of subflows by time, a busy port | register, send control packet, own event, port done |
| message layer | `sing_pdcses.cpp` | queues of messages, byte counters, a message per sequence number | enqueue, become eligible, cut into packets, receipt, ACK, finish |
| switch | `sing_switch*.cpp` | shared buffer and headroom per port and class, PFC state, queues per port and class | receive, enqueue, serve, pause, resume |
| path selection | `sing_mp.cpp`, `buffer_reps.cpp` | penalties per path, ring of good entropies, frozen mode | choose a path, learn from ACK, NACK and timeout |
| congestion control | `sing_cc.cpp`, `sing_cc_profile.cpp` | window or rate per subflow | ACK, NACK, timeout |
| event list | `eventlist.cpp`, `trigger.cpp` | pending events and triggers | next event, insert, cancel |

**How they interact.** A message that becomes eligible adds to the backlog of
its connection and starts it or lets it continue. The NIC asks a subflow for a
packet when its turn comes; the source takes a retransmission or has the
message layer cut the next packet. The packet crosses switches on a path of its
own, so packets overtake each other; a switch drops, trims or, for a lossless
class, pauses the sender. The sink tells the message layer of every new packet
and answers with ACKs and NACKs through its own NIC. The source releases
records, queues retransmissions, moves its timer and tells the message layer,
which decides whether the connection is finished. A NACK handler can end up
inside the NIC and back in the source's `sendRtxPacket` before it returns.

**What is hard, and what correctness means.**

* *Source.* Cumulative ACK, SACK, NACK and timeout are four ways to give up a
  packet, and they race. It must never forget a packet the sink misses, never
  finish early, always have a timer for the oldest packet in flight, and always
  finish.
* *Sink.* Each packet moves two windows, in DSN and SSN space. Neither may drift
  from the other, a bitmap may not claim a missing packet, and the ACK that the
  last packet asks for must be sent although the packet came out of order.
* *NIC.* Nothing polls it. It must not sleep with something to send, must not
  lose a subflow, and must serve all of them.
* *Message layer.* It counts bytes by message and by packet, in two components,
  and asserts that they agree. Messages must stay whole, and complete once.
* *Switch.* Admission can fail half way and is rolled back; release undoes a
  split between pool and headroom that is not remembered; thresholds move with
  the free space. The books must agree with the packets, no port may sleep in
  front of a packet, nothing lossless may be dropped, and pauses must end.
* *Paths.* Good paths are recycled once and in the order they were reported,
  turns are fair although paths are skipped, penalties wear off, and frozen mode
  ends. Sink and source must not count news of a path twice, nor lose marks,
  when ACKs aggregate, overtake each other or answer duplicates.

## 2. Modules

| module | models | state and actions |
|---|---|---|
| `SingNetwork` | the fabric as a flow sees it | data and control packets as sets: any order, losses, trims |
| `SingSrc` | source and its subflows | one action per entry point: `SendNewPacket`, `SendRtxPacket`, `RtxTimerExpired`, `ProcessAck`, `IgnoreNack`, `ProcessNack`, `ProcessNackAndResend`. The last is the chain markDsnForRtx, rescheduleSubflow, scheduleNext, sendRtxPacket inside one NACK |
| `SingSink` | sink and its subflows | `ReceiveNew`, `ReceiveDuplicate`, `ReceiveTrimmedDuplicate`, `ReceiveTrimmed`, each with the ACK or NACK it sends |
| `SingFlow` | the three together | properties of a flow, `Aborts` for the assertion that ends the program before a retransmission, and the mapping to |
| `ReliableDelivery` | what a flow promises | packets are released, arrive, and are confirmed after they arrived |
| `SingBuffer` | buffer manager | operators for thresholds, admission, rollback, release, resume |
| `SingSwitch` | a switch with its ports | pipeline, queues, strict priority service, pause and resume; senders are arbitrary |
| `SingPfcHop` | one link into the switch | the sender (SING port or default host queue), packets and PFC frames on the way with delays, the buffer, a neighbour on the same pool |
| `RepsBuffer`, `SingReps` | REPS selector | the ring and its operations as operators on a record; `ProcessEv`, `NextEntropy` and time in any order; refines |
| `RecycledPaths` | what REPS promises | the last reports, how many of them are unused, and which path may be returned |
| `SingMultipath` | the interface and the five policies | `Select` (choice per packet or per unit, a search of the bitmap in one step), `GoodReport`, `BadReport`, `Timeout`; EXTENDS `SingReps` |
| `SingFeedback` | what the sink collects, ACKs carry and the source reports | packets with paths, marks, trims, losses; sink's pending lists; ACKs and NACKs in any order |
| `SingNic` | NIC, and what sources tell it | schedule, events and port with time; the source is reduced to backlog, flight and retransmission counts, and the counters `_in_flight` and `_recvd_bytes` behind its unacked window |
| `SingMsgs` | message layer, and the source's side of it | all queues, byte counters, triggers; the transport is reduced to packets and ACKs in any order |

`MC...` modules and `.cfg` files instantiate them. The theorems about a
component are in its `...Proofs` module: `SingFlowProofs`, and `SingFlowSsnProofs`
that builds on it, `SingSwitchProofs`, `SingPfcHopProofs`, `SingNicProofs`,
`SingMsgsProofs`, `SingFeedbackProofs`, and `SingMultipathProofs`, which has
those about `SingReps` too.

Main abstractions. Sizes in the flow are packets, in the switch cells, in the
message layer bytes. DSNs, SSNs and bitmaps are sets and numbers without
wrap-around. Times exist only where they decide something: send times as
ranks for the timer, link and pipeline delays in the hop, the schedule in the
NIC (relative to now, where overdue is 0). Pacing by congestion control is any
pacing: the flow may send whenever its window and the unacked window allow it.
A path is its index, and the exclusive or that permutes the paths is the constant
`XorOf`: a table for TLC, and for the proofs any family of one-to-one maps. The
loop of the bitmap selector, which skips penalised paths until it finds one or
gives up, is a step: `Search` states where the loop ends, with no recursion.
`SingMultipath` hears any report at any time, and `SingFeedback` shows which reports the sink and the source really make. In it
the sink may answer any new packet: `SingSink` has the exact decision.

A failed assertion ends the program, as `CMakeLists.txt` keeps assertions on. In
`SingFlow` the one of `prepareDataPacketForSend` does so when a retransmission,
from the NIC or from inside a NACK, has lost its SSN mapping: `aborted` is then
true and nothing more happens. In `SingMsgs` `stopped` is the same for the
assertion of `checkFinished`.

`SingNic` keeps two counts of packets on their way. `inFlight` is what has not
been answered and decides whether a source is finished. `unacked` is the
source's `_in_flight`: a send adds to it, a loss takes from it and stops at 0,
an ACK takes away what its byte count has newly covered. Byte count and bitmap
of an ACK need not cover the same packets (`CountFollowsAcks` says how they are
related: what was answered was counted), so the two drift apart, and the window
looks only at `unacked`.

## 3. Runs

| run | question | instance |
|---|---|---|
| `flow_native` | Do records, queues, timer, windows and counters stay consistent, and is the flow reliable delivery? | 3 packets, 1 subflow, legacy ACKs, one loss or trim, one retransmission, timer may fire at any time |
| `flow_liveness` | Do two subflows keep both receive windows in agreement, and does every flow finish or abort? | 4 packets, 2 subflows with an ACK counter each, aggregated ACKs, no unacked window, one loss, timer without false alarms |
| `flow_rtx_ssn` | finding: an SSN mapping is trimmed while its DSN is outstanding | 2 subflows |
| `flow_window` | finding: `_in_flight` drifts and closes the unacked window | 5 packets, 3 subflows, window of 1, a packet and two ACKs lost, timer without false alarms |
| `switch_books` | Do the byte counters equal the packets, within limits, with no port asleep? | 2 ports, a lossless and a lossy class, sizes 1 and 2, pool of 3 |
| `hop_pauses` | Does the default headroom hold everything in flight after XOFF, does the sender follow, does every pause end? | 2 lossless classes, delay 1, a second port that is idle or competes |
| `hop_classes` | finding: the host queue hears the pauses of all classes as one | host sender, default mask |
| `paths` | Are turns fair, penalties kept and forgotten, and good paths recycled as promised? | 4 paths, 7 settings of the 5 policies, ring of 2, penalties 1 and 2, 3 bad reports |
| `feedback` | Does the path selector hear exactly what packets had to tell? | 3 packets, 3 transmissions, 2 paths (symmetric), REPS and bitmap, aggregated or not |
| `nic_turns` | Does the NIC ever sleep with work, lose or double a subflow, or starve one? | 2 sources, one with 2 subflows and a packet, one with a subflow and 2 packets, window of 1, a control packet, a loss |
| `msgs_queues` | Do tracker and source agree, do messages stay whole, and finish? | 5 messages: 2 scheduled, 2 chained, 1 triggered from elsewhere, one of them two packets |
| `msgs_pending` | finding: the completion check asserts that nothing is scheduled any more | 2 scheduled messages |

**Bounds.** Three packets are the least for a hole, a packet behind it and a
SACK that covers one of them but not the other with `SackBits = 2`; four
leave each of two subflows an SSN space with a hole of its own. One retransmission of each
kind already gives old ACKs, duplicates and NACKs that cross retransmissions,
as packets are never removed before they are delivered. In the switch nothing
but the buffer is bounded. In the hop a packet is being sent
and others are on the link when XOFF arrives, and two classes compete for a
pool of two. In
the NIC gaps, base RTT and the time of a packet are chosen so that events fall
into busy and idle ports; the source with two packets can find its window
closed and opened again, or closed for good. Four paths are the
least for which a search that gives up sees only some of them; a ring of two
wraps, fills and is replayed in part. Three packets fill one aggregated ACK, or
leave room for a duplicate between two of them. `Max...`
constants are the bounds; where they cut behaviours short, deadlock is not
checked, nor where a finished system stops.

**Fairness.** `FairSpec` of a flow assumes that the event list runs each kind
of pending event: a NIC with something to send (`nic_turns` shows that the NIC
does this), an armed timer, packets on a wire. Losses are bounded and need no
fairness. Liveness of the flow is checked with a timer that fires only for real
losses, because the minimum RTO exceeds the delays of the fabric in the
configurations of `main_sing.cpp`, and without an unacked window: with one the
flow need not finish, which is the finding of `flow_window`. Packets that have
arrived but that no delivered ACK covers with its bitmap are counted out of
`_in_flight` by the ACK's byte count and once more by the timer; the floor of
that subtraction then turns the deficit into packets that are not there. Fairness of the NIC covers the abort: a packet
whose turn comes is sent or ends the program. The hop assumes
that the link moves and that each packet in the buffer leaves. The NIC assumes
that the event loop goes on and that packets in flight are answered. The
message layer assumes that triggers run, that a connection with a backlog is
served, and that packets arrive and are reported.

The path selectors assume that packets keep being sent and
answered and that time passes: `PenaltiesWearOff` needs that reports of trouble
stop (they are bounded), `FreezeEnds` needs a report, as only a report looks at
the clock.

**Not a theorem of the code.** A port that was paused and then drained while
other ports or lossy classes held the pool is not resumed if the resume
threshold was zero at that moment, for a resume is considered only when a
packet of that very port leaves. `PauseEnds` is therefore stated for a pool
nobody else uses. It also depends on the resume offset being less than the pause
threshold of the empty pool, alpha times its size, as otherwise the resume
threshold is zero even then: the run has alpha 1 and offset 0, and the
defaults, alpha 0.125 and three MTUs with a pool of 64 MB, satisfy it as well.
A bitmap may return a penalised path although others have no
penalty, if the xor changes in its search: only when more than half of the
paths are penalised, says `PenalisedPathOnlyWhenMost`. REPS without
aggregation and with the default granularity 0 never hears a credit, for no
packet carries `path_sel_end`. `EligibleFinishes` of `msgs_queues` excepts a program that has stopped
at the assertion of `msgs_pending`, and `Completion` of `flow_liveness` one that
has ended at that of `flow_rtx_ssn`, which its own instance can reach.
`EverythingIsSent` of `nic_turns` excepts new data behind a window that stays
closed for good: its own instance reaches that too, by the drift that
`flow_window` finds in the flow.

## 4. Proofs

TLAPS proves for every value of the constants, under the named assumptions of
the modules (positive sizes and counts, ports and classes numbered from 0 up):

* `SingFlowProofs` - `FlowInvariant`, and from it `AckedIsReceived`,
  `CompletionIsDelivery` and `FlowRefinesDelivery`: for any flow size, number
  of subflows, ACK policy, bitmap width, and any losses and false alarms.
  `AckedWasReceived` is not inductive, as it says nothing about the ACKs on
  the way. `FlowInv` adds that every ACK in the fabric, however old, claims
  only packets the sink has, that the sink's windows end at their first hole,
  that nothing is received or acknowledged beyond what was sent, and that a
  finished source has no record left. The refinement maps each action to a
  release, an arrival, a confirmation or a stutter.
  Its second half has `RecordsInvariant`, and from it `RecordsAlwaysMatch`,
  `TimerAlwaysCovers` and `SourceNeverHangs`. The properties quantify over
  records and queues as the runs see them; `Books` says the same piece by piece,
  so that each way to give up a packet needs one lemma about a set of send times
  and one about a queue. What a recursion over a queue keeps (`Without`) is
  proved from a least counterexample. That a source never hangs is not inductive:
  `LastToArrive` adds that the packet that arrived last stays tracked, as only
  ACKs that complete the flow claim it, so that without one the source still has
  something in flight or to send. The last part has `CountAlwaysFollows`: the
  byte count of the source covers what it has forgotten and no more than the
  sink has, for any bitmap width and order of ACKs. ACKs report parts that need
  not be nested, so `CountInv` says of every count `n` that the ACKs that count
  no more, and the source if it counts no more, speak for `n` packets at most.
* `SingFlowSsnProofs` - `SpacesAgree` for any number of subflows: `SsnInv` adds
  that tracked packets have SSNs of their own, and that a packet on the way that
  would be new carries the SSN of its record. `RtxAlwaysMapped` and
  `FlightNeverLeaks` assume a single subflow (native load balancing), because
  `flow_rtx_ssn` shows the first to fail with two: `OneSpace` says that SSN and
  DSN are then one numbering, so that no ACK trims the mapping of a packet it
  does not also acknowledge. So with one subflow the program never ends at that
  assertion (`OneSubflowNeverAborts`), and `Completion` has no exception to make.
  The last parts have `SinkSaysItHasAll`, for every ACK policy, trigger and
  threshold: `SinkInv` follows the request of the last packet from the packet
  into `_ack_request`, and shows that `_out_of_order_count` is the size of the
  reorder queue, as its being zero is what releases the request.
  `FlowTypeCorrect` is `TypeOK` of the flow. It needs the other invariants: that
  timer and send times lie in the past is `Books`, that no counter of lost or
  out-of-order packets is negative is that each is the size of a set.
* `SingSwitchProofs` - `SwitchInvariant`, `PortsConserveWork`,
  `BufferWithinLimits`: for any ports, classes, packet sizes, capacities and
  thresholds. Work conservation is inductive together with types, because each
  of the three ways to start a port looks at the queues again; the limits hold
  because admission rolls back before it commits. `BooksAlwaysAgree`, for finite
  sets of ports and classes: every counter is a sum of packet sizes.
  `LedgerInv` is kept given `SwInv`: a release takes back a split it did not
  store, so that it does not underflow needs the limits (no headroom is used by
  a class without any) and the sum itself (the packet that leaves is in it).
  The sums are `SumFunction` of the community modules; that it does not depend
  on the order of its choices, and how it changes with its function and its
  set, is proved from the definition by least counterexamples.
* `SingPfcHopProofs` - `SenderAlwaysFollows`: with a SING switch as the
  sender, for any delay, classes, buffer and thresholds, and any number of
  frames under way. `HopInv` says of each class that the last frame under way,
  or the sender's state when there is none, is the switch's XOFF flag. A frame
  appended or heard keeps this for its own class and all others.
  `HeadroomSuffices`: if the headroom is at least `DefaultHeadroom`, two link
  delays and a packet at each end, nothing lossless is dropped. `RoomInv` adds
  that packets on the wire are spaced by their sending time and that frames
  keep their order; `Covered` then bounds the headroom in use together with
  everything that can still claim some: packets of the class on the wire and on
  the port, and those the sender may begin before it hears the XOFF that is on
  its way. With the host as sender no such theorem holds, as it hears the pauses
  of all classes as one (`hop_classes`).
* `SingNicProofs` - `NicInvariant`, and from it `NicNeverOversleeps` and
  `EachSubflowIsScheduledOnce`: for any sources and subflows, gaps, windows and
  packets, and however `_in_flight` drifts. The invariant has a part about the schedule (`Ready`: sorted, each
  subflow once, none missing of a source that has started and is not finished)
  and one about who wakes the NIC (`Attended`); the functions of the NIC that
  call each other inside one event keep the two at different points.
* `SingMsgsProofs` - `MessagesInvariant`, `TrackerFollowsSource`: for any
  messages, sizes, triggers and segment size, and ACKs that report any part of
  what the sink has. The tracker and the source drop packets under different
  conditions; that they drop the same ones needs `HeldByMessage`: a packet the
  tracker holds is on its message's list of unacked packets exactly when the
  sink has it. `BooksInvariant` (each message is in the one queue that its
  status and its bytes say) and `BooksBalance` (the connection's counters are the
  sums of the messages' bytes) lead to `OneQueueForEach`,
  `StatusFollowsTheBytes`, `BacklogIsWhatIsUnsent`, `CountersSpeakForQueues`
  and `MessagesStayWhole`. `TriggersAreNotMissed` and `ChainsGoOnByThemselves`:
  a message that is left waiting waits for something outside, if no chain of
  triggers runs in a circle (`Acyclic`; the code does not look for circles, and
  messages of one are never started).
* `SingFeedbackProofs` - `FeedbackInvariant`, and from it `CreditsAreHeardOnce`
  and `MarksAreHeardOnce`: for any number of paths, packets and transmissions.
  What packets had to tell is either with the sink, on an ACK, or was told to the
  selector, path by path: `LedgerBalances` is that sum, and needs that a
  transmission has one answer at most and that an answer carries only what its
  packets brought. `MarksAreHeardOnce` counts, for the bitmap, every mark, and for
  an aggregating REPS the first one after an ACK, of a new packet or of a
  duplicate that makes the sink answer: the next ACK names that path and no
  other. A REPS sink that does not aggregate tells of a mark only with the packet
  it answers, of which the property says nothing.
* `SingMultipathProofs` - about `SingReps`: `RingStaysSound`, `RingAlwaysWindow`,
  `RepsKeepsItsPromise`, for any ring size, number of paths, freeze time and
  feedback. That the fresh entries lie right before the head is not inductive
  in frozen mode, where entries are taken out of order; the invariant `RepsInv`
  says it of rings that are not frozen, and keeps the counter, the written slots
  and the place of the replay exact through a freeze, whose end empties the
  ring. The refinement reads the remembered reports off the ring, the oldest
  first. About `SingMultipath`: `SelectorsFollowReps` shows that the five
  policies use the ring in no other way than `SingReps` allows, so that
  `RingIsAlwaysWindow` and `SelectorsKeepTheirPromise` follow. `MultipathInvariant`
  says what the bitmap selector has skipped and taken in its round; from it
  `SkipsAreCounted`, `TurnsAreFair`, and the action properties `UnitsKeepTheirPath`
  and `PenalisedPathsArePassedOver`, all for any `XorOf` that is one-to-one for
  each mask, which the exclusive or is.

Only model-checked: liveness under fairness (`Completion`, `PauseEnds`,
`EverythingIsSent`, `EligibleFinishes`, `PenaltiesWearOff`, `FreezeEnds`), which
is beyond the prover. Every invariant, action property and refinement of the
passing runs is a theorem; `Lossless`, `SenderFollows`, `RtxSsnIsMapped`,
`SsnInFlightNeverLeaks` and `ChainsGoOn`
under the hypotheses given above.

## 5. Not modelled

Congestion control and its profiles (floating point; any pacing is allowed
instead), CNPs, the wrap-around of the receive ring, ECN marking at the queues
(a mark is any packet's), routing tables (no state after start-up),
`PriorityQueue` as host queue, statistics, the driver and topologies, the
disabled Sleek recovery, and everything outside SING: most of the lines of the
repository are the upstream simulator's other protocols and the perftest suite.
The NIC's events are a set of times, so the growth of duplicate events of an
idle subflow is not visible. `continueConnection`, which the message layer calls
when a message becomes eligible on a connection that has sent everything
(`sing_pdcses.cpp:718`), is not among the callers of `SingNic`: as long as a
message is unfinished `isTotallyFinished` keeps the subflows in the schedule, and
the call only moves their entries to now, as `RegisterNow` does after a loss. `_min_seq_no` and `_max_seq_no` of the message
layer only feed assertions and logs. Of REPS the reuse of entries
(`repsMaxLifetimeEntropy` above 1) is left out: nothing sets it. So is REPS with
trimming disabled, where the first timeout outside frozen mode exits the program
with a message (`sing_mp.cpp:218-221`). A number of
paths that is no power of two is excluded, as the code's comments do.

## 6. Plan

1. Done: flow, switch, hop, NIC, message layer, path selection and path
   feedback with their runs; theorems for every invariant, action property and
   refinement of the passing runs.
2. Next, models: the receive ring with its wrap-around; CNPs with the rate
   control they drive, over a small set of rates; NIC and flow composed, so that
   fairness of `NicSends` becomes a result.
3. Next, theorems: the invariants of those models, in particular that a receive
   ring as large as the window never takes one packet for another.
