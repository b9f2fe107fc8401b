---------------------------- MODULE SingPfcHop ----------------------------
(***************************************************************************)
(* One lossless hop: a sender, a link with a delay in each direction, and  *)
(* the buffer of the SING switch at its end, which pauses and resumes the  *)
(* sender class by class.  The sender is the output port of another SING   *)
(* switch or the queue of a host.  Time passes in units of one packet on   *)
(* the link, and everything that is due happens before time passes.        *)
(*                                                                         *)
(* Packets leave the buffer at any time: behind it are switch delay, other *)
(* traffic and pauses further down.  Port Other shares the buffer.         *)
(***************************************************************************)
EXTENDS SingBuffer, Sequences

CONSTANTS LinkDelay,       \* Pipe::_delay of each direction
          Upstream,        \* "switch" or "host"
          OtherClasses     \* what the other port receives, if it is in use

In == 1
Other == 2
None == -1

ASSUME HopAssumption ==
  /\ Ports = {In, Other}
  /\ LinkDelay \in Nat \ {0}
  /\ Upstream \in {"switch", "host"}
  /\ OtherClasses \subseteq Prios

VARIABLES
  shared,        \* the other port is in use
  xoffSent,      \* PFCEngine::_xoff_sent of the switch
  paused,        \* the classes the sender holds back
  sending,       \* the packet on the sender's port and its time left
  wire,          \* packets on the link, with the time left
  frames         \* pause and resume frames on the way back

hopVars == <<shared, xoffSent, paused, sending, wire, frames>>
vars == <<bufVars, hopVars>>

\* A slip: the packet the sender has already started is not counted.
TightHeadroom == [p \in Ports |-> 2 * LinkDelay + 1]
\* configureDynamicPfc: twice the bandwidth-delay product, and two packets.
DefaultHeadroom == [p \in Ports |-> 2 * LinkDelay + 2]

Init ==
  /\ BufInit
  /\ shared \in BOOLEAN
  /\ xoffSent = [c \in Classes |-> FALSE]
  /\ paused = [q \in Prios |-> FALSE]
  /\ sending = [q |-> None, left |-> 0]
  /\ wire = <<>> /\ frames = <<>>

Idle == sending.q = None
Due(s) == s # <<>> /\ Head(s).left = 0

--------------------------------------------------------------------------
(* The sender                                                              *)

\* beginService: any unpaused class, for it may be the only one with packets.
Starts(q) == ~paused[q] /\ sending' = [q |-> q, left |-> 1]

StartSending ==
  /\ Idle
  /\ \E q \in Prios : Starts(q)
  /\ UNCHANGED <<bufVars, shared, xoffSent, paused, wire, frames>>

\* completeService: the packet leaves and the next one starts.
SendingEnds ==
  /\ ~Idle /\ sending.left = 0
  /\ wire' = Append(wire, [q |-> sending.q, left |-> LinkDelay])
  /\ \/ \E q \in Prios : Starts(q)
     \/ sending' = [q |-> None, left |-> 0]
  /\ UNCHANGED <<bufVars, shared, xoffSent, paused, frames>>

\* A SING switch notes the class of the frame, FairPriorityQueue does not look.
PauseHeard(q, pause) ==
  paused' = IF Upstream = "switch" THEN [paused EXCEPT ![q] = pause]
                                   ELSE [r \in Prios |-> pause]

FrameArrives ==
  /\ Due(frames)
  /\ PauseHeard(Head(frames).q, Head(frames).pause)
  /\ frames' = Tail(frames)
  /\ UNCHANGED <<bufVars, shared, xoffSent, sending, wire>>

--------------------------------------------------------------------------
(* The switch                                                              *)

\* sendPfcPause: a frame goes to the sender, past all queues.
SendFrame(q, pause) == frames' = Append(frames, [q |-> q, pause |-> pause, left |-> LinkDelay])

\* A slip: a frame for every packet over the threshold, and no note of it.
CheckXoffForgets(q) ==
  IF PauseEvent(In, q, 1) THEN SendFrame(q, TRUE) /\ UNCHANGED xoffSent
                          ELSE UNCHANGED <<xoffSent, frames>>
\* checkXoff at port In: one frame when the class changes to paused.
CheckXoff(q) ==
  IF PauseEvent(In, q, 1) /\ ~xoffSent[<<In, q>>]
  THEN SendFrame(q, TRUE) /\ xoffSent' = [xoffSent EXCEPT ![<<In, q>>] = TRUE]
  ELSE UNCHANGED <<xoffSent, frames>>

PacketArrives ==
  /\ Due(wire)
  /\ LET q == Head(wire).q
     IN /\ CheckXoff(q)
        /\ AdmitPacket(Other, q, 1, In) \/ RejectPacket(In, q, 1)
  /\ wire' = Tail(wire)
  /\ UNCHANGED <<shared, paused, sending>>

OtherArrives ==
  /\ shared
  /\ \E q \in OtherClasses :
       /\ ~xoffSent[<<Other, q>>]
       /\ AdmitPacket(Other, q, 1, Other) \/ RejectPacket(Other, q, 1)
       /\ xoffSent' = [xoffSent EXCEPT ![<<Other, q>>] = PauseEvent(Other, q, 1)]
  /\ UNCHANGED <<shared, paused, sending, wire, frames>>

\* onEgressRelease: checkXon, and a frame if the sender is port In.
CheckXon(i, q) ==
  IF ShouldSendResume(i, q) /\ xoffSent[<<i, q>>]
  THEN /\ xoffSent' = [xoffSent EXCEPT ![<<i, q>>] = FALSE]
       /\ IF i = In THEN SendFrame(q, FALSE) ELSE UNCHANGED frames
  ELSE UNCHANGED <<xoffSent, frames>>

PacketLeaves(i, q) ==
  /\ ingressShared[<<i, q>>] + ingressHeadroom[<<i, q>>] > 0
  /\ ReleasePacket(Other, q, 1, i)
  /\ CheckXon(i, q)
  /\ UNCHANGED <<shared, paused, sending, wire>>

--------------------------------------------------------------------------
NothingDue == ~Due(wire) /\ ~Due(frames) /\ (Idle \/ sending.left > 0)

Age(s) == [k \in DOMAIN s |-> [s[k] EXCEPT !.left = @ - 1]]

Tick ==
  /\ NothingDue
  /\ wire # <<>> \/ frames # <<>> \/ ~Idle
  /\ wire' = Age(wire)
  /\ frames' = Age(frames)
  /\ sending' = IF Idle THEN sending ELSE [sending EXCEPT !.left = @ - 1]
  /\ UNCHANGED <<bufVars, shared, xoffSent, paused>>

Link == SendingEnds \/ FrameArrives \/ PacketArrives \/ Tick
Leaves == \E i \in Ports, q \in Prios : PacketLeaves(i, q)
Next == StartSending \/ Link \/ OtherArrives \/ Leaves

Spec == Init /\ [][Next]_vars
\* Events happen when they are due, and what is in the buffer leaves it.
FairSpec == Spec /\ WF_vars(Link) /\ \A i \in Ports, q \in Prios : WF_vars(PacketLeaves(i, q))

--------------------------------------------------------------------------
(* Properties                                                              *)

\* The headroom of configureDynamicPfc takes everything that can still arrive
\* after XOFF: a PFC class never loses a packet at the switch.
Lossless == Due(wire) /\ Head(wire).q \in PfcPrios => Admits(In, Head(wire).q, 1)

InTransit(q) == {k \in DOMAIN frames : frames[k].q = q}

\* What the sender believes follows the switch: the last frame under way, or
\* else the state the sender is in, says what the switch said last.
SenderFollows ==
  \A q \in Prios :
    LET now == IF InTransit(q) = {} THEN paused[q]
               ELSE frames[CHOOSE k \in InTransit(q) : \A j \in InTransit(q) : j <= k].pause
    IN now = xoffSent[<<In, q>>]

\* A frame with a priority is "per-priority PFC" (eth_pause_packet.h:39): with
\* no frame under way, a class the switch has stopped is held back.
StoppedClassIsHeld ==
  \A q \in Prios : xoffSent[<<In, q>>] /\ InTransit(q) = {} => paused[q]

\* With nobody else in the buffer, every pause ends, also when two classes hold
\* it.  (A resume is only considered when a packet of its own class leaves, so
\* shared space that is freed by others does not end a pause.)
PauseEnds == \A q \in Prios : ~shared /\ xoffSent[<<In, q>>] ~> ~xoffSent[<<In, q>>]
==========================================================================
