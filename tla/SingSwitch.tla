---------------------------- MODULE SingSwitch ----------------------------
(***************************************************************************)
(* A SING switch: the ingress stage books a packet and may pause the       *)
(* sender, the switch pipe delays it, and the egress stage queues it at an *)
(* output port, which serves its classes by strict priority unless the     *)
(* next hop paused them.                                                   *)
(*                                                                         *)
(* Left out: the ECN mark, which is drawn at admission and read by nobody  *)
(* here, and the statistics.  Which port and class a packet goes to is the *)
(* choice of the control plane, here of the environment.                   *)
(***************************************************************************)
EXTENDS SingBuffer, Sequences, FiniteSets, Functions

CONSTANTS Sizes             \* packet sizes

ASSUME SizeAssumption == Sizes \subseteq Nat \ {0}
ASSUME FiniteAssumption == IsFiniteSet(Ports) /\ IsFiniteSet(Prios)

VARIABLES
  xoffSent,      \* PFCEngine::_xoff_sent: the classes of the port it has paused
  paused,        \* PFCEngine::_paused_by_downstream
  pipe,          \* packets in the switch pipe, in order
  queue,         \* SingSwitchQueue::_fifo of each output port and class
  servicing      \* OutputPort::_servicing_prio; -1 exactly if it is not _busy

swVars == <<xoffSent, paused, pipe, queue, servicing>>
vars == <<bufVars, swVars>>

Idle == -1
Entry == [size : Sizes, in : Ports]
PipeEntry == [out : Ports, q : Prios, size : Sizes, in : Ports]

Init ==
  /\ BufInit
  /\ xoffSent = [c \in Classes |-> FALSE]
  /\ paused = [c \in Classes |-> FALSE]
  /\ pipe = <<>>
  /\ queue = [c \in Classes |-> <<>>]
  /\ servicing = [p \in Ports |-> Idle]

--------------------------------------------------------------------------
(* Output ports                                                            *)

Waiting(e, queues, pausedBy) == {q \in Prios : queues[<<e, q>>] # <<>> /\ ~pausedBy[<<e, q>>]}

\* StrictPriorityScheduler::selectQueue.
Selected(e, queues, pausedBy) ==
  LET w == Waiting(e, queues, pausedBy)
  IN IF w = {} THEN Idle ELSE CHOOSE q \in w : \A r \in w : q <= r

--------------------------------------------------------------------------
(* Handlers                                                                *)

\* receivePacket, ingress stage: admit, pause the sender, hand to the pipe.
ReceiveData(i, e, q, size) ==
  /\ i # e
  /\ xoffSent' = [xoffSent EXCEPT ![<<i, q>>] = @ \/ PauseEvent(i, q, size)]
  /\ \/ /\ AdmitPacket(e, q, size, i)
        /\ pipe' = Append(pipe, [out |-> e, q |-> q, size |-> size, in |-> i])
     \/ RejectPacket(i, q, size) /\ UNCHANGED pipe
  /\ UNCHANGED <<paused, queue, servicing>>

\* A slip: the port is woken only if all its queues were empty.
WakesIfEmpty(e, queues) ==
  IF servicing[e] # Idle \/ \E q \in Prios : queue[<<e, q>>] # <<>>
  THEN servicing[e] ELSE Selected(e, queues, paused)
\* OutputPort::enqueue starts an idle port.
ServiceAfterEnqueue(e, queues) ==
  IF servicing[e] # Idle THEN servicing[e] ELSE Selected(e, queues, paused)

\* receivePacket, egress stage, called back by the switch pipe.
PipeDelivers ==
  /\ pipe # <<>>
  /\ LET x == Head(pipe)
         queues == [queue EXCEPT ![<<x.out, x.q>>] = Append(@, [size |-> x.size, in |-> x.in])]
     IN /\ queue' = queues
        /\ servicing' = [servicing EXCEPT ![x.out] = ServiceAfterEnqueue(x.out, queues)]
  /\ pipe' = Tail(pipe)
  /\ UNCHANGED <<bufVars, xoffSent, paused>>

\* onEgressRelease: resume the sender of the packet that left.
Resume(i, q) ==
  xoffSent' = [xoffSent EXCEPT ![<<i, q>>] = @ /\ ~ShouldSendResume(i, q)]

\* completeService: release, resume, send, serve the next.
CompleteService(e) ==
  /\ servicing[e] # Idle
  /\ LET q == servicing[e]
         x == Head(queue[<<e, q>>])
         queues == [queue EXCEPT ![<<e, q>>] = Tail(@)]
     IN /\ queue' = queues
        /\ ReleasePacket(e, q, x.size, x.in)
        /\ Resume(x.in, q)
        /\ servicing' = [servicing EXCEPT ![e] = Selected(e, queues, paused)]
  /\ UNCHANGED <<paused, pipe>>

\* resumeIfReady, called for a resume only.
ServiceAfterPause(e, pausedBy, pause) ==
  IF pause \/ servicing[e] # Idle THEN servicing[e] ELSE Selected(e, queue, pausedBy)

\* receivePacket of a pause frame, for the classes it names.
ReceivePause(e, classes, pause) ==
  LET pausedBy == [c \in Classes |-> IF c[1] = e /\ c[2] \in classes THEN pause ELSE paused[c]]
  IN /\ paused' = pausedBy
     /\ servicing' = [servicing EXCEPT ![e] = ServiceAfterPause(e, pausedBy, pause)]
     /\ UNCHANGED <<bufVars, xoffSent, pipe, queue>>

Arrivals == \E i, e \in Ports, q \in Prios, size \in Sizes : ReceiveData(i, e, q, size)
Services == \E e \in Ports : CompleteService(e)
\* A frame names one class, or all of them (priority -1).
PauseFrames ==
  \E e \in Ports, classes \in {{q} : q \in Prios} \cup {Prios}, pause \in BOOLEAN :
    ReceivePause(e, classes, pause)

Next == Arrivals \/ PipeDelivers \/ Services \/ PauseFrames
Spec == Init /\ [][Next]_vars

--------------------------------------------------------------------------
(* Properties                                                              *)

\* A port that is idle has nothing it may send, and a busy one serves a packet
\* that is there: no order of enqueues, pauses, resumes and completions leaves
\* a port asleep in front of its queue.
WorkConserving ==
  \A e \in Ports :
    IF servicing[e] = Idle THEN Waiting(e, queue, paused) = {}
                           ELSE queue[<<e, servicing[e]>>] # <<>>

\* The assertions of admit and release (sing_switch_buffer_manager.cpp:135,
\* :185) on the shared pool, and the headroom each port may use.
WithinLimits ==
  /\ totalShared <= SharedCapacity
  /\ \A i \in Ports, q \in Prios :
       ingressHeadroom[<<i, q>>] \in 0 .. HeadroomOf(i, q)

\* The bytes of the packets of s that are in S, and the packets in question.
Bytes(s, S) == SumFunction([k \in DOMAIN s |-> IF s[k] \in S THEN s[k].size ELSE 0])
BoundFor(e, q) == {x \in PipeEntry : x.out = e /\ x.q = q}
PipedFrom(i, q) == {x \in PipeEntry : x.in = i /\ x.q = q}
QueuedFrom(i) == {x \in Entry : x.in = i}

\* The books are right: each counter is the number of bytes of the packets it
\* stands for, in the pipe and in the queues, so no release underflows
\* (sing_switch_buffer_manager.cpp:167-168 and :181-184), and a rejected packet
\* leaves no trace.
AccountsAgree ==
  /\ \A e \in Ports, q \in Prios :
       egressUsed[<<e, q>>] = Bytes(pipe, BoundFor(e, q)) + Bytes(queue[<<e, q>>], Entry)
  /\ \A i \in Ports, q \in Prios :
       /\ ingressShared[<<i, q>>] + ingressHeadroom[<<i, q>>]
            = Bytes(pipe, PipedFrom(i, q))
              + SumFunction([e \in Ports |-> Bytes(queue[<<e, q>>], QueuedFrom(i))])
       /\ ingressShared[<<i, q>>] >= 0
  /\ totalUsed = SumFunction(egressUsed)
  /\ totalShared = SumFunction(ingressShared)
==========================================================================
