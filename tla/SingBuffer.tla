---------------------------- MODULE SingBuffer ----------------------------
(***************************************************************************)
(* The shared packet buffer of a SING switch (BufferManager).  A packet is *)
(* booked twice: at the egress queue it waits in, and at the ingress port  *)
(* it came from, there against the shared pool first and, for a PFC class, *)
(* against the headroom of that port.  A packet that leaves gives headroom *)
(* back first: how it was split at admission is not remembered.            *)
(***************************************************************************)
EXTENDS Integers

CONSTANTS Ports,            \* ports; each is an ingress and an egress
          Prios,            \* priority classes, 0 the highest
          PfcPrios,         \* the classes of _pfc_enabled_mask
          SharedCapacity,   \* _shared_capacity: the buffer less all headroom
          HeadroomCap,      \* _ingress_headroom_cap of a port, PFC class
          AlphaNum, AlphaDen,   \* _pfc_alpha, as a fraction
          ResumeOffset      \* _pfc_resume_offset

\* configureDynamicPfc refuses a headroom that leaves no shared buffer.
ASSUME BufferAssumption ==
  /\ Prios \subseteq Nat
  /\ PfcPrios \subseteq Prios
  /\ SharedCapacity \in Nat \ {0}
  /\ HeadroomCap \in [Ports -> Nat]
  /\ AlphaNum \in Nat
  /\ AlphaDen \in Nat \ {0}
  /\ ResumeOffset \in Nat

VARIABLES egressUsed, ingressShared, ingressHeadroom, totalUsed, totalShared
bufVars == <<egressUsed, ingressShared, ingressHeadroom, totalUsed, totalShared>>

Classes == Ports \X Prios

BufInit ==
  /\ egressUsed = [c \in Classes |-> 0]
  /\ ingressShared = [c \in Classes |-> 0]
  /\ ingressHeadroom = [c \in Classes |-> 0]
  /\ totalUsed = 0
  /\ totalShared = 0

--------------------------------------------------------------------------
(* Dynamic thresholds                                                      *)

AtMost(a, b) == IF a < b THEN a ELSE b
AtLeast(a, b) == IF a < b THEN b ELSE a

FreeSpace == IF totalShared >= SharedCapacity THEN 0 ELSE SharedCapacity - totalShared
Dyn == (AlphaNum * FreeSpace) \div AlphaDen
PauseThreshold == AtLeast(ResumeOffset, Dyn)
ResumeThreshold == IF Dyn <= ResumeOffset THEN 0 ELSE Dyn - ResumeOffset

HeadroomOf(i, q) == IF q \in PfcPrios THEN HeadroomCap[i] ELSE 0

SharedRoom(i, q) ==
  AtMost(AtLeast(0, PauseThreshold - ingressShared[<<i, q>>]), FreeSpace)
ToShared(i, q, size) == AtMost(size, SharedRoom(i, q))
PauseEvent(i, q, size) ==
  /\ q \in PfcPrios
  /\ size > SharedRoom(i, q) \/ ingressShared[<<i, q>>] >= PauseThreshold

--------------------------------------------------------------------------
(* admit, release, shouldSendResume                                        *)

\* A slip: a PFC class is admitted without looking at its headroom.
AdmitsAnyPfc(i, q, size) == size = ToShared(i, q, size) \/ q \in PfcPrios
Admits(i, q, size) ==
  LET rem == size - ToShared(i, q, size)
  IN rem = 0 \/ (q \in PfcPrios /\ rem <= HeadroomOf(i, q) - ingressHeadroom[<<i, q>>])

BookIngress(i, q, size) ==
  LET s == ToShared(i, q, size)
  IN /\ ingressShared' = [ingressShared EXCEPT ![<<i, q>>] = @ + s]
     /\ ingressHeadroom' = [ingressHeadroom EXCEPT ![<<i, q>>] = @ + size - s]
     /\ totalShared' = totalShared + s

AdmitPacket(e, q, size, i) ==
  /\ Admits(i, q, size)
  /\ BookIngress(i, q, size)
  /\ egressUsed' = [egressUsed EXCEPT ![<<e, q>>] = @ + size]
  /\ totalUsed' = totalUsed + size

\* A slip: the shared part booked before the headroom ran out is not given back.
RejectKeepsShared(i, q, size) ==
  /\ ~Admits(i, q, size)
  /\ totalShared' = totalShared + ToShared(i, q, size)
  /\ UNCHANGED <<ingressShared, ingressHeadroom, egressUsed, totalUsed>>
\* The temporary booking is rolled back.
RejectPacket(i, q, size) == ~Admits(i, q, size) /\ UNCHANGED bufVars

FromHeadroom(i, q, size) ==
  IF q \in PfcPrios THEN AtMost(size, ingressHeadroom[<<i, q>>]) ELSE 0

ReleasePacket(e, q, size, i) ==
  LET h == FromHeadroom(i, q, size)
  IN /\ egressUsed' = [egressUsed EXCEPT ![<<e, q>>] = @ - size]
     /\ totalUsed' = totalUsed - size
     /\ ingressHeadroom' = [ingressHeadroom EXCEPT ![<<i, q>>] = @ - h]
     /\ ingressShared' = [ingressShared EXCEPT ![<<i, q>>] = @ - (size - h)]
     /\ totalShared' = totalShared - (size - h)

\* A slip: a resume has to wait for the whole buffer.
ResumeWhenAllFree(i, q) == q \in PfcPrios /\ totalShared' = 0 /\ ingressHeadroom'[<<i, q>>] = 0
\* Asked after the release of a packet, so about the state it leaves behind.
ShouldSendResume(i, q) ==
  /\ q \in PfcPrios
  /\ ingressHeadroom'[<<i, q>>] = 0
  /\ ingressShared'[<<i, q>>] < ResumeThreshold'

==========================================================================
