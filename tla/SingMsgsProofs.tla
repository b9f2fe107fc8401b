--------------------------- MODULE SingMsgsProofs ---------------------------
(***************************************************************************)
(* The message tracker and the source forget packets in two loops over an  *)
(* ACK, each with a condition of its own: the tracker asks the message, the *)
(* source only its records.  They stay in agreement because an ACK tells   *)
(* nothing that the message has not heard from the sink before.            *)
(***************************************************************************)
EXTENDS SingMsgs, FiniteSetTheorems, SequenceTheorems, WellFoundedInduction, TLAPS

\* The types the argument needs.
Types ==
  /\ sent \in [Msgs -> Int]
  /\ packets \in Seq([msg : Msgs, size : Int])
  /\ received \subseteq 1 .. Len(packets)
  /\ seqToMsg \subseteq 1 .. Len(packets)
  /\ notrecvd \in [Msgs -> SUBSET Nat] /\ notacked \in [Msgs -> SUBSET Nat]

\* A packet the tracker holds is with its message, on the side of the sink's
\* receipt that it is on.
HeldByMessage ==
  \A d \in seqToMsg :
    IF d \in received THEN d \in notacked[packets[d].msg]
                      ELSE d \in notrecvd[packets[d].msg]

MsgInv == Types /\ HeldByMessage /\ TrackerAgreesWithSource

\* Every packet belongs to a message.
LEMMA MessageOfPacket ==
  ASSUME Types, NEW d \in 1 .. Len(packets)
  PROVE  packets[d].msg \in Msgs
<1> DEFINE Packet == [msg : Msgs, size : Int]
<1>1. packets \in Seq(Packet)
  BY DEF Types
<1>2. \A p \in Packet : p.msg \in Msgs
  OBVIOUS
<1> HIDE DEF Packet
<1>3. packets[d] \in Packet
  BY <1>1
<1> QED
  BY <1>2, <1>3

\* So does every packet that the tracker knows.
LEMMA TrackedHasMessage ==
  ASSUME Types, NEW d \in seqToMsg
  PROVE  packets[d].msg \in Msgs
<1>1. d \in 1 .. Len(packets)
  BY Zenon DEF Types
<1> QED
  BY <1>1, MessageOfPacket, Zenon

--------------------------------------------------------------------------
\* At the start there are no packets to agree about.
LEMMA InitMsgInv == Init => MsgInv
<1> SUFFICES ASSUME Init PROVE MsgInv
  OBVIOUS
<1> USE DEF Init
<1>1. Types
  <2>1. sent \in [Msgs -> Int] /\ notrecvd \in [Msgs -> SUBSET Nat]
    OBVIOUS
  <2>2. notacked \in [Msgs -> SUBSET Nat]
    BY <2>1
  <2>3. packets \in Seq([msg : Msgs, size : Int])
    OBVIOUS
  <2> QED
    BY <2>1, <2>2, <2>3 DEF Types
<1>2. HeldByMessage /\ TrackerAgreesWithSource
  BY DEF HeldByMessage, TrackerAgreesWithSource
<1> QED
  BY <1>1, <1>2 DEF MsgInv

\* A new packet is held on both sides, by the message it was cut from.
LEMMA SendNewPacketStep ==
  ASSUME MsgInv, SendNewPacket
  PROVE  MsgInv'
<1> USE DEF MsgInv
<1> DEFINE d == Len(packets) + 1
<1>1. PICK m \in Msgs :
        LET segment == Segment(Size[m] - sent[m])
        IN /\ packets' = Append(packets, [msg |-> m, size |-> segment])
           /\ sent' = [sent EXCEPT ![m] = @ + segment]
           /\ notrecvd' = [notrecvd EXCEPT ![m] = @ \cup {d}]
           /\ seqToMsg' = seqToMsg \cup {d} /\ tracked' = tracked \cup {d}
           /\ UNCHANGED <<notacked, received>>
  BY Zenon DEF SendNewPacket
<1>2. Segment(Size[m] - sent[m]) \in Int
  BY MsgsAssumption DEF Types, Segment
<1>3. Len(packets) \in Nat /\ d \in Nat /\ packets' \in Seq([msg : Msgs, size : Int])
      /\ Len(packets') = d
  BY <1>1, <1>2 DEF Types
<1>4. \A e \in 1 .. Len(packets) : packets'[e] = packets[e]
  BY <1>1, <1>2, <1>3 DEF Types
<1>5. packets'[d].msg = m
  BY <1>1, <1>2, <1>3 DEF Types
<1>6. Types'
  <2>1. sent' \in [Msgs -> Int]
    BY <1>1, <1>2 DEF Types
  <2>2. notrecvd' \in [Msgs -> SUBSET Nat] /\ notacked' \in [Msgs -> SUBSET Nat]
    BY <1>1, <1>3 DEF Types
  <2>3. received' \subseteq 1 .. Len(packets') /\ seqToMsg' \subseteq 1 .. Len(packets')
    <3>1. received \subseteq 1 .. Len(packets) /\ seqToMsg \subseteq 1 .. Len(packets)
      BY Zenon DEF Types
    <3>2. 1 .. Len(packets') = (1 .. Len(packets)) \cup {d}
      BY <1>3
    <3> QED
      BY <1>1, <3>1, <3>2, Zenon
  <2> QED
    BY <1>3, <2>1, <2>2, <2>3 DEF Types
<1>7. HeldByMessage'
  <2> SUFFICES ASSUME NEW e \in seqToMsg'
               PROVE  IF e \in received' THEN e \in notacked'[packets'[e].msg]
                                         ELSE e \in notrecvd'[packets'[e].msg]
    BY DEF HeldByMessage
  <2>1. CASE e = d
    <3>1. e \notin received'
      BY <1>1, <1>3, <2>1 DEF Types
    <3> QED
      BY <1>1, <1>5, <2>1, <3>1 DEF Types
  <2>2. CASE e # d
    <3>1. e \in seqToMsg /\ packets'[e] = packets[e]
      BY <1>1, <1>4, <2>2 DEF Types
    <3>2. packets[e].msg \in Msgs
      BY <3>1, TrackedHasMessage, Zenon
    <3>3. notrecvd[packets[e].msg] \subseteq notrecvd'[packets[e].msg]
      BY <1>1, <3>2 DEF Types
    <3> QED
      BY <1>1, <3>1, <3>3 DEF HeldByMessage
  <2> QED
    BY <2>1, <2>2
<1> QED
  BY <1>1, <1>6, <1>7 DEF TrackerAgreesWithSource

\* The sink's receipt moves a packet from one side of its message to the other.
LEMMA ArriveStep ==
  ASSUME MsgInv, NEW d \in 1 .. Len(packets), Arrive(d)
  PROVE  MsgInv'
<1> USE DEF MsgInv
<1> DEFINE m == packets[d].msg
<1>1. /\ d \notin received /\ received' = received \cup {d}
      /\ UNCHANGED <<sent, packets, seqToMsg, tracked>>
  BY Zenon DEF Arrive, queueVars
<1>2. m \in Msgs /\ Len(packets) \in Nat /\ d \in Nat
  <2>1. m \in Msgs
    BY MessageOfPacket, Zenon
  <2>2. Len(packets) \in Nat /\ d \in Nat
    BY DEF Types
  <2> QED
    BY <2>1, <2>2
<1>3. CASE d \in seqToMsg
  <2>1. d \in notrecvd[m]
    BY <1>1, <1>3 DEF HeldByMessage
  <2>2. /\ notrecvd' = [notrecvd EXCEPT ![m] = @ \ {d}]
        /\ notacked' = [notacked EXCEPT ![m] = @ \cup {d}]
    BY <1>3, <2>1, Zenon DEF Arrive
  <2>3. Types'
    BY <1>1, <1>2, <2>2 DEF Types
  <2>4. HeldByMessage'
    <3> SUFFICES ASSUME NEW e \in seqToMsg
                 PROVE  IF e \in received' THEN e \in notacked'[packets[e].msg]
                                           ELSE e \in notrecvd'[packets[e].msg]
      BY <1>1 DEF HeldByMessage
    <3>1. packets[e].msg \in Msgs
      BY TrackedHasMessage, Zenon
    <3>2. notacked[packets[e].msg] \subseteq notacked'[packets[e].msg]
      BY <2>2, <3>1 DEF Types
    <3>3. e # d => (e \in notrecvd[packets[e].msg] => e \in notrecvd'[packets[e].msg])
      BY <2>2, <3>1 DEF Types
    <3>4. d \in notacked'[m]
      BY <1>2, <2>2 DEF Types
    <3> QED
      BY <1>1, <3>2, <3>3, <3>4 DEF HeldByMessage
  <2> QED
    BY <1>1, <2>3, <2>4 DEF TrackerAgreesWithSource
<1>4. CASE d \notin seqToMsg
  <2>1. UNCHANGED <<notrecvd, notacked>>
    BY <1>4, Zenon DEF Arrive
  <2>2. Types'
    BY <1>1, <1>2, <2>1 DEF Types
  <2>3. HeldByMessage'
    BY <1>1, <1>4, <2>1 DEF HeldByMessage
  <2> QED
    BY <1>1, <2>2, <2>3 DEF TrackerAgreesWithSource
<1> QED
  BY <1>3, <1>4

\* Whatever part of the sink's packets an ACK reports, both sides drop the
\* packets below its cumulative number and those of its bitmap.
LEMMA ProcessAckStep ==
  ASSUME MsgInv, NEW cum \in 1 .. Len(packets) + 1, Cumulative(cum),
         NEW sacks \in SUBSET received, ProcessAck(cum, sacks)
  PROVE  MsgInv'
<1> USE DEF MsgInv
<1> DEFINE new == NewlyAcked(cum, sacks)
<1>1. /\ notacked' = [m \in Msgs |-> notacked[m] \ new]
      /\ seqToMsg' = seqToMsg \ (new \cup (sacks \cap tracked))
      /\ tracked' = TrackedAfter(cum, sacks)
      /\ UNCHANGED <<sent, packets, notrecvd, received>>
  BY Zenon DEF ProcessAck
<1>2. Len(packets) \in Nat /\ seqToMsg \subseteq Nat /\ cum \in Nat
  BY DEF Types
<1>3. \A d \in seqToMsg : d < cum => d \in received
  <2> SUFFICES ASSUME NEW d \in seqToMsg, d < cum PROVE d \in received
    OBVIOUS
  <2>1. d \in 1 .. cum - 1
    BY <1>2 DEF Types
  <2> QED
    BY <2>1 DEF Cumulative
<1>4. \A d \in seqToMsg : d < cum => d \in new
  BY <1>3 DEF NewlyAcked, Confirmed, HeldByMessage
<1>5. \A d \in new : d \in seqToMsg /\ (d < cum \/ d \in sacks)
  BY DEF NewlyAcked, Confirmed
<1>6. seqToMsg' = tracked'
  <2>1. \A d \in seqToMsg : d \in seqToMsg' <=> d \in tracked'
    <3> SUFFICES ASSUME NEW d \in seqToMsg
                 PROVE  d \in seqToMsg' <=> d \in tracked'
      OBVIOUS
    <3>1. d \in tracked' <=> d >= cum /\ d \notin sacks
      BY <1>1 DEF TrackedAfter, TrackerAgreesWithSource
    <3>2. d \in seqToMsg' <=> d \notin new /\ d \notin sacks
      BY <1>1 DEF TrackerAgreesWithSource
    <3>3. d >= cum <=> ~(d < cum)
      BY <1>2
    <3> QED
      BY <1>4, <1>5, <3>1, <3>2, <3>3
  <2>2. seqToMsg' \subseteq seqToMsg /\ tracked' \subseteq seqToMsg
    BY <1>1 DEF TrackedAfter, TrackerAgreesWithSource
  <2> QED
    BY <2>1, <2>2
<1>7. Types'
  <2>1. notacked' \in [Msgs -> SUBSET Nat]
    BY <1>1 DEF Types
  <2> QED
    BY <1>1, <2>1 DEF Types
<1>8. HeldByMessage'
  <2> SUFFICES ASSUME NEW d \in seqToMsg'
               PROVE  IF d \in received THEN d \in notacked'[packets[d].msg]
                                        ELSE d \in notrecvd[packets[d].msg]
    BY <1>1 DEF HeldByMessage
  <2>1. d \in seqToMsg /\ d \notin new
    BY <1>1
  <2>2. packets[d].msg \in Msgs
    BY <2>1, TrackedHasMessage, Zenon
  <2>3. notacked'[packets[d].msg] = notacked[packets[d].msg] \ new
    BY <1>1, <2>2
  <2> QED
    BY <2>1, <2>3 DEF HeldByMessage
<1> QED
  BY <1>6, <1>7, <1>8 DEF TrackerAgreesWithSource

\* Every step keeps the agreement between tracker, messages and source.
LEMMA StepMsgInv == MsgInv /\ [Next]_vars => MsgInv'
<1> SUFFICES ASSUME MsgInv, [Next]_vars PROVE MsgInv'
  OBVIOUS
<1> DEFINE Idle ==
      UNCHANGED <<sent, packets, received, tracked, seqToMsg, notrecvd, notacked>>
<1>1. Idle => MsgInv'
  BY DEF MsgInv, Types, HeldByMessage, TrackerAgreesWithSource
<1>2. CASE Starts \/ Activate \/ UNCHANGED vars
  <2>1. Idle
    BY <1>2, Zenon DEF Starts, MessagesDue, TriggeredElsewhere, MakeMsgEligible, Activate,
                       vars, msgVars, tpVars
  <2> QED
    BY <1>1, <2>1
<1>3. CASE SendNewPacket
  BY <1>3, SendNewPacketStep
<1>4. CASE Arrivals
  BY <1>4, ArriveStep DEF Arrivals
<1>5. CASE AnyAck
  <2>1. PICK cum \in 1 .. Len(packets) + 1 :
          /\ Cumulative(cum)
          /\ \E sacks \in SUBSET {d \in received : d >= cum} : ProcessAck(cum, sacks)
    BY <1>5 DEF AnyAck
  <2>2. PICK sacks \in SUBSET received : ProcessAck(cum, sacks)
    BY <2>1
  <2> QED
    BY <2>1, <2>2, ProcessAckStep
<1> QED
  BY <1>2, <1>3, <1>4, <1>5 DEF Next

\* MsgInv is an invariant: every packet the tracker holds is with its message,
\* and the source has a record of exactly these.
THEOREM MessagesInvariant == Spec => []MsgInv
  BY InitMsgInv, StepMsgInv, PTL DEF Spec

\* addCumAck and addSAck never leave a packet in _seq_to_msg that the source
\* has forgotten, nor forget one the source still waits for: otherwise a message
\* would stay in flight for good, or an ACK would count twice.
THEOREM TrackerFollowsSource == Spec => []TrackerAgreesWithSource
<1>1. MsgInv => TrackerAgreesWithSource
  BY DEF MsgInv
<1> QED
  BY <1>1, MessagesInvariant, PTL

--------------------------------------------------------------------------
(* Sums                                                                    *)

\* Every set of natural numbers has a least one.
LEMMA LeastNatural ==
  ASSUME NEW S \in SUBSET Nat, S # {}
  PROVE  \E m \in S : \A n \in S : m <= n
<1> DEFINE R == {ab \in Nat \X Nat : ab[1] < ab[2]}
<1>1. IsWellFoundedOn(R, Nat)
  <2>1. R = OpToRel(<, Nat)
    BY DEF OpToRel
  <2> QED
    BY <2>1, NatLessThanWellFounded
<1>2. \A a, b \in Nat : a < b => <<a, b>> \in R
  OBVIOUS
<1>3. S \subseteq Nat
  OBVIOUS
<1> HIDE DEF R
<1>4. PICK m \in S : \A n \in S : ~(<<n, m>> \in R)
  BY <1>1, <1>3, WFMin
<1>5. \A n \in S : ~(n < m)
  BY <1>2, <1>3, <1>4
<1> QED
  BY <1>3, <1>5

\* u lists the sums of the first k numbers of w, for every k up to n.
Sums(n, w, u) == u = [k \in 0 .. n |-> IF k = 0 THEN 0 ELSE u[k - 1] + w[k]]

\* There are sums for every number of terms.
LEMMA SumsExist ==
  ASSUME NEW n \in Nat, NEW w
  PROVE  \E u : Sums(n, w, u)
<1> DEFINE Bad == {k \in Nat : ~ \E u : Sums(k, w, u)}
<1> SUFFICES ASSUME Bad # {} PROVE FALSE
  OBVIOUS
<1>1. PICK m \in Bad : \A k \in Bad : m <= k
  BY LeastNatural
<1>2. m # 0
  <2>1. Sums(0, w, [k \in 0 .. 0 |-> 0])
    BY DEF Sums
  <2> QED
    BY <2>1, <1>1
<1>3. m \in Nat /\ m - 1 \in Nat /\ m - 1 \notin Bad
  BY <1>1, <1>2
<1>4. PICK u : Sums(m - 1, w, u)
  BY <1>3
<1> DEFINE v == [k \in 0 .. m |-> IF k < m THEN u[k] ELSE u[m - 1] + w[m]]
<1>5. \A k \in 0 .. m - 1 : u[k] = IF k = 0 THEN 0 ELSE u[k - 1] + w[k]
  BY <1>4 DEF Sums
<1>6. \A k \in 0 .. m : v[k] = IF k = 0 THEN 0 ELSE v[k - 1] + w[k]
  <2> SUFFICES ASSUME NEW k \in 0 .. m PROVE v[k] = IF k = 0 THEN 0 ELSE v[k - 1] + w[k]
    OBVIOUS
  <2>1. CASE k = m
    <3>1. v[k] = u[m - 1] + w[m] /\ v[k - 1] = u[m - 1]
      BY <1>2, <1>3, <2>1
    <3> QED
      BY <1>2, <2>1, <3>1
  <2>2. CASE k # m
    <3>1. k \in 0 .. m - 1 /\ v[k] = u[k] /\ (k # 0 => v[k - 1] = u[k - 1])
      BY <1>3, <2>2
    <3> QED
      BY <1>5, <3>1
  <2> QED
    BY <2>1, <2>2
<1>7. DOMAIN v = 0 .. m /\ v = [k \in 0 .. m |-> v[k]]
  OBVIOUS
<1> HIDE DEF v
<1>8. Sums(m, w, v)
  BY <1>6, <1>7 DEF Sums
<1> QED
  BY <1>8, <1>1

\* The sums are natural numbers, and do not depend on n.
LEMMA SumsAgree ==
  ASSUME NEW n \in Nat, NEW w, \A k \in 1 .. n : w[k] \in Nat,
         NEW l \in n .. n + 1, NEW u, Sums(n, w, u), NEW v, Sums(l, w, v)
  PROVE  \A k \in 0 .. n : u[k] \in Nat /\ v[k] = u[k]
<1>1. \A k \in 0 .. n : u[k] = IF k = 0 THEN 0 ELSE u[k - 1] + w[k]
  BY DEF Sums
<1>2. \A k \in 0 .. l : v[k] = IF k = 0 THEN 0 ELSE v[k - 1] + w[k]
  BY DEF Sums
<1> DEFINE Bad == {k \in 0 .. n : ~(u[k] \in Nat /\ v[k] = u[k])}
<1> SUFFICES ASSUME Bad # {} PROVE FALSE
  OBVIOUS
<1>3. PICK m \in Bad : \A k \in Bad : m <= k
  <2>1. Bad \in SUBSET Nat
    OBVIOUS
  <2> HIDE DEF Bad
  <2> QED
    BY <2>1, LeastNatural
<1>4. m \in 0 .. n /\ m \in 0 .. l /\ ~(u[m] \in Nat /\ v[m] = u[m])
  BY <1>3
<1>5. m # 0
  BY <1>1, <1>2, <1>4
<1>6. m - 1 \in 0 .. n /\ m \in 1 .. n /\ m - 1 \notin Bad
  BY <1>3, <1>4, <1>5
<1>7. u[m - 1] \in Nat /\ v[m - 1] = u[m - 1]
  BY <1>6
<1> HIDE DEF Bad
<1> QED
  BY <1>1, <1>2, <1>4, <1>5, <1>6, <1>7

\* What the definition of a sum chooses is the last of these sums.
LEMMA SumIsLast ==
  ASSUME NEW n \in Nat, NEW w, NEW u, Sums(n, w, u), \A k \in 1 .. n : w[k] \in Nat
  PROVE  SumUpTo(n, w) = u[n] /\ SumUpTo(n, w) \in Nat
<1> DEFINE upTo == CHOOSE f : f = [k \in 0 .. n |-> IF k = 0 THEN 0 ELSE f[k - 1] + w[k]]
<1>1. Sums(n, w, upTo)
  <2>1. \E f : f = [k \in 0 .. n |-> IF k = 0 THEN 0 ELSE f[k - 1] + w[k]]
    BY Zenon DEF Sums
  <2> QED
    BY <2>1, Zenon DEF Sums
<1>2. SumUpTo(n, w) = upTo[n]
  BY Zenon DEF SumUpTo
<1> HIDE DEF upTo
<1>3. n \in n .. n + 1 /\ n \in 0 .. n
  OBVIOUS
<1>4. \A k \in 0 .. n : u[k] \in Nat /\ upTo[k] = u[k]
  BY <1>1, <1>3, SumsAgree
<1> QED
  BY <1>2, <1>3, <1>4

\* A sum grows by its last term.
LEMMA SumStep ==
  /\ \A w : SumUpTo(0, w) = 0
  /\ \A n \in Nat : \A w :
       (\A k \in 1 .. n + 1 : w[k] \in Nat) =>
         /\ SumUpTo(n, w) \in Nat /\ SumUpTo(n + 1, w) \in Nat
         /\ SumUpTo(n + 1, w) = SumUpTo(n, w) + w[n + 1]
<1>1. ASSUME NEW w PROVE SumUpTo(0, w) = 0
  <2>1. PICK u : Sums(0, w, u)
    BY SumsExist
  <2>2. SumUpTo(0, w) = u[0]
    BY <2>1, SumIsLast
  <2> QED
    BY <2>1, <2>2 DEF Sums
<1>2. ASSUME NEW n \in Nat, NEW w, \A k \in 1 .. n + 1 : w[k] \in Nat
      PROVE  /\ SumUpTo(n, w) \in Nat /\ SumUpTo(n + 1, w) \in Nat
             /\ SumUpTo(n + 1, w) = SumUpTo(n, w) + w[n + 1]
  <2>1. n + 1 \in Nat /\ \A k \in 1 .. n : w[k] \in Nat
    BY <1>2
  <2>2. PICK u : Sums(n, w, u)
    BY SumsExist
  <2>3. PICK v : Sums(n + 1, w, v)
    BY <2>1, SumsExist
  <2>4. SumUpTo(n, w) = u[n] /\ SumUpTo(n, w) \in Nat
    BY <2>1, <2>2, SumIsLast
  <2>5. SumUpTo(n + 1, w) = v[n + 1] /\ SumUpTo(n + 1, w) \in Nat
    BY <1>2, <2>1, <2>3, SumIsLast
  <2>6. v[n] = u[n]
    <3>1. n + 1 \in n .. n + 1 /\ n \in 0 .. n
      OBVIOUS
    <3> QED
      BY <2>1, <2>2, <2>3, <3>1, SumsAgree
  <2>7. v[n + 1] = v[n] + w[n + 1]
    <3>1. \A k \in 0 .. n + 1 : v[k] = IF k = 0 THEN 0 ELSE v[k - 1] + w[k]
      BY <2>3 DEF Sums
    <3> QED
      BY <3>1
  <2> QED
    BY <2>4, <2>5, <2>6, <2>7
<1> QED
  BY <1>1, <1>2

\* Sums of sums.
LEMMA SumAdds ==
  ASSUME NEW n \in Nat, NEW u, NEW v, NEW w,
         \A k \in 1 .. n : v[k] \in Nat /\ w[k] \in Nat /\ u[k] = v[k] + w[k]
  PROVE  SumUpTo(n, u) = SumUpTo(n, v) + SumUpTo(n, w)
<1> DEFINE Good(k) == SumUpTo(k, u) = SumUpTo(k, v) + SumUpTo(k, w)
           Bad == {k \in 0 .. n : ~Good(k)}
<1>1. Good(n) \/ n \in Bad
  OBVIOUS
<1> SUFFICES ASSUME Bad # {} PROVE FALSE
  BY <1>1
<1>2. Bad \in SUBSET Nat
  OBVIOUS
<1>3. PICK m \in Bad : \A k \in Bad : m <= k
  <2> HIDE DEF Bad
  <2> QED
    BY <1>2, LeastNatural
<1>4. m \in 0 .. n /\ ~Good(m)
  BY <1>3
<1>5. m # 0
  <2>1. Good(0)
    BY SumStep
  <2> QED
    BY <1>4, <2>1
<1>6. m - 1 \in Nat /\ m - 1 \in 0 .. n /\ m \in 1 .. n /\ (m - 1) + 1 = m /\ Good(m - 1)
  <2>1. m - 1 \in Nat /\ m - 1 \in 0 .. n /\ m \in 1 .. n /\ (m - 1) + 1 = m
    BY <1>4, <1>5
  <2> HIDE DEF Good
  <2>2. m - 1 \notin Bad
    BY <1>3, <2>1
  <2> QED
    BY <2>1, <2>2
<1>7. \A k \in 1 .. m : u[k] \in Nat /\ v[k] \in Nat /\ w[k] \in Nat
  BY <1>4
<1>8. /\ SumUpTo(m, u) = SumUpTo(m - 1, u) + u[m] /\ SumUpTo(m - 1, u) \in Nat
      /\ SumUpTo(m, v) = SumUpTo(m - 1, v) + v[m] /\ SumUpTo(m - 1, v) \in Nat
      /\ SumUpTo(m, w) = SumUpTo(m - 1, w) + w[m] /\ SumUpTo(m - 1, w) \in Nat
  BY <1>6, <1>7, SumStep
<1>9. u[m] = v[m] + w[m] /\ v[m] \in Nat /\ w[m] \in Nat
  BY <1>6
<1>10. Good(m)
  BY <1>6, <1>8, <1>9
<1> QED
  BY <1>4, <1>10

\* A sum is 0 if and only if its terms are.
LEMMA SumOfNothing ==
  ASSUME NEW n \in Nat, NEW w, \A k \in 1 .. n : w[k] \in Nat
  PROVE  SumUpTo(n, w) \in Nat /\ (SumUpTo(n, w) = 0 <=> \A k \in 1 .. n : w[k] = 0)
<1> DEFINE Good(k) == /\ SumUpTo(k, w) \in Nat
                      /\ SumUpTo(k, w) = 0 <=> \A j \in 1 .. k : w[j] = 0
           Bad == {k \in 0 .. n : ~Good(k)}
<1>1. Good(n) \/ n \in Bad
  OBVIOUS
<1> SUFFICES ASSUME Bad # {} PROVE FALSE
  BY <1>1
<1>2. Bad \in SUBSET Nat
  OBVIOUS
<1>3. PICK m \in Bad : \A k \in Bad : m <= k
  <2> HIDE DEF Bad
  <2> QED
    BY <1>2, LeastNatural
<1>4. m \in 0 .. n /\ ~Good(m)
  BY <1>3
<1>5. m # 0
  <2>1. Good(0)
    BY SumStep
  <2> QED
    BY <1>4, <2>1
<1>6. m - 1 \in Nat /\ m - 1 \in 0 .. n /\ m \in 1 .. n /\ (m - 1) + 1 = m /\ Good(m - 1)
  <2>1. m - 1 \in Nat /\ m - 1 \in 0 .. n /\ m \in 1 .. n /\ (m - 1) + 1 = m
    BY <1>4, <1>5
  <2> HIDE DEF Good
  <2>2. m - 1 \notin Bad
    BY <1>3, <2>1
  <2> QED
    BY <2>1, <2>2
<1>7. SumUpTo(m, w) = SumUpTo(m - 1, w) + w[m]
  <2>1. \A k \in 1 .. m : w[k] \in Nat
    BY <1>4
  <2> QED
    BY <1>6, <2>1, SumStep
<1>8. (\A j \in 1 .. m : w[j] = 0) <=> (w[m] = 0 /\ \A j \in 1 .. m - 1 : w[j] = 0)
  BY <1>6
<1>9. Good(m)
  BY <1>6, <1>7, <1>8
<1> QED
  BY <1>4, <1>9

\* c is the sum of a and b.
Adds(a, b, c) == a \in Nat /\ b \in Nat /\ c = a + b

\* The weight of the members of S, each with its weight in f.
Weigh(n, f, S) == SumUpTo(n, [k \in 1 .. n |-> IF k \in S THEN f[k] ELSE 0])

\* The weights of two sets without a common member add up.
LEMMA WeighAdds ==
  ASSUME NEW n \in Nat, NEW f, \A k \in 1 .. n : f[k] \in Nat \ {0}, NEW S, NEW T, NEW U,
         \A k \in 1 .. n : (k \in U <=> k \in S \/ k \in T) /\ ~(k \in S /\ k \in T)
  PROVE  Adds(Weigh(n, f, S), Weigh(n, f, T), Weigh(n, f, U))
<1> DEFINE u == [k \in 1 .. n |-> IF k \in U THEN f[k] ELSE 0]
           v == [k \in 1 .. n |-> IF k \in S THEN f[k] ELSE 0]
           w == [k \in 1 .. n |-> IF k \in T THEN f[k] ELSE 0]
<1>1. \A k \in 1 .. n : v[k] \in Nat /\ w[k] \in Nat /\ u[k] = v[k] + w[k]
  OBVIOUS
<1>2. /\ Weigh(n, f, U) = SumUpTo(n, u)
      /\ Weigh(n, f, S) = SumUpTo(n, v) /\ Weigh(n, f, T) = SumUpTo(n, w)
  BY DEF Weigh
<1> HIDE DEF u, v, w
<1>3. SumUpTo(n, u) = SumUpTo(n, v) + SumUpTo(n, w)
  BY <1>1, SumAdds
<1>4. SumUpTo(n, v) \in Nat /\ SumUpTo(n, w) \in Nat
  BY <1>1, SumOfNothing
<1> QED
  BY <1>2, <1>3, <1>4 DEF Adds

\* Only nothing weighs nothing.
LEMMA WeighNothing ==
  ASSUME NEW n \in Nat, NEW f, \A k \in 1 .. n : f[k] \in Nat \ {0}, NEW S
  PROVE  Weigh(n, f, S) \in Nat /\ (Weigh(n, f, S) = 0 <=> \A k \in 1 .. n : k \notin S)
<1> DEFINE v == [k \in 1 .. n |-> IF k \in S THEN f[k] ELSE 0]
<1>1. \A k \in 1 .. n : v[k] \in Nat
  OBVIOUS
<1>2. (\A k \in 1 .. n : v[k] = 0) <=> \A k \in 1 .. n : k \notin S
  OBVIOUS
<1>3. Weigh(n, f, S) = SumUpTo(n, v)
  BY DEF Weigh
<1> HIDE DEF v
<1>4. SumUpTo(n, v) \in Nat /\ (SumUpTo(n, v) = 0 <=> \A k \in 1 .. n : v[k] = 0)
  BY <1>1, SumOfNothing
<1> QED
  BY <1>2, <1>3, <1>4

\* Only the weights of the members matter, and only up to n.
LEMMA WeighSame ==
  ASSUME NEW n \in Nat, NEW S, NEW T, NEW f, NEW g, \A k \in 1 .. n : f[k] \in Nat,
         \A k \in 1 .. n : (k \in S <=> k \in T) /\ (k \in S => f[k] = g[k])
  PROVE  Weigh(n, f, S) = Weigh(n, g, T) /\ Weigh(n, f, S) \in Nat
<1> DEFINE u == [k \in 1 .. n |-> IF k \in T THEN g[k] ELSE 0]
           v == [k \in 1 .. n |-> IF k \in S THEN f[k] ELSE 0]
           w == [k \in 1 .. n |-> 0]
<1>1. \A k \in 1 .. n : v[k] \in Nat /\ w[k] = 0 /\ u[k] = v[k]
  OBVIOUS
<1>2. Weigh(n, f, S) = SumUpTo(n, v) /\ Weigh(n, g, T) = SumUpTo(n, u)
  BY DEF Weigh
<1> HIDE DEF u, v, w
<1>3. SumUpTo(n, u) = SumUpTo(n, v) + SumUpTo(n, w)
  BY <1>1, SumAdds
<1>4. SumUpTo(n, w) = 0 /\ SumUpTo(n, v) \in Nat
  BY <1>1, SumOfNothing
<1> QED
  BY <1>2, <1>3, <1>4

\* The next one adds its weight.
LEMMA WeighNext ==
  ASSUME NEW n \in Nat, NEW f, \A k \in 1 .. n + 1 : f[k] \in Nat \ {0}, NEW S
  PROVE  Weigh(n + 1, f, S) = Weigh(n, f, S) + (IF n + 1 \in S THEN f[n + 1] ELSE 0)
<1> DEFINE w == [k \in 1 .. n + 1 |-> IF k \in S THEN f[k] ELSE 0]
           v == [k \in 1 .. n |-> IF k \in S THEN f[k] ELSE 0]
           z == [k \in 1 .. n |-> 0]
<1>1. \A k \in 1 .. n + 1 : w[k] \in Nat
  OBVIOUS
<1>2. \A k \in 1 .. n : v[k] \in Nat /\ z[k] = 0 /\ w[k] = v[k]
  OBVIOUS
<1>3. w[n + 1] = IF n + 1 \in S THEN f[n + 1] ELSE 0
  OBVIOUS
<1>4. Weigh(n + 1, f, S) = SumUpTo(n + 1, w) /\ Weigh(n, f, S) = SumUpTo(n, v)
  BY DEF Weigh
<1> HIDE DEF w, v, z
<1>5. SumUpTo(n + 1, w) = SumUpTo(n, w) + w[n + 1]
  BY <1>1, SumStep
<1>6. SumUpTo(n, w) = SumUpTo(n, v) + SumUpTo(n, z)
  BY <1>2, SumAdds
<1>7. SumUpTo(n, z) = 0 /\ SumUpTo(n, v) \in Nat
  BY <1>2, SumOfNothing
<1> QED
  BY <1>3, <1>4, <1>5, <1>6, <1>7

\* A set of one member has the weight of that member.
LEMMA WeighOne ==
  ASSUME NEW n \in Nat, NEW f, \A k \in 1 .. n : f[k] \in Nat \ {0}, NEW l \in 1 .. n
  PROVE  Weigh(n, f, {l}) = f[l]
<1> DEFINE Good(k) == Weigh(k, f, {l}) = IF k < l THEN 0 ELSE f[l]
           Bad == {k \in 0 .. n : ~Good(k)}
<1>1. Good(n) \/ n \in Bad
  OBVIOUS
<1>2. Good(n) => Weigh(n, f, {l}) = f[l]
  OBVIOUS
<1> SUFFICES ASSUME Bad # {} PROVE FALSE
  BY <1>1, <1>2
<1>3. PICK m \in Bad : \A k \in Bad : m <= k
  <2>1. Bad \in SUBSET Nat
    OBVIOUS
  <2> HIDE DEF Bad
  <2> QED
    BY <2>1, LeastNatural
<1>4. m \in 0 .. n /\ ~Good(m)
  BY <1>3
<1>5. m # 0
  <2>1. Good(0)
    BY SumStep DEF Weigh
  <2> QED
    BY <1>4, <2>1
<1>6. m - 1 \in Nat /\ m - 1 \in 0 .. n /\ m \in 1 .. n /\ (m - 1) + 1 = m /\ Good(m - 1)
  <2>1. m - 1 \in Nat /\ m - 1 \in 0 .. n /\ m \in 1 .. n /\ (m - 1) + 1 = m
    BY <1>4, <1>5
  <2> HIDE DEF Good
  <2>2. m - 1 \notin Bad
    BY <1>3, <2>1
  <2> QED
    BY <2>1, <2>2
<1>7. Weigh(m, f, {l}) = Weigh(m - 1, f, {l}) + (IF m \in {l} THEN f[m] ELSE 0)
  <2>1. \A k \in 1 .. (m - 1) + 1 : f[k] \in Nat \ {0}
    BY <1>6
  <2>2. Weigh((m - 1) + 1, f, {l})
          = Weigh(m - 1, f, {l}) + (IF (m - 1) + 1 \in {l} THEN f[(m - 1) + 1] ELSE 0)
    BY <1>6, <2>1, WeighNext
  <2> QED
    BY <1>6, <2>2
<1>8. f[l] \in Nat
  OBVIOUS
<1>9. Good(m)
  BY <1>6, <1>7, <1>8
<1> QED
  BY <1>4, <1>9

--------------------------------------------------------------------------
(* The size of a message in packets                                        *)

\* calc_packeted_size counts a message from its end as the source counts it
\* from its start: one packet and the rest of the message.
LEMMA PacketByPacket ==
  /\ Packeted(0) = 0
  /\ \A left \in Nat \ {0} :
       /\ Segment(left) \in 1 .. left /\ Packeted(left) \in Nat \ {0}
       /\ Packeted(left) = Segment(left) + Hdr + Packeted(left - Segment(left))
<1>1. Mss \in Nat \ {0} /\ Hdr \in Nat \ {0}
  BY MsgsAssumption
<1>2. \A a \in Nat : a < Mss => a \div Mss = 0
  BY <1>1
<1>3. \A a \in Nat : (a + Mss) \div Mss = (a \div Mss) + 1 /\ a \div Mss \in Nat
  BY <1>1
<1>4. Packeted(0) = 0
  BY <1>1, <1>2 DEF Packeted
<1>5. ASSUME NEW left \in Nat \ {0}
      PROVE  /\ Segment(left) \in 1 .. left /\ Packeted(left) \in Nat \ {0}
             /\ Packeted(left) = Segment(left) + Hdr + Packeted(left - Segment(left))
  <2> DEFINE q == (left - 1) \div Mss
  <2>1. (left + Mss - 1) \div Mss = q + 1 /\ q \in Nat
    <3>1. left - 1 \in Nat /\ left + Mss - 1 = (left - 1) + Mss
      BY <1>1
    <3> QED
      BY <1>3, <3>1
  <2> HIDE DEF q
  <2>2. Packeted(left) = (q + 1) * Hdr + left
    BY <2>1 DEF Packeted
  <2>3. Packeted(left) \in Nat \ {0}
    <3>1. (q + 1) * Hdr \in Nat
      BY <1>1, <2>1
    <3> QED
      BY <2>2, <3>1
  <2>4. CASE left < Mss
    <3>1. Segment(left) = left /\ left - Segment(left) = 0
      BY <2>4 DEF Segment
    <3>2. q = 0
      BY <1>1, <1>2, <2>4 DEF q
    <3> QED
      BY <1>1, <1>4, <2>2, <2>3, <3>1, <3>2
  <2>5. CASE ~(left < Mss)
    <3>1. Segment(left) = Mss /\ left - Mss \in Nat /\ Mss \in 1 .. left
      BY <1>1, <2>5 DEF Segment
    <3>2. Packeted(left - Mss) = ((left - Mss + Mss - 1) \div Mss) * Hdr + (left - Mss)
      BY DEF Packeted
    <3>3. left - Mss + Mss - 1 = left - 1
      BY <1>1
    <3>4. Packeted(left - Mss) = q * Hdr + (left - Mss)
      BY <3>2, <3>3 DEF q
    <3>5. (q + 1) * Hdr = q * Hdr + Hdr /\ q * Hdr \in Nat
      BY <1>1, <2>1
    <3> QED
      BY <1>1, <2>2, <2>3, <3>1, <3>4, <3>5
  <2> QED
    BY <2>4, <2>5
<1> QED
  BY <1>4, <1>5

--------------------------------------------------------------------------
(* Packets and their bytes                                                 *)

Packet == [msg : Msgs, size : Nat \ {0}]
Bytes(p, ds) == Weigh(Len(p), [d \in DOMAIN p |-> p[d].size], ds)

\* What it means that p is a sequence of packets.
LEMMA PacketsOf ==
  ASSUME NEW p \in Seq(Packet)
  PROVE  /\ Len(p) \in Nat /\ DOMAIN p = 1 .. Len(p)
         /\ \A d \in DOMAIN p : p[d].msg \in Msgs /\ p[d].size \in Nat \ {0}
<1>1. Len(p) \in Nat /\ DOMAIN p = 1 .. Len(p) /\ \A d \in DOMAIN p : p[d] \in Packet
  OBVIOUS
<1>2. \A e \in Packet : e.msg \in Msgs /\ e.size \in Nat \ {0}
  BY DEF Packet
<1> QED
  BY <1>1, <1>2

\* The bytes of the model are a weight.
LEMMA BytesInIs ==
  ASSUME packets \in Seq(Packet), NEW ds
  PROVE  BytesIn(ds) = Bytes(packets, ds)
<1>1. DOMAIN packets = 1 .. Len(packets)
  BY PacketsOf
<1>2. [d \in DOMAIN packets |-> IF d \in ds THEN packets[d].size ELSE 0]
        = [d \in 1 .. Len(packets) |-> IF d \in ds THEN [e \in DOMAIN packets |-> packets[e].size][d] ELSE 0]
  BY <1>1
<1> QED
  BY <1>2, Zenon DEF BytesIn, Bytes, Weigh

\* Bytes add up.
LEMMA BytesAdd ==
  ASSUME NEW p \in Seq(Packet), NEW S, NEW T, NEW U,
         \A d \in DOMAIN p : (d \in U <=> d \in S \/ d \in T) /\ ~(d \in S /\ d \in T)
  PROVE  Adds(Bytes(p, S), Bytes(p, T), Bytes(p, U))
<1> DEFINE f == [d \in DOMAIN p |-> p[d].size]
<1>1. Len(p) \in Nat /\ DOMAIN p = 1 .. Len(p) /\ \A d \in 1 .. Len(p) : f[d] \in Nat \ {0}
  BY PacketsOf
<1>2. \A R : Bytes(p, R) = Weigh(Len(p), f, R)
  BY DEF Bytes
<1> HIDE DEF f
<1>3. Adds(Weigh(Len(p), f, S), Weigh(Len(p), f, T), Weigh(Len(p), f, U))
  <2>1. \A d \in 1 .. Len(p) : (d \in U <=> d \in S \/ d \in T) /\ ~(d \in S /\ d \in T)
    BY <1>1
  <2> QED
    BY <1>1, <2>1, WeighAdds, Zenon
<1> QED
  BY <1>2, <1>3

\* Every packet has some.
LEMMA BytesOfNone ==
  ASSUME NEW p \in Seq(Packet), NEW S
  PROVE  Bytes(p, S) \in Nat /\ (Bytes(p, S) = 0 <=> \A d \in DOMAIN p : d \notin S)
<1> DEFINE f == [d \in DOMAIN p |-> p[d].size]
<1>1. Len(p) \in Nat /\ DOMAIN p = 1 .. Len(p) /\ \A d \in 1 .. Len(p) : f[d] \in Nat \ {0}
  BY PacketsOf
<1>2. Bytes(p, S) = Weigh(Len(p), f, S)
  BY DEF Bytes
<1> HIDE DEF f
<1> QED
  BY <1>1, <1>2, WeighNothing

\* The bytes of one packet are its size.
LEMMA BytesOfOne ==
  ASSUME NEW p \in Seq(Packet), NEW d \in 1 .. Len(p)
  PROVE  Bytes(p, {d}) = p[d].size
<1> DEFINE f == [e \in DOMAIN p |-> p[e].size]
<1>1. Len(p) \in Nat /\ (\A e \in 1 .. Len(p) : f[e] \in Nat \ {0}) /\ f[d] = p[d].size
  BY PacketsOf
<1>2. Bytes(p, {d}) = Weigh(Len(p), f, {d})
  BY DEF Bytes
<1> HIDE DEF f
<1> QED
  BY <1>1, <1>2, WeighOne

\* Fewer packets have fewer bytes.
LEMMA BytesOfSome ==
  ASSUME NEW p \in Seq(Packet), NEW S, NEW T, \A d \in DOMAIN p : d \in S => d \in T
  PROVE  /\ Bytes(p, S) \in Nat /\ Bytes(p, T) \in Nat /\ Bytes(p, S) <= Bytes(p, T)
         /\ Bytes(p, S) = Bytes(p, T) => \A d \in DOMAIN p : d \in T => d \in S
<1> DEFINE R == T \ S
<1>1. \A d \in DOMAIN p : (d \in T <=> d \in S \/ d \in R) /\ ~(d \in S /\ d \in R)
  OBVIOUS
<1>2. (\A d \in DOMAIN p : d \notin R) => \A d \in DOMAIN p : d \in T => d \in S
  OBVIOUS
<1> HIDE DEF R
<1>3. Adds(Bytes(p, S), Bytes(p, R), Bytes(p, T))
  BY <1>1, BytesAdd
<1>4. /\ Bytes(p, S) \in Nat /\ Bytes(p, R) \in Nat
      /\ Bytes(p, R) = 0 => \A d \in DOMAIN p : d \notin R
  BY BytesOfNone
<1> QED
  BY <1>2, <1>3, <1>4 DEF Adds

\* What is sent later does not change the bytes sent.
LEMMA BytesAppend ==
  ASSUME NEW p \in Seq(Packet), NEW e \in Packet, NEW S, NEW T,
         \A d \in DOMAIN p : d \in S <=> d \in T
  PROVE  Bytes(Append(p, e), T) = Bytes(p, S) + (IF Len(p) + 1 \in T THEN e.size ELSE 0)
<1> DEFINE n == Len(p)
           q == Append(p, e)
           f == [d \in DOMAIN p |-> p[d].size]
           g == [d \in DOMAIN q |-> q[d].size]
<1>1. n \in Nat /\ q \in Seq(Packet) /\ Len(q) = n + 1 /\ q[n + 1] = e
  OBVIOUS
<1>2. DOMAIN p = 1 .. n /\ \A d \in 1 .. n : q[d] = p[d]
  OBVIOUS
<1> HIDE DEF q
<1>3. DOMAIN q = 1 .. n + 1
  BY <1>1
<1>4. \A d \in 1 .. n : f[d] \in Nat /\ g[d] = f[d]
  BY <1>1, <1>2, <1>3, PacketsOf
<1>5. (\A d \in 1 .. n + 1 : g[d] \in Nat \ {0}) /\ g[n + 1] = e.size
  <2>1. \A d \in 1 .. n + 1 : g[d] = q[d].size /\ q[d].size \in Nat \ {0}
    BY <1>1, <1>3, PacketsOf
  <2>2. n + 1 \in 1 .. n + 1
    BY <1>1
  <2> QED
    BY <1>1, <2>1, <2>2
<1>6. Bytes(p, S) = Weigh(n, f, S) /\ Bytes(q, T) = Weigh(n + 1, g, T)
  BY <1>1 DEF Bytes
<1> HIDE DEF f, g, n
<1>7. Weigh(n + 1, g, T) = Weigh(n, g, T) + (IF n + 1 \in T THEN g[n + 1] ELSE 0)
  BY <1>1, <1>5, WeighNext
<1>8. \A d \in 1 .. n : (d \in S <=> d \in T) /\ (d \in S => f[d] = g[d])
  BY <1>2, <1>4
<1>9. Weigh(n, f, S) = Weigh(n, g, T)
  BY <1>1, <1>4, <1>8, WeighSame
<1> QED
  BY <1>5, <1>6, <1>7, <1>9 DEF q, n

--------------------------------------------------------------------------
(* Messages and their size in packets                                      *)

\* The packeted bytes of messages are a weight as well, and none is zero.
LEMMA PacketedIs ==
  /\ NumMsgs \in Nat /\ Msgs = 1 .. NumMsgs
  /\ \A m \in Msgs : Packeted(Size[m]) \in Nat \ {0}
  /\ \A S : PacketedSum(S) = Weigh(NumMsgs, [m \in Msgs |-> Packeted(Size[m])], S)
<1> DEFINE f == [m \in Msgs |-> Packeted(Size[m])]
<1>1. NumMsgs \in Nat /\ Msgs = 1 .. NumMsgs /\ \A m \in Msgs : Size[m] \in Nat \ {0}
  BY MsgsAssumption DEF Msgs
<1>2. ASSUME NEW S PROVE PacketedSum(S) = Weigh(NumMsgs, f, S)
  <2>1. [m \in Msgs |-> IF m \in S THEN Packeted(Size[m]) ELSE 0]
          = [m \in 1 .. NumMsgs |-> IF m \in S THEN f[m] ELSE 0]
    BY DEF Msgs
  <2> HIDE DEF f
  <2> QED
    BY <2>1, Zenon DEF PacketedSum, Weigh
<1> QED
  BY <1>1, <1>2, PacketByPacket

\* So they add up for sets without a common message,
LEMMA PacketedAdds ==
  ASSUME NEW S, NEW T, NEW U,
         \A m \in Msgs : (m \in U <=> m \in S \/ m \in T) /\ ~(m \in S /\ m \in T)
  PROVE  Adds(PacketedSum(S), PacketedSum(T), PacketedSum(U))
<1> DEFINE f == [m \in Msgs |-> Packeted(Size[m])]
<1>1. NumMsgs \in Nat /\ \A m \in 1 .. NumMsgs : f[m] \in Nat \ {0}
  BY PacketedIs
<1>2. \A R : PacketedSum(R) = Weigh(NumMsgs, f, R)
  BY PacketedIs
<1> HIDE DEF f
<1>3. Adds(Weigh(NumMsgs, f, S), Weigh(NumMsgs, f, T), Weigh(NumMsgs, f, U))
  <2>1. \A m \in 1 .. NumMsgs : (m \in U <=> m \in S \/ m \in T) /\ ~(m \in S /\ m \in T)
    BY DEF Msgs
  <2> QED
    BY <1>1, <2>1, WeighAdds, Zenon
<1> QED
  BY <1>2, <1>3

\* are zero for no message only,
LEMMA PacketedOfNone ==
  ASSUME NEW S
  PROVE  PacketedSum(S) \in Nat /\ (PacketedSum(S) = 0 <=> \A m \in Msgs : m \notin S)
<1> DEFINE f == [m \in Msgs |-> Packeted(Size[m])]
<1>1. NumMsgs \in Nat /\ \A m \in 1 .. NumMsgs : f[m] \in Nat \ {0}
  BY PacketedIs
<1>2. PacketedSum(S) = Weigh(NumMsgs, f, S)
  BY PacketedIs
<1> HIDE DEF f
<1> QED
  BY <1>1, <1>2, WeighNothing DEF Msgs

\* and are those of the message if there is one.
LEMMA PacketedOfOne ==
  ASSUME NEW m \in Msgs
  PROVE  PacketedSum({m}) = Packeted(Size[m])
<1> DEFINE f == [k \in Msgs |-> Packeted(Size[k])]
<1>1. NumMsgs \in Nat /\ m \in 1 .. NumMsgs /\ \A k \in 1 .. NumMsgs : f[k] \in Nat \ {0}
  BY PacketedIs
<1>2. PacketedSum({m}) = Weigh(NumMsgs, f, {m}) /\ f[m] = Packeted(Size[m])
  BY PacketedIs
<1> HIDE DEF f
<1> QED
  BY <1>1, <1>2, WeighOne

\* The queue q holds each message of S, once.
HoldsEach(q, S) ==
  /\ q \in Seq(Msgs)
  /\ \A k \in DOMAIN q : q[k] \in S
  /\ \A m \in S : \E k \in DOMAIN q : q[k] = m
  /\ \A j, k \in DOMAIN q : q[j] = q[k] => j = k

\* The messages that are due become eligible in the order of their number, each
\* once.
LEMMA IdOrder ==
  ASSUME NEW ms \in SUBSET Msgs
  PROVE  HoldsEach(InIdOrder(ms), ms)
<1> DEFINE N == Cardinality(ms)
           rank == [m \in ms |-> Rank(ms, m)]
           upTo(m) == {a \in ms : a <= m}
           s == InIdOrder(ms)
<1>1. IsFiniteSet(ms) /\ N \in Nat /\ ms \subseteq Nat
  <2>1. NumMsgs \in Nat /\ ms \subseteq 1 .. NumMsgs
    BY MsgsAssumption DEF Msgs
  <2>2. IsFiniteSet(1 .. NumMsgs)
    BY <2>1, FS_Interval
  <2>3. IsFiniteSet(ms)
    BY <2>1, <2>2, FS_Subset
  <2> QED
    BY <2>1, <2>3, FS_CardinalityType
<1>2. \A m \in ms : Rank(ms, m) \in 1 .. N
  <2> SUFFICES ASSUME NEW m \in ms PROVE Rank(ms, m) \in 1 .. N
    OBVIOUS
  <2>1. upTo(m) \subseteq ms /\ m \in upTo(m)
    BY <1>1
  <2>2. Rank(ms, m) = Cardinality(upTo(m))
    BY DEF Rank
  <2> HIDE DEF upTo
  <2>3. IsFiniteSet(upTo(m)) /\ Cardinality(upTo(m)) <= N
    BY <1>1, <2>1, FS_Subset
  <2>4. Cardinality(upTo(m)) \in Nat /\ Cardinality(upTo(m)) # 0
    BY <2>1, <2>3, FS_CardinalityType, FS_EmptySet
  <2> QED
    BY <1>1, <2>2, <2>3, <2>4
<1>3. \A l, m \in ms : l < m => Rank(ms, l) < Rank(ms, m)
  <2> SUFFICES ASSUME NEW l \in ms, NEW m \in ms, l < m PROVE Rank(ms, l) < Rank(ms, m)
    OBVIOUS
  <2>1. upTo(l) \subseteq upTo(m) /\ m \notin upTo(l) /\ m \in upTo(m) /\ upTo(m) \subseteq ms
    <3>1. \A a \in ms : a \in Nat
      BY <1>1
    <3>2. \A a \in ms : a <= l => a <= m
      BY <3>1
    <3>3. ~(m <= l) /\ m <= m
      BY <3>1
    <3> QED
      BY <3>2, <3>3
  <2>2. Rank(ms, l) = Cardinality(upTo(l)) /\ Rank(ms, m) = Cardinality(upTo(m))
    BY DEF Rank
  <2> HIDE DEF upTo
  <2>3. IsFiniteSet(upTo(m)) /\ IsFiniteSet(upTo(l))
    BY <1>1, <2>1, FS_Subset
  <2>4. Cardinality(upTo(l)) <= Cardinality(upTo(m)) /\ Cardinality(upTo(l)) # Cardinality(upTo(m))
    BY <2>1, <2>3, FS_Subset
  <2>5. Cardinality(upTo(l)) \in Nat /\ Cardinality(upTo(m)) \in Nat
    BY <2>3, FS_CardinalityType
  <2> QED
    BY <2>2, <2>4, <2>5
<1> HIDE DEF N
<1>4. \A l, m \in ms : Rank(ms, l) = Rank(ms, m) => l = m
  <2> SUFFICES ASSUME NEW l \in ms, NEW m \in ms, l # m PROVE Rank(ms, l) # Rank(ms, m)
    OBVIOUS
  <2>1. l < m \/ m < l
    BY <1>1
  <2>2. Rank(ms, l) \in Nat /\ Rank(ms, m) \in Nat
    BY <1>2
  <2> QED
    BY <1>3, <2>1, <2>2
<1>5. \A k \in 1 .. N : \E m \in ms : Rank(ms, m) = k
  <2>1. rank \in [ms -> 1 .. N] /\ \A l, m \in ms : rank[l] = rank[m] => l = m
    BY <1>2, <1>4
  <2> HIDE DEF rank
  <2>2. rank \in Injection(ms, 1 .. N)
    BY <2>1 DEF Injection, IsInjective
  <2>3. IsFiniteSet(1 .. N) /\ Cardinality(1 .. N) = N
    BY <1>1, FS_Interval
  <2>4. rank \in Surjection(ms, 1 .. N)
    BY <2>2, <2>3, FS_Injection DEF N
  <2> QED
    BY <2>4 DEF Surjection, rank
<1>6. \A k \in 1 .. N : s[k] \in ms /\ Rank(ms, s[k]) = k
  BY <1>5 DEF InIdOrder, N
<1>7. DOMAIN s = 1 .. N /\ s = [k \in 1 .. N |-> s[k]]
  BY DEF InIdOrder, N
<1> HIDE DEF s
<1>8. s \in Seq(Msgs)
  BY <1>1, <1>6, <1>7
<1>9. \A m \in ms : \E k \in DOMAIN s : s[k] = m
  BY <1>2, <1>4, <1>6, <1>7
<1>10. \A j, k \in DOMAIN s : s[j] = s[k] => j = k
  BY <1>6, <1>7
<1> QED
  BY <1>6, <1>7, <1>8, <1>9, <1>10 DEF HoldsEach, s

\* A queue that holds each of S holds S.
LEMMA QueueSet ==
  ASSUME NEW q, NEW S, HoldsEach(q, S)
  PROVE  ToSet(q) = S
<1>1. ToSet(q) \subseteq S
  BY DEF HoldsEach, ToSet
<1>2. S \subseteq ToSet(q)
  BY DEF HoldsEach, ToSet
<1> QED
  BY <1>1, <1>2

\* It is empty if and only if S is.
LEMMA QueueEmpty ==
  ASSUME NEW q, NEW S, HoldsEach(q, S)
  PROVE  q = <<>> <=> \A m : m \notin S
<1>1. q \in Seq(Msgs) /\ (q = <<>> <=> DOMAIN q = {})
  BY DEF HoldsEach
<1> QED
  BY <1>1 DEF HoldsEach

\* Two queues, one behind the other.
LEMMA QueueConcat ==
  ASSUME NEW q, NEW S, NEW r, NEW T, HoldsEach(q, S), HoldsEach(r, T), \A m \in S : m \notin T
  PROVE  HoldsEach(q \o r, S \cup T)
<1> DEFINE s == q \o r
           n == Len(q)
           l == Len(r)
<1>1. q \in Seq(Msgs) /\ r \in Seq(Msgs)
  BY DEF HoldsEach
<1>2. /\ n \in Nat /\ l \in Nat /\ DOMAIN q = 1 .. n /\ DOMAIN r = 1 .. l
      /\ s \in Seq(Msgs) /\ Len(s) = n + l
      /\ \A k \in 1 .. n + l : s[k] = IF k <= n THEN q[k] ELSE r[k - n]
  BY <1>1, ConcatProperties
<1> HIDE DEF s, n, l
<1>3. DOMAIN s = 1 .. n + l
  BY <1>2
<1>4. /\ \A k \in DOMAIN s : (k <= n => k \in DOMAIN q /\ s[k] = q[k])
                          /\ (~(k <= n) => k - n \in DOMAIN r /\ s[k] = r[k - n])
      /\ \A k \in DOMAIN q : k \in DOMAIN s /\ s[k] = q[k]
      /\ \A k \in DOMAIN r : k + n \in DOMAIN s /\ s[k + n] = r[k]
  <2>1. \A k \in DOMAIN r : k + n \in DOMAIN s /\ ~(k + n <= n) /\ (k + n) - n = k
    BY <1>2, <1>3
  <2> QED
    BY <1>2, <1>3, <2>1
<1>5. \A k \in DOMAIN s : s[k] \in S \cup T
  BY <1>4 DEF HoldsEach
<1>6. \A m \in S \cup T : \E k \in DOMAIN s : s[k] = m
  BY <1>4 DEF HoldsEach
<1>7. ASSUME NEW j \in DOMAIN s, NEW k \in DOMAIN s, s[j] = s[k] PROVE j = k
  <2>1. j \in Nat /\ k \in Nat
    BY <1>2, <1>3
  <2>2. CASE j <= n /\ k <= n
    BY <1>4, <1>7, <2>2 DEF HoldsEach
  <2>3. CASE ~(j <= n) /\ ~(k <= n)
    <3>1. j - n = k - n
      BY <1>4, <1>7, <2>3 DEF HoldsEach
    <3> QED
      BY <1>2, <2>1, <3>1
  <2>4. ~(j <= n /\ ~(k <= n)) /\ ~(~(j <= n) /\ k <= n)
    BY <1>4, <1>7 DEF HoldsEach
  <2> QED
    BY <2>2, <2>3, <2>4
<1> QED
  BY <1>2, <1>5, <1>6, <1>7 DEF HoldsEach, s

\* A message goes to the end of a queue it is not in.
LEMMA QueueAppend ==
  ASSUME NEW q, NEW S, NEW m \in Msgs, HoldsEach(q, S), m \notin S
  PROVE  HoldsEach(Append(q, m), S \cup {m})
<1>1. HoldsEach(<<m>>, {m})
  BY DEF HoldsEach
<1>2. HoldsEach(q \o <<m>>, S \cup {m})
  BY <1>1, QueueConcat
<1>3. Append(q, m) = q \o <<m>>
  BY DEF HoldsEach
<1> QED
  BY <1>2, <1>3

\* The first message leaves a queue.
LEMMA QueueTail ==
  ASSUME NEW q, NEW S, HoldsEach(q, S), q # <<>>
  PROVE  Head(q) \in S /\ Head(q) \in Msgs /\ HoldsEach(Tail(q), S \ {Head(q)})
<1> DEFINE n == Len(q)
           s == Tail(q)
<1>1. q \in Seq(Msgs)
  BY DEF HoldsEach
<1>2. n \in Nat \ {0} /\ DOMAIN q = 1 .. n /\ Head(q) = q[1] /\ 1 \in DOMAIN q
  BY <1>1
<1>3. s \in Seq(Msgs) /\ Len(s) = n - 1 /\ \A k \in 1 .. n - 1 : s[k] = q[k + 1]
  BY <1>1
<1> HIDE DEF s, n
<1>4. DOMAIN s = 1 .. n - 1
  BY <1>2, <1>3
<1>5. /\ \A k \in DOMAIN s : k \in Nat /\ k + 1 \in DOMAIN q /\ k + 1 # 1 /\ s[k] = q[k + 1]
      /\ \A k \in DOMAIN q : k # 1 => k - 1 \in DOMAIN s /\ s[k - 1] = q[k]
  <2>1. \A k \in DOMAIN q : k # 1 => k - 1 \in DOMAIN s /\ (k - 1) + 1 = k
    BY <1>2, <1>4
  <2> QED
    BY <1>2, <1>3, <1>4, <2>1
<1>6. Head(q) \in S
  BY <1>2 DEF HoldsEach
<1>7. \A k \in DOMAIN s : s[k] \in S \ {Head(q)}
  BY <1>2, <1>5 DEF HoldsEach
<1>8. \A m \in S \ {Head(q)} : \E k \in DOMAIN s : s[k] = m
  BY <1>2, <1>5 DEF HoldsEach
<1>9. \A j, k \in DOMAIN s : s[j] = s[k] => j = k
  BY <1>5 DEF HoldsEach
<1>10. Head(q) \in Msgs
  BY <1>1, <1>2
<1> QED
  BY <1>3, <1>6, <1>7, <1>8, <1>9, <1>10 DEF HoldsEach, s
--------------------------------------------------------------------------
(* The books of the messages                                               *)

Statuses == {"Init", "SentFirst", "SentLast", "RecvdLast", "Finished"}

\* The status of message m says how many of its bytes are sent, received and
\* acked; only the current message is sent in part.
StatusFits(m, st, sn, rv, ak, c) ==
  /\ st \in Statuses /\ {sn, rv, ak} \subseteq Nat
  /\ ak <= rv /\ rv <= sn /\ sn <= Size[m]
  /\ st = "Init" <=> sn = 0
  /\ st \in {"SentLast", "RecvdLast", "Finished"} <=> sn = Size[m]
  /\ st \in {"RecvdLast", "Finished"} <=> rv = Size[m]
  /\ st = "Finished" <=> ak = Size[m]
  /\ IF c = m THEN sn \in 1 .. Size[m] - 1 ELSE sn \in {0, Size[m]}

\* The byte counts of message m are those of its packets: sent, at the sink,
\* and no longer held by the tracker.
OfMsg(p, m) == {d \in DOMAIN p : p[d].msg = m}
CountsFit(m, p, sn, rv, ak, got, held) ==
  /\ sn = Bytes(p, OfMsg(p, m))
  /\ rv = Bytes(p, OfMsg(p, m) \cap got)
  /\ ak = Bytes(p, OfMsg(p, m) \ held)

\* A message is in the queue that its status names.
InQueue(m, st) ==
  /\ m \in scheduled \/ m \in triggered \/ m \in ToSet(eligible) <=> st = "Init"
  /\ ~(m \in scheduled /\ m \in triggered)
  /\ ~(m \in ToSet(eligible) /\ (m \in scheduled \/ m \in triggered))
  /\ m \in inFlight <=> st \notin {"Init", "Finished"}

Ended(st) == {m \in Msgs : st[m] = "Finished"}

BookTypes ==
  /\ status \in [Msgs -> Statuses]
  /\ sent \in [Msgs -> Nat] /\ recvd \in [Msgs -> Nat] /\ acked \in [Msgs -> Nat]
  /\ packets \in Seq(Packet)
  /\ scheduled \subseteq Msgs /\ triggered \subseteq Msgs /\ inFlight \subseteq Msgs
  /\ HoldsEach(eligible, ToSet(eligible))
  /\ cur \in Msgs \cup {None}

BooksInv ==
  /\ BookTypes
  /\ \A d \in DOMAIN packets : d \in seqToMsg \/ d \in received
  /\ \A m \in Msgs : CountsFit(m, packets, sent[m], recvd[m], acked[m], received, seqToMsg)
  /\ \A m \in Msgs : StatusFits(m, status[m], sent[m], recvd[m], acked[m], cur)
  /\ \A m \in Msgs : InQueue(m, status[m])
  /\ complete = Cardinality(Ended(status))

\* What an action that only moves messages between queues leaves alone.
LEMMA SameBooks ==
  ASSUME BooksInv,
         UNCHANGED <<status, sent, recvd, acked, packets, received, seqToMsg, inFlight, cur, complete>>,
         scheduled' \subseteq Msgs, triggered' \subseteq Msgs,
         HoldsEach(eligible, ToSet(eligible))',
         \A m \in Msgs : InQueue(m, status[m])'
  PROVE  BooksInv'
  BY DEF BooksInv, BookTypes

\* At the start every message waits with nothing sent.
LEMMA InitBooks ==
  ASSUME Init PROVE BooksInv
<1>1. /\ status = [m \in Msgs |-> "Init"]
      /\ sent = [m \in Msgs |-> 0] /\ recvd = [m \in Msgs |-> 0] /\ acked = [m \in Msgs |-> 0]
      /\ scheduled = Scheduled /\ triggered = Msgs \ Scheduled
      /\ eligible = <<>> /\ inFlight = {} /\ cur = None /\ complete = 0
      /\ packets = <<>> /\ seqToMsg = {} /\ received = {}
  BY DEF Init
<1>2. ToSet(eligible) = {} /\ HoldsEach(eligible, ToSet(eligible))
  BY <1>1 DEF ToSet, HoldsEach
<1>3. packets \in Seq(Packet) /\ DOMAIN packets = {}
  BY <1>1
<1>4. BookTypes
  BY <1>1, <1>2, <1>3, MsgsAssumption DEF BookTypes, Statuses, None
<1>5. \A m \in Msgs : CountsFit(m, packets, sent[m], recvd[m], acked[m], received, seqToMsg)
  BY <1>1, <1>3, BytesOfNone DEF CountsFit, OfMsg
<1>6. \A m \in Msgs : StatusFits(m, status[m], sent[m], recvd[m], acked[m], cur)
  <2>1. \A m \in Msgs : Size[m] \in Nat \ {0} /\ m # None
    BY MsgsAssumption DEF Msgs, None
  <2>2. \A m \in Msgs : status[m] = "Init" /\ sent[m] = 0 /\ recvd[m] = 0 /\ acked[m] = 0 /\ cur # m
    BY <1>1, <2>1
  <2>3. \A m \in Msgs : StatusFits(m, "Init", 0, 0, 0, cur)
    BY <2>1, <2>2 DEF StatusFits, Statuses
  <2> QED
    BY <2>2, <2>3
<1>7. \A m \in Msgs : InQueue(m, status[m])
  BY <1>1, <1>2 DEF InQueue
<1>8. complete = Cardinality(Ended(status))
  <2>1. Ended(status) = {}
    BY <1>1 DEF Ended
  <2> QED
    BY <1>1, <2>1, FS_EmptySet
<1> QED
  BY <1>3, <1>4, <1>5, <1>6, <1>7, <1>8 DEF BooksInv

\* Messages that are due change the queue, and nothing else about them.
LEMMA DueBooks ==
  ASSUME BooksInv, NEW ms \in SUBSET scheduled, MessagesDue(ms)
  PROVE  BooksInv'
<1>1. /\ eligible' = eligible \o InIdOrder(ms) /\ scheduled' = scheduled \ ms /\ triggered' = triggered
      /\ UNCHANGED <<status, sent, recvd, acked, packets, received, seqToMsg, inFlight, cur, complete>>
  BY DEF MessagesDue, msgVars, tpVars
<1>2. /\ scheduled \subseteq Msgs /\ triggered \subseteq Msgs /\ HoldsEach(eligible, ToSet(eligible))
      /\ \A m \in Msgs : InQueue(m, status[m])
  BY DEF BooksInv, BookTypes
<1>3. \A m \in ToSet(eligible) : m \notin ms
  <2>1. \A m \in ms : m \in Msgs /\ m \in scheduled
    BY <1>2
  <2> QED
    BY <1>2, <2>1 DEF InQueue
<1>4. HoldsEach(eligible', ToSet(eligible) \cup ms)
  <2>1. HoldsEach(InIdOrder(ms), ms)
    BY <1>2, IdOrder
  <2> QED
    BY <1>1, <1>2, <1>3, <2>1, QueueConcat
<1>5. ToSet(eligible') = ToSet(eligible) \cup ms
  BY <1>4, QueueSet
<1>6. \A m \in Msgs : InQueue(m, status[m])'
  BY <1>1, <1>2, <1>3, <1>5 DEF InQueue
<1> QED
  BY <1>1, <1>2, <1>4, <1>5, <1>6, SameBooks

\* A message that becomes eligible changes its queue and nothing else.
LEMMA EligibleBooks ==
  ASSUME BooksInv, NEW m \in Msgs, MakeMsgEligible(m)
  PROVE  BooksInv'
<1>1. /\ m \in triggered
      /\ eligible' = Append(eligible, m) /\ triggered' = triggered \ {m} /\ scheduled' = scheduled
      /\ UNCHANGED <<status, sent, recvd, acked, packets, received, seqToMsg, inFlight, cur, complete>>
  BY DEF MakeMsgEligible, msgVars, tpVars
<1>2. /\ scheduled \subseteq Msgs /\ triggered \subseteq Msgs /\ HoldsEach(eligible, ToSet(eligible))
      /\ \A k \in Msgs : InQueue(k, status[k])
  BY DEF BooksInv, BookTypes
<1>3. m \notin ToSet(eligible)
  BY <1>1, <1>2 DEF InQueue
<1>4. HoldsEach(eligible', ToSet(eligible) \cup {m})
  <2>1. HoldsEach(Append(eligible, m), ToSet(eligible) \cup {m})
    BY <1>2, <1>3, QueueAppend, Zenon
  <2> QED
    BY <1>1, <2>1
<1>5. ToSet(eligible') = ToSet(eligible) \cup {m}
  BY <1>4, QueueSet
<1>6. \A k \in Msgs : InQueue(k, status[k])'
  BY <1>1, <1>2, <1>3, <1>5 DEF InQueue
<1> QED
  BY <1>1, <1>2, <1>4, <1>5, <1>6, SameBooks

\* The message that is sent from is the current one or the next in the queue,
\* and has bytes left.
LEMMA SendingHasBytes ==
  ASSUME BooksInv, NEW m \in Msgs, m = Sending, cur # None \/ eligible # <<>>
  PROVE  /\ sent[m] \in 0 .. Size[m] - 1 /\ Size[m] \in Nat
         /\ m \notin scheduled /\ m \notin triggered /\ status[m] # "Finished"
         /\ \A k \in Msgs : k # m => cur # k
         /\ HoldsEach(Rest, ToSet(eligible) \ {m})
         /\ IF cur = None THEN status[m] = "Init" /\ sent[m] = 0 ELSE cur = m /\ sent[m] > 0
<1>1. /\ HoldsEach(eligible, ToSet(eligible)) /\ InQueue(m, status[m])
      /\ StatusFits(m, status[m], sent[m], recvd[m], acked[m], cur)
      /\ cur \in Msgs \cup {None}
  BY DEF BooksInv, BookTypes
<1>2. \A k \in Msgs : k # None
  BY MsgsAssumption DEF Msgs, None
<1>3. Size[m] \in Nat \ {0} /\ sent[m] \in Nat
  BY <1>1, MsgsAssumption DEF StatusFits
<1>4. CASE cur # None
  <2>1. cur = m /\ Rest = eligible
    BY <1>4 DEF Sending, Rest
  <2>2. sent[m] \in 1 .. Size[m] - 1
    BY <1>1, <2>1 DEF StatusFits
  <2>3. status[m] # "Init" /\ status[m] # "Finished"
    BY <1>1, <1>3, <2>2 DEF StatusFits
  <2>4. m \notin scheduled /\ m \notin triggered /\ m \notin ToSet(eligible)
    BY <1>1, <2>3 DEF InQueue
  <2>5. ToSet(eligible) = ToSet(eligible) \ {m}
    BY <2>4
  <2>6. HoldsEach(Rest, ToSet(eligible) \ {m})
    BY <1>1, <2>1, <2>5
  <2> QED
    BY <1>3, <1>4, <2>1, <2>2, <2>3, <2>4, <2>6
<1>5. CASE cur = None
  <2>1. m = Head(eligible) /\ Rest = Tail(eligible) /\ eligible # <<>>
    BY <1>5 DEF Sending, Rest
  <2>2. m \in ToSet(eligible) /\ HoldsEach(Rest, ToSet(eligible) \ {m})
    BY <1>1, <2>1, QueueTail
  <2>3. status[m] = "Init" /\ m \notin scheduled /\ m \notin triggered
    BY <1>1, <2>2 DEF InQueue
  <2>4. sent[m] = 0
    BY <1>1, <2>3 DEF StatusFits
  <2> QED
    BY <1>2, <1>3, <1>5, <2>2, <2>3, <2>4
<1> QED
  BY <1>4, <1>5

\* A packet moves the message on in its statuses, at most to the end of its
\* bytes.
LEMMA SendBooks ==
  ASSUME MsgInv, BooksInv, SendNewPacket
  PROVE  BooksInv'
<1> DEFINE n == Len(packets)
<1>1. PICK m \in Msgs :
        LET d == Len(packets) + 1
            left == Size[m] - sent[m]
            segment == Segment(left)
            isLast == segment = left
        IN /\ m = Sending
           /\ packets' = Append(packets, [msg |-> m, size |-> segment])
           /\ sent' = [sent EXCEPT ![m] = @ + segment]
           /\ status' = [status EXCEPT ![m] = IF isLast THEN "SentLast" ELSE "SentFirst"]
           /\ inFlight' = inFlight \cup {m}
           /\ eligible' = AfterSending(m, isLast).eligible
           /\ cur' = AfterSending(m, isLast).cur
           /\ seqToMsg' = seqToMsg \cup {d}
           /\ UNCHANGED <<recvd, acked, scheduled, triggered, complete, received>>
  BY Zenon DEF SendNewPacket
<1> DEFINE left == Size[m] - sent[m]
           segment == Segment(left)
           isLast == segment = left
           e == [msg |-> m, size |-> segment]
<1>2. cur # None \/ eligible # <<>>
  BY Zenon DEF SendNewPacket
<1>3. /\ packets' = Append(packets, e)
      /\ sent' = [sent EXCEPT ![m] = @ + segment]
      /\ status' = [status EXCEPT ![m] = IF isLast THEN "SentLast" ELSE "SentFirst"]
      /\ inFlight' = inFlight \cup {m}
      /\ eligible' = Rest
      /\ cur' = IF isLast THEN None ELSE m
      /\ seqToMsg' = seqToMsg \cup {n + 1}
      /\ UNCHANGED <<recvd, acked, scheduled, triggered, complete, received>>
  BY <1>1 DEF AfterSending
<1>4. /\ sent[m] \in 0 .. Size[m] - 1 /\ Size[m] \in Nat
      /\ m \notin scheduled /\ m \notin triggered /\ status[m] # "Finished"
      /\ \A k \in Msgs : k # m => cur # k
      /\ HoldsEach(Rest, ToSet(eligible) \ {m})
  BY <1>1, <1>2, SendingHasBytes
<1>5. left \in Nat \ {0} /\ segment \in 1 .. left
  <2>1. left \in Nat \ {0}
    BY <1>4
  <2> HIDE DEF left
  <2> QED
    BY <2>1, PacketByPacket
<1>6. /\ status \in [Msgs -> Statuses]
      /\ sent \in [Msgs -> Nat] /\ recvd \in [Msgs -> Nat] /\ acked \in [Msgs -> Nat]
      /\ packets \in Seq(Packet)
      /\ scheduled \subseteq Msgs /\ triggered \subseteq Msgs /\ inFlight \subseteq Msgs
      /\ \A k \in Msgs : CountsFit(k, packets, sent[k], recvd[k], acked[k], received, seqToMsg)
      /\ \A k \in Msgs : StatusFits(k, status[k], sent[k], recvd[k], acked[k], cur)
      /\ \A k \in Msgs : InQueue(k, status[k])
      /\ \A d \in DOMAIN packets : d \in seqToMsg \/ d \in received
      /\ complete = Cardinality(Ended(status))
  BY DEF BooksInv, BookTypes
<1>7. received \subseteq 1 .. n /\ seqToMsg \subseteq 1 .. n
  BY DEF MsgInv, Types
<1>8. e \in Packet /\ e.msg = m /\ e.size = segment
  BY <1>5 DEF Packet
<1> HIDE DEF e
<1>9. /\ n \in Nat /\ packets' \in Seq(Packet) /\ Len(packets') = n + 1
      /\ DOMAIN packets = 1 .. n /\ DOMAIN packets' = 1 .. n + 1
      /\ packets'[n + 1] = e /\ \A d \in 1 .. n : packets'[d] = packets[d]
  <2>1. n \in Nat /\ DOMAIN packets = 1 .. n
    BY <1>6
  <2>2. packets' \in Seq(Packet) /\ Len(packets') = n + 1
    BY <1>3, <1>6, <1>8
  <2>3. packets'[n + 1] = e /\ \A d \in 1 .. n : packets'[d] = packets[d]
    BY <1>3, <1>6, <1>8
  <2>4. DOMAIN packets' = 1 .. n + 1
    BY <2>2
  <2> QED
    BY <2>1, <2>2, <2>3, <2>4
<1>10. ASSUME NEW S, NEW T, \A d \in DOMAIN packets : d \in S <=> d \in T
       PROVE  Bytes(packets', T) = Bytes(packets, S) + (IF n + 1 \in T THEN segment ELSE 0)
  <2>1. Bytes(Append(packets, e), T)
          = Bytes(packets, S) + (IF Len(packets) + 1 \in T THEN e.size ELSE 0)
    BY <1>6, <1>8, <1>10, BytesAppend
  <2> QED
    BY <1>3, <1>8, <2>1
<1> HIDE DEF n, left, segment, isLast
<1>11. DOMAIN packets' = DOMAIN packets \cup {n + 1} /\ n + 1 \notin DOMAIN packets
  BY <1>9
<1>12. ASSUME NEW k \in Msgs
       PROVE  CountsFit(k, packets', sent'[k], recvd'[k], acked'[k], received', seqToMsg')
  <2> DEFINE own == OfMsg(packets, k)
             own2 == OfMsg(packets', k)
  <2>1. /\ \A d \in DOMAIN packets : d \in own2 <=> d \in own
        /\ own \subseteq DOMAIN packets
        /\ n + 1 \in own2 <=> k = m
    BY <1>8, <1>9, <1>11 DEF OfMsg
  <2>2. n + 1 \notin received /\ n + 1 \notin seqToMsg
    BY <1>7, <1>9
  <2> HIDE DEF own, own2
  <2>3. Bytes(packets', own2) = Bytes(packets, own) + (IF n + 1 \in own2 THEN segment ELSE 0)
    BY <1>10, <2>1
  <2>4. Bytes(packets', own2 \cap received)
          = Bytes(packets, own \cap received) + (IF n + 1 \in own2 \cap received THEN segment ELSE 0)
    BY <1>10, <2>1
  <2>5. Bytes(packets', own2 \ seqToMsg')
          = Bytes(packets, own \ seqToMsg) + (IF n + 1 \in own2 \ seqToMsg' THEN segment ELSE 0)
    <3>1. \A d \in DOMAIN packets : d \in own \ seqToMsg <=> d \in own2 \ seqToMsg'
      BY <1>3, <1>11, <2>1
    <3> QED
      BY <1>10, <3>1
  <2>6. /\ sent[k] = Bytes(packets, own)
        /\ recvd[k] = Bytes(packets, own \cap received)
        /\ acked[k] = Bytes(packets, own \ seqToMsg)
    BY <1>6 DEF CountsFit, own
  <2>7. sent'[k] = Bytes(packets', own2)
    BY <1>3, <1>6, <2>1, <2>3, <2>6
  <2>8. recvd'[k] = Bytes(packets', own2 \cap received') /\ acked'[k] = Bytes(packets', own2 \ seqToMsg')
    <3>1. n + 1 \in seqToMsg'
      BY <1>3
    <3> QED
      BY <1>3, <1>6, <2>2, <2>4, <2>5, <2>6, <3>1
  <2> QED
    BY <2>7, <2>8 DEF CountsFit, own2
<1>13. /\ sent'[m] = sent[m] + segment /\ (isLast <=> sent[m] + segment = Size[m])
       /\ sent[m] + segment \in 1 .. Size[m]
       /\ \A k \in Msgs \ {m} : sent'[k] = sent[k] /\ status'[k] = status[k]
       /\ status'[m] = IF isLast THEN "SentLast" ELSE "SentFirst"
  <2>1. segment \in Nat /\ segment <= Size[m] - sent[m] /\ segment >= 1 /\ left = Size[m] - sent[m]
    BY <1>4, <1>5 DEF left
  <2>2. isLast <=> segment = Size[m] - sent[m]
    BY DEF isLast, left
  <2>3. (isLast <=> sent[m] + segment = Size[m]) /\ sent[m] + segment \in 1 .. Size[m]
    BY <1>4, <2>1, <2>2
  <2>4. sent'[m] = sent[m] + segment /\ \A k \in Msgs \ {m} : sent'[k] = sent[k]
    BY <1>3, <1>6
  <2>5. status'[m] = (IF isLast THEN "SentLast" ELSE "SentFirst") /\ \A k \in Msgs \ {m} : status'[k] = status[k]
    BY <1>3, <1>6
  <2> QED
    BY <2>3, <2>4, <2>5
<1>14. \A k \in Msgs : k # None
  BY MsgsAssumption DEF Msgs, None
<1>15. ASSUME NEW k \in Msgs
       PROVE  StatusFits(k, status'[k], sent'[k], recvd'[k], acked'[k], cur')
  <2>1. StatusFits(k, status[k], sent[k], recvd[k], acked[k], cur) /\ recvd'[k] = recvd[k] /\ acked'[k] = acked[k]
    BY <1>3, <1>6
  <2>2. CASE k # m
    <3>1. cur # k /\ cur' # k /\ sent'[k] = sent[k] /\ status'[k] = status[k]
      BY <1>3, <1>4, <1>13, <1>14, <2>2
    <3> QED
      BY <2>1, <3>1 DEF StatusFits
  <2>3. CASE k = m
    <3>1. cur' = IF isLast THEN None ELSE m
      BY <1>3
    <3>2. recvd[m] <= sent[m] /\ acked[m] <= recvd[m] /\ {sent[m], recvd[m], acked[m]} \subseteq Nat
      BY <2>1, <2>3 DEF StatusFits
    <3>3. CASE isLast
      <4>1. sent'[m] = Size[m] /\ status'[m] = "SentLast" /\ cur' # m
        BY <1>13, <1>14, <3>1, <3>3
      <4> QED
        BY <1>4, <2>1, <2>3, <3>2, <4>1 DEF StatusFits, Statuses
    <3>4. CASE ~isLast
      <4>1. sent'[m] \in 1 .. Size[m] - 1 /\ sent[m] <= sent'[m] /\ status'[m] = "SentFirst" /\ cur' = m
        <5>1. sent[m] <= sent[m] + segment
          BY <1>4, <1>5
        <5> QED
          BY <1>4, <1>13, <3>1, <3>4, <5>1
      <4> QED
        BY <1>4, <2>1, <2>3, <3>2, <4>1 DEF StatusFits, Statuses
    <3> QED
      BY <3>3, <3>4
  <2> QED
    BY <2>2, <2>3
<1>16. ToSet(eligible') = ToSet(eligible) \ {m} /\ HoldsEach(eligible', ToSet(eligible'))
  <2>1. HoldsEach(eligible', ToSet(eligible) \ {m})
    BY <1>3, <1>4
  <2>2. ToSet(eligible') = ToSet(eligible) \ {m}
    BY <2>1, QueueSet
  <2> QED
    BY <2>1, <2>2
<1>17. ASSUME NEW k \in Msgs PROVE InQueue(k, status[k])'
  <2>1. InQueue(k, status[k])
    BY <1>6
  <2>2. CASE k # m
    <3>1. status'[k] = status[k]
      BY <1>13, <2>2
    <3> QED
      BY <1>3, <1>16, <2>1, <2>2, <3>1 DEF InQueue
  <2>3. CASE k = m
    <3>1. status'[m] \in {"SentLast", "SentFirst"}
      BY <1>13
    <3> QED
      BY <1>3, <1>4, <1>16, <2>3, <3>1 DEF InQueue
  <2> QED
    BY <2>2, <2>3
<1>18. Ended(status') = Ended(status)
  <2>1. status'[m] # "Finished"
    BY <1>13
  <2> QED
    BY <1>4, <1>13, <2>1 DEF Ended
<1>19. /\ status' \in [Msgs -> Statuses] /\ sent' \in [Msgs -> Nat]
       /\ cur' \in Msgs \cup {None} /\ inFlight' \subseteq Msgs
  <2>1. sent[m] + segment \in Nat
    BY <1>13
  <2> QED
    BY <1>3, <1>6, <2>1 DEF Statuses
<1>20. BookTypes'
  BY <1>3, <1>6, <1>9, <1>16, <1>19 DEF BookTypes
<1>21. \A d \in DOMAIN packets' : d \in seqToMsg' \/ d \in received'
  BY <1>3, <1>6, <1>11
<1>22. complete' = Cardinality(Ended(status'))
  BY <1>3, <1>6, <1>18
<1> QED
  BY <1>12, <1>15, <1>17, <1>20, <1>21, <1>22 DEF BooksInv

\* The packet the sink takes is one the tracker holds, so it is counted.
LEMMA ArrivalCounts ==
  ASSUME MsgInv, BooksInv, NEW d \in 1 .. Len(packets), Arrive(d)
  PROVE  LET m == packets[d].msg
             last == IsWhole(m, d)
         IN /\ m \in Msgs /\ d \in DOMAIN packets /\ d \notin received /\ received' = received \cup {d}
            /\ recvd' = [recvd EXCEPT ![m] = @ + packets[d].size]
            /\ bytes' = [bytes EXCEPT !.recvd = @ + packets[d].size + Hdr]
            /\ status' = IF last THEN [status EXCEPT ![m] = "RecvdLast"] ELSE status
            /\ fired' = IF last THEN Fires(m, "RecvdLast") ELSE fired
            /\ UNCHANGED <<sent, acked, queueVars, packets, seqToMsg, conn, tracked, stopped>>
<1>1. packets \in Seq(Packet) /\ \A e \in DOMAIN packets : e \in seqToMsg \/ e \in received
  BY DEF BooksInv, BookTypes
<1>2. d \in DOMAIN packets /\ packets[d].msg \in Msgs
  BY <1>1, PacketsOf
<1>3. d \notin received /\ d \in seqToMsg
  BY <1>1, <1>2, Zenon DEF Arrive
<1>4. d \in notrecvd[packets[d].msg]
  BY <1>3 DEF MsgInv, HeldByMessage
<1> QED
  BY <1>2, <1>3, <1>4, Zenon DEF Arrive

\* An arrival is counted once, and a message is received when all of it is.
LEMMA ArriveBooks ==
  ASSUME MsgInv, BooksInv, NEW d \in 1 .. Len(packets), Arrive(d)
  PROVE  BooksInv'
<1> DEFINE m == packets[d].msg
           size == packets[d].size
           last == IsWhole(m, d)
<1>1. /\ m \in Msgs /\ d \in DOMAIN packets /\ d \notin received /\ received' = received \cup {d}
      /\ recvd' = [recvd EXCEPT ![m] = @ + size]
      /\ status' = IF last THEN [status EXCEPT ![m] = "RecvdLast"] ELSE status
      /\ UNCHANGED <<sent, acked, scheduled, triggered, eligible, inFlight, cur, complete,
                     packets, seqToMsg>>
  BY ArrivalCounts DEF queueVars
<1>2. /\ status \in [Msgs -> Statuses]
      /\ sent \in [Msgs -> Nat] /\ recvd \in [Msgs -> Nat] /\ acked \in [Msgs -> Nat]
      /\ packets \in Seq(Packet)
      /\ \A k \in Msgs : CountsFit(k, packets, sent[k], recvd[k], acked[k], received, seqToMsg)
      /\ \A k \in Msgs : StatusFits(k, status[k], sent[k], recvd[k], acked[k], cur)
      /\ \A k \in Msgs : InQueue(k, status[k])
      /\ \A e \in DOMAIN packets : e \in seqToMsg \/ e \in received
      /\ complete = Cardinality(Ended(status))
  BY DEF BooksInv, BookTypes
<1>3. size \in Nat \ {0} /\ (last <=> recvd[m] + size = Size[m])
  BY <1>1, <1>2, PacketsOf DEF IsWhole
<1> HIDE DEF last, size
<1>4. recvd'[m] = recvd[m] + size /\ \A k \in Msgs \ {m} : recvd'[k] = recvd[k]
  BY <1>1, <1>2
<1>5. ASSUME NEW k \in Msgs
      PROVE  CountsFit(k, packets, sent[k], recvd'[k], acked[k], received', seqToMsg)
  <2> DEFINE own == OfMsg(packets, k)
  <2>1. d \in own <=> k = m
    BY <1>1 DEF OfMsg
  <2>2. /\ sent[k] = Bytes(packets, own) /\ acked[k] = Bytes(packets, own \ seqToMsg)
        /\ recvd[k] = Bytes(packets, own \cap received)
    BY <1>2 DEF CountsFit
  <2> HIDE DEF own
  <2>3. CASE k = m
    <3>1. Adds(Bytes(packets, own \cap received), Bytes(packets, {d}), Bytes(packets, own \cap received'))
      <4>1. \A e \in DOMAIN packets : /\ e \in own \cap received' <=> e \in own \cap received \/ e \in {d}
                                     /\ ~(e \in own \cap received /\ e \in {d})
        BY <1>1, <2>1, <2>3
      <4> QED
        BY <1>2, <4>1, BytesAdd, Zenon
    <3>2. Bytes(packets, {d}) = size
      BY <1>2, BytesOfOne DEF size
    <3> QED
      BY <1>4, <2>2, <2>3, <3>1, <3>2 DEF CountsFit, Adds, own
  <2>4. CASE k # m
    <3>1. own \cap received' = own \cap received
      BY <1>1, <2>1, <2>4
    <3> QED
      BY <1>4, <2>2, <2>4, <3>1 DEF CountsFit, own
  <2> QED
    BY <2>3, <2>4
<1>6. recvd'[m] <= sent[m]
  <2> DEFINE own == OfMsg(packets, m)
  <2>1. sent[m] = Bytes(packets, own) /\ recvd'[m] = Bytes(packets, own \cap received')
    BY <1>1, <1>5 DEF CountsFit
  <2>2. Bytes(packets, own \cap received') <= Bytes(packets, own)
    BY <1>2, BytesOfSome
  <2> QED
    BY <2>1, <2>2
<1>7. ASSUME NEW k \in Msgs
      PROVE  StatusFits(k, status'[k], sent[k], recvd'[k], acked[k], cur)
  <2>1. StatusFits(k, status[k], sent[k], recvd[k], acked[k], cur)
    BY <1>2
  <2>2. CASE k # m
    <3>1. recvd'[k] = recvd[k] /\ status'[k] = status[k]
      BY <1>1, <1>2, <1>4, <2>2
    <3> QED
      BY <2>1, <3>1
  <2>3. CASE k = m
    <3>1. /\ {sent[m], recvd[m], acked[m], recvd'[m], Size[m]} \subseteq Nat
          /\ acked[m] <= recvd[m] /\ recvd[m] < recvd'[m] /\ recvd'[m] <= sent[m] /\ sent[m] <= Size[m]
      BY <1>1, <1>3, <1>4, <1>6, <2>1, <2>3, MsgsAssumption DEF StatusFits
    <3>2. CASE last
      <4>1. status'[m] = "RecvdLast" /\ recvd'[m] = Size[m] /\ sent[m] = Size[m] /\ acked[m] # Size[m]
        BY <1>1, <1>2, <1>3, <1>4, <3>1, <3>2
      <4> QED
        BY <2>1, <2>3, <3>1, <4>1 DEF StatusFits, Statuses
    <3>3. CASE ~last
      <4>1. status'[m] = status[m] /\ recvd'[m] # Size[m] /\ recvd[m] # Size[m]
        BY <1>1, <1>3, <1>4, <3>1, <3>3
      <4> QED
        BY <2>1, <2>3, <3>1, <4>1 DEF StatusFits
    <3> QED
      BY <3>2, <3>3
  <2> QED
    BY <2>2, <2>3
<1>8. \A k \in Msgs : /\ status[k] = "Init" <=> status'[k] = "Init"
                      /\ status[k] = "Finished" <=> status'[k] = "Finished"
  <2> SUFFICES ASSUME NEW k \in Msgs
               PROVE  /\ status[k] = "Init" <=> status'[k] = "Init"
                      /\ status[k] = "Finished" <=> status'[k] = "Finished"
    OBVIOUS
  <2>1. status[k] = "Init" <=> sent[k] = 0
    BY <1>2 DEF StatusFits
  <2>2. status'[k] = "Init" <=> sent[k] = 0
    BY <1>7 DEF StatusFits
  <2>3. status[k] = "Finished" <=> acked[k] = Size[k]
    BY <1>2 DEF StatusFits
  <2>4. status'[k] = "Finished" <=> acked[k] = Size[k]
    BY <1>7 DEF StatusFits
  <2> QED
    BY <2>1, <2>2, <2>3, <2>4
<1>9. \A k \in Msgs : InQueue(k, status[k])'
  BY <1>1, <1>2, <1>8 DEF InQueue
<1>10. Ended(status') = Ended(status)
  BY <1>8 DEF Ended
<1>11. BookTypes'
  <2>1. status' \in [Msgs -> Statuses] /\ recvd' \in [Msgs -> Nat]
    BY <1>1, <1>2, <1>3 DEF Statuses
  <2> QED
    BY <1>1, <2>1 DEF BooksInv, BookTypes
<1>12. \A k \in Msgs : CountsFit(k, packets, sent[k], recvd[k], acked[k], received, seqToMsg)'
  BY <1>1, <1>5
<1>13. \A k \in Msgs : StatusFits(k, status[k], sent[k], recvd[k], acked[k], cur)'
  BY <1>1, <1>7
<1> QED
  BY <1>1, <1>2, <1>9, <1>10, <1>11, <1>12, <1>13 DEF BooksInv

\* The packets in ds are at the sink, and the tracker forgets them now.
Clears(ds) == ds \subseteq seqToMsg /\ ds \subseteq received /\ seqToMsg' = seqToMsg \ ds

\* What an ACK confirms was held and leaves the tracker at once.
LEMMA AckConfirms ==
  ASSUME MsgInv, NEW cum \in 1 .. Len(packets) + 1, Cumulative(cum),
         NEW sacks \in SUBSET received, ProcessAck(cum, sacks)
  PROVE  Clears(NewlyAcked(cum, sacks))
<1> DEFINE new == NewlyAcked(cum, sacks)
<1>1. seqToMsg' = seqToMsg \ (new \cup (sacks \cap tracked))
  BY Zenon DEF ProcessAck
<1>2. tracked = seqToMsg /\ seqToMsg \subseteq 1 .. Len(packets) /\ Len(packets) \in Nat
  BY DEF MsgInv, TrackerAgreesWithSource, Types
<1>3. \A d \in seqToMsg : d < cum => d \in received
  <2> SUFFICES ASSUME NEW d \in seqToMsg, d < cum PROVE d \in received
    OBVIOUS
  <2>1. d \in 1 .. cum - 1
    BY <1>2
  <2> QED
    BY <2>1 DEF Cumulative
<1>4. \A d \in new : d \in seqToMsg /\ (d < cum \/ d \in sacks)
  BY DEF NewlyAcked, Confirmed
<1>5. \A d \in seqToMsg : d \in sacks => d \in new
  BY <1>2 DEF NewlyAcked, Confirmed, MsgInv, HeldByMessage
<1> HIDE DEF new
<1> QED
  BY <1>1, <1>2, <1>3, <1>4, <1>5 DEF new, Clears

\* Disjoint sets count together.
LEMMA CountBoth ==
  ASSUME NEW S, NEW T, IsFiniteSet(S), IsFiniteSet(T), \A x \in S : x \notin T
  PROVE  Adds(Cardinality(S), Cardinality(T), Cardinality(S \cup T))
<1>1. S \cap T = {}
  OBVIOUS
<1>2. Cardinality({}) = 0
  BY FS_EmptySet
<1>3. Cardinality(S) \in Nat /\ Cardinality(T) \in Nat
  BY FS_CardinalityType
<1>4. Cardinality(S \cup T) = Cardinality(S) + Cardinality(T) - Cardinality(S \cap T)
  BY FS_Union
<1>5. Cardinality(S \cap T) = 0
  BY <1>1, <1>2, Zenon
<1>6. Cardinality(S \cup T) = Cardinality(S) + Cardinality(T)
  BY <1>3, <1>4, <1>5
<1> QED
  BY <1>3, <1>6, Zenon DEF Adds

\* An acknowledgement counts what it newly acknowledges, each packet once.
LEMMA AckBooks ==
  ASSUME MsgInv, BooksInv, NEW cum \in 1 .. Len(packets) + 1, Cumulative(cum),
         NEW sacks \in SUBSET received, ProcessAck(cum, sacks)
  PROVE  BooksInv'
<1> DEFINE new == NewlyAcked(cum, sacks)
           Of(m) == {d \in new : packets[d].msg = m}
           ended == {m \in inFlight : Of(m) # {} /\ acked[m] + BytesIn(Of(m)) = Size[m]}
<1>1. /\ acked' = [m \in Msgs |-> acked[m] + BytesIn(Of(m))]
      /\ status' = [m \in Msgs |-> IF m \in ended THEN "Finished" ELSE status[m]]
      /\ inFlight' = inFlight \ ended
      /\ complete' = complete + Cardinality(ended)
      /\ UNCHANGED <<sent, recvd, scheduled, triggered, eligible, cur, packets, received>>
  <2> DEFINE OfThese(ds, m) == {d \in ds : packets[d].msg = m}
             end(ds) == {m \in inFlight : /\ OfThese(ds, m) # {}
                                         /\ acked[m] + BytesIn(OfThese(ds, m)) = Size[m]}
             Effect(ds) ==
               /\ acked' = [m \in Msgs |-> acked[m] + BytesIn(OfThese(ds, m))]
               /\ status' = [m \in Msgs |-> IF m \in end(ds) THEN "Finished" ELSE status[m]]
               /\ inFlight' = inFlight \ end(ds)
               /\ complete' = complete + Cardinality(end(ds))
  <2>1. \E ds \in {NewlyAcked(cum, sacks)} : Effect(ds)
    BY Zenon DEF ProcessAck
  <2>2. Effect(new)
    <3> HIDE DEF Effect
    <3> QED
      BY <2>1
  <2>3. UNCHANGED <<sent, recvd, scheduled, triggered, eligible, cur, packets, received>>
    BY Zenon DEF ProcessAck
  <2> QED
    BY <2>2, <2>3, Zenon
<1>2. new \subseteq seqToMsg /\ new \subseteq received /\ seqToMsg' = seqToMsg \ new
  <2>1. Clears(NewlyAcked(cum, sacks))
    BY AckConfirms, Zenon
  <2> QED
    BY <2>1, Zenon DEF Clears
<1>3. /\ status \in [Msgs -> Statuses]
      /\ sent \in [Msgs -> Nat] /\ recvd \in [Msgs -> Nat] /\ acked \in [Msgs -> Nat]
      /\ packets \in Seq(Packet) /\ inFlight \subseteq Msgs
      /\ \A k \in Msgs : CountsFit(k, packets, sent[k], recvd[k], acked[k], received, seqToMsg)
      /\ \A k \in Msgs : StatusFits(k, status[k], sent[k], recvd[k], acked[k], cur)
      /\ \A k \in Msgs : InQueue(k, status[k])
      /\ \A e \in DOMAIN packets : e \in seqToMsg \/ e \in received
      /\ complete = Cardinality(Ended(status))
  BY DEF BooksInv, BookTypes
<1>4. seqToMsg \subseteq DOMAIN packets
  <2>1. seqToMsg \subseteq 1 .. Len(packets)
    BY DEF MsgInv, Types
  <2>2. DOMAIN packets = 1 .. Len(packets)
    BY <1>3, PacketsOf
  <2> QED
    BY <2>1, <2>2
<1> HIDE DEF new
<1>5. \A m : Of(m) \subseteq DOMAIN packets /\ \A d : d \in Of(m) <=> d \in new /\ packets[d].msg = m
  BY <1>2, <1>4
<1>6. \A m \in ended : m \in inFlight /\ Of(m) # {} /\ acked[m] + BytesIn(Of(m)) = Size[m]
  OBVIOUS
<1>7. \A m \in inFlight : Of(m) # {} /\ acked[m] + BytesIn(Of(m)) = Size[m] => m \in ended
  OBVIOUS
<1> HIDE DEF Of, ended
<1>8. ASSUME NEW k \in Msgs
      PROVE  /\ CountsFit(k, packets, sent[k], recvd[k], acked'[k], received, seqToMsg')
             /\ acked'[k] = acked[k] + BytesIn(Of(k)) /\ BytesIn(Of(k)) \in Nat
             /\ Of(k) = {} => acked'[k] = acked[k]
             /\ acked'[k] <= recvd[k]
  <2> DEFINE own == OfMsg(packets, k)
             mine == Of(k)
  <2>1. own \subseteq DOMAIN packets /\ \A d \in DOMAIN packets : d \in own <=> packets[d].msg = k
    BY DEF OfMsg
  <2>2. /\ sent[k] = Bytes(packets, own) /\ acked[k] = Bytes(packets, own \ seqToMsg)
        /\ recvd[k] = Bytes(packets, own \cap received)
    BY <1>3 DEF CountsFit
  <2>3. acked'[k] = acked[k] + BytesIn(mine) /\ BytesIn(mine) = Bytes(packets, mine)
    BY <1>1, <1>3, BytesInIs
  <2>4. mine \subseteq DOMAIN packets /\ \A d : d \in mine <=> d \in new /\ packets[d].msg = k
    BY <1>5
  <2> HIDE DEF own, mine
  <2>5. Adds(Bytes(packets, own \ seqToMsg), Bytes(packets, mine), Bytes(packets, own \ seqToMsg'))
    <3>1. \A d \in DOMAIN packets : /\ d \in own \ seqToMsg' <=> d \in own \ seqToMsg \/ d \in mine
                                   /\ ~(d \in own \ seqToMsg /\ d \in mine)
      BY <1>2, <2>1, <2>4
    <3> QED
      BY <1>3, <3>1, BytesAdd, Zenon
  <2>6. Bytes(packets, own \ seqToMsg') <= Bytes(packets, own \cap received)
    <3>1. \A d \in DOMAIN packets : d \in own \ seqToMsg' => d \in own \cap received
      BY <1>2, <1>3
    <3> QED
      BY <1>3, <3>1, BytesOfSome
  <2>7. mine = {} => Bytes(packets, mine) = 0
    BY <1>3, BytesOfNone
  <2> QED
    BY <1>3, <2>2, <2>3, <2>5, <2>6, <2>7 DEF Adds, CountsFit, own, mine
<1>9. ASSUME NEW k \in Msgs
      PROVE  StatusFits(k, status'[k], sent[k], recvd[k], acked'[k], cur)
  <2>1. StatusFits(k, status[k], sent[k], recvd[k], acked[k], cur) /\ InQueue(k, status[k])
    BY <1>3
  <2>2. /\ {sent[k], recvd[k], acked[k], acked'[k]} \subseteq Nat /\ Size[k] \in Nat \ {0}
        /\ acked[k] <= acked'[k] /\ acked'[k] <= recvd[k] /\ recvd[k] <= sent[k] /\ sent[k] <= Size[k]
    <3>1. {sent[k], recvd[k], acked[k]} \subseteq Nat /\ recvd[k] <= sent[k] /\ sent[k] <= Size[k]
      BY <2>1 DEF StatusFits
    <3> QED
      BY <1>8, <3>1, MsgsAssumption
  <2>3. CASE k \in ended
    <3>1. status'[k] = "Finished" /\ acked'[k] = Size[k] /\ recvd[k] = Size[k] /\ sent[k] = Size[k]
      BY <1>1, <1>6, <1>8, <2>2, <2>3
    <3> QED
      BY <2>1, <2>2, <3>1 DEF StatusFits, Statuses
  <2>4. CASE k \notin ended
    <3>1. status'[k] = status[k]
      BY <1>1, <2>4
    <3>2. acked'[k] = Size[k] => status[k] = "Finished"
      <4> SUFFICES ASSUME acked'[k] = Size[k], status[k] # "Finished" PROVE FALSE
        OBVIOUS
      <4>1. sent[k] # 0 /\ acked[k] # Size[k]
        BY <2>1, <2>2 DEF StatusFits
      <4>2. k \in inFlight
        BY <2>1, <4>1 DEF StatusFits, InQueue
      <4>3. Of(k) # {} /\ acked[k] + BytesIn(Of(k)) = Size[k]
        BY <1>8, <4>1
      <4> QED
        BY <1>7, <2>4, <4>2, <4>3
    <3>3. status[k] = "Finished" => acked'[k] = Size[k]
      BY <2>1, <2>2 DEF StatusFits
    <3> QED
      BY <2>1, <2>2, <3>1, <3>2, <3>3 DEF StatusFits
  <2> QED
    BY <2>3, <2>4
<1>10. ended \subseteq inFlight /\ \A k \in inFlight : status[k] # "Init" /\ status[k] # "Finished"
  BY <1>3, <1>6 DEF InQueue
<1>11. \A k \in Msgs : status'[k] = IF k \in ended THEN "Finished" ELSE status[k]
  BY <1>1
<1>12. \A k \in Msgs : InQueue(k, status[k])'
  BY <1>1, <1>3, <1>10, <1>11 DEF InQueue
<1>13. complete' = Cardinality(Ended(status'))
  <2>1. Ended(status') = Ended(status) \cup ended /\ Ended(status) \cap ended = {}
    BY <1>3, <1>10, <1>11 DEF Ended
  <2>2. NumMsgs \in Nat /\ Msgs = 1 .. NumMsgs
    BY PacketedIs
  <2>3. IsFiniteSet(Msgs)
    BY <2>2, FS_Interval
  <2>4. Ended(status) \subseteq Msgs /\ ended \subseteq Msgs
    BY <1>3, <1>10 DEF Ended
  <2>5. IsFiniteSet(Ended(status)) /\ IsFiniteSet(ended)
    BY <2>3, <2>4, FS_Subset
  <2> HIDE DEF Ended
  <2>6. Adds(Cardinality(Ended(status)), Cardinality(ended), Cardinality(Ended(status) \cup ended))
    <3>1. \A x \in Ended(status) : x \notin ended
      BY <2>1
    <3> QED
      BY <2>5, <3>1, CountBoth, Zenon
  <2> QED
    BY <1>1, <1>3, <2>1, <2>6 DEF Adds
<1>14. status' \in [Msgs -> Statuses] /\ acked' \in [Msgs -> Nat] /\ inFlight' \subseteq Msgs
  <2>1. acked' = [m \in Msgs |-> acked'[m]] /\ \A k \in Msgs : acked'[k] \in Nat
    BY <1>1, <1>3, <1>8
  <2>2. status' \in [Msgs -> Statuses]
    BY <1>1, <1>3 DEF Statuses
  <2> QED
    BY <1>1, <1>3, <2>1, <2>2
<1>15. BookTypes'
  BY <1>1, <1>14 DEF BooksInv, BookTypes
<1>16. \A e \in DOMAIN packets' : e \in seqToMsg' \/ e \in received'
  BY <1>1, <1>2, <1>3
<1>17. \A k \in Msgs : CountsFit(k, packets, sent[k], recvd[k], acked[k], received, seqToMsg)'
  BY <1>1, <1>8
<1>18. \A k \in Msgs : StatusFits(k, status[k], sent[k], recvd[k], acked[k], cur)'
  BY <1>1, <1>9
<1> QED
  BY <1>12, <1>13, <1>15, <1>16, <1>17, <1>18 DEF BooksInv

\* Every step keeps the books of the messages.
LEMMA StepBooks ==
  ASSUME MsgInv, BooksInv, [Next]_vars
  PROVE  BooksInv'
<1>1. BooksInv
  OBVIOUS
<1>2. CASE UNCHANGED vars
  BY <1>2 DEF vars, msgVars, queueVars, tpVars, BooksInv, BookTypes, InQueue
<1>3. CASE Starts
  <2>1. CASE \E ms \in SUBSET scheduled \ {{}} : MessagesDue(ms)
    BY <2>1, DueBooks
  <2>2. CASE \E m \in triggered : TriggeredElsewhere(m)
    <3>1. PICK m \in triggered : TriggeredElsewhere(m)
      BY <2>2
    <3>2. m \in Msgs /\ MakeMsgEligible(m)
      BY <3>1 DEF TriggeredElsewhere, BooksInv, BookTypes
    <3> QED
      BY <3>2, EligibleBooks
  <2> QED
    BY <1>3, <2>1, <2>2 DEF Starts
<1>4. CASE Activate
  <2>1. MakeMsgEligible(Last(fired)) /\ Last(fired) \in Msgs
    BY <1>4 DEF Activate, MakeMsgEligible, BooksInv, BookTypes
  <2> QED
    BY <2>1, EligibleBooks
<1>5. CASE SendNewPacket
  BY <1>5, SendBooks
<1>6. CASE Arrivals
  BY <1>6, ArriveBooks DEF Arrivals
<1>7. CASE AnyAck
  <2>1. PICK cum \in 1 .. Len(packets) + 1 :
          /\ Cumulative(cum)
          /\ \E sacks \in SUBSET {d \in received : d >= cum} : ProcessAck(cum, sacks)
    BY <1>7 DEF AnyAck
  <2>2. PICK sacks \in SUBSET received : ProcessAck(cum, sacks)
    BY <2>1
  <2> QED
    BY <2>1, <2>2, AckBooks
<1> QED
  BY <1>2, <1>3, <1>4, <1>5, <1>6, <1>7 DEF Next

\* BooksInv is an invariant: the status of a message, its byte counts, the
\* packets it was cut into and the queue it is in tell the same.
THEOREM BooksInvariant == Spec => []BooksInv
<1>1. MsgInv /\ BooksInv /\ [Next]_vars => BooksInv'
  BY StepBooks
<1> QED
  BY <1>1, InitBooks, MessagesInvariant, PTL DEF Spec

\* One queue and no other holds a message, whatever it was scheduled or
\* triggered by and however its packets and ACKs were reordered; it completes
\* once, which the count of checkFinished relies on.
THEOREM OneQueueForEach == Spec => []OneQueueEach
<1>1. ASSUME BooksInv PROVE OneQueueEach
  <2>1. ASSUME NEW m \in Msgs
        PROVE  Cardinality({k \in 1 .. 5 :
                 \/ k = 1 /\ m \in scheduled
                 \/ k = 2 /\ m \in triggered
                 \/ k = 3 /\ m \in ToSet(eligible)
                 \/ k = 4 /\ m \in inFlight
                 \/ k = 5 /\ status[m] = "Finished"}) = 1
    <3> DEFINE K == {k \in 1 .. 5 :
                 \/ k = 1 /\ m \in scheduled
                 \/ k = 2 /\ m \in triggered
                 \/ k = 3 /\ m \in ToSet(eligible)
                 \/ k = 4 /\ m \in inFlight
                 \/ k = 5 /\ status[m] = "Finished"}
    <3>1. InQueue(m, status[m])
      BY <1>1 DEF BooksInv
    <3>2. CASE m \in scheduled
      <4>1. K = {1}
        BY <3>1, <3>2 DEF InQueue
      <4> QED
        BY <4>1, FS_Singleton
    <3>3. CASE m \in triggered
      <4>1. K = {2}
        BY <3>1, <3>3 DEF InQueue
      <4> QED
        BY <4>1, FS_Singleton
    <3>4. CASE m \in ToSet(eligible)
      <4>1. K = {3}
        BY <3>1, <3>4 DEF InQueue
      <4> QED
        BY <4>1, FS_Singleton
    <3>5. CASE status[m] = "Finished"
      <4>1. K = {5}
        BY <3>1, <3>5 DEF InQueue
      <4> QED
        BY <4>1, FS_Singleton
    <3>6. CASE status[m] \notin {"Init", "Finished"}
      <4>1. K = {4}
        BY <3>1, <3>6 DEF InQueue
      <4> QED
        BY <4>1, FS_Singleton
    <3> QED
      BY <3>1, <3>2, <3>3, <3>4, <3>5, <3>6 DEF InQueue
  <2>2. complete = Cardinality({m \in Msgs : status[m] = "Finished"})
    BY <1>1 DEF BooksInv, Ended
  <2>3. IsInjective(eligible)
    BY <1>1 DEF BooksInv, BookTypes, HoldsEach, IsInjective
  <2> QED
    BY <2>1, <2>2, <2>3 DEF OneQueueEach
<1> QED
  BY <1>1, BooksInvariant, PTL

--------------------------------------------------------------------------
(* The byte counters and the backlog                                       *)

\* What the packets in ds cost: their bytes and their headers.
Cost(p, ds) == Bytes(p, ds) + Hdr * Cardinality(ds)

\* Costs add up.
LEMMA CostAdds ==
  ASSUME NEW p \in Seq(Packet), NEW S \in SUBSET DOMAIN p, NEW T \in SUBSET DOMAIN p,
         \A d \in S : d \notin T
  PROVE  Adds(Cost(p, S), Cost(p, T), Cost(p, S \cup T))
<1>1. Adds(Bytes(p, S), Bytes(p, T), Bytes(p, S \cup T))
  <2>1. \A d \in DOMAIN p : (d \in S \cup T <=> d \in S \/ d \in T) /\ ~(d \in S /\ d \in T)
    OBVIOUS
  <2> QED
    BY <2>1, BytesAdd, Zenon
<1>2. IsFiniteSet(S) /\ IsFiniteSet(T)
  <2>1. Len(p) \in Nat /\ DOMAIN p = 1 .. Len(p)
    BY PacketsOf
  <2>2. IsFiniteSet(DOMAIN p)
    BY <2>1, FS_Interval
  <2> QED
    BY <2>2, FS_Subset
<1>3. Adds(Cardinality(S), Cardinality(T), Cardinality(S \cup T))
  BY <1>2, CountBoth, Zenon
<1>4. \A a, b \in Nat : Hdr * a \in Nat /\ Hdr * b \in Nat /\ Hdr * (a + b) = Hdr * a + Hdr * b
  BY MsgsAssumption
<1>5. \A a, b, c, x, y, z : Adds(a, b, c) /\ Adds(x, y, z) => Adds(a + Hdr * x, b + Hdr * y, c + Hdr * z)
  <2> SUFFICES ASSUME NEW a, NEW b, NEW c, NEW x, NEW y, NEW z, Adds(a, b, c), Adds(x, y, z)
               PROVE  Adds(a + Hdr * x, b + Hdr * y, c + Hdr * z)
    OBVIOUS
  <2>1. a \in Nat /\ b \in Nat /\ c = a + b /\ x \in Nat /\ y \in Nat /\ z = x + y
    BY DEF Adds
  <2>2. Hdr * x \in Nat /\ Hdr * y \in Nat /\ Hdr * z = Hdr * x + Hdr * y
    BY <1>4, <2>1
  <2> QED
    BY <2>1, <2>2 DEF Adds
<1> QED
  BY <1>1, <1>3, <1>5, Zenon DEF Cost

\* The cost of no packet and of one.
LEMMA CostOfFew ==
  ASSUME NEW p \in Seq(Packet)
  PROVE  Cost(p, {}) = 0 /\ \A d \in DOMAIN p : Cost(p, {d}) = p[d].size + Hdr
<1>1. Bytes(p, {}) = 0 /\ Cardinality({}) = 0 /\ Hdr \in Nat
  BY BytesOfNone, FS_EmptySet, MsgsAssumption
<1>2. ASSUME NEW d \in DOMAIN p PROVE Cost(p, {d}) = p[d].size + Hdr
  <2>1. Bytes(p, {d}) = p[d].size
    <3>1. d \in 1 .. Len(p)
      BY PacketsOf
    <3> QED
      BY <3>1, BytesOfOne
  <2>2. Cardinality({d}) = 1
    BY FS_Singleton
  <2>3. Hdr * 1 = Hdr
    BY <1>1
  <2> QED
    BY <2>1, <2>2, <2>3, Zenon DEF Cost
<1> QED
  BY <1>1, <1>2 DEF Cost

\* Fewer packets cost less.
LEMMA CostOfSome ==
  ASSUME NEW p \in Seq(Packet), NEW T \in SUBSET DOMAIN p, NEW S \in SUBSET T
  PROVE  /\ Cost(p, S) \in Nat /\ Cost(p, T) \in Nat /\ Cost(p, S) <= Cost(p, T)
         /\ Cost(p, S) = Cost(p, T) => S = T
<1> DEFINE R == T \ S
<1>1. S \in SUBSET DOMAIN p /\ R \in SUBSET DOMAIN p /\ (\A d \in S : d \notin R) /\ S \cup R = T
  OBVIOUS
<1>2. R = {} => S = T
  OBVIOUS
<1> HIDE DEF R
<1>3. Adds(Cost(p, S), Cost(p, R), Cost(p, T))
  <2>1. Adds(Cost(p, S), Cost(p, R), Cost(p, S \cup R))
    BY <1>1, CostAdds, Zenon
  <2> QED
    BY <1>1, <2>1
<1>4. Cost(p, R) = 0 => R = {}
  <2>1. Bytes(p, R) \in Nat /\ (Bytes(p, R) = 0 => \A d \in DOMAIN p : d \notin R)
    BY BytesOfNone
  <2>2. Cardinality(R) \in Nat
    <3>1. Len(p) \in Nat /\ DOMAIN p = 1 .. Len(p)
      BY PacketsOf
    <3>2. IsFiniteSet(DOMAIN p)
      BY <3>1, FS_Interval
    <3>3. IsFiniteSet(R)
      BY <1>1, <3>2, FS_Subset
    <3> QED
      BY <3>3, FS_CardinalityType
  <2>3. Hdr * Cardinality(R) \in Nat
    BY <2>2, MsgsAssumption
  <2> QED
    BY <1>1, <2>1, <2>3 DEF Cost
<1> QED
  BY <1>2, <1>3, <1>4 DEF Adds

\* A packet that is sent adds its own cost.
LEMMA CostAppend ==
  ASSUME NEW p \in Seq(Packet), NEW e \in Packet, NEW S \in SUBSET DOMAIN p
  PROVE  /\ Cost(Append(p, e), S) = Cost(p, S)
         /\ Cost(Append(p, e), S \cup {Len(p) + 1}) = Cost(p, S) + e.size + Hdr
<1> DEFINE q == Append(p, e)
           n == Len(p) + 1
<1>1. q \in Seq(Packet) /\ Len(q) = n /\ n \in Nat /\ q[n] = e
  OBVIOUS
<1>2. DOMAIN p = 1 .. Len(p) /\ Len(p) \in Nat
  OBVIOUS
<1>3. DOMAIN q = 1 .. n
  BY <1>1, PacketsOf
<1>4. n \notin S /\ S \subseteq DOMAIN q /\ n \in DOMAIN q
  BY <1>1, <1>2, <1>3
<1>5. Bytes(q, S) = Bytes(p, S)
  <2>1. Bytes(q, S) = Bytes(p, S) + (IF n \in S THEN e.size ELSE 0)
    BY BytesAppend
  <2>2. Bytes(p, S) \in Nat
    BY BytesOfNone
  <2> HIDE DEF q, n
  <2> QED
    BY <1>4, <2>1, <2>2
<1> HIDE DEF q, n
<1>6. Cost(q, S) = Cost(p, S)
  BY <1>5 DEF Cost
<1>7. Adds(Cost(q, S), Cost(q, {n}), Cost(q, S \cup {n}))
  <2>1. {n} \in SUBSET DOMAIN q /\ \A d \in S : d \notin {n}
    BY <1>4
  <2> QED
    BY <1>1, <1>4, <2>1, CostAdds, Zenon
<1>8. Cost(q, {n}) = e.size + Hdr
  BY <1>1, <1>4, CostOfFew
<1>9. e.size \in Nat /\ Hdr \in Nat
  BY MsgsAssumption DEF Packet
<1> QED
  BY <1>6, <1>7, <1>8, <1>9 DEF Adds, q, n

\* What the current message has left, in packets.
Left == IF cur = None THEN 0 ELSE Packeted(Size[cur] - sent[cur])

\* The source's backlog is the rest of the current message and the queue; a byte
\* counter is the cost of the packets it stands for.
Balanced ==
  /\ bytes \in [{"scheduled", "triggered", "eligible", "sent", "recvd", "acked"} -> Int]
  /\ conn \in [started : BOOLEAN, done : BOOLEAN, backlog : Nat]
  /\ conn.backlog + bytes.sent = bytes.eligible
  /\ bytes.scheduled + bytes.triggered + bytes.eligible = PacketedSum(Msgs)
  /\ conn.backlog = PacketedSum(ToSet(eligible)) + Left
  /\ bytes.sent = Cost(packets, DOMAIN packets)
  /\ bytes.recvd = Cost(packets, received)
  /\ bytes.acked = Cost(packets, DOMAIN packets \ seqToMsg)

\* What is in no queue has nothing left.
LEMMA LeftIsSome ==
  ASSUME BooksInv
  PROVE  Left \in Nat /\ (Left = 0 <=> cur = None)
<1>1. CASE cur = None
  BY <1>1 DEF Left
<1>2. CASE cur # None
  <2>1. cur \in Msgs /\ StatusFits(cur, status[cur], sent[cur], recvd[cur], acked[cur], cur)
    BY <1>2 DEF BooksInv, BookTypes
  <2>2. Size[cur] - sent[cur] \in Nat \ {0}
    <3>1. Size[cur] \in Nat
      BY <2>1, MsgsAssumption
    <3> QED
      BY <2>1, <3>1 DEF StatusFits
  <2>3. Packeted(Size[cur] - sent[cur]) \in Nat \ {0}
    BY <2>2, PacketByPacket
  <2> QED
    BY <1>2, <2>3 DEF Left
<1> QED
  BY <1>1, <1>2

\* The books are balanced before anything is sent.
LEMMA InitBalanced ==
  ASSUME Init PROVE Balanced
<1>1. /\ scheduled = Scheduled /\ triggered = Msgs \ Scheduled
      /\ eligible = <<>> /\ cur = None
      /\ bytes = [scheduled |-> PacketedSum(Scheduled), triggered |-> PacketedSum(Msgs \ Scheduled),
                  eligible |-> 0, sent |-> 0, recvd |-> 0, acked |-> 0]
      /\ packets = <<>> /\ seqToMsg = {} /\ received = {}
      /\ conn = [started |-> FALSE, done |-> FALSE, backlog |-> 0]
  BY DEF Init
<1>2. Adds(PacketedSum(Scheduled), PacketedSum(Msgs \ Scheduled), PacketedSum(Msgs))
  <2>1. \A m \in Msgs : (m \in Msgs <=> m \in Scheduled \/ m \in Msgs \ Scheduled)
                        /\ ~(m \in Scheduled /\ m \in Msgs \ Scheduled)
    OBVIOUS
  <2> QED
    BY <2>1, PacketedAdds, Zenon
<1>3. PacketedSum(ToSet(eligible)) = 0
  <2>1. ToSet(eligible) = {}
    BY <1>1 DEF ToSet
  <2> QED
    BY <2>1, PacketedOfNone
<1>4. packets \in Seq(Packet) /\ DOMAIN packets = {} /\ DOMAIN packets \ seqToMsg = {}
  BY <1>1
<1>5. Cost(packets, {}) = 0
  BY <1>4, CostOfFew
<1>6. PacketedSum(Scheduled) \in Nat /\ PacketedSum(Msgs \ Scheduled) \in Nat
  BY <1>2 DEF Adds
<1> HIDE DEF Packeted
<1>7. bytes \in [{"scheduled", "triggered", "eligible", "sent", "recvd", "acked"} -> Int]
  BY <1>1, <1>6
<1>8. conn \in [started : BOOLEAN, done : BOOLEAN, backlog : Nat]
  BY <1>1
<1>9. Left = 0
  BY <1>1 DEF Left
<1> QED
  BY <1>1, <1>2, <1>3, <1>4, <1>5, <1>6, <1>7, <1>8, <1>9 DEF Balanced, Adds

\* Messages that become eligible add their packets to the backlog.
LEMMA MoreBalanced ==
  ASSUME BooksInv, Balanced, NEW ms \in SUBSET Msgs, NEW q \in {"scheduled", "triggered"},
         \A m \in ms : m \notin ToSet(eligible),
         ToSet(eligible') = ToSet(eligible) \cup ms,
         bytes' = [bytes EXCEPT !.eligible = @ + PacketedSum(ms), ![q] = @ - PacketedSum(ms)],
         ScheduleConnection(PacketedSum(ms)),
         UNCHANGED <<sent, cur, packets, received, seqToMsg>>
  PROVE  Balanced'
<1> DEFINE more == PacketedSum(ms)
<1>1. Adds(PacketedSum(ToSet(eligible)), more, PacketedSum(ToSet(eligible')))
  <2>1. \A m \in Msgs : (m \in ToSet(eligible') <=> m \in ToSet(eligible) \/ m \in ms)
                        /\ ~(m \in ToSet(eligible) /\ m \in ms)
    OBVIOUS
  <2> QED
    BY <2>1, PacketedAdds, Zenon
<1>2. Left' = Left /\ Left \in Nat
  BY LeftIsSome DEF Left
<1> HIDE DEF more
<1>3. more \in Nat
  BY <1>1 DEF Adds
<1>4. /\ bytes \in [{"scheduled", "triggered", "eligible", "sent", "recvd", "acked"} -> Int]
      /\ conn \in [started : BOOLEAN, done : BOOLEAN, backlog : Nat]
  BY DEF Balanced
<1>5. /\ bytes' \in [{"scheduled", "triggered", "eligible", "sent", "recvd", "acked"} -> Int]
      /\ bytes'.eligible = bytes.eligible + more
      /\ bytes'.sent = bytes.sent /\ bytes'.recvd = bytes.recvd /\ bytes'.acked = bytes.acked
      /\ bytes'.scheduled + bytes'.triggered = bytes.scheduled + bytes.triggered - more
  BY <1>3, <1>4 DEF more
<1>6. conn' \in [started : BOOLEAN, done : BOOLEAN, backlog : Nat] /\ conn'.backlog = conn.backlog + more
  <2>1. conn' = [started |-> TRUE, done |-> FALSE, backlog |-> conn.backlog + more]
    BY <1>4 DEF ScheduleConnection, Backlog, more
  <2>2. conn.backlog \in Nat
    BY <1>4
  <2> QED
    BY <1>3, <2>1, <2>2
<1>7. conn'.backlog + bytes'.sent = bytes'.eligible
  BY <1>3, <1>4, <1>5, <1>6 DEF Balanced
<1>8. bytes'.scheduled + bytes'.triggered + bytes'.eligible = PacketedSum(Msgs)
  <2>1. bytes.scheduled + bytes.triggered + bytes.eligible = PacketedSum(Msgs)
    BY DEF Balanced
  <2>2. /\ bytes.scheduled \in Int /\ bytes.triggered \in Int /\ bytes.eligible \in Int
        /\ bytes'.scheduled \in Int /\ bytes'.triggered \in Int
    BY <1>4, <1>5
  <2> QED
    BY <1>3, <1>5, <2>1, <2>2
<1>9. conn'.backlog = PacketedSum(ToSet(eligible')) + Left'
  BY <1>1, <1>2, <1>3, <1>4, <1>6 DEF Balanced, Adds
<1> QED
  BY <1>5, <1>6, <1>7, <1>8, <1>9 DEF Balanced

\* Scheduled messages that are due move their bytes to the eligible ones and
\* the backlog.
LEMMA DueBalanced ==
  ASSUME BooksInv, Balanced, NEW ms \in SUBSET scheduled, MessagesDue(ms)
  PROVE  Balanced'
<1>1. /\ eligible' = eligible \o InIdOrder(ms)
      /\ bytes' = [bytes EXCEPT !.eligible = @ + PacketedSum(ms), !.scheduled = @ - PacketedSum(ms)]
      /\ ScheduleConnection(PacketedSum(ms))
      /\ UNCHANGED <<sent, cur, packets, received, seqToMsg>>
  BY DEF MessagesDue, msgVars, tpVars
<1>2. /\ scheduled \subseteq Msgs /\ HoldsEach(eligible, ToSet(eligible))
      /\ \A m \in Msgs : InQueue(m, status[m])
  BY DEF BooksInv, BookTypes
<1>3. ms \in SUBSET Msgs /\ \A m \in ms : m \notin ToSet(eligible)
  BY <1>2 DEF InQueue
<1>4. ToSet(eligible') = ToSet(eligible) \cup ms
  <2>1. HoldsEach(InIdOrder(ms), ms)
    BY <1>3, IdOrder
  <2>2. HoldsEach(eligible', ToSet(eligible) \cup ms)
    BY <1>1, <1>2, <1>3, <2>1, QueueConcat
  <2> QED
    BY <2>2, QueueSet
<1> QED
  BY <1>1, <1>3, <1>4, MoreBalanced

\* So does a triggered message.
LEMMA EligibleBalanced ==
  ASSUME BooksInv, Balanced, NEW m \in Msgs, MakeMsgEligible(m)
  PROVE  Balanced'
<1>1. PacketedSum({m}) = Packeted(Size[m])
  BY PacketedOfOne
<1>2. /\ m \in triggered /\ eligible' = Append(eligible, m)
      /\ bytes' = [bytes EXCEPT !.eligible = @ + PacketedSum({m}), !.triggered = @ - PacketedSum({m})]
      /\ ScheduleConnection(PacketedSum({m}))
      /\ UNCHANGED <<sent, cur, packets, received, seqToMsg>>
  BY <1>1 DEF MakeMsgEligible, msgVars, tpVars
<1>3. HoldsEach(eligible, ToSet(eligible)) /\ InQueue(m, status[m])
  BY DEF BooksInv, BookTypes
<1>4. {m} \in SUBSET Msgs /\ \A k \in {m} : k \notin ToSet(eligible)
  BY <1>2, <1>3 DEF InQueue
<1>5. ToSet(eligible') = ToSet(eligible) \cup {m}
  <2>1. HoldsEach(Append(eligible, m), ToSet(eligible) \cup {m})
    BY <1>3, <1>4, QueueAppend, Zenon
  <2> QED
    BY <1>2, <2>1, QueueSet
<1> QED
  BY <1>2, <1>4, <1>5, MoreBalanced

\* What a packet takes from the backlog is what it costs.
LEMMA SendBalanced ==
  ASSUME MsgInv, BooksInv, Balanced, SendNewPacket
  PROVE  Balanced'
<1> DEFINE n == Len(packets)
<1>1. PICK m \in Msgs :
        LET d == Len(packets) + 1
            left == Size[m] - sent[m]
            segment == Segment(left)
            isLast == segment = left
        IN /\ m = Sending
           /\ packets' = Append(packets, [msg |-> m, size |-> segment])
           /\ sent' = [sent EXCEPT ![m] = @ + segment]
           /\ eligible' = AfterSending(m, isLast).eligible
           /\ cur' = AfterSending(m, isLast).cur
           /\ seqToMsg' = seqToMsg \cup {d}
           /\ bytes' = [bytes EXCEPT !.sent = @ + segment + Hdr]
           /\ conn' = [conn EXCEPT !.backlog = @ - (segment + Hdr)]
           /\ UNCHANGED received
  BY Zenon DEF SendNewPacket
<1> DEFINE left == Size[m] - sent[m]
           segment == Segment(left)
           isLast == segment = left
           e == [msg |-> m, size |-> segment]
<1>2. cur # None \/ eligible # <<>>
  BY Zenon DEF SendNewPacket
<1>3. /\ packets' = Append(packets, e)
      /\ sent' = [sent EXCEPT ![m] = @ + segment]
      /\ eligible' = Rest
      /\ cur' = IF isLast THEN None ELSE m
      /\ seqToMsg' = seqToMsg \cup {n + 1}
      /\ bytes' = [bytes EXCEPT !.sent = @ + segment + Hdr]
      /\ conn' = [conn EXCEPT !.backlog = @ - (segment + Hdr)]
      /\ received' = received
  BY <1>1 DEF AfterSending
<1>4. /\ sent[m] \in 0 .. Size[m] - 1 /\ Size[m] \in Nat
      /\ HoldsEach(Rest, ToSet(eligible) \ {m})
      /\ IF cur = None THEN sent[m] = 0 ELSE cur = m
  BY <1>1, <1>2, SendingHasBytes
<1>5. /\ sent \in [Msgs -> Nat] /\ packets \in Seq(Packet)
      /\ HoldsEach(eligible, ToSet(eligible))
      /\ InQueue(m, status[m])
      /\ StatusFits(m, status[m], sent[m], recvd[m], acked[m], cur)
  BY DEF BooksInv, BookTypes
<1>6. m # None
  BY MsgsAssumption DEF Msgs, None
<1>7. left \in Nat \ {0} /\ segment \in 1 .. left /\ Packeted(left) = segment + Hdr + Packeted(left - segment)
  <2>1. left \in Nat \ {0}
    BY <1>4
  <2> HIDE DEF left
  <2> QED
    BY <2>1, PacketByPacket
<1>8. /\ e \in Packet /\ e.size = segment
      /\ DOMAIN packets = 1 .. n /\ n \in Nat /\ DOMAIN packets' = 1 .. n + 1
      /\ received \subseteq DOMAIN packets /\ seqToMsg \subseteq DOMAIN packets
  <2>1. e \in Packet /\ e.size = segment
    BY <1>7 DEF Packet
  <2>2. DOMAIN packets = 1 .. n /\ n \in Nat
    BY <1>5
  <2>3. DOMAIN packets' = 1 .. n + 1
    BY <1>3, <1>5
  <2>4. received \subseteq 1 .. n /\ seqToMsg \subseteq 1 .. n
    BY DEF MsgInv, Types
  <2> QED
    BY <2>1, <2>2, <2>3, <2>4
<1>9. PacketedSum(ToSet(eligible)) + Left = PacketedSum(ToSet(eligible')) + Packeted(left)
  <2>1. ToSet(eligible') = ToSet(eligible) \ {m}
    BY <1>3, <1>4, QueueSet
  <2>2. CASE cur = None
    <3>1. m \in ToSet(eligible)
      <4>1. m = Head(eligible) /\ eligible # <<>>
        BY <1>1, <1>2, <2>2 DEF Sending
      <4> QED
        BY <1>5, <4>1, QueueTail
    <3>2. Adds(PacketedSum(ToSet(eligible')), PacketedSum({m}), PacketedSum(ToSet(eligible)))
      <4>1. \A k \in Msgs : (k \in ToSet(eligible) <=> k \in ToSet(eligible') \/ k \in {m})
                            /\ ~(k \in ToSet(eligible') /\ k \in {m})
        BY <2>1, <3>1
      <4> QED
        BY <4>1, PacketedAdds, Zenon
    <3>3. PacketedSum({m}) = Packeted(left)
      <4>1. PacketedSum({m}) = Packeted(Size[m])
        BY PacketedOfOne
      <4>2. left = Size[m]
        BY <1>4, <2>2
      <4> HIDE DEF left
      <4> QED
        BY <4>1, <4>2
    <3>4. Left = 0
      BY <2>2 DEF Left
    <3> HIDE DEF left
    <3> QED
      BY <3>2, <3>3, <3>4 DEF Adds
  <2>3. CASE cur # None
    <3>1. cur = m /\ status[m] # "Init"
      <4>1. cur = m
        BY <1>4, <2>3
      <4>2. sent[m] # 0
        BY <1>4, <1>5, <4>1 DEF StatusFits
      <4> QED
        BY <1>5, <4>1, <4>2 DEF StatusFits
    <3>2. ToSet(eligible') = ToSet(eligible)
      BY <1>5, <2>1, <3>1 DEF InQueue
    <3>3. Left = Packeted(left)
      BY <1>6, <3>1, Zenon DEF Left
    <3> QED
      BY <3>2, <3>3
  <2> QED
    BY <2>2, <2>3
<1>10. Left' = Packeted(left - segment)
  <2>1. CASE isLast
    <3>1. cur' = None /\ left - segment = 0
      BY <1>3, <1>7, <2>1
    <3> HIDE DEF left, segment
    <3> QED
      BY <3>1, PacketByPacket DEF Left
  <2>2. CASE ~isLast
    <3>1. cur' = m /\ sent'[m] = sent[m] + segment
      BY <1>3, <1>5, <2>2
    <3>2. Size[m] - sent'[m] = left - segment
      BY <1>4, <1>7, <3>1
    <3> HIDE DEF left, segment
    <3> QED
      BY <1>6, <3>1, <3>2 DEF Left
  <2> QED
    BY <2>1, <2>2
<1>11. /\ \A S \in SUBSET DOMAIN packets : /\ Cost(packets', S) = Cost(packets, S)
                                          /\ Cost(packets', S \cup {n + 1}) = Cost(packets, S) + segment + Hdr
  BY <1>3, <1>5, <1>8, CostAppend
<1> HIDE DEF n, segment, left, isLast, e
<1>12. /\ bytes \in [{"scheduled", "triggered", "eligible", "sent", "recvd", "acked"} -> Int]
       /\ conn \in [started : BOOLEAN, done : BOOLEAN, backlog : Nat]
  BY DEF Balanced
<1>13. Hdr \in Nat /\ segment \in Nat
  BY <1>7, MsgsAssumption
<1>14. /\ bytes' \in [{"scheduled", "triggered", "eligible", "sent", "recvd", "acked"} -> Int]
       /\ bytes'.sent = bytes.sent + segment + Hdr
       /\ bytes'.eligible = bytes.eligible /\ bytes'.recvd = bytes.recvd /\ bytes'.acked = bytes.acked
       /\ bytes'.scheduled = bytes.scheduled /\ bytes'.triggered = bytes.triggered
  <2> DEFINE more == bytes.sent + segment + Hdr
  <2>1. bytes.sent \in Int /\ more \in Int
    BY <1>12, <1>13
  <2>2. bytes' = [bytes EXCEPT !.sent = more]
    BY <1>3
  <2> HIDE DEF more
  <2>3. bytes' \in [{"scheduled", "triggered", "eligible", "sent", "recvd", "acked"} -> Int]
    BY <1>12, <2>1, <2>2
  <2>4. bytes'.sent = more
    BY <1>12, <2>2
  <2>5. /\ bytes'.eligible = bytes.eligible /\ bytes'.recvd = bytes.recvd /\ bytes'.acked = bytes.acked
        /\ bytes'.scheduled = bytes.scheduled /\ bytes'.triggered = bytes.triggered
    BY <1>12, <2>2
  <2> QED
    BY <2>3, <2>4, <2>5 DEF more
<1>15. PacketedSum(ToSet(eligible')) \in Nat /\ Packeted(left - segment) \in Nat
  <2>1. left - segment \in Nat
    BY <1>7
  <2>2. Packeted(left - segment) \in Nat
    BY <2>1, PacketByPacket
  <2> QED
    BY <2>2, PacketedOfNone
<1>16. conn.backlog = PacketedSum(ToSet(eligible')) + Left' + segment + Hdr
  <2>1. conn.backlog = PacketedSum(ToSet(eligible)) + Left
    BY DEF Balanced
  <2> QED
    BY <1>7, <1>9, <1>10, <1>13, <1>15, <2>1
<1>17. conn' = [started |-> conn.started, done |-> conn.done, backlog |-> conn.backlog - (segment + Hdr)]
  BY <1>3, <1>12
<1>18. conn'.backlog = PacketedSum(ToSet(eligible')) + Left' /\ conn'.backlog \in Nat
  BY <1>10, <1>13, <1>15, <1>16, <1>17
<1>19. conn' \in [started : BOOLEAN, done : BOOLEAN, backlog : Nat]
  BY <1>12, <1>17, <1>18
<1>20. conn'.backlog + bytes'.sent = bytes'.eligible
  <2>1. conn.backlog + bytes.sent = bytes.eligible /\ bytes.sent \in Int /\ conn.backlog \in Nat
    BY <1>12 DEF Balanced
  <2> QED
    BY <1>13, <1>14, <1>17, <2>1
<1>21. bytes'.scheduled + bytes'.triggered + bytes'.eligible = PacketedSum(Msgs)
  BY <1>14 DEF Balanced
<1>22. bytes'.sent = Cost(packets', DOMAIN packets')
  <2>1. DOMAIN packets' = DOMAIN packets \cup {n + 1}
    BY <1>8
  <2> QED
    BY <1>11, <1>14, <2>1 DEF Balanced
<1>23. bytes'.recvd = Cost(packets', received')
  BY <1>3, <1>8, <1>11, <1>14 DEF Balanced
<1>24. bytes'.acked = Cost(packets', DOMAIN packets' \ seqToMsg')
  <2>1. DOMAIN packets' \ seqToMsg' = DOMAIN packets \ seqToMsg
    BY <1>3, <1>8
  <2> QED
    BY <1>11, <1>14, <2>1 DEF Balanced
<1> QED
  BY <1>14, <1>18, <1>19, <1>20, <1>21, <1>22, <1>23, <1>24 DEF Balanced

\* An arrival moves nothing but the count of received bytes.
LEMMA ArriveBalanced ==
  ASSUME MsgInv, BooksInv, Balanced, NEW d \in 1 .. Len(packets), Arrive(d)
  PROVE  Balanced'
<1> DEFINE size == packets[d].size
<1>1. /\ d \in DOMAIN packets /\ d \notin received /\ received' = received \cup {d}
      /\ bytes' = [bytes EXCEPT !.recvd = @ + size + Hdr]
      /\ UNCHANGED <<sent, eligible, cur, packets, seqToMsg, conn>>
  BY ArrivalCounts DEF queueVars
<1>2. packets \in Seq(Packet) /\ DOMAIN packets = 1 .. Len(packets) /\ received \subseteq DOMAIN packets
  <2>1. packets \in Seq(Packet)
    BY DEF BooksInv, BookTypes
  <2>2. received \subseteq 1 .. Len(packets)
    BY DEF MsgInv, Types
  <2> QED
    BY <2>1, <2>2, PacketsOf
<1>3. size \in Nat /\ Hdr \in Nat /\ Cost(packets, {d}) = size + Hdr
  BY <1>1, <1>2, PacketsOf, CostOfFew, MsgsAssumption
<1> HIDE DEF size
<1>4. Adds(Cost(packets, received), Cost(packets, {d}), Cost(packets, received \cup {d}))
  <2>1. {d} \in SUBSET DOMAIN packets /\ \A k \in received : k \notin {d}
    BY <1>1
  <2> QED
    BY <1>2, <2>1, CostAdds, Zenon
<1>5. /\ bytes \in [{"scheduled", "triggered", "eligible", "sent", "recvd", "acked"} -> Int]
      /\ bytes.recvd = Cost(packets, received)
  BY DEF Balanced
<1>6. /\ bytes' \in [{"scheduled", "triggered", "eligible", "sent", "recvd", "acked"} -> Int]
      /\ bytes'.recvd = Cost(packets, received \cup {d})
      /\ bytes'.eligible = bytes.eligible /\ bytes'.sent = bytes.sent /\ bytes'.acked = bytes.acked
      /\ bytes'.scheduled = bytes.scheduled /\ bytes'.triggered = bytes.triggered
  <2> DEFINE more == bytes.recvd + size + Hdr
  <2>1. bytes.recvd \in Int /\ more \in Int /\ more = Cost(packets, received \cup {d})
    BY <1>3, <1>4, <1>5 DEF Adds
  <2>2. bytes' = [bytes EXCEPT !.recvd = more]
    BY <1>1
  <2> HIDE DEF more
  <2>3. bytes' \in [{"scheduled", "triggered", "eligible", "sent", "recvd", "acked"} -> Int]
    BY <1>5, <2>1, <2>2
  <2>4. bytes'.recvd = more
    BY <1>5, <2>2
  <2>5. /\ bytes'.eligible = bytes.eligible /\ bytes'.sent = bytes.sent /\ bytes'.acked = bytes.acked
        /\ bytes'.scheduled = bytes.scheduled /\ bytes'.triggered = bytes.triggered
    BY <1>5, <2>2
  <2> QED
    BY <2>1, <2>3, <2>4, <2>5
<1>7. Left' = Left
  BY <1>1 DEF Left
<1> QED
  BY <1>1, <1>6, <1>7 DEF Balanced

\* An ACK counts what it confirms, no more and no less.
LEMMA AckBalanced ==
  ASSUME MsgInv, BooksInv, Balanced, NEW cum \in 1 .. Len(packets) + 1, Cumulative(cum),
         NEW sacks \in SUBSET received, ProcessAck(cum, sacks)
  PROVE  /\ Balanced'
         /\ conn'.done <=> bytes'.acked = bytes'.eligible
<1> DEFINE new == NewlyAcked(cum, sacks)
           more(ds) == bytes.acked + BytesIn(ds) + Hdr * Cardinality(ds)
<1>1. /\ bytes' = [bytes EXCEPT !.acked = more(new)]
      /\ conn' = [conn EXCEPT !.done = bytes'.acked = bytes'.eligible]
      /\ UNCHANGED <<sent, eligible, cur, packets, received>>
  <2> DEFINE Effect(ds) == bytes' = [bytes EXCEPT !.acked = more(ds)]
  <2>1. \E ds \in {NewlyAcked(cum, sacks)} : Effect(ds)
    BY Zenon DEF ProcessAck
  <2>2. Effect(new)
    <3> HIDE DEF Effect
    <3> QED
      BY <2>1
  <2>3. conn' = [conn EXCEPT !.done = bytes'.acked = bytes'.eligible]
    BY Zenon DEF ProcessAck
  <2>4. UNCHANGED <<sent, eligible, cur, packets, received>>
    BY Zenon DEF ProcessAck
  <2> QED
    BY <2>2, <2>3, <2>4, Zenon
<1>2. new \subseteq seqToMsg /\ new \subseteq received /\ seqToMsg' = seqToMsg \ new
  <2>1. Clears(NewlyAcked(cum, sacks))
    BY AckConfirms, Zenon
  <2> QED
    BY <2>1, Zenon DEF Clears
<1>3. packets \in Seq(Packet) /\ DOMAIN packets = 1 .. Len(packets) /\ seqToMsg \subseteq DOMAIN packets
  <2>1. packets \in Seq(Packet)
    BY DEF BooksInv, BookTypes
  <2>2. seqToMsg \subseteq 1 .. Len(packets)
    BY DEF MsgInv, Types
  <2> QED
    BY <2>1, <2>2, PacketsOf
<1> HIDE DEF new
<1>4. Adds(Cost(packets, DOMAIN packets \ seqToMsg), Cost(packets, new), Cost(packets, DOMAIN packets \ seqToMsg'))
  <2> DEFINE old == DOMAIN packets \ seqToMsg
  <2>1. /\ old \in SUBSET DOMAIN packets /\ new \in SUBSET DOMAIN packets
        /\ \A k \in old : k \notin new
        /\ DOMAIN packets \ seqToMsg' = old \cup new
    BY <1>2, <1>3
  <2> HIDE DEF old
  <2>2. Adds(Cost(packets, old), Cost(packets, new), Cost(packets, old \cup new))
    BY <1>3, <2>1, CostAdds, Zenon
  <2> QED
    BY <2>1, <2>2 DEF old
<1>5. /\ bytes \in [{"scheduled", "triggered", "eligible", "sent", "recvd", "acked"} -> Int]
      /\ conn \in [started : BOOLEAN, done : BOOLEAN, backlog : Nat]
      /\ bytes.acked = Cost(packets, DOMAIN packets \ seqToMsg)
  BY DEF Balanced
<1>6. more(new) = Cost(packets, DOMAIN packets \ seqToMsg') /\ more(new) \in Int
  <2>1. BytesIn(new) = Bytes(packets, new)
    BY <1>3, BytesInIs
  <2>2. Cost(packets, new) = Bytes(packets, new) + Hdr * Cardinality(new)
    BY DEF Cost
  <2>3. Bytes(packets, new) \in Nat
    BY <1>3, BytesOfNone
  <2>4. Hdr * Cardinality(new) \in Nat
    <3>1. IsFiniteSet(DOMAIN packets)
      BY <1>3, FS_Interval, PacketsOf
    <3>2. IsFiniteSet(new)
      BY <1>2, <1>3, <3>1, FS_Subset
    <3>3. Cardinality(new) \in Nat
      BY <3>2, FS_CardinalityType
    <3> QED
      BY <3>3, MsgsAssumption
  <2> QED
    BY <1>4, <1>5, <2>1, <2>2, <2>3, <2>4 DEF Adds
<1> HIDE DEF more
<1>7. /\ bytes' \in [{"scheduled", "triggered", "eligible", "sent", "recvd", "acked"} -> Int]
      /\ bytes'.acked = more(new)
      /\ bytes'.eligible = bytes.eligible /\ bytes'.sent = bytes.sent /\ bytes'.recvd = bytes.recvd
      /\ bytes'.scheduled = bytes.scheduled /\ bytes'.triggered = bytes.triggered
  <2>1. bytes' \in [{"scheduled", "triggered", "eligible", "sent", "recvd", "acked"} -> Int]
    BY <1>1, <1>5, <1>6
  <2>2. bytes'.acked = more(new)
    BY <1>1, <1>5
  <2>3. /\ bytes'.eligible = bytes.eligible /\ bytes'.sent = bytes.sent /\ bytes'.recvd = bytes.recvd
        /\ bytes'.scheduled = bytes.scheduled /\ bytes'.triggered = bytes.triggered
    BY <1>1, <1>5
  <2> QED
    BY <2>1, <2>2, <2>3
<1>8. /\ conn' \in [started : BOOLEAN, done : BOOLEAN, backlog : Nat]
      /\ conn'.backlog = conn.backlog
      /\ conn'.done <=> bytes'.acked = bytes'.eligible
  <2> DEFINE done == bytes'.acked = bytes'.eligible
  <2>1. done \in BOOLEAN /\ conn' = [conn EXCEPT !.done = done]
    BY <1>1
  <2> HIDE DEF done
  <2>2. conn'.done = done /\ conn'.backlog = conn.backlog
    BY <1>5, <2>1
  <2>3. conn' \in [started : BOOLEAN, done : BOOLEAN, backlog : Nat]
    BY <1>5, <2>1
  <2> QED
    BY <2>2, <2>3, Zenon DEF done
<1>9. Left' = Left
  BY <1>1 DEF Left
<1> QED
  BY <1>1, <1>5, <1>6, <1>7, <1>8, <1>9 DEF Balanced

\* Every step keeps the balance of the counters.
LEMMA StepBalanced ==
  ASSUME MsgInv, BooksInv, Balanced, [Next]_vars
  PROVE  Balanced'
<1>1. CASE UNCHANGED vars
  BY <1>1 DEF vars, msgVars, queueVars, tpVars, Balanced, Left
<1>2. CASE Starts
  <2>1. CASE \E ms \in SUBSET scheduled \ {{}} : MessagesDue(ms)
    BY <2>1, DueBalanced
  <2>2. CASE \E m \in triggered : TriggeredElsewhere(m)
    <3>1. PICK m \in triggered : TriggeredElsewhere(m)
      BY <2>2
    <3>2. m \in Msgs /\ MakeMsgEligible(m)
      BY <3>1 DEF TriggeredElsewhere, BooksInv, BookTypes
    <3> QED
      BY <3>2, EligibleBalanced
  <2> QED
    BY <1>2, <2>1, <2>2 DEF Starts
<1>3. CASE Activate
  <2>1. MakeMsgEligible(Last(fired)) /\ Last(fired) \in Msgs
    BY <1>3 DEF Activate, MakeMsgEligible, BooksInv, BookTypes
  <2> QED
    BY <2>1, EligibleBalanced
<1>4. CASE SendNewPacket
  BY <1>4, SendBalanced
<1>5. CASE Arrivals
  BY <1>5, ArriveBalanced DEF Arrivals
<1>6. CASE AnyAck
  <2>1. PICK cum \in 1 .. Len(packets) + 1 :
          /\ Cumulative(cum)
          /\ \E sacks \in SUBSET {d \in received : d >= cum} : ProcessAck(cum, sacks)
    BY <1>6 DEF AnyAck
  <2>2. PICK sacks \in SUBSET received : ProcessAck(cum, sacks)
    BY <2>1
  <2> QED
    BY <2>1, <2>2, AckBalanced
<1> QED
  BY <1>1, <1>2, <1>3, <1>4, <1>5, <1>6 DEF Next

\* Balanced is an invariant.
THEOREM BooksBalance == Spec => []Balanced
<1>1. MsgInv /\ BooksInv /\ Balanced /\ [Next]_vars => Balanced'
  BY StepBalanced
<1> QED
  BY <1>1, InitBalanced, MessagesInvariant, BooksInvariant, PTL DEF Spec

\* The source, which counts its backlog down packet by packet, and the tracker,
\* which adds a rounded-up number of packets per message, never disagree on what
\* there is to send, for any sizes of messages, packets and headers.
THEOREM BacklogIsWhatIsUnsent == Spec => []BacklogIsUnsent
<1>1. ASSUME BooksInv, Balanced PROVE BacklogIsUnsent
  <2>1. Left \in Nat /\ (Left = 0 <=> cur = None)
    BY <1>1, LeftIsSome
  <2>2. HoldsEach(eligible, ToSet(eligible)) /\ ToSet(eligible) \subseteq Msgs
    BY <1>1 DEF BooksInv, BookTypes, HoldsEach, ToSet
  <2>3. PacketedSum(ToSet(eligible)) \in Nat
        /\ (PacketedSum(ToSet(eligible)) = 0 <=> \A m \in Msgs : m \notin ToSet(eligible))
    BY PacketedOfNone
  <2>4. PacketedSum(ToSet(eligible)) = 0 <=> eligible = <<>>
    BY <2>2, <2>3, QueueEmpty
  <2>5. conn.backlog = PacketedSum(ToSet(eligible)) + Left
    BY <1>1 DEF Balanced
  <2>6. conn.backlog = 0 <=> cur = None /\ eligible = <<>>
    BY <2>1, <2>3, <2>4, <2>5
  <2> QED
    BY <1>1, <2>6 DEF BacklogIsUnsent, Balanced
<1> QED
  BY <1>1, BooksInvariant, BooksBalance, PTL

\* The source never counts as acked what the sink has not taken, in whatever
\* order packets and ACKs come, and a message is sent, received or finished at
\* the packet that carries its last byte.
THEOREM StatusFollowsTheBytes == Spec => []StatusFollowsBytes
<1>1. ASSUME MsgInv, BooksInv, Balanced PROVE StatusFollowsBytes
  <2>1. packets \in Seq(Packet) /\ DOMAIN packets = 1 .. Len(packets)
        /\ \A e \in DOMAIN packets : e \in seqToMsg \/ e \in received
    BY <1>1, PacketsOf DEF BooksInv, BookTypes
  <2>2. received \in SUBSET DOMAIN packets /\ DOMAIN packets \ seqToMsg \in SUBSET received
    BY <1>1, <2>1 DEF MsgInv, Types
  <2>3. Cost(packets, received) <= Cost(packets, DOMAIN packets)
    BY <2>1, <2>2, CostOfSome
  <2>4. Cost(packets, DOMAIN packets \ seqToMsg) <= Cost(packets, received)
    BY <2>1, <2>2, CostOfSome
  <2>5. bytes.acked <= bytes.recvd /\ bytes.recvd <= bytes.sent
    BY <1>1, <2>3, <2>4 DEF Balanced
  <2>6. \A m \in Msgs : StatusFits(m, status[m], sent[m], recvd[m], acked[m], cur)
    BY <1>1 DEF BooksInv
  <2> QED
    BY <2>5, <2>6 DEF StatusFollowsBytes, StatusFits
<1> QED
  BY <1>1, MessagesInvariant, BooksInvariant, BooksBalance, PTL

\* Everything eligible is acked when no message is in flight or waiting, and then only.
LEMMA AllAcked ==
  ASSUME MsgInv, BooksInv, Balanced
  PROVE  CountersTellQueues
<1>1. /\ packets \in Seq(Packet) /\ DOMAIN packets = 1 .. Len(packets)
      /\ HoldsEach(eligible, ToSet(eligible)) /\ cur \in Msgs \cup {None}
      /\ \A m \in Msgs : CountsFit(m, packets, sent[m], recvd[m], acked[m], received, seqToMsg)
      /\ \A m \in Msgs : StatusFits(m, status[m], sent[m], recvd[m], acked[m], cur)
      /\ \A m \in Msgs : InQueue(m, status[m])
      /\ inFlight \subseteq Msgs
  BY PacketsOf DEF BooksInv, BookTypes
<1>2. seqToMsg \subseteq DOMAIN packets
  BY <1>1 DEF MsgInv, Types
<1>3. Left \in Nat /\ (Left = 0 <=> cur = None)
  BY LeftIsSome
<1>4. PacketedSum(ToSet(eligible)) \in Nat /\ (PacketedSum(ToSet(eligible)) = 0 <=> eligible = <<>>)
  <2>1. PacketedSum(ToSet(eligible)) \in Nat
        /\ (PacketedSum(ToSet(eligible)) = 0 <=> \A m \in Msgs : m \notin ToSet(eligible))
    BY PacketedOfNone
  <2>2. ToSet(eligible) \subseteq Msgs
    BY <1>1 DEF HoldsEach, ToSet
  <2> QED
    BY <1>1, <2>1, <2>2, QueueEmpty
<1>5. /\ conn.backlog = PacketedSum(ToSet(eligible)) + Left
      /\ conn.backlog + bytes.sent = bytes.eligible
      /\ bytes.sent = Cost(packets, DOMAIN packets)
      /\ bytes.acked = Cost(packets, DOMAIN packets \ seqToMsg)
  BY DEF Balanced
<1>6. conn.backlog \in Nat /\ (conn.backlog = 0 <=> cur = None /\ eligible = <<>>)
  BY <1>3, <1>4, <1>5
<1>7. /\ bytes.sent \in Nat /\ bytes.acked \in Nat /\ bytes.acked <= bytes.sent
      /\ bytes.acked = bytes.sent => seqToMsg = {}
      /\ seqToMsg = {} => bytes.acked = bytes.sent
  <2> DEFINE T == DOMAIN packets
             S == DOMAIN packets \ seqToMsg
  <2>1. T \in SUBSET DOMAIN packets /\ S \in SUBSET T
        /\ (S = T => seqToMsg = {}) /\ (seqToMsg = {} => S = T)
    BY <1>2
  <2> HIDE DEF T, S
  <2>2. /\ Cost(packets, S) \in Nat /\ Cost(packets, T) \in Nat /\ Cost(packets, S) <= Cost(packets, T)
        /\ Cost(packets, S) = Cost(packets, T) => S = T
    BY <1>1, <2>1, CostOfSome
  <2>3. bytes.sent = Cost(packets, T) /\ bytes.acked = Cost(packets, S)
    BY <1>5 DEF T, S
  <2> QED
    BY <2>1, <2>2, <2>3
<1>8. bytes.acked = bytes.eligible <=> seqToMsg = {} /\ cur = None /\ eligible = <<>>
  BY <1>5, <1>6, <1>7
<1>9. \A m \in Msgs : Size[m] \in Nat \ {0}
  BY MsgsAssumption
<1>10. ASSUME seqToMsg = {}, cur = None PROVE inFlight = {}
  <2> SUFFICES ASSUME NEW m \in Msgs, m \in inFlight PROVE FALSE
    BY <1>1
  <2>1. OfMsg(packets, m) \ seqToMsg = OfMsg(packets, m)
    BY <1>10
  <2>2. acked[m] = sent[m]
    BY <1>1, <2>1 DEF CountsFit
  <2>3. m # None
    BY MsgsAssumption DEF Msgs, None
  <2>4. status[m] \notin {"Init", "Finished"}
    BY <1>1 DEF InQueue
  <2> QED
    BY <1>1, <1>9, <1>10, <2>2, <2>3, <2>4 DEF StatusFits
<1>11. ASSUME inFlight = {} PROVE cur = None /\ seqToMsg = {}
  <2>1. \A m \in Msgs : status[m] \in {"Init", "Finished"}
    BY <1>1, <1>11 DEF InQueue
  <2>2. cur = None
    <3> SUFFICES ASSUME cur # None PROVE FALSE
      OBVIOUS
    <3>1. cur \in Msgs /\ StatusFits(cur, status[cur], sent[cur], recvd[cur], acked[cur], cur)
      BY <1>1
    <3>2. Size[cur] \in Nat /\ sent[cur] \in 1 .. Size[cur] - 1 /\ status[cur] \in {"Init", "Finished"}
      BY <1>9, <2>1, <3>1 DEF StatusFits
    <3> QED
      BY <3>1, <3>2 DEF StatusFits
  <2>3. ASSUME NEW d \in seqToMsg PROVE FALSE
    <3> DEFINE m == packets[d].msg
               own == OfMsg(packets, m)
    <3>1. d \in DOMAIN packets /\ m \in Msgs
      BY <1>1, <1>2, <2>3, PacketsOf
    <3>2. acked[m] = sent[m]
      <4> HIDE DEF m
      <4>1. {sent[m], recvd[m], acked[m]} \subseteq Nat /\ acked[m] <= recvd[m] /\ recvd[m] <= sent[m]
        BY <1>1, <3>1 DEF StatusFits
      <4>2. CASE status[m] = "Init"
        <5>1. sent[m] = 0
          BY <1>1, <3>1, <4>2 DEF StatusFits
        <5> QED
          BY <4>1, <5>1
      <4>3. CASE status[m] = "Finished"
        BY <1>1, <3>1, <4>3 DEF StatusFits
      <4> QED
        BY <2>1, <3>1, <4>2, <4>3
    <3>3. sent[m] = Bytes(packets, own) /\ acked[m] = Bytes(packets, own \ seqToMsg)
      BY <1>1, <3>1 DEF CountsFit
    <3>4. d \in own
      BY <3>1 DEF OfMsg
    <3> HIDE DEF own, m
    <3>5. \A k \in DOMAIN packets : k \in own \ seqToMsg => k \in own
      OBVIOUS
    <3>6. Bytes(packets, own \ seqToMsg) = Bytes(packets, own) =>
            \A k \in DOMAIN packets : k \in own => k \in own \ seqToMsg
      BY <1>1, <3>5, BytesOfSome
    <3> QED
      BY <2>3, <3>1, <3>2, <3>3, <3>4, <3>6
  <2> QED
    BY <2>2, <2>3
<1>12. bytes.sent = bytes.eligible => eligible = <<>> /\ cur = None
  BY <1>5, <1>6, <1>7
<1> QED
  BY <1>8, <1>10, <1>11, <1>12 DEF CountersTellQueues

\* The assertions on the queues in checkFinished and checkDoneSending follow
\* from the byte counters that guard them.
THEOREM CountersSpeakForQueues == Spec => []CountersTellQueues
  BY AllAcked, MessagesInvariant, BooksInvariant, BooksBalance, PTL

--------------------------------------------------------------------------
(* The order of the packets                                                *)

\* A message is cut to its end before the next one, so a message that is cut
\* in part has the last packet.
LastIsCurrent == cur # None => packets # <<>> /\ packets[Len(packets)].msg = cur
Contiguous == MessagesAreContiguous /\ LastIsCurrent

\* A packet continues the current message, or begins one when there is none.
LEMMA SendContiguous ==
  ASSUME BooksInv, Contiguous, SendNewPacket
  PROVE  Contiguous'
<1> DEFINE n == Len(packets)
<1>1. PICK m \in Msgs :
        LET left == Size[m] - sent[m]
            segment == Segment(left)
            isLast == segment = left
        IN /\ m = Sending
           /\ packets' = Append(packets, [msg |-> m, size |-> segment])
           /\ cur' = AfterSending(m, isLast).cur
  BY Zenon DEF SendNewPacket
<1> DEFINE e == [msg |-> m, size |-> Segment(Size[m] - sent[m])]
<1>2. cur # None \/ eligible # <<>>
  BY Zenon DEF SendNewPacket
<1>3. packets' = Append(packets, e) /\ cur' \in {None, m} /\ e.msg = m
  BY <1>1 DEF AfterSending
<1>4. IF cur = None THEN sent[m] = 0 ELSE cur = m
  BY <1>1, <1>2, SendingHasBytes
<1>5. packets \in Seq(Packet) /\ sent[m] = Bytes(packets, OfMsg(packets, m))
  BY DEF BooksInv, BookTypes, CountsFit
<1> HIDE DEF e
<1>6. /\ n \in Nat /\ DOMAIN packets = 1 .. n /\ DOMAIN packets' = 1 .. n + 1
      /\ Len(packets') = n + 1 /\ packets'[n + 1] = e
      /\ \A d \in 1 .. n : packets'[d] = packets[d]
  <2>1. n \in Nat /\ DOMAIN packets = 1 .. n /\ packets \in Seq(Packet \cup {e})
    BY <1>5
  <2>2. packets' \in Seq(Packet \cup {e}) /\ Len(packets') = n + 1 /\ packets'[n + 1] = e
    BY <1>3, <2>1
  <2>3. DOMAIN packets' = 1 .. n + 1
    BY <2>2
  <2>4. \A d \in 1 .. n : packets'[d] = packets[d]
    BY <1>3, <2>1
  <2> QED
    BY <2>1, <2>2, <2>3, <2>4
<1> HIDE DEF n
<1>7. ASSUME NEW d \in DOMAIN packets, packets[d].msg = m
      PROVE  n \in DOMAIN packets /\ packets[n].msg = m
  <2>1. sent[m] # 0
    <3>1. d \in OfMsg(packets, m)
      BY <1>7 DEF OfMsg
    <3> QED
      BY <1>5, <1>7, <3>1, BytesOfNone
  <2>2. cur = m /\ cur # None
    BY <1>1, <1>4, <2>1, MsgsAssumption DEF Msgs, None
  <2> QED
    BY <1>6, <1>7, <2>2 DEF Contiguous, LastIsCurrent, n
<1>8. MessagesAreContiguous'
  <2> SUFFICES ASSUME NEW d \in 1 .. n + 1, NEW f \in 1 .. n + 1,
                      packets'[d].msg = packets'[f].msg, NEW k \in d .. f
               PROVE  packets'[k].msg = packets'[d].msg
    BY <1>6 DEF MessagesAreContiguous
  <2>1. CASE f \in 1 .. n
    <3>1. d \in 1 .. n /\ k \in 1 .. n
      BY <1>6, <2>1
    <3> QED
      BY <1>6, <2>1, <3>1 DEF Contiguous, MessagesAreContiguous
  <2>2. CASE f = n + 1 /\ d \in 1 .. n
    <3>1. packets[d].msg = m
      BY <1>3, <1>6, <2>2
    <3>2. n \in DOMAIN packets /\ packets[n].msg = m
      BY <1>6, <1>7, <2>2, <3>1
    <3>3. CASE k = n + 1
      BY <1>6, <2>2, <3>3
    <3>4. CASE k # n + 1
      <4>1. k \in d .. n
        BY <1>6, <2>2, <3>4
      <4>2. packets[k].msg = m /\ k \in 1 .. n
        BY <1>6, <2>2, <3>1, <3>2, <4>1 DEF Contiguous, MessagesAreContiguous
      <4> QED
        BY <1>6, <2>2, <3>1, <4>2
    <3> QED
      BY <3>3, <3>4
  <2>3. CASE f = n + 1 /\ d = n + 1
    <3>1. k = d
      BY <1>6, <2>3
    <3> QED
      BY <3>1
  <2> QED
    BY <1>6, <2>1, <2>2, <2>3
<1>9. LastIsCurrent'
  BY <1>3, <1>6 DEF LastIsCurrent
<1> QED
  BY <1>8, <1>9 DEF Contiguous

\* getMsgSeq can name a message by its first and last sequence number: whatever
\* becomes eligible while it is sent, no other message comes between.
THEOREM MessagesStayWhole == Spec => []MessagesAreContiguous
<1>1. Init => Contiguous
  BY DEF Init, Contiguous, MessagesAreContiguous, LastIsCurrent
<1>2. BooksInv /\ Contiguous /\ [Next]_vars => Contiguous'
  <2> SUFFICES ASSUME BooksInv, Contiguous, [Next]_vars PROVE Contiguous'
    OBVIOUS
  <2>1. UNCHANGED <<packets, cur>> => Contiguous'
    BY DEF Contiguous, MessagesAreContiguous, LastIsCurrent
  <2>2. CASE Starts \/ Activate \/ Arrivals \/ AnyAck \/ UNCHANGED vars
    <3>1. UNCHANGED <<packets, cur>>
      BY <2>2, Zenon DEF Starts, MessagesDue, TriggeredElsewhere, MakeMsgEligible, Activate,
                         Arrivals, Arrive, AnyAck, ProcessAck, vars, queueVars
    <3> QED
      BY <2>1, <3>1
  <2>3. CASE SendNewPacket
    BY <2>3, SendContiguous
  <2> QED
    BY <2>2, <2>3 DEF Next
<1>3. Contiguous => MessagesAreContiguous
  BY DEF Contiguous
<1> QED
  BY <1>1, <1>2, <1>3, BooksInvariant, PTL DEF Spec

--------------------------------------------------------------------------
(* Triggers                                                                *)

\* A message of status st has had the status that fires a trigger.
HasHad(st, event) ==
  \/ event = "SentLast" /\ st \in {"SentLast", "RecvdLast", "Finished"}
  \/ event = "RecvdLast" /\ st \in {"RecvdLast", "Finished"}

\* A message that waits follows one that has not got there, or its trigger is
\* pending.
Linked ==
  /\ scheduled \subseteq Scheduled
  /\ fired \in Seq(Msgs)
  /\ \A m \in triggered : After[m].msg \in Msgs /\ HasHad(status[After[m].msg], After[m].status)
                            => \E k \in DOMAIN fired : fired[k] = m

\* What set_status fires is every message that waits for this status.
LEMMA FiresAll ==
  ASSUME triggered \subseteq Msgs, NEW a \in Msgs, NEW st
  PROVE  HoldsEach(Fires(a, st), {w \in triggered : After[w] = [msg |-> a, status |-> st]})
<1> DEFINE S == {w \in triggered : After[w] = [msg |-> a, status |-> st]}
<1>1. S \in SUBSET Msgs
  OBVIOUS
<1> HIDE DEF S
<1>2. HoldsEach(InIdOrder(S), S)
  BY <1>1, IdOrder
<1> QED
  BY <1>2 DEF Fires, S

\* A status that fires triggers leaves nobody behind.
LEMMA StatusLinked ==
  ASSUME BooksInv, Linked, NEW a \in Msgs, NEW st \in {"SentLast", "RecvdLast"},
         status' = [status EXCEPT ![a] = st],
         fired = <<>>, fired' = Fires(a, st),
         \A ev \in {"SentLast", "RecvdLast"} : HasHad(st, ev) /\ ev # st => HasHad(status[a], ev),
         UNCHANGED <<scheduled, triggered>>
  PROVE  Linked'
<1>1. status \in [Msgs -> Statuses] /\ triggered \subseteq Msgs
  BY DEF BooksInv, BookTypes
<1>2. HoldsEach(fired', {w \in triggered : After[w] = [msg |-> a, status |-> st]})
  BY <1>1, FiresAll
<1>3. fired' \in Seq(Msgs)
        /\ \A w \in triggered : After[w] = [msg |-> a, status |-> st] => \E k \in DOMAIN fired' : fired'[k] = w
  BY <1>2 DEF HoldsEach
<1>4. ASSUME NEW m \in triggered, After[m].msg \in Msgs, HasHad(status'[After[m].msg], After[m].status)
      PROVE  \E k \in DOMAIN fired' : fired'[k] = m
  <2> DEFINE b == After[m].msg
             ev == After[m].status
  <2>1. After[m] \in [msg : 0 .. NumMsgs, status : {"SentLast", "RecvdLast"}]
    BY <1>1, MsgsAssumption
  <2>2. ev \in {"SentLast", "RecvdLast"} /\ After[m] = [msg |-> b, status |-> ev] /\ b \in Msgs
    BY <1>4, <2>1
  <2>3. ~HasHad(status[b], ev)
    BY <1>4 DEF Linked
  <2>4. HasHad(status'[b], ev)
    BY <1>4
  <2> HIDE DEF b, ev
  <2>5. b = a /\ status'[b] = st
    BY <1>1, <2>2, <2>3, <2>4
  <2>6. ev = st
    BY <2>2, <2>3, <2>4, <2>5
  <2> QED
    BY <1>3, <2>2, <2>5, <2>6
<1> QED
  BY <1>3, <1>4 DEF Linked

\* Every step keeps triggers and statuses linked.
LEMMA StepLinked ==
  ASSUME MsgInv, BooksInv, BooksInv', Linked, [Next]_vars
  PROVE  Linked'
<1>1. /\ status \in [Msgs -> Statuses] /\ triggered \subseteq Msgs
      /\ \A m \in Msgs : StatusFits(m, status[m], sent[m], recvd[m], acked[m], cur)
      /\ \A m \in Msgs : StatusFits(m, status'[m], sent'[m], recvd'[m], acked'[m], cur')
  BY DEF BooksInv, BookTypes
<1>2. CASE UNCHANGED vars
  BY <1>2 DEF vars, msgVars, queueVars, Linked
<1>3. CASE Starts
  <2>1. /\ scheduled' \subseteq scheduled /\ triggered' \subseteq triggered
        /\ UNCHANGED <<status, fired>>
    BY <1>3, Zenon DEF Starts, MessagesDue, TriggeredElsewhere, MakeMsgEligible, msgVars
  <2> QED
    BY <2>1 DEF Linked
<1>4. CASE Activate
  <2>1. /\ fired # <<>> /\ fired' = Front(fired) /\ triggered' = triggered \ {Last(fired)}
        /\ UNCHANGED <<status, scheduled>>
    BY <1>4, Zenon DEF Activate, MakeMsgEligible, msgVars
  <2>2. fired \in Seq(Msgs)
    BY DEF Linked
  <2>3. fired' \in Seq(Msgs) /\ \A k \in DOMAIN fired : fired[k] # Last(fired) =>
                                  k \in DOMAIN fired' /\ fired'[k] = fired[k]
    BY <2>1, <2>2 DEF Front, Last
  <2> QED
    BY <2>1, <2>3 DEF Linked
<1>5. CASE SendNewPacket
  <2>1. PICK m \in Msgs :
          LET isLast == Segment(Size[m] - sent[m]) = Size[m] - sent[m]
          IN /\ status' = [status EXCEPT ![m] = IF isLast THEN "SentLast" ELSE "SentFirst"]
             /\ fired' = IF isLast THEN Fires(m, "SentLast") ELSE fired
    BY <1>5, Zenon DEF SendNewPacket
  <2>2. fired = <<>> /\ UNCHANGED <<scheduled, triggered>>
    BY <1>5, Zenon DEF SendNewPacket, Quiet
  <2> DEFINE isLast == Segment(Size[m] - sent[m]) = Size[m] - sent[m]
  <2>3. CASE isLast
    <3>1. status' = [status EXCEPT ![m] = "SentLast"] /\ fired' = Fires(m, "SentLast")
      BY <2>1, <2>3
    <3>2. \A ev \in {"SentLast", "RecvdLast"} :
            HasHad("SentLast", ev) /\ ev # "SentLast" => HasHad(status[m], ev)
      BY DEF HasHad
    <3> QED
      BY <2>2, <3>1, <3>2, StatusLinked
  <2>4. CASE ~isLast
    <3>1. status' = [status EXCEPT ![m] = "SentFirst"] /\ fired' = fired
      BY <2>1, <2>4
    <3>2. \A k \in Msgs, ev \in {"SentLast", "RecvdLast"} : HasHad(status'[k], ev) => HasHad(status[k], ev)
      BY <1>1, <3>1 DEF HasHad
    <3>3. \A k \in triggered : After[k].status \in {"SentLast", "RecvdLast"}
      BY <1>1, MsgsAssumption
    <3> QED
      BY <2>2, <3>1, <3>2, <3>3 DEF Linked
  <2> QED
    BY <2>3, <2>4
<1>6. CASE Arrivals
  <2>1. PICK d \in 1 .. Len(packets) : Arrive(d)
    BY <1>6 DEF Arrivals
  <2> DEFINE m == packets[d].msg
  <2>2. /\ m \in Msgs
        /\ status' = IF IsWhole(m, d) THEN [status EXCEPT ![m] = "RecvdLast"] ELSE status
        /\ fired' = IF IsWhole(m, d) THEN Fires(m, "RecvdLast") ELSE fired
        /\ UNCHANGED <<sent, scheduled, triggered>>
    BY <2>1, ArrivalCounts DEF queueVars
  <2>3. fired = <<>>
    BY <2>1, Zenon DEF Arrive, Quiet
  <2> HIDE DEF m
  <2>4. CASE IsWhole(m, d)
    <3>1. status' = [status EXCEPT ![m] = "RecvdLast"] /\ fired' = Fires(m, "RecvdLast")
      BY <2>2, <2>4
    <3>2. status'[m] = "RecvdLast"
      BY <1>1, <2>2, <3>1
    <3>3. status[m] \in {"SentLast", "RecvdLast", "Finished"}
      BY <1>1, <2>2, <3>2 DEF StatusFits
    <3>4. \A ev \in {"SentLast", "RecvdLast"} :
            HasHad("RecvdLast", ev) /\ ev # "RecvdLast" => HasHad(status[m], ev)
      BY <3>3 DEF HasHad
    <3> QED
      BY <2>2, <2>3, <3>1, <3>4, StatusLinked
  <2>5. CASE ~IsWhole(m, d)
    BY <2>2, <2>5 DEF Linked
  <2> QED
    BY <2>4, <2>5
<1>7. CASE AnyAck
  <2>1. PICK cum \in 1 .. Len(packets) + 1, sacks \in SUBSET received : ProcessAck(cum, sacks)
    <3>1. PICK cum \in 1 .. Len(packets) + 1 :
            \E sacks \in SUBSET {d \in received : d >= cum} : ProcessAck(cum, sacks)
      BY <1>7 DEF AnyAck
    <3>2. PICK sacks \in SUBSET received : ProcessAck(cum, sacks)
      BY <3>1
    <3> QED
      BY <3>2
  <2>2. UNCHANGED <<recvd, scheduled, triggered, fired>>
    BY <2>1, Zenon DEF ProcessAck
  <2>3. PICK ended : status' = [k \in Msgs |-> IF k \in ended THEN "Finished" ELSE status[k]]
    BY <2>1, Zenon DEF ProcessAck
  <2>4. \A k \in Msgs, ev \in {"SentLast", "RecvdLast"} : HasHad(status'[k], ev) => HasHad(status[k], ev)
    <3> SUFFICES ASSUME NEW k \in Msgs, NEW ev \in {"SentLast", "RecvdLast"}, HasHad(status'[k], ev),
                        status'[k] # status[k]
                 PROVE  HasHad(status[k], ev)
      OBVIOUS
    <3>1. status'[k] = "Finished"
      BY <2>3
    <3>2. recvd'[k] = Size[k]
      BY <1>1, <3>1 DEF StatusFits
    <3>3. status[k] \in {"RecvdLast", "Finished"}
      BY <1>1, <2>2, <3>2 DEF StatusFits
    <3> QED
      BY <3>3 DEF HasHad
  <2>5. \A k \in triggered : After[k].status \in {"SentLast", "RecvdLast"}
    BY <1>1, MsgsAssumption
  <2> QED
    BY <2>2, <2>4, <2>5 DEF Linked
<1> QED
  BY <1>2, <1>3, <1>4, <1>5, <1>6, <1>7 DEF Next

\* Linked is an invariant: no trigger is missed by a message that still waits.
THEOREM TriggersAreNotMissed == Spec => []Linked
<1>1. Init => Linked
  <2> SUFFICES ASSUME Init PROVE Linked
    OBVIOUS
  <2>1. fired \in Seq(Msgs) /\ scheduled \subseteq Scheduled /\ triggered \subseteq Msgs
    BY DEF Init
  <2>2. \A m \in Msgs : status[m] = "Init"
    BY DEF Init
  <2> QED
    BY <2>1, <2>2 DEF Linked, HasHad
<1>2. MsgInv /\ BooksInv /\ BooksInv' /\ Linked /\ [Next]_vars => Linked'
  BY StepLinked
<1> QED
  BY <1>1, <1>2, MessagesInvariant, BooksInvariant, PTL DEF Spec

\* A message that is waiting when everything eligible is acked waits for the
\* outside, or a message it follows does.
OutsideAwaited ==
  BooksInv /\ Linked /\ CountersTellQueues
  /\ bytes.acked = bytes.eligible /\ complete # NumMsgs /\ fired = <<>>
  => \E m \in scheduled \cup triggered : m \in Scheduled \/ After[m].msg = 0

\* If no message waits for itself along the triggers, what is left to wait for
\* comes from outside.
LEMMA WaitsForOutside == Acyclic => OutsideAwaited
<1> SUFFICES ASSUME Acyclic, BooksInv, Linked, CountersTellQueues,
                    bytes.acked = bytes.eligible, complete # NumMsgs, fired = <<>>
             PROVE  \E m \in scheduled \cup triggered : m \in Scheduled \/ After[m].msg = 0
  BY DEF OutsideAwaited
<1>1. inFlight = {} /\ eligible = <<>> /\ ToSet(eligible) = {}
  BY DEF CountersTellQueues, ToSet
<1>2. /\ scheduled \subseteq Scheduled /\ scheduled \subseteq Msgs /\ triggered \subseteq Msgs
      /\ \A m \in Msgs : InQueue(m, status[m])
      /\ complete = Cardinality(Ended(status))
  BY DEF BooksInv, BookTypes, Linked
<1>3. \A m \in Msgs : status[m] = "Finished" \/ m \in scheduled \/ m \in triggered
  BY <1>1, <1>2 DEF InQueue
<1>4. CASE scheduled # {}
  BY <1>2, <1>4
<1>5. CASE scheduled = {}
  <2>1. triggered # {}
    <3> SUFFICES ASSUME triggered = {} PROVE FALSE
      OBVIOUS
    <3>1. Ended(status) = 1 .. NumMsgs /\ NumMsgs \in Nat
      BY <1>3, <1>5, MsgsAssumption DEF Ended, Msgs
    <3>2. Cardinality(1 .. NumMsgs) = NumMsgs
      BY <3>1, FS_Interval
    <3> QED
      BY <1>2, <3>1, <3>2
  <2>2. PICK m \in triggered : m \in Scheduled \/ After[m].msg \notin triggered
    BY <1>2, <2>1 DEF Acyclic
  <2>3. CASE After[m].msg = 0
    BY <2>3
  <2>4. CASE After[m].msg # 0 /\ After[m].msg \notin triggered
    <3>1. After[m] \in [msg : 0 .. NumMsgs, status : {"SentLast", "RecvdLast"}]
      BY <1>2, MsgsAssumption
    <3>2. After[m].msg \in Msgs /\ After[m].status \in {"SentLast", "RecvdLast"}
      BY <2>4, <3>1, MsgsAssumption DEF Msgs
    <3>3. status[After[m].msg] = "Finished"
      BY <1>3, <1>5, <2>4, <3>2
    <3>4. \E k \in DOMAIN fired : fired[k] = m
      BY <3>2, <3>3 DEF Linked, HasHad
    <3> QED
      BY <3>4
  <2> QED
    BY <2>2, <2>3, <2>4
<1> QED
  BY <1>4, <1>5

\* When the assertion of checkFinished stops the program, a message from outside
\* is awaited: a chain of messages of the connection goes on by itself, since a
\* message is eligible before the ACK that would find nothing left to do.
THEOREM ChainsGoOnByThemselves == Acyclic => (Spec => []ChainsGoOn)
<1> SUFFICES ASSUME Acyclic PROVE Spec => []ChainsGoOn
  OBVIOUS
<1>1. Init => ChainsGoOn
  BY DEF Init, ChainsGoOn
<1>2. ASSUME MsgInv, BooksInv, BooksInv', Balanced, CountersTellQueues', Linked', OutsideAwaited',
             ChainsGoOn, [Next]_vars
      PROVE  ChainsGoOn'
  <2> SUFFICES ASSUME stopped'
               PROVE  \E m \in scheduled' \cup triggered' : m \in Scheduled \/ After[m].msg = 0
    BY DEF ChainsGoOn
  <2>1. CASE UNCHANGED vars
    BY <1>2, <2>1 DEF vars, queueVars, ChainsGoOn
  <2>2. CASE Starts \/ Activate \/ SendNewPacket \/ Arrivals
    BY <2>2, Zenon DEF Starts, MessagesDue, TriggeredElsewhere, MakeMsgEligible, Activate,
                       SendNewPacket, Arrivals, Arrive, Quiet
  <2>3. CASE AnyAck
    <3>1. PICK cum \in 1 .. Len(packets) + 1 :
            /\ Cumulative(cum)
            /\ \E sacks \in SUBSET {d \in received : d >= cum} : ProcessAck(cum, sacks)
      BY <2>3 DEF AnyAck
    <3>2. PICK sacks \in SUBSET received : ProcessAck(cum, sacks)
      BY <3>1
    <3>3. conn'.done /\ complete' # NumMsgs /\ fired' = <<>>
      BY <3>2, Zenon DEF ProcessAck, Quiet
    <3>4. bytes'.acked = bytes'.eligible
      BY <1>2, <3>1, <3>2, <3>3, AckBalanced
    <3> QED
      BY <1>2, <3>3, <3>4 DEF OutsideAwaited
  <2> QED
    BY <1>2, <2>1, <2>2, <2>3 DEF Next
<1>3. Acyclic => []OutsideAwaited
  BY WaitsForOutside, PTL
<1> QED
  BY <1>1, <1>2, <1>3, MessagesInvariant, BooksInvariant, BooksBalance, CountersSpeakForQueues,
     TriggersAreNotMissed, PTL DEF Spec
=============================================================================
