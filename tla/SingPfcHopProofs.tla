-------------------------- MODULE SingPfcHopProofs --------------------------
(***************************************************************************)
(* Theorems about SingPfcHop with a SING switch as the sender, for any     *)
(* link delay, classes, buffer and thresholds.  First, what the sender     *)
(* does: frames may be as many as they like, what counts is the last one   *)
(* of each class.  Then, that the headroom suffices: packets are spaced on *)
(* the link and frames keep their order, so what was on the wire when XOFF *)
(* left, what the sender began before it heard, and a packet at each end   *)
(* is all that can still come, and there is room for it.                   *)
(***************************************************************************)
EXTENDS SingPfcHop, FiniteSetTheorems, TLAPS

Frame == [q : Prios, pause : BOOLEAN, left : Int]
Packet == [q : Prios, left : Int]

Types ==
  /\ xoffSent \in [Classes -> BOOLEAN]
  /\ paused \in [Prios -> BOOLEAN]
  /\ wire \in Seq(Packet)
  /\ frames \in Seq(Frame)
  /\ sending \in [q : Prios \cup {None}, left : Int]

\* Frame k is the last one under way for class q.
IsLast(s, q, k) == /\ k \in DOMAIN s /\ s[k].q = q
                   /\ \A j \in DOMAIN s : s[j].q = q => j <= k

\* The last word of the switch on class q, given the frames s under way and
\* what the sender does: it is on, without a choice of a frame.
LastWord(s, stopped, q, on) ==
  IF \A j \in DOMAIN s : s[j].q # q THEN stopped[q] = on
  ELSE \E k \in DOMAIN s : IsLast(s, q, k) /\ s[k].pause = on

Follows == \A q \in Prios : LastWord(frames, paused, q, xoffSent[<<In, q>>])

HopInv == Types /\ Follows

--------------------------------------------------------------------------
(* Frames and the last word                                                *)

\* A frame behind the others has the last word on its class, and on no other.
LEMMA AppendedFrame ==
  ASSUME NEW s \in Seq(Frame), NEW f \in Frame, NEW q \in Prios,
         NEW stopped, NEW on,
         IF f.q = q THEN f.pause = on ELSE LastWord(s, stopped, q, on)
  PROVE  LastWord(Append(s, f), stopped, q, on)
<1> DEFINE t == Append(s, f)
           n == Len(s) + 1
<1>1. /\ DOMAIN s = 1 .. Len(s) /\ DOMAIN t = 1 .. n /\ Len(s) \in Nat
      /\ t[n] = f /\ \A j \in 1 .. Len(s) : t[j] = s[j]
  OBVIOUS
<1> HIDE DEF t
<1>2. CASE f.q = q
  <2>1. IsLast(t, q, n) /\ t[n].pause = on
    BY <1>1, <1>2 DEF IsLast
  <2> QED
    BY <2>1, <1>1, <1>2 DEF LastWord, t
<1>3. CASE f.q # q
  <2>1. CASE \A j \in DOMAIN s : s[j].q # q
    <3>1. stopped[q] = on
      BY <1>3, <2>1 DEF LastWord
    <3>2. \A j \in DOMAIN t : t[j].q # q
      BY <1>1, <1>3, <2>1
    <3> QED
      BY <3>1, <3>2 DEF LastWord, t
  <2>2. CASE ~ \A j \in DOMAIN s : s[j].q # q
    <3>1. PICK k \in DOMAIN s : IsLast(s, q, k) /\ s[k].pause = on
      BY <1>3, <2>2 DEF LastWord
    <3>2. k \in DOMAIN t /\ t[k] = s[k] /\ t[k].q = q
      BY <3>1, <1>1 DEF IsLast
    <3>3. \A j \in DOMAIN t : t[j].q = q => j <= k
      BY <3>1, <1>1, <1>3 DEF IsLast
    <3> QED
      BY <3>1, <3>2, <3>3 DEF LastWord, IsLast, t
  <2> QED
    BY <2>1, <2>2
<1> QED
  BY <1>2, <1>3

\* When the first frame is heard, the last word stays what it was.
LEMMA HeardFrame ==
  ASSUME NEW s \in Seq(Frame), s # <<>>, NEW q \in Prios,
         NEW stopped \in [Prios -> BOOLEAN], NEW on, LastWord(s, stopped, q, on)
  PROVE  LastWord(Tail(s), [stopped EXCEPT ![Head(s).q] = Head(s).pause], q, on)
<1> DEFINE t == Tail(s)
           after == [stopped EXCEPT ![Head(s).q] = Head(s).pause]
<1>1. /\ DOMAIN s = 1 .. Len(s) /\ Len(s) \in Nat \ {0}
      /\ DOMAIN t = 1 .. Len(s) - 1
      /\ Head(s) = s[1] /\ \A j \in 1 .. Len(s) - 1 : t[j] = s[j + 1]
  OBVIOUS
<1>2. after[q] = IF s[1].q = q THEN s[1].pause ELSE stopped[q]
  BY <1>1
<1> HIDE DEF t, after
<1>3. CASE \A j \in DOMAIN s : s[j].q # q
  <2>1. stopped[q] = on /\ s[1].q # q
    BY <1>1, <1>3 DEF LastWord
  <2>2. \A j \in DOMAIN t : t[j].q # q
    BY <1>1, <1>3
  <2> QED
    BY <2>1, <2>2, <1>2 DEF LastWord, t, after
<1>4. CASE ~ \A j \in DOMAIN s : s[j].q # q
  <2>1. PICK k \in DOMAIN s : IsLast(s, q, k) /\ s[k].pause = on
    BY <1>4 DEF LastWord
  <2>2. CASE k = 1
    <3>1. \A j \in DOMAIN t : t[j].q # q
      <4>1. \A j \in DOMAIN t : j \in Int /\ j >= 1 /\ j + 1 \in DOMAIN s /\ t[j] = s[j + 1]
        BY <1>1
      <4> QED
        BY <4>1, <2>1, <2>2 DEF IsLast
    <3>2. after[q] = on
      BY <1>2, <2>1, <2>2 DEF IsLast
    <3> QED
      BY <3>1, <3>2 DEF LastWord, t, after
  <2>3. CASE k # 1
    <3>1. k - 1 \in DOMAIN t /\ t[k - 1] = s[k] /\ t[k - 1].q = q
      <4>1. k \in Int /\ k >= 2 /\ k <= Len(s) /\ s[k].q = q
        BY <1>1, <2>1, <2>3 DEF IsLast
      <4> QED
        BY <4>1, <1>1
    <3>2. \A j \in DOMAIN t : t[j].q = q => j <= k - 1
      <4>1. \A j \in DOMAIN t : j \in Int /\ j + 1 \in DOMAIN s /\ t[j] = s[j + 1]
        BY <1>1
      <4>2. k \in Int
        BY <1>1, <2>1
      <4> QED
        BY <4>1, <4>2, <2>1 DEF IsLast
    <3> QED
      BY <3>1, <3>2, <2>1 DEF LastWord, IsLast, t, after
  <2> QED
    BY <2>2, <2>3
<1> QED
  BY <1>3, <1>4

\* A frame and a packet that get older are a frame and a packet.
LEMMA OlderFrame ==
  ASSUME NEW r \in Frame
  PROVE  LET older == [r EXCEPT !.left = @ - 1]
         IN /\ older \in Frame /\ older.q = r.q /\ older.pause = r.pause
            /\ older.left = r.left - 1
BY DEF Frame

\* The same for a packet.
LEMMA OlderPacket ==
  ASSUME NEW r \in Packet
  PROVE  LET older == [r EXCEPT !.left = @ - 1]
         IN older \in Packet /\ older.q = r.q /\ older.left = r.left - 1
BY DEF Packet

\* Packets on the link get older together.
LEMMA AgedPackets ==
  ASSUME NEW s \in Seq(Packet) PROVE Age(s) \in Seq(Packet)
<1>1. \A k \in 1 .. Len(s) : s[k] \in Packet
  OBVIOUS
<1>2. \A k \in 1 .. Len(s) : [s[k] EXCEPT !.left = @ - 1] \in Packet
  BY <1>1, OlderPacket
<1>3. Age(s) \in [1 .. Len(s) -> Packet] /\ Len(s) \in Nat
  BY <1>2 DEF Age
<1> QED
  BY <1>3

\* And frames, which keep their order and what they say.
LEMMA AgedFrames ==
  ASSUME NEW s \in Seq(Frame)
  PROVE  /\ Age(s) \in Seq(Frame)
         /\ \A q, stopped, on : LastWord(s, stopped, q, on) => LastWord(Age(s), stopped, q, on)
<1>1. DOMAIN Age(s) = DOMAIN s /\ DOMAIN s = 1 .. Len(s) /\ Len(s) \in Nat
  BY DEF Age
<1>2. \A j \in DOMAIN s :
        s[j] \in Frame /\ Age(s)[j] = [s[j] EXCEPT !.left = @ - 1]
  BY DEF Age
<1>3. ASSUME NEW j \in DOMAIN s
      PROVE  Age(s)[j].q = s[j].q /\ Age(s)[j].pause = s[j].pause /\ Age(s)[j] \in Frame
  BY <1>2, OlderFrame
<1>4. ASSUME NEW q, NEW stopped, NEW on, LastWord(s, stopped, q, on)
      PROVE  LastWord(Age(s), stopped, q, on)
  BY <1>1, <1>3, <1>4 DEF LastWord, IsLast
<1>5. Age(s) \in [1 .. Len(s) -> Frame]
  BY <1>1, <1>3 DEF Age
<1> QED
  BY <1>1, <1>4, <1>5

--------------------------------------------------------------------------
(* The frames of the switch                                                *)

\* A frame is sent exactly when a class of port In changes, and says to what.
LEMMA SendingFollows ==
  ASSUME HopInv, NEW q \in Prios, NEW on \in BOOLEAN,
         xoffSent' = [xoffSent EXCEPT ![<<In, q>>] = on],
         SendFrame(q, on), paused' = paused, LinkDelay \in Nat, In \in Ports
  PROVE  /\ xoffSent' \in [Classes -> BOOLEAN]
         /\ frames' \in Seq(Frame) /\ Follows'
<1> DEFINE f == [q |-> q, pause |-> on, left |-> LinkDelay]
<1>1. f \in Frame /\ frames' = Append(frames, f) /\ f.q = q /\ f.pause = on
  BY DEF Frame, SendFrame
<1> HIDE DEF f
<1>2. frames \in Seq(Frame) /\ xoffSent \in [Classes -> BOOLEAN]
  BY DEF HopInv, Types
<1>3. <<In, q>> \in Classes
  BY DEF Classes
<1>4. ASSUME NEW r \in Prios PROVE LastWord(frames', paused', r, xoffSent'[<<In, r>>])
  <2>1. <<In, r>> \in Classes /\ LastWord(frames, paused, r, xoffSent[<<In, r>>])
    BY DEF Classes, HopInv, Follows
  <2>2. xoffSent'[<<In, r>>] = IF r = q THEN on ELSE xoffSent[<<In, r>>]
    BY <1>2, <1>3, <2>1
  <2>3. IF f.q = r THEN f.pause = xoffSent'[<<In, r>>]
                   ELSE LastWord(frames, paused, r, xoffSent'[<<In, r>>])
    BY <1>1, <2>1, <2>2
  <2>4. LastWord(Append(frames, f), paused, r, xoffSent'[<<In, r>>])
    BY <1>1, <1>2, <2>3, AppendedFrame
  <2> QED
    BY <1>1, <2>4
<1>5. frames' \in Seq(Frame)
  BY <1>1, <1>2
<1> QED
  BY <1>2, <1>3, <1>4, <1>5 DEF Follows

\* An arrival may stop its class.
LEMMA XoffFollows ==
  ASSUME HopInv, NEW q \in Prios, CheckXoff(q), paused' = paused
  PROVE  /\ xoffSent' \in [Classes -> BOOLEAN]
         /\ frames' \in Seq(Frame) /\ Follows'
<1>1. CASE PauseEvent(In, q, 1) /\ ~xoffSent[<<In, q>>]
  BY <1>1, SendingFollows, HopAssumption DEF CheckXoff
<1>2. CASE ~(PauseEvent(In, q, 1) /\ ~xoffSent[<<In, q>>])
  BY <1>2 DEF CheckXoff, HopInv, Types, Follows
<1> QED
  BY <1>1, <1>2

\* A departure may let its class go on; the other port has a sender of its own.
LEMMA XonFollows ==
  ASSUME HopInv, NEW i \in Ports, NEW q \in Prios, CheckXon(i, q), paused' = paused
  PROVE  /\ xoffSent' \in [Classes -> BOOLEAN]
         /\ frames' \in Seq(Frame) /\ Follows'
<1>1. CASE ~(ShouldSendResume(i, q) /\ xoffSent[<<i, q>>])
  BY <1>1 DEF CheckXon, HopInv, Types, Follows
<1>2. CASE ShouldSendResume(i, q) /\ xoffSent[<<i, q>>] /\ i = In
  BY <1>2, SendingFollows, HopAssumption DEF CheckXon
<1>3. CASE ShouldSendResume(i, q) /\ xoffSent[<<i, q>>] /\ i # In
  <2>1. frames' = frames /\ xoffSent' = [xoffSent EXCEPT ![<<i, q>>] = FALSE]
    BY <1>3 DEF CheckXon
  <2>2. \A r \in Prios : xoffSent'[<<In, r>>] = xoffSent[<<In, r>>]
    BY <2>1, <1>3, HopAssumption DEF HopInv, Types, Classes
  <2>3. xoffSent' \in [Classes -> BOOLEAN]
    BY <2>1 DEF HopInv, Types
  <2> QED
    BY <2>1, <2>2, <2>3 DEF HopInv, Types, Follows
<1> QED
  BY <1>1, <1>2, <1>3

--------------------------------------------------------------------------
(* The invariant                                                           *)

\* No frame is under way at the start, and nothing is paused.
LEMMA InitFollows == Init => HopInv
<1> SUFFICES ASSUME Init PROVE HopInv
  OBVIOUS
<1>1. In \in Ports
  BY HopAssumption
<1>2. Types
  BY DEF Init, Types, Frame, None
<1>3. ASSUME NEW q \in Prios PROVE LastWord(frames, paused, q, xoffSent[<<In, q>>])
  <2>1. DOMAIN frames = {} /\ paused[q] = FALSE /\ xoffSent[<<In, q>>] = FALSE
    BY <1>1 DEF Init, Classes
  <2> QED
    BY <2>1 DEF LastWord
<1> QED
  BY <1>2, <1>3 DEF HopInv, Follows

\* Every event keeps the last word of the switch the last word.
LEMMA NextFollows ==
  ASSUME HopInv, [Next]_vars, Upstream = "switch"
  PROVE  HopInv'
<1> USE DEF HopInv
<1>1. CASE StartSending
  BY <1>1 DEF StartSending, Starts, Types, Follows
<1>2. CASE SendingEnds
  <2>1. [q |-> sending.q, left |-> LinkDelay] \in Packet
    BY <1>2, HopAssumption DEF SendingEnds, Idle, Types, Packet
  <2>2. wire' \in Seq(Packet)
    BY <1>2, <2>1 DEF SendingEnds, Types
  <2>3. sending' \in [q : Prios \cup {None}, left : Int]
    BY <1>2 DEF SendingEnds, Starts
  <2> QED
    BY <1>2, <2>2, <2>3 DEF SendingEnds, Types, Follows
<1>3. CASE FrameArrives
  <2>1. /\ frames # <<>> /\ frames' = Tail(frames)
        /\ paused' = [paused EXCEPT ![Head(frames).q] = Head(frames).pause]
        /\ xoffSent' = xoffSent /\ wire' = wire /\ sending' = sending
    BY <1>3 DEF FrameArrives, Due, PauseHeard
  <2>2. Head(frames) \in Frame /\ frames' \in Seq(Frame)
    BY <2>1 DEF Types
  <2>3. paused' \in [Prios -> BOOLEAN]
    BY <2>1, <2>2 DEF Types, Frame
  <2>4. Follows'
    BY <2>1, HeardFrame DEF Follows, Types
  <2> QED
    BY <2>1, <2>2, <2>3, <2>4 DEF Types
<1>4. CASE PacketArrives
  <2>0. wire # <<>> /\ Head(wire) \in Packet
    BY <1>4 DEF PacketArrives, Due, Types
  <2>1. /\ wire # <<>> /\ wire' = Tail(wire) /\ paused' = paused /\ sending' = sending
        /\ Head(wire).q \in Prios /\ CheckXoff(Head(wire).q)
    BY <1>4, <2>0 DEF PacketArrives, Packet
  <2>2. wire' \in Seq(Packet)
    BY <2>1 DEF Types
  <2> QED
    BY <2>1, <2>2, XoffFollows DEF Types
<1>5. CASE OtherArrives
  <2>1. PICK q \in OtherClasses : xoffSent' = [xoffSent EXCEPT ![<<Other, q>>] = PauseEvent(Other, q, 1)]
    BY <1>5 DEF OtherArrives
  <2>2. PauseEvent(Other, q, 1) \in BOOLEAN
    BY DEF PauseEvent
  <2>3. xoffSent' \in [Classes -> BOOLEAN]
    BY <2>1, <2>2 DEF Types
  <2>4. \A r \in Prios : xoffSent'[<<In, r>>] = xoffSent[<<In, r>>]
    BY <2>1, HopAssumption DEF Types, Classes, In, Other
  <2> QED
    BY <1>5, <2>3, <2>4 DEF OtherArrives, Types, Follows
<1>6. ASSUME NEW i \in Ports, NEW q \in Prios, PacketLeaves(i, q) PROVE HopInv'
  <2>1. CheckXon(i, q) /\ paused' = paused /\ sending' = sending /\ wire' = wire
    BY <1>6 DEF PacketLeaves
  <2> QED
    BY <2>1, XonFollows DEF Types
<1>7. CASE Tick
  <2>1. /\ frames' = Age(frames) /\ wire' = Age(wire)
        /\ paused' = paused /\ xoffSent' = xoffSent
        /\ sending' = IF Idle THEN sending ELSE [sending EXCEPT !.left = @ - 1]
    BY <1>7 DEF Tick
  <2>2. wire' \in Seq(Packet)
    BY <2>1, AgedPackets DEF Types
  <2>3. sending' \in [q : Prios \cup {None}, left : Int]
    BY <2>1 DEF Types
  <2>4. frames' \in Seq(Frame) /\ Follows'
    BY <2>1, AgedFrames DEF Types, Follows
  <2> QED
    BY <2>1, <2>2, <2>3, <2>4 DEF Types
<1>8. CASE UNCHANGED vars
  BY <1>8 DEF vars, hopVars, Types, Follows
<1> QED
  BY <1>1, <1>2, <1>3, <1>4, <1>5, <1>6, <1>7, <1>8 DEF Next, Link, Leaves

\* With every frame under way the sender and the switch agree on each class
\* that has none, and the last frame tells the state of the switch otherwise.
LEMMA FollowsMeans ==
  ASSUME HopInv PROVE SenderFollows
<1> SUFFICES ASSUME NEW q \in Prios
             PROVE  (IF InTransit(q) = {} THEN paused[q]
                     ELSE frames[CHOOSE k \in InTransit(q) : \A j \in InTransit(q) : j <= k].pause)
                      = xoffSent[<<In, q>>]
  BY DEF SenderFollows
<1>1. LastWord(frames, paused, q, xoffSent[<<In, q>>])
  BY DEF HopInv, Follows
<1>2. CASE InTransit(q) = {}
  <2>1. \A j \in DOMAIN frames : frames[j].q # q
    BY <1>2 DEF InTransit
  <2> QED
    BY <1>1, <1>2, <2>1 DEF LastWord
<1>3. CASE InTransit(q) # {}
  <2> DEFINE c == CHOOSE k \in InTransit(q) : \A j \in InTransit(q) : j <= k
  <2>1. PICK k \in DOMAIN frames : IsLast(frames, q, k) /\ frames[k].pause = xoffSent[<<In, q>>]
    BY <1>1, <1>3 DEF LastWord, InTransit
  <2>2. k \in InTransit(q) /\ \A j \in InTransit(q) : j <= k
    BY <2>1 DEF IsLast, InTransit
  <2>3. c \in InTransit(q) /\ \A j \in InTransit(q) : j <= c
    BY <2>2
  <2>4. c \in Int /\ k \in Int
    BY <2>2, <2>3 DEF InTransit, HopInv, Types
  <2>5. c = k
    BY <2>2, <2>3, <2>4
  <2> QED
    BY <1>3, <2>1, <2>5
<1> QED
  BY <1>2, <1>3

--------------------------------------------------------------------------
(* Theorems                                                                *)

\* Whatever arrives, leaves and waits on the link, the last frame under way to
\* a SING sender (sing_switch.cpp:153, :178), or else its own state, is what
\* the switch said last of that class.
THEOREM SenderAlwaysFollows ==
  ASSUME Upstream = "switch" PROVE Spec => []SenderFollows
<1>1. Init => HopInv
  BY InitFollows
<1>2. HopInv /\ [Next]_vars => HopInv'
  BY NextFollows
<1>3. HopInv => SenderFollows
  BY FollowsMeans
<1> QED
  BY <1>1, <1>2, <1>3, PTL DEF Spec

--------------------------------------------------------------------------
(* Counting the packets on the link                                        *)

Of(s, q) == {k \in DOMAIN s : s[k].q = q}
One(x, q) == IF x = q THEN 1 ELSE 0
Count(s, q) == Cardinality(Of(s, q))

\* There are at most as many packets of a class as there are packets.
LEMMA CountIsBounded ==
  ASSUME NEW s \in Seq(Packet), NEW q
  PROVE  IsFiniteSet(Of(s, q)) /\ Count(s, q) \in Nat /\ Count(s, q) <= Len(s)
<1> DEFINE n == Len(s)
<1>1. n \in Nat /\ DOMAIN s = 1 .. n
  OBVIOUS
<1> HIDE DEF n
<1>2. IsFiniteSet(1 .. n) /\ Cardinality(1 .. n) = n
  <2>1. IsFiniteSet(1 .. n) /\ Cardinality(1 .. n) = IF 1 > n THEN 0 ELSE n - 1 + 1
    BY <1>1, FS_Interval
  <2> QED
    BY <1>1, <2>1
<1>3. Of(s, q) \in SUBSET (1 .. n)
  BY <1>1 DEF Of
<1>4. IsFiniteSet(Of(s, q)) /\ Cardinality(Of(s, q)) <= Cardinality(1 .. n)
  BY <1>2, <1>3, FS_Subset, Zenon
<1>5. Cardinality(Of(s, q)) \in Nat
  BY <1>4, FS_CardinalityType, Zenon
<1> QED
  BY <1>2, <1>4, <1>5 DEF Count, n

\* A packet that enters the link is counted,
LEMMA CountAppend ==
  ASSUME NEW s \in Seq(Packet), NEW x \in Packet, NEW q
  PROVE  Count(Append(s, x), q) = Count(s, q) + One(x.q, q)
<1> DEFINE n == Len(s)
           t == Append(s, x)
<1>1. n \in Nat /\ DOMAIN s = 1 .. n /\ DOMAIN t = 1 .. n + 1
  OBVIOUS
<1>2. t[n + 1] = x /\ \A i \in 1 .. n : t[i] = s[i]
  OBVIOUS
<1> HIDE DEF t, n
<1>3. IsFiniteSet(Of(s, q)) /\ Count(s, q) \in Nat
  BY CountIsBounded
<1>4. n + 1 \notin Of(s, q)
  <2>1. n + 1 \notin 1 .. n
    BY <1>1
  <2> QED
    BY <1>1, <2>1 DEF Of
<1>5. CASE x.q = q
  <2>1. \A i : i \in Of(t, q) <=> i \in Of(s, q) \cup {n + 1}
    BY <1>1, <1>2, <1>5 DEF Of
  <2>2. Of(t, q) = Of(s, q) \cup {n + 1}
    BY <2>1
  <2>3. Cardinality(Of(t, q)) = Cardinality(Of(s, q)) + 1
    BY <1>3, <1>4, <2>2, FS_AddElement
  <2> QED
    BY <1>5, <2>3 DEF Count, One, t
<1>6. CASE x.q # q
  <2>1. \A i : i \in Of(t, q) <=> i \in Of(s, q)
    BY <1>1, <1>2, <1>6 DEF Of
  <2>2. Of(t, q) = Of(s, q)
    BY <2>1
  <2> QED
    BY <1>3, <1>6, <2>2 DEF Count, One, t
<1> QED
  BY <1>5, <1>6

\* and one that leaves it no longer is.
LEMMA CountTail ==
  ASSUME NEW s \in Seq(Packet), s # <<>>, NEW q
  PROVE  Count(s, q) = Count(Tail(s), q) + One(Head(s).q, q)
<1> DEFINE n == Len(s)
           t == Tail(s)
           S == Of(s, q) \ {1}
           T == Of(t, q)
<1>1. /\ n \in Nat \ {0} /\ DOMAIN s = 1 .. n /\ DOMAIN t = 1 .. n - 1 /\ t \in Seq(Packet)
      /\ Head(s) = s[1] /\ \A i \in 1 .. n - 1 : t[i] = s[i + 1]
  OBVIOUS
<1>2. IsFiniteSet(Of(s, q)) /\ Count(s, q) \in Nat /\ IsFiniteSet(T)
  BY <1>1, CountIsBounded
<1> HIDE DEF t, n
<1>3. /\ IsFiniteSet(S)
      /\ Cardinality(S) = IF 1 \in Of(s, q) THEN Count(s, q) - 1 ELSE Count(s, q)
  BY <1>2, FS_RemoveElement DEF Count
<1>4. 1 \in Of(s, q) <=> Head(s).q = q
  BY <1>1 DEF Of
<1>5. \A i : i \in T <=> i \in 1 .. n - 1 /\ s[i + 1].q = q
  BY <1>1 DEF Of
<1>6. \A i : i \in S <=> i \in 2 .. n /\ s[i].q = q
  BY <1>1 DEF Of
<1> HIDE DEF S, T
<1>7. Cardinality(T) = Cardinality(S)
  <2> DEFINE f == [i \in T |-> i + 1]
  <2>0. ASSUME NEW i \in T PROVE i \in Int /\ i + 1 \in S
    <3>1. i \in 1 .. n - 1 /\ s[i + 1].q = q
      BY <1>5
    <3>2. i + 1 \in 2 .. n
      BY <1>1, <3>1
    <3> QED
      BY <1>6, <3>1, <3>2
  <2>1. f \in [T -> S] /\ DOMAIN f = T
    BY <2>0
  <2>2. \A i, j \in T : f[i] = f[j] => i = j
    BY <2>0
  <2>3. \A j \in S : \E i \in T : f[i] = j
    <3> TAKE j \in S
    <3>1. j \in 2 .. n /\ s[j].q = q
      BY <1>6
    <3>2. j - 1 \in 1 .. n - 1 /\ j - 1 + 1 = j
      BY <1>1, <3>1
    <3>3. j - 1 \in T
      BY <1>5, <3>1, <3>2
    <3>4. f[j - 1] = j
      BY <3>2, <3>3
    <3> QED
      BY <3>3, <3>4
  <2> HIDE DEF f
  <2>4. f \in Bijection(T, S)
    BY <2>1, <2>2, <2>3 DEF Bijection, Injection, Surjection, IsInjective
  <2>5. ExistsBijection(T, S)
    BY <2>4 DEF ExistsBijection
  <2> QED
    BY <1>2, <2>5, FS_Bijection
<1> QED
  BY <1>2, <1>3, <1>4, <1>7 DEF Count, One, T, t

--------------------------------------------------------------------------
(* The timing of packets and frames                                        *)

\* Packets on the link are one unit apart, and at most so far from its end.
SpacedWire(w, most) ==
  /\ \A k \in DOMAIN w : w[k].left \in 0 .. most
  /\ \A j, k \in DOMAIN w : j <= k => w[k].left - w[j].left >= k - j

\* Frames arrive in the order in which they were sent.
FramesInOrder(s) ==
  /\ \A k \in DOMAIN s : s[k].left \in 0 .. LinkDelay
  /\ \A j, k \in DOMAIN s : j <= k => s[j].left <= s[k].left

\* The last packet entered the link at least so long ago.
Lag == IF Idle THEN 0 ELSE 1 - sending.left

Timing ==
  /\ ~Idle => sending.left \in {0, 1}
  /\ SpacedWire(wire, LinkDelay - Lag)
  /\ FramesInOrder(frames)

\* A packet enters the link one unit behind the one before it.
LEMMA WireAppend ==
  ASSUME NEW w \in Seq(Packet), SpacedWire(w, LinkDelay - 1),
         NEW x \in Packet, x.left = LinkDelay
  PROVE  SpacedWire(Append(w, x), LinkDelay)
<1> DEFINE n == Len(w)
           t == Append(w, x)
<1>1. /\ n \in Nat /\ DOMAIN w = 1 .. n /\ DOMAIN t = 1 .. n + 1
      /\ t[n + 1] = x /\ \A k \in 1 .. n : t[k] = w[k]
  OBVIOUS
<1>2. /\ \A k \in 1 .. n : w[k].left \in 0 .. LinkDelay - 1
      /\ \A j, k \in 1 .. n : j <= k => w[k].left - w[j].left >= k - j
  BY <1>1 DEF SpacedWire
<1>3. LinkDelay \in Nat \ {0}
  BY HopAssumption
<1> HIDE DEF t, n
<1>4. ASSUME NEW k \in 1 .. n + 1 PROVE t[k].left \in 0 .. LinkDelay
  <2>1. CASE k = n + 1
    BY <1>1, <1>3, <2>1
  <2>2. CASE k # n + 1
    <3>1. k \in 1 .. n
      BY <1>1, <2>2
    <3> QED
      BY <1>1, <1>2, <1>3, <3>1
  <2> QED
    BY <2>1, <2>2
<1>5. ASSUME NEW j \in 1 .. n + 1, NEW k \in 1 .. n + 1, j <= k
      PROVE  t[k].left - t[j].left >= k - j
  <2>1. CASE k \in 1 .. n
    <3>1. j \in 1 .. n
      BY <1>1, <1>5, <2>1
    <3> QED
      BY <1>1, <1>2, <1>5, <2>1, <3>1
  <2>2. CASE k = n + 1 /\ j = n + 1
    BY <1>1, <1>3, <2>2
  <2>3. CASE k = n + 1 /\ j \in 1 .. n
    <3>1. n \in 1 .. n /\ j <= n
      BY <1>1, <2>3
    <3>2. w[n].left - w[j].left >= n - j /\ w[n].left \in 0 .. LinkDelay - 1
          /\ w[j].left \in 0 .. LinkDelay - 1
      BY <1>2, <2>3, <3>1
    <3>3. t[k].left = LinkDelay /\ t[j].left = w[j].left
      BY <1>1, <2>3
    <3> QED
      BY <1>1, <1>3, <2>3, <3>2, <3>3
  <2> QED
    BY <1>1, <1>5, <2>1, <2>2, <2>3
<1>6. DOMAIN t = 1 .. n + 1
  BY <1>1
<1>7. SpacedWire(t, LinkDelay)
  BY <1>4, <1>5, <1>6, Zenon DEF SpacedWire
<1> QED
  BY <1>7 DEF t

\* The others stay apart when the first one leaves,
LEMMA WireTail ==
  ASSUME NEW w \in Seq(Packet), w # <<>>, NEW most, SpacedWire(w, most)
  PROVE  SpacedWire(Tail(w), most)
<1> DEFINE n == Len(w)
           t == Tail(w)
<1>1. /\ n \in Nat \ {0} /\ DOMAIN w = 1 .. n /\ DOMAIN t = 1 .. n - 1
      /\ \A k \in 1 .. n - 1 : t[k] = w[k + 1]
  OBVIOUS
<1> HIDE DEF t, n
<1>2. \A k \in DOMAIN t : k \in Int /\ k + 1 \in DOMAIN w /\ t[k] = w[k + 1]
  BY <1>1
<1>3. \A k \in DOMAIN w : w[k].left \in Int
  <2>1. \A k \in DOMAIN w : w[k] \in Packet
    OBVIOUS
  <2> QED
    BY <2>1 DEF Packet
<1>4. ASSUME NEW j \in DOMAIN t, NEW k \in DOMAIN t, j <= k
      PROVE  t[k].left - t[j].left >= k - j
  <2>1. j \in Int /\ k \in Int /\ j + 1 \in DOMAIN w /\ k + 1 \in DOMAIN w /\ j + 1 <= k + 1
    BY <1>2, <1>4
  <2>2. w[k + 1].left - w[j + 1].left >= k + 1 - (j + 1)
    BY <2>1 DEF SpacedWire
  <2> QED
    BY <1>2, <1>3, <2>1, <2>2
<1>5. \A k \in DOMAIN t : t[k].left \in 0 .. most
  BY <1>2 DEF SpacedWire
<1> QED
  BY <1>4, <1>5, Zenon DEF SpacedWire, t

\* or when time passes and none is due.
LEMMA WireAge ==
  ASSUME NEW w \in Seq(Packet), ~Due(w), NEW most \in Int, SpacedWire(w, most)
  PROVE  SpacedWire(Age(w), most - 1)
<1>1. DOMAIN Age(w) = DOMAIN w /\ DOMAIN w = 1 .. Len(w) /\ Len(w) \in Nat
  BY DEF Age
<1>2. ASSUME NEW k \in DOMAIN w
      PROVE  Age(w)[k].left = w[k].left - 1 /\ w[k].left \in Int
  <2>1. w[k] \in Packet
    OBVIOUS
  <2>2. Age(w)[k] = [w[k] EXCEPT !.left = @ - 1]
    BY DEF Age
  <2> QED
    BY <2>1, <2>2, OlderPacket DEF Packet
<1>3. ASSUME NEW k \in DOMAIN w PROVE w[k].left > 0
  <2>1. 1 \in DOMAIN w /\ w # <<>> /\ Head(w) = w[1] /\ k >= 1 /\ k \in Int
    BY <1>1
  <2>2. w[1].left # 0 /\ w[1].left \in 0 .. most
    BY <2>1 DEF Due, SpacedWire
  <2>3. w[k].left - w[1].left >= k - 1
    BY <2>1 DEF SpacedWire
  <2> QED
    BY <1>2, <2>1, <2>2, <2>3
<1>4. ASSUME NEW k \in DOMAIN w PROVE Age(w)[k].left \in 0 .. most - 1
  <2>1. w[k].left \in 0 .. most
    BY DEF SpacedWire
  <2> QED
    BY <1>2, <1>3, <2>1
<1>5. ASSUME NEW j \in DOMAIN w, NEW k \in DOMAIN w, j <= k
      PROVE  Age(w)[k].left - Age(w)[j].left >= k - j
  <2>1. w[k].left - w[j].left >= k - j
    BY <1>5 DEF SpacedWire
  <2> QED
    BY <1>1, <1>2, <2>1
<1> QED
  BY <1>1, <1>4, <1>5, Zenon DEF SpacedWire

\* A bound may be weakened.
LEMMA WireWider ==
  ASSUME NEW w, NEW a \in Int, NEW b \in Int, a <= b, SpacedWire(w, a)
  PROVE  SpacedWire(w, b)
BY DEF SpacedWire

\* No more packets fit on the link than one per unit.
LEMMA WireLength ==
  ASSUME NEW w \in Seq(Packet), Due(w), NEW most \in Nat, SpacedWire(w, most)
  PROVE  Len(w) <= most + 1
<1> DEFINE n == Len(w)
<1>1. n \in Nat \ {0} /\ DOMAIN w = 1 .. n /\ Head(w) = w[1] /\ w[1].left = 0
  BY DEF Due
<1> HIDE DEF n
<1>2. 1 \in DOMAIN w /\ n \in DOMAIN w /\ 1 <= n
  BY <1>1
<1>3. w[n].left - w[1].left >= n - 1 /\ w[n].left \in 0 .. most
  BY <1>2 DEF SpacedWire
<1> QED
  BY <1>1, <1>3 DEF n

\* A frame that is sent now arrives last,
LEMMA FramesAppend ==
  ASSUME NEW s \in Seq(Frame), FramesInOrder(s), NEW f \in Frame, f.left = LinkDelay
  PROVE  FramesInOrder(Append(s, f))
<1> DEFINE n == Len(s)
           t == Append(s, f)
<1>1. /\ n \in Nat /\ DOMAIN s = 1 .. n /\ DOMAIN t = 1 .. n + 1
      /\ t[n + 1] = f /\ \A k \in 1 .. n : t[k] = s[k]
  OBVIOUS
<1>2. LinkDelay \in Nat
  BY HopAssumption
<1> HIDE DEF t, n
<1>3. ASSUME NEW k \in DOMAIN t PROVE k = n + 1 \/ k \in DOMAIN s
  BY <1>1
<1>4. \A k \in DOMAIN t : t[k].left \in 0 .. LinkDelay
  BY <1>1, <1>2, <1>3 DEF FramesInOrder
<1>5. ASSUME NEW j \in DOMAIN t, NEW k \in DOMAIN t, j <= k PROVE t[j].left <= t[k].left
  <2>1. CASE k = n + 1
    BY <1>1, <1>2, <1>4, <2>1
  <2>2. CASE k # n + 1
    <3>1. k \in DOMAIN s /\ j \in DOMAIN s
      BY <1>1, <1>5, <2>2
    <3> QED
      BY <1>1, <1>5, <3>1 DEF FramesInOrder
  <2> QED
    BY <2>1, <2>2
<1> QED
  BY <1>4, <1>5, Zenon DEF FramesInOrder, t

\* the first one may be heard,
LEMMA FramesTail ==
  ASSUME NEW s \in Seq(Frame), s # <<>>, FramesInOrder(s)
  PROVE  FramesInOrder(Tail(s))
<1> DEFINE n == Len(s)
           t == Tail(s)
<1>1. /\ n \in Nat \ {0} /\ DOMAIN s = 1 .. n /\ DOMAIN t = 1 .. n - 1
      /\ \A k \in 1 .. n - 1 : t[k] = s[k + 1]
  OBVIOUS
<1> HIDE DEF t, n
<1>2. \A k \in DOMAIN t : k \in Int /\ k + 1 \in DOMAIN s /\ t[k] = s[k + 1]
  BY <1>1
<1>3. \A k \in DOMAIN t : t[k].left \in 0 .. LinkDelay
  BY <1>2 DEF FramesInOrder
<1>4. ASSUME NEW j \in DOMAIN t, NEW k \in DOMAIN t, j <= k PROVE t[j].left <= t[k].left
  <2>1. j + 1 \in DOMAIN s /\ k + 1 \in DOMAIN s /\ j + 1 <= k + 1
    BY <1>2, <1>4
  <2> QED
    BY <1>2, <2>1 DEF FramesInOrder
<1> QED
  BY <1>3, <1>4, Zenon DEF FramesInOrder, t

\* and all get older while none is due.
LEMMA FramesAge ==
  ASSUME NEW s \in Seq(Frame), ~Due(s), FramesInOrder(s)
  PROVE  /\ FramesInOrder(Age(s))
         /\ DOMAIN Age(s) = DOMAIN s
         /\ \A k \in DOMAIN s : /\ s[k].left \in Int /\ Age(s)[k].left = s[k].left - 1
                                /\ Age(s)[k].q = s[k].q
<1>1. DOMAIN Age(s) = DOMAIN s /\ DOMAIN s = 1 .. Len(s) /\ Len(s) \in Nat
  BY DEF Age
<1>2. ASSUME NEW k \in DOMAIN s
      PROVE  Age(s)[k].left = s[k].left - 1 /\ s[k].left \in Int /\ Age(s)[k].q = s[k].q
  <2>1. s[k] \in Frame
    OBVIOUS
  <2>2. Age(s)[k] = [s[k] EXCEPT !.left = @ - 1]
    BY DEF Age
  <2> QED
    BY <2>1, <2>2, OlderFrame DEF Frame
<1>3. ASSUME NEW k \in DOMAIN s PROVE s[k].left > 0
  <2>1. 1 \in DOMAIN s /\ s # <<>> /\ Head(s) = s[1] /\ 1 <= k
    BY <1>1
  <2>2. s[1].left # 0 /\ s[1].left \in 0 .. LinkDelay /\ s[1].left <= s[k].left
    BY <2>1 DEF Due, FramesInOrder
  <2> QED
    BY <1>2, <2>2
<1>4. ASSUME NEW k \in DOMAIN s PROVE Age(s)[k].left \in 0 .. LinkDelay
  <2>1. s[k].left \in 0 .. LinkDelay
    BY DEF FramesInOrder
  <2> QED
    BY <1>2, <1>3, <2>1, HopAssumption
<1>5. ASSUME NEW j \in DOMAIN s, NEW k \in DOMAIN s, j <= k
      PROVE  Age(s)[j].left <= Age(s)[k].left
  BY <1>2, <1>5 DEF FramesInOrder
<1> QED
  BY <1>1, <1>2, <1>4, <1>5, Zenon DEF FramesInOrder

\* Sending, arriving and the passing of time keep packets apart and frames in
\* order.
LEMMA NextTiming ==
  ASSUME Types, Timing, [Next]_vars
  PROVE  Timing'
<1>1. /\ LinkDelay \in Nat \ {0} /\ wire \in Seq(Packet) /\ frames \in Seq(Frame)
      /\ sending.left \in Int
  BY HopAssumption DEF Types
<1>2. ASSUME frames' = frames \/ \E q \in Prios, on \in BOOLEAN : SendFrame(q, on)
      PROVE  FramesInOrder(frames')
  <2>1. CASE frames' = frames
    BY <2>1 DEF Timing
  <2>2. ASSUME NEW q \in Prios, NEW on \in BOOLEAN, SendFrame(q, on)
        PROVE  FramesInOrder(frames')
    <3> DEFINE f == [q |-> q, pause |-> on, left |-> LinkDelay]
    <3>1. f \in Frame /\ f.left = LinkDelay /\ frames' = Append(frames, f)
      BY <1>1, <2>2 DEF SendFrame, Frame
    <3> HIDE DEF f
    <3> QED
      BY <1>1, <3>1, FramesAppend DEF Timing
  <2> QED
    BY <1>2, <2>1, <2>2
<1>3. CASE StartSending
  <2>1. PICK r \in Prios : sending' = [q |-> r, left |-> 1]
    BY <1>3 DEF StartSending, Starts
  <2>2. Lag = 0 /\ Lag' = 0 /\ sending'.left = 1
    BY <1>3, <2>1 DEF Lag, Idle, StartSending
  <2>3. wire' = wire /\ frames' = frames
    BY <1>3 DEF StartSending
  <2> QED
    BY <2>2, <2>3 DEF Timing
<1>4. CASE SendingEnds
  <2> DEFINE x == [q |-> sending.q, left |-> LinkDelay]
  <2>1. sending.left = 0 /\ ~Idle /\ wire' = Append(wire, x) /\ frames' = frames
    BY <1>4 DEF SendingEnds
  <2>2. x \in Packet /\ x.left = LinkDelay
    BY <1>1, <2>1 DEF Types, Packet, Idle
  <2>3. SpacedWire(wire, LinkDelay - 1)
    BY <1>1, <2>1 DEF Timing, Lag
  <2> HIDE DEF x
  <2>4. SpacedWire(wire', LinkDelay)
    BY <1>1, <2>1, <2>2, <2>3, WireAppend
  <2>5. (\E r \in Prios : sending' = [q |-> r, left |-> 1]) \/ sending' = [q |-> None, left |-> 0]
    BY <1>4 DEF SendingEnds, Starts
  <2>6. Lag' = 0 /\ (~Idle' => sending'.left \in {0, 1})
    BY <2>5 DEF Lag, Idle
  <2> QED
    BY <1>1, <2>1, <2>4, <2>6 DEF Timing
<1>5. CASE FrameArrives
  <2>1. frames # <<>> /\ frames' = Tail(frames) /\ wire' = wire /\ sending' = sending
    BY <1>5 DEF FrameArrives, Due
  <2>2. FramesInOrder(frames')
    BY <1>1, <2>1, FramesTail DEF Timing
  <2> QED
    BY <2>1, <2>2 DEF Timing, Lag, Idle
<1>6. CASE PacketArrives
  <2>1. wire # <<>> /\ wire' = Tail(wire) /\ sending' = sending /\ CheckXoff(Head(wire).q)
    BY <1>6 DEF PacketArrives, Due
  <2>2. SpacedWire(wire', LinkDelay - Lag)
    <3> DEFINE most == LinkDelay - Lag
    <3>1. SpacedWire(wire, most)
      BY DEF Timing
    <3> HIDE DEF most
    <3>2. SpacedWire(Tail(wire), most)
      BY <1>1, <2>1, <3>1, WireTail
    <3> QED
      BY <2>1, <3>2 DEF most
  <2>3. Head(wire) \in Packet /\ Head(wire).q \in Prios
    <3>1. Head(wire) \in Packet
      BY <1>1, <2>1
    <3> QED
      BY <3>1 DEF Packet
  <2>4. FramesInOrder(frames')
    BY <1>2, <2>1, <2>3 DEF CheckXoff
  <2> QED
    BY <2>1, <2>2, <2>4 DEF Timing, Lag, Idle
<1>7. CASE OtherArrives
  BY <1>7 DEF OtherArrives, Timing, Lag, Idle
<1>8. ASSUME NEW i \in Ports, NEW q \in Prios, PacketLeaves(i, q) PROVE Timing'
  <2>1. CheckXon(i, q) /\ wire' = wire /\ sending' = sending
    BY <1>8 DEF PacketLeaves
  <2>2. FramesInOrder(frames')
    BY <1>2, <2>1 DEF CheckXon
  <2> QED
    BY <2>1, <2>2 DEF Timing, Lag, Idle
<1>9. CASE Tick
  <2>1. ~Due(wire) /\ ~Due(frames) /\ wire' = Age(wire) /\ frames' = Age(frames)
    BY <1>9 DEF Tick, NothingDue
  <2>2. FramesInOrder(frames')
    BY <1>1, <2>1, FramesAge DEF Timing
  <2>3. Lag \in 0 .. 1
    BY DEF Timing, Lag
  <2>4. SpacedWire(wire', LinkDelay - Lag - 1)
    BY <1>1, <2>1, <2>3, WireAge DEF Timing
  <2>5. CASE Idle
    <3>1. sending' = sending /\ Idle' /\ Lag = 0 /\ Lag' = 0
      BY <1>9, <2>5 DEF Tick, Idle, Lag
    <3>2. SpacedWire(wire', LinkDelay - Lag')
      BY <1>1, <2>4, <3>1, WireWider
    <3> QED
      BY <2>2, <3>1, <3>2 DEF Timing
  <2>6. CASE ~Idle
    <3>1. sending.left = 1 /\ sending' = [sending EXCEPT !.left = @ - 1]
      BY <1>9, <2>6 DEF Tick, NothingDue, Timing
    <3>2. sending'.left = 0 /\ ~Idle' /\ Lag = 0 /\ Lag' = 1
      BY <2>6, <3>1 DEF Idle, Lag, Types
    <3>3. SpacedWire(wire', LinkDelay - Lag')
      BY <1>1, <2>4, <3>2
    <3> QED
      BY <2>2, <3>2, <3>3 DEF Timing
  <2> QED
    BY <2>5, <2>6
<1>10. CASE UNCHANGED vars
  BY <1>10 DEF vars, hopVars, Timing, Lag, Idle
<1> QED
  BY <1>3, <1>4, <1>5, <1>6, <1>7, <1>8, <1>9, <1>10 DEF Next, Link, Leaves

--------------------------------------------------------------------------
(* What a packet takes of the buffer                                       *)

BufTypes ==
  /\ ingressShared \in [Classes -> Int]
  /\ ingressHeadroom \in [Classes -> Nat]
  /\ totalShared \in Int

\* A packet goes to the shared pool or not; without a pause event it does.
LEMMA SharedOrHeadroom ==
  ASSUME BufTypes, NEW i \in Ports, NEW q \in Prios
  PROVE  /\ ToShared(i, q, 1) \in {0, 1}
         /\ q \in PfcPrios /\ ~PauseEvent(i, q, 1) => ToShared(i, q, 1) = 1
<1>1. <<i, q>> \in Classes /\ ingressShared[<<i, q>>] \in Int
  BY DEF Classes, BufTypes
<1>2. FreeSpace \in Nat
  BY BufferAssumption DEF FreeSpace, BufTypes
<1>3. PauseThreshold \in Int
  <2>1. AlphaNum * FreeSpace \in Int
    BY <1>2, BufferAssumption
  <2>2. Dyn \in Int
    BY <2>1, BufferAssumption DEF Dyn
  <2> QED
    BY <2>2, BufferAssumption DEF PauseThreshold, AtLeast
<1>4. SharedRoom(i, q) \in Nat
  BY <1>1, <1>2, <1>3 DEF SharedRoom, AtMost, AtLeast
<1>5. q \in PfcPrios /\ ~PauseEvent(i, q, 1) => ~(1 > SharedRoom(i, q))
  BY DEF PauseEvent
<1> QED
  BY <1>4, <1>5 DEF ToShared, AtMost

\* The headroom an admission takes: at most one, and none without a pause event.
LEMMA AdmitTakes ==
  ASSUME BufTypes, NEW e, NEW i \in Ports, NEW q \in Prios, AdmitPacket(e, q, 1, i)
  PROVE  /\ BufTypes'
         /\ \A c \in Classes : c # <<i, q>> => ingressHeadroom'[c] = ingressHeadroom[c]
         /\ ingressHeadroom'[<<i, q>>] <= ingressHeadroom[<<i, q>>] + 1
         /\ q \in PfcPrios /\ ~PauseEvent(i, q, 1)
              => ingressHeadroom'[<<i, q>>] = ingressHeadroom[<<i, q>>]
<1> DEFINE s == ToShared(i, q, 1)
<1>1. s \in {0, 1} /\ (q \in PfcPrios /\ ~PauseEvent(i, q, 1) => s = 1)
  BY SharedOrHeadroom
<1>2. /\ ingressShared' = [ingressShared EXCEPT ![<<i, q>>] = @ + s]
      /\ ingressHeadroom' = [ingressHeadroom EXCEPT ![<<i, q>>] = @ + 1 - s]
      /\ totalShared' = totalShared + s
  BY DEF AdmitPacket, BookIngress
<1> HIDE DEF s
<1>3. <<i, q>> \in Classes
  BY DEF Classes
<1> QED
  BY <1>1, <1>2, <1>3 DEF BufTypes

\* A packet that leaves takes nothing.
LEMMA ReleaseTakes ==
  ASSUME BufTypes, NEW e, NEW i \in Ports, NEW q \in Prios, ReleasePacket(e, q, 1, i)
  PROVE  /\ BufTypes'
         /\ \A c \in Classes : ingressHeadroom'[c] <= ingressHeadroom[c]
<1> DEFINE h == FromHeadroom(i, q, 1)
<1>1. <<i, q>> \in Classes /\ ingressHeadroom[<<i, q>>] \in Nat
  BY DEF Classes, BufTypes
<1>2. h \in {0, 1} /\ h <= ingressHeadroom[<<i, q>>]
  BY <1>1 DEF FromHeadroom, AtMost
<1>3. /\ ingressHeadroom' = [ingressHeadroom EXCEPT ![<<i, q>>] = @ - h]
      /\ ingressShared' = [ingressShared EXCEPT ![<<i, q>>] = @ - (1 - h)]
      /\ totalShared' = totalShared - (1 - h)
  BY DEF ReleasePacket
<1> HIDE DEF h
<1> QED
  BY <1>1, <1>2, <1>3 DEF BufTypes

--------------------------------------------------------------------------
(* What can still arrive                                                   *)

\* Unless a packet has just begun, the next may begin at once.
Extra == IF ~Idle /\ sending.left = 1 THEN 0 ELSE 1

\* The sender begins no more than n packets before it hears the last frame.
BeginsAtMost(q, n) ==
  \A k \in DOMAIN frames : IsLast(frames, q, k) => frames[k].left + Extra <= n

\* A class that was stopped has room for all that can still arrive of it, and
\* one that was not has its headroom to itself.
Covered(q) ==
  IF xoffSent[<<In, q>>]
  THEN \E n \in Nat :
         /\ BeginsAtMost(q, n)
         /\ ingressHeadroom[<<In, q>>] + Count(wire, q) + One(sending.q, q) + n <= HeadroomCap[In]
  ELSE ingressHeadroom[<<In, q>>] = 0

RoomInv == HopInv /\ Timing /\ BufTypes /\ \A q \in PfcPrios : Covered(q)

\* A stopped class that is not held back yet has a frame under way.
LEMMA FrameUnderWay ==
  ASSUME HopInv, NEW q \in Prios, xoffSent[<<In, q>>], ~paused[q],
         NEW n \in Nat, BeginsAtMost(q, n), FramesInOrder(frames)
  PROVE  Extra <= n
<1>1. LastWord(frames, paused, q, xoffSent[<<In, q>>])
  BY DEF HopInv, Follows
<1>2. PICK k \in DOMAIN frames : IsLast(frames, q, k)
  BY <1>1 DEF LastWord
<1>3. frames[k].left \in Nat /\ frames[k].left + Extra <= n
  BY <1>2 DEF BeginsAtMost, FramesInOrder
<1> QED
  BY <1>3 DEF Extra

\* Nothing of the class is touched, and its frames get no older.
LEMMA LeftAlone ==
  ASSUME NEW q \in PfcPrios, Covered(q), BufTypes, BufTypes', Types,
         xoffSent'[<<In, q>>] = xoffSent[<<In, q>>],
         ingressHeadroom'[<<In, q>>] <= ingressHeadroom[<<In, q>>],
         Count(wire', q) <= Count(wire, q), Count(wire', q) \in Nat, Count(wire, q) \in Nat,
         sending' = sending,
         \A n \in Nat : BeginsAtMost(q, n) => BeginsAtMost(q, n)'
  PROVE  Covered(q)'
<1>1. In \in Ports /\ q \in Prios /\ <<In, q>> \in Classes /\ HeadroomCap[In] \in Nat
  BY HopAssumption, BufferAssumption DEF Classes
<1>2. ingressHeadroom[<<In, q>>] \in Nat /\ ingressHeadroom'[<<In, q>>] \in Nat
  BY <1>1 DEF BufTypes
<1>3. CASE xoffSent[<<In, q>>]
  <2>1. PICK n \in Nat : /\ BeginsAtMost(q, n)
                         /\ ingressHeadroom[<<In, q>>] + Count(wire, q) + One(sending.q, q) + n <= HeadroomCap[In]
    BY <1>3 DEF Covered
  <2>2. BeginsAtMost(q, n)'
    BY <2>1
  <2>3. One(sending'.q, q) = One(sending.q, q) /\ One(sending.q, q) \in Nat
    BY DEF One
  <2>4. ingressHeadroom'[<<In, q>>] + Count(wire', q) + One(sending'.q, q) + n <= HeadroomCap[In]
    BY <1>1, <1>2, <2>1, <2>3
  <2> QED
    BY <1>3, <2>2, <2>4 DEF Covered
<1>4. CASE ~xoffSent[<<In, q>>]
  BY <1>2, <1>4 DEF Covered
<1> QED
  BY <1>3, <1>4

\* The frames as they were, or one more for another class.
LEMMA SameLastFrame ==
  ASSUME Types, NEW q, sending' = sending,
         frames' = frames \/ \E r \in Prios, on \in BOOLEAN : r # q /\ SendFrame(r, on)
  PROVE  \A n \in Nat : BeginsAtMost(q, n) => BeginsAtMost(q, n)'
<1> SUFFICES ASSUME NEW n \in Nat, BeginsAtMost(q, n) PROVE BeginsAtMost(q, n)'
  OBVIOUS
<1>1. Extra' = Extra
  BY DEF Extra, Idle
<1>2. CASE frames' = frames
  BY <1>1, <1>2 DEF BeginsAtMost
<1>3. ASSUME NEW r \in Prios, NEW on \in BOOLEAN, r # q, SendFrame(r, on)
      PROVE  BeginsAtMost(q, n)'
  <2> DEFINE f == [q |-> r, pause |-> on, left |-> LinkDelay]
             m == Len(frames)
             t == Append(frames, f)
  <2>1. frames \in Seq(Frame) /\ frames' = t /\ f.q = r
    BY <1>3 DEF SendFrame, Types
  <2>2. /\ m \in Nat /\ DOMAIN frames = 1 .. m /\ DOMAIN t = 1 .. m + 1
        /\ t[m + 1] = f /\ \A k \in 1 .. m : t[k] = frames[k]
    BY <2>1
  <2> HIDE DEF f, m, t
  <2>3. ASSUME NEW k \in DOMAIN t, IsLast(t, q, k)
        PROVE  k \in DOMAIN frames /\ IsLast(frames, q, k) /\ t[k] = frames[k]
    <3>1. k # m + 1
      BY <1>3, <2>1, <2>2, <2>3 DEF IsLast
    <3>2. k \in DOMAIN frames /\ t[k] = frames[k]
      BY <2>2, <3>1
    <3>3. \A j \in DOMAIN frames : j \in DOMAIN t /\ t[j] = frames[j]
      BY <2>2
    <3> QED
      BY <2>3, <3>2, <3>3 DEF IsLast
  <2>4. \A k \in DOMAIN t : IsLast(t, q, k) => t[k].left + Extra <= n
    BY <2>3 DEF BeginsAtMost
  <2> QED
    BY <1>1, <2>1, <2>4 DEF BeginsAtMost
<1> QED
  BY <1>2, <1>3

\* The sender begins a packet, or becomes idle, and may have sent one before.
LEMMA SenderCovered ==
  ASSUME RoomInv, NEW q \in PfcPrios, StartSending \/ SendingEnds
  PROVE  Covered(q)'
<1>1. /\ HopInv /\ Timing /\ Covered(q) /\ q \in Prios /\ In \in Ports /\ q # None
      /\ wire \in Seq(Packet) /\ HeadroomCap[In] \in Nat /\ FramesInOrder(frames)
      /\ ingressHeadroom[<<In, q>>] \in Nat
  BY HopAssumption, BufferAssumption DEF RoomInv, HopInv, Types, None, Timing, BufTypes, Classes
<1>2. frames' = frames /\ xoffSent' = xoffSent /\ ingressHeadroom' = ingressHeadroom
  BY DEF StartSending, SendingEnds, bufVars
<1>3. ~xoffSent[<<In, q>>] => Covered(q)'
  BY <1>1, <1>2 DEF Covered
<1> SUFFICES ASSUME xoffSent[<<In, q>>] PROVE Covered(q)'
  BY <1>3
<1>4. PICK n \in Nat : /\ BeginsAtMost(q, n)
                       /\ ingressHeadroom[<<In, q>>] + Count(wire, q) + One(sending.q, q) + n <= HeadroomCap[In]
  BY <1>1 DEF Covered
<1>5. Count(wire, q) \in Nat /\ One(sending.q, q) \in 0 .. 1
  BY <1>1, CountIsBounded DEF One
<1>6. Extra = 1 /\ Count(wire', q) = Count(wire, q) + One(sending.q, q)
  <2>1. CASE StartSending
    <3>1. Idle /\ wire' = wire
      BY <2>1 DEF StartSending
    <3> QED
      BY <1>1, <1>5, <3>1 DEF Extra, Idle, One
  <2>2. CASE SendingEnds
    <3> DEFINE x == [q |-> sending.q, left |-> LinkDelay]
    <3>1. sending.left = 0 /\ ~Idle /\ wire' = Append(wire, x)
      BY <2>2 DEF SendingEnds
    <3>2. x \in Packet /\ x.q = sending.q
      BY <1>1, <3>1, HopAssumption DEF HopInv, Types, Packet, Idle
    <3> HIDE DEF x
    <3>3. Count(wire', q) = Count(wire, q) + One(x.q, q)
      BY <1>1, <3>1, <3>2, CountAppend
    <3> QED
      BY <3>1, <3>2, <3>3 DEF Extra
  <2> QED
    BY <2>1, <2>2
<1>7. (\E r \in Prios : Starts(r)) \/ sending' = [q |-> None, left |-> 0]
  BY DEF StartSending, SendingEnds
<1>8. ASSUME NEW m \in Nat, One(sending'.q, q) + m <= n, BeginsAtMost(q, m)',
             One(sending'.q, q) \in 0 .. 1
      PROVE  Covered(q)'
  <2>1. ingressHeadroom'[<<In, q>>] + Count(wire', q) + One(sending'.q, q) + m <= HeadroomCap[In]
    BY <1>1, <1>2, <1>4, <1>5, <1>6, <1>8
  <2>2. xoffSent'[<<In, q>>]
    BY <1>2
  <2> QED
    BY <1>8, <2>1, <2>2 DEF Covered
<1>9. \A k \in DOMAIN frames : frames[k].left \in Nat
  BY <1>1 DEF FramesInOrder
<1>10. CASE sending'.q # q
  <2>1. Extra' \in 0 .. 1 /\ One(sending'.q, q) = 0
    BY <1>10 DEF Extra, One
  <2>2. ASSUME NEW k \in DOMAIN frames, IsLast(frames, q, k) PROVE frames[k].left + Extra' <= n
    BY <1>4, <1>6, <1>9, <2>1, <2>2 DEF BeginsAtMost
  <2>3. BeginsAtMost(q, n)'
    BY <1>2, <2>2 DEF BeginsAtMost
  <2> QED
    BY <1>8, <2>1, <2>3
<1>11. CASE sending'.q = q
  <2>1. PICK r \in Prios : Starts(r)
    BY <1>1, <1>7, <1>11
  <2>2. sending' = [q |-> r, left |-> 1] /\ ~paused[r]
    BY <2>1 DEF Starts
  <2>3. r = q /\ sending'.left = 1
    BY <1>11, <2>2
  <2>4. Extra' = 0 /\ One(sending'.q, q) = 1
    BY <1>1, <1>11, <2>3 DEF Extra, Idle, One
  <2>5. 1 <= n
    BY <1>1, <1>4, <1>6, <2>2, <2>3, FrameUnderWay
  <2>6. ASSUME NEW k \in DOMAIN frames, IsLast(frames, q, k) PROVE frames[k].left + Extra' <= n - 1
    BY <1>4, <1>6, <1>9, <2>4, <2>6 DEF BeginsAtMost
  <2>7. n - 1 \in Nat /\ BeginsAtMost(q, n - 1)'
    BY <1>2, <2>5, <2>6 DEF BeginsAtMost
  <2> QED
    BY <1>8, <2>4, <2>7
<1> QED
  BY <1>10, <1>11

\* The sender hears a frame.
LEMMA FrameCovered ==
  ASSUME RoomInv, NEW q \in PfcPrios, FrameArrives
  PROVE  Covered(q)'
<1>1. /\ HopInv /\ Covered(q) /\ q \in Prios /\ wire \in Seq(Packet) /\ frames \in Seq(Frame)
      /\ BufTypes /\ Types /\ FramesInOrder(frames) /\ <<In, q>> \in Classes
  BY HopAssumption, BufferAssumption DEF RoomInv, HopInv, Types, Timing, Classes
<1>2. /\ frames # <<>> /\ frames' = Tail(frames) /\ xoffSent' = xoffSent /\ sending' = sending
      /\ ingressHeadroom' = ingressHeadroom /\ wire' = wire
  BY DEF FrameArrives, Due, bufVars
<1> DEFINE m == Len(frames)
           t == Tail(frames)
<1>3. /\ m \in Nat \ {0} /\ DOMAIN frames = 1 .. m /\ DOMAIN t = 1 .. m - 1
      /\ \A k \in 1 .. m - 1 : t[k] = frames[k + 1]
  BY <1>1, <1>2
<1>4. frames' = t
  BY <1>2
<1> HIDE DEF m, t
<1>5. ASSUME NEW n \in Nat, BeginsAtMost(q, n) PROVE BeginsAtMost(q, n)'
  <2>1. Extra' = Extra
    BY <1>2 DEF Extra, Idle
  <2>2. ASSUME NEW k \in DOMAIN t, IsLast(t, q, k) PROVE t[k].left + Extra <= n
    <3>1. k \in 1 .. m - 1 /\ k + 1 \in DOMAIN frames /\ t[k] = frames[k + 1] /\ t[k].q = q
      BY <1>3, <2>2 DEF IsLast
    <3>2. ASSUME NEW j \in DOMAIN frames, frames[j].q = q PROVE j <= k + 1
      <4>1. CASE j = 1
        BY <1>3, <3>1, <4>1
      <4>2. CASE j # 1
        <5>1. j - 1 \in DOMAIN t /\ t[j - 1] = frames[j] /\ j \in Int
          BY <1>3, <4>2
        <5>2. j - 1 <= k
          BY <2>2, <3>2, <5>1 DEF IsLast
        <5> QED
          BY <3>1, <5>1, <5>2
      <4> QED
        BY <4>1, <4>2
    <3>3. IsLast(frames, q, k + 1)
      BY <3>1, <3>2 DEF IsLast
    <3> QED
      BY <1>5, <3>1, <3>3 DEF BeginsAtMost
  <2> QED
    BY <1>4, <2>1, <2>2 DEF BeginsAtMost
<1>6. Count(wire, q) \in Nat /\ Count(wire', q) = Count(wire, q)
  BY <1>1, <1>2, CountIsBounded
<1>7. ingressHeadroom[<<In, q>>] \in Nat /\ BufTypes'
  BY <1>1, <1>2 DEF BufTypes, FrameArrives, bufVars
<1> QED
  BY <1>1, <1>2, <1>5, <1>6, <1>7, LeftAlone DEF RoomInv

\* A packet arrives.  If it stops its class, the sender sends at most what fits
\* in the time until it hears of it, and the headroom has been laid out for
\* that: twice the delay of the link, one packet that has been begun, and the
\* one that arrives.
LEMMA ArrivalCovered ==
  ASSUME RoomInv, NEW q \in PfcPrios, PacketArrives,
         HeadroomCap[In] >= 2 * LinkDelay + 2
  PROVE  Covered(q)' /\ BufTypes'
<1> DEFINE r == Head(wire).q
           h == ingressHeadroom[<<In, q>>]
           room == ingressHeadroom'[<<In, q>>]
<1>1. /\ HopInv /\ Timing /\ Covered(q) /\ q \in Prios /\ In \in Ports /\ BufTypes /\ Types
      /\ wire \in Seq(Packet) /\ frames \in Seq(Frame) /\ <<In, q>> \in Classes
      /\ HeadroomCap[In] \in Nat /\ LinkDelay \in Nat \ {0} /\ h \in Nat
      /\ xoffSent \in [Classes -> BOOLEAN]
  BY HopAssumption, BufferAssumption DEF RoomInv, HopInv, Types, BufTypes, Classes
<1>2. /\ Due(wire) /\ wire # <<>> /\ wire' = Tail(wire) /\ sending' = sending
      /\ CheckXoff(r) /\ (AdmitPacket(Other, r, 1, In) \/ RejectPacket(In, r, 1))
  BY DEF PacketArrives, Due
<1>3. r \in Prios /\ <<In, r>> \in Classes
  <2>1. Head(wire) \in Packet
    BY <1>1, <1>2
  <2> QED
    BY <1>1, <2>1 DEF Packet, Classes
<1>4. /\ Count(wire, q) = Count(wire', q) + One(r, q) /\ Count(wire', q) \in Nat
      /\ Count(wire, q) \in Nat /\ wire' \in Seq(Packet)
  <2>1. Tail(wire) \in Seq(Packet)
    BY <1>1, <1>2
  <2>2. Count(wire, q) = Count(Tail(wire), q) + One(r, q)
    BY <1>1, <1>2, CountTail
  <2>3. Count(Tail(wire), q) \in Nat /\ Count(wire, q) \in Nat
    BY <1>1, <2>1, CountIsBounded
  <2> QED
    BY <1>2, <2>1, <2>2, <2>3
<1>5. /\ BufTypes'
      /\ r # q => room = h
      /\ room <= h + 1
      /\ r = q /\ ~PauseEvent(In, q, 1) => room = h
  <2>1. CASE AdmitPacket(Other, r, 1, In)
    <3>1. r # q => <<In, q>> # <<In, r>>
      OBVIOUS
    <3> HIDE DEF r
    <3>2. /\ BufTypes'
          /\ \A c \in Classes : c # <<In, r>> => ingressHeadroom'[c] = ingressHeadroom[c]
          /\ ingressHeadroom'[<<In, r>>] <= ingressHeadroom[<<In, r>>] + 1
          /\ r \in PfcPrios /\ ~PauseEvent(In, r, 1)
               => ingressHeadroom'[<<In, r>>] = ingressHeadroom[<<In, r>>]
      BY <1>1, <1>3, <2>1, AdmitTakes
    <3>3. CASE r # q
      <4>1. room = h
        BY <1>1, <3>1, <3>2, <3>3
      <4> QED
        BY <1>1, <3>2, <3>3, <4>1
    <3>4. CASE r = q
      BY <1>1, <3>2, <3>4
    <3> QED
      BY <3>3, <3>4
  <2>2. CASE RejectPacket(In, r, 1)
    BY <1>1, <2>2 DEF RejectPacket, bufVars, BufTypes
  <2> QED
    BY <1>2, <2>1, <2>2
<1>6. room \in Nat
  BY <1>1, <1>5 DEF BufTypes
<1>7. Extra' = Extra
  BY <1>2 DEF Extra, Idle
<1>8. CASE ~(r = q /\ PauseEvent(In, q, 1) /\ ~xoffSent[<<In, q>>])
  <2>1. /\ xoffSent'[<<In, q>>] = xoffSent[<<In, q>>]
        /\ frames' = frames \/ \E p \in Prios, on \in BOOLEAN : p # q /\ SendFrame(p, on)
    <3> HIDE DEF r
    <3>1. CASE PauseEvent(In, r, 1) /\ ~xoffSent[<<In, r>>]
      <4>1. r # q /\ <<In, r>> # <<In, q>>
        BY <1>8, <3>1
      <4>2. SendFrame(r, TRUE) /\ xoffSent' = [xoffSent EXCEPT ![<<In, r>>] = TRUE]
        BY <1>2, <3>1 DEF CheckXoff
      <4> QED
        BY <1>1, <1>3, <4>1, <4>2
    <3>2. CASE ~(PauseEvent(In, r, 1) /\ ~xoffSent[<<In, r>>])
      BY <1>2, <3>2 DEF CheckXoff
    <3> QED
      BY <3>1, <3>2
  <2>2. \A n \in Nat : BeginsAtMost(q, n) => BeginsAtMost(q, n)'
    BY <1>1, <1>2, <2>1, SameLastFrame
  <2>3. CASE r # q
    <3>1. Count(wire', q) <= Count(wire, q) /\ room <= h
      BY <1>1, <1>4, <1>5, <2>3 DEF One
    <3> QED
      BY <1>1, <1>2, <1>4, <1>5, <2>1, <2>2, <3>1, LeftAlone
  <2>4. CASE r = q /\ xoffSent[<<In, q>>]
    <3>1. PICK n \in Nat : BeginsAtMost(q, n) /\ h + Count(wire, q) + One(sending.q, q) + n <= HeadroomCap[In]
      BY <1>1, <2>4 DEF Covered
    <3>2. One(r, q) = 1 /\ One(sending'.q, q) = One(sending.q, q) /\ One(sending.q, q) \in Nat
      BY <1>2, <2>4 DEF One
    <3> DEFINE o == One(sending.q, q)
               c == Count(wire, q)
    <3>a. room <= h + 1 /\ h \in Nat /\ HeadroomCap[In] \in Nat
      BY <1>1, <1>5
    <3>b. c \in Nat /\ Count(wire', q) = c - 1
      BY <1>4, <3>2
    <3>c. h + c + o + n <= HeadroomCap[In] /\ o \in Nat
      BY <3>1, <3>2
    <3> HIDE DEF r, h, room, o, c
    <3>d. room + (c - 1) + o + n <= HeadroomCap[In]
      BY <1>6, <3>a, <3>b, <3>c
    <3>3. room + Count(wire', q) + One(sending'.q, q) + n <= HeadroomCap[In]
      BY <3>b, <3>d, <3>2 DEF o
    <3> QED
      BY <1>5, <2>1, <2>2, <2>4, <3>1, <3>3 DEF Covered, room
  <2>5. CASE r = q /\ ~xoffSent[<<In, q>>]
    <3>1. ~PauseEvent(In, q, 1) /\ h = 0
      BY <1>1, <1>8, <2>5 DEF Covered
    <3> QED
      BY <1>5, <2>1, <2>5, <3>1 DEF Covered
  <2> QED
    BY <1>5, <2>3, <2>4, <2>5
<1>9. CASE r = q /\ PauseEvent(In, q, 1) /\ ~xoffSent[<<In, q>>]
  <2> DEFINE f == [q |-> q, pause |-> TRUE, left |-> LinkDelay]
             m == Len(frames)
             t == Append(frames, f)
  <2>0. PICK n \in Nat : n = LinkDelay + Extra
    <3>1. LinkDelay + Extra \in Nat
      BY <1>1 DEF Extra
    <3> QED
      BY <3>1
  <2>1. frames' = t /\ xoffSent' = [xoffSent EXCEPT ![<<In, q>>] = TRUE]
    BY <1>2, <1>9 DEF CheckXoff, SendFrame
  <2>2. xoffSent'[<<In, q>>]
    BY <1>1, <2>1
  <2>3. h = 0 /\ room <= 1
    BY <1>1, <1>5, <1>9 DEF Covered
  <2>4. Extra \in 0 .. 1 /\ One(sending'.q, q) \in 0 .. 1 /\ One(sending'.q, q) = One(sending.q, q)
    BY <1>2 DEF Extra, One
  <2>5. BeginsAtMost(q, n)'
    <3>1. /\ m \in Nat /\ DOMAIN t = 1 .. m + 1 /\ t[m + 1] = f
      BY <1>1
    <3>2. f.q = q /\ f.left = LinkDelay
      OBVIOUS
    <3> HIDE DEF f, t, m
    <3>3. ASSUME NEW k \in DOMAIN t, IsLast(t, q, k) PROVE t[k].left + Extra <= n
      <4>1. k = m + 1
        BY <3>1, <3>2, <3>3 DEF IsLast
      <4> QED
        BY <1>1, <2>0, <2>4, <3>1, <3>2, <4>1
    <3> QED
      BY <1>1, <1>7, <2>1, <2>4, <3>3 DEF BeginsAtMost
  <2>6. Count(wire', q) <= LinkDelay - Lag /\ Lag \in 0 .. 1
    <3> DEFINE most == LinkDelay - Lag
    <3>1. Lag \in 0 .. 1 /\ most \in Nat /\ SpacedWire(wire, most)
      BY <1>1 DEF Timing, Lag
    <3> HIDE DEF most
    <3>2. Len(wire) <= most + 1
      BY <1>1, <1>2, <3>1, WireLength
    <3>3. Len(wire') = Len(wire) - 1 /\ Len(wire) \in Nat
      BY <1>1, <1>2
    <3>4. Count(wire', q) <= Len(wire')
      BY <1>4, CountIsBounded
    <3> QED
      BY <1>4, <3>1, <3>2, <3>3, <3>4 DEF most
  <2>7. One(sending.q, q) + Extra <= 1 + Lag
    <3>1. CASE Idle
      BY <3>1, BufferAssumption DEF Extra, Lag, One, Idle, None
    <3>2. CASE ~Idle
      BY <1>1, <3>2 DEF Extra, Lag, One, Timing
    <3> QED
      BY <3>1, <3>2
  <2> HIDE DEF r, h, room
  <2>8. room + Count(wire', q) + One(sending'.q, q) + n <= HeadroomCap[In]
    BY <1>1, <1>4, <1>6, <2>0, <2>3, <2>4, <2>6, <2>7
  <2>9. Covered(q)'
    BY <2>2, <2>5, <2>8 DEF Covered, room
  <2> QED
    BY <1>5, <2>9
<1> QED
  BY <1>8, <1>9

\* The other port fills up.
LEMMA OtherCovered ==
  ASSUME RoomInv, NEW q \in PfcPrios, OtherArrives
  PROVE  Covered(q)' /\ BufTypes'
<1>1. /\ HopInv /\ Covered(q) /\ q \in Prios /\ BufTypes /\ Types /\ wire \in Seq(Packet)
      /\ <<In, q>> \in Classes /\ Other \in Ports
  BY HopAssumption, BufferAssumption DEF RoomInv, HopInv, Types, Classes
<1>2. PICK r \in OtherClasses :
        /\ AdmitPacket(Other, r, 1, Other) \/ RejectPacket(Other, r, 1)
        /\ xoffSent' = [xoffSent EXCEPT ![<<Other, r>>] = PauseEvent(Other, r, 1)]
  BY DEF OtherArrives
<1>3. r \in Prios /\ <<Other, r>> # <<In, q>>
  BY HopAssumption DEF In, Other
<1>4. sending' = sending /\ wire' = wire /\ frames' = frames
  BY DEF OtherArrives
<1>5. BufTypes' /\ ingressHeadroom'[<<In, q>>] <= ingressHeadroom[<<In, q>>]
  <2>1. CASE AdmitPacket(Other, r, 1, Other)
    <3>1. BufTypes' /\ ingressHeadroom'[<<In, q>>] = ingressHeadroom[<<In, q>>]
      BY <1>1, <1>3, <2>1, AdmitTakes
    <3> QED
      BY <1>1, <3>1 DEF BufTypes
  <2>2. CASE RejectPacket(Other, r, 1)
    BY <1>1, <2>2 DEF RejectPacket, bufVars, BufTypes
  <2> QED
    BY <1>2, <2>1, <2>2
<1>6. xoffSent'[<<In, q>>] = xoffSent[<<In, q>>]
  BY <1>1, <1>2, <1>3 DEF Types
<1>7. \A n \in Nat : BeginsAtMost(q, n) => BeginsAtMost(q, n)'
  BY <1>1, <1>4, SameLastFrame
<1>8. Count(wire, q) \in Nat /\ Count(wire', q) = Count(wire, q)
  BY <1>1, <1>4, CountIsBounded
<1> QED
  BY <1>1, <1>4, <1>5, <1>6, <1>7, <1>8, LeftAlone

\* A packet leaves; a class that goes on has no headroom in use.
LEMMA LeavesCovered ==
  ASSUME RoomInv, NEW q \in PfcPrios, NEW i \in Ports, NEW r \in Prios, PacketLeaves(i, r)
  PROVE  Covered(q)' /\ BufTypes'
<1>1. /\ HopInv /\ Covered(q) /\ q \in Prios /\ BufTypes /\ Types /\ wire \in Seq(Packet)
      /\ <<In, q>> \in Classes /\ <<i, r>> \in Classes
  BY HopAssumption, BufferAssumption DEF RoomInv, HopInv, Types, Classes
<1>2. sending' = sending /\ wire' = wire /\ CheckXon(i, r) /\ ReleasePacket(Other, r, 1, i)
  BY DEF PacketLeaves
<1>3. BufTypes' /\ ingressHeadroom'[<<In, q>>] <= ingressHeadroom[<<In, q>>]
  BY <1>1, <1>2, ReleaseTakes
<1>4. Count(wire, q) \in Nat /\ Count(wire', q) = Count(wire, q)
  BY <1>1, <1>2, CountIsBounded
<1>5. CASE ShouldSendResume(i, r) /\ xoffSent[<<i, r>>] /\ <<i, r>> = <<In, q>>
  <2>1. xoffSent'[<<In, q>>] = FALSE
    BY <1>1, <1>2, <1>5 DEF CheckXon, Types
  <2>2. ingressHeadroom'[<<In, q>>] = 0
    BY <1>5 DEF ShouldSendResume
  <2> QED
    BY <1>3, <2>1, <2>2 DEF Covered
<1>6. CASE ~(ShouldSendResume(i, r) /\ xoffSent[<<i, r>>] /\ <<i, r>> = <<In, q>>)
  <2>1. /\ xoffSent'[<<In, q>>] = xoffSent[<<In, q>>]
        /\ frames' = frames \/ \E p \in Prios, on \in BOOLEAN : p # q /\ SendFrame(p, on)
    <3>1. CASE ShouldSendResume(i, r) /\ xoffSent[<<i, r>>]
      <4>1. /\ <<i, r>> # <<In, q>> /\ xoffSent' = [xoffSent EXCEPT ![<<i, r>>] = FALSE]
            /\ IF i = In THEN SendFrame(r, FALSE) ELSE frames' = frames
        BY <1>2, <1>6, <3>1 DEF CheckXon
      <4>2. xoffSent'[<<In, q>>] = xoffSent[<<In, q>>]
        BY <1>1, <4>1 DEF Types
      <4> QED
        BY <4>1, <4>2
    <3>2. CASE ~(ShouldSendResume(i, r) /\ xoffSent[<<i, r>>])
      BY <1>2, <3>2 DEF CheckXon
    <3> QED
      BY <3>1, <3>2
  <2>2. \A n \in Nat : BeginsAtMost(q, n) => BeginsAtMost(q, n)'
    BY <1>1, <1>2, <2>1, SameLastFrame
  <2> QED
    BY <1>1, <1>2, <1>3, <1>4, <2>1, <2>2, LeftAlone
<1> QED
  BY <1>5, <1>6

\* Time passes: the frame comes nearer as the sender may begin.
LEMMA TickCovered ==
  ASSUME RoomInv, NEW q \in PfcPrios, Tick
  PROVE  Covered(q)'
<1>1. /\ HopInv /\ Timing /\ Covered(q) /\ q \in Prios /\ Types /\ wire \in Seq(Packet)
      /\ frames \in Seq(Frame) /\ FramesInOrder(frames)
  BY BufferAssumption DEF RoomInv, HopInv, Types, Timing
<1>2. /\ ~Due(frames) /\ wire' = Age(wire) /\ frames' = Age(frames)
      /\ xoffSent' = xoffSent /\ ingressHeadroom' = ingressHeadroom
      /\ sending' = IF Idle THEN sending ELSE [sending EXCEPT !.left = @ - 1]
      /\ ~Idle => sending.left = 1
  BY <1>1 DEF Tick, NothingDue, bufVars, Timing
<1>3. Count(wire', q) = Count(wire, q)
  <2>1. DOMAIN Age(wire) = DOMAIN wire
    BY DEF Age
  <2>2. ASSUME NEW k \in DOMAIN wire PROVE Age(wire)[k].q = wire[k].q
    <3>1. wire[k] \in Packet
      BY <1>1
    <3>2. Age(wire)[k] = [wire[k] EXCEPT !.left = @ - 1]
      BY DEF Age
    <3> QED
      BY <3>1, <3>2, OlderPacket
  <2>3. Of(Age(wire), q) = Of(wire, q)
    BY <2>1, <2>2 DEF Of
  <2> QED
    BY <1>2, <2>3 DEF Count
<1>4. sending'.q = sending.q /\ Extra' = 1 /\ Extra \in 0 .. 1
  <2>1. CASE Idle
    BY <1>2, <2>1 DEF Extra, Idle
  <2>2. CASE ~Idle
    BY <1>1, <1>2, <2>2 DEF Extra, Idle, Types
  <2> QED
    BY <2>1, <2>2
<1>5. ASSUME NEW n \in Nat, BeginsAtMost(q, n) PROVE BeginsAtMost(q, n)'
  <2>1. /\ DOMAIN Age(frames) = DOMAIN frames
        /\ \A k \in DOMAIN frames : /\ frames[k].left \in Int /\ Age(frames)[k].left = frames[k].left - 1
                                    /\ Age(frames)[k].q = frames[k].q
    BY <1>1, <1>2, FramesAge
  <2>2. ASSUME NEW k \in DOMAIN frames, IsLast(Age(frames), q, k)
        PROVE  Age(frames)[k].left + 1 <= n
    <3>1. IsLast(frames, q, k)
      BY <2>1, <2>2 DEF IsLast
    <3>2. frames[k].left + Extra <= n
      BY <1>5, <3>1 DEF BeginsAtMost
    <3> QED
      BY <1>4, <2>1, <3>2
  <2> QED
    BY <1>2, <1>4, <2>1, <2>2 DEF BeginsAtMost
<1>6. CASE xoffSent[<<In, q>>]
  <2>1. PICK n \in Nat : /\ BeginsAtMost(q, n)
                         /\ ingressHeadroom[<<In, q>>] + Count(wire, q) + One(sending.q, q) + n <= HeadroomCap[In]
    BY <1>1, <1>6 DEF Covered
  <2>2. BeginsAtMost(q, n)'
    BY <1>5, <2>1
  <2>3. ingressHeadroom'[<<In, q>>] + Count(wire', q) + One(sending'.q, q) + n <= HeadroomCap[In]
    BY <1>2, <1>3, <1>4, <2>1
  <2> QED
    BY <1>2, <1>6, <2>2, <2>3 DEF Covered
<1>7. CASE ~xoffSent[<<In, q>>]
  BY <1>1, <1>2, <1>7 DEF Covered
<1> QED
  BY <1>6, <1>7

--------------------------------------------------------------------------
(* No loss                                                                 *)

\* At first nothing is under way and no headroom is in use.
LEMMA InitRoom == Init => RoomInv
<1> SUFFICES ASSUME Init PROVE RoomInv
  OBVIOUS
<1>1. HopInv
  BY InitFollows
<1>2. DOMAIN wire = {} /\ DOMAIN frames = {} /\ Idle
  BY DEF Init, Idle
<1>3. Timing
  BY <1>2 DEF Timing, SpacedWire, FramesInOrder
<1>4. BufTypes
  BY DEF Init, BufInit, BufTypes
<1>5. ASSUME NEW q \in PfcPrios PROVE Covered(q)
  <2>1. <<In, q>> \in Classes
    BY HopAssumption, BufferAssumption DEF Classes
  <2>2. xoffSent[<<In, q>>] = FALSE /\ ingressHeadroom[<<In, q>>] = 0
    BY <2>1 DEF Init, BufInit
  <2> QED
    BY <2>2 DEF Covered
<1> QED
  BY <1>1, <1>3, <1>4, <1>5 DEF RoomInv

\* Every event leaves room for what is under way.
LEMMA NextRoom ==
  ASSUME Upstream = "switch", HeadroomCap[In] >= 2 * LinkDelay + 2
  PROVE  RoomInv /\ [Next]_vars => RoomInv'
<1> SUFFICES ASSUME RoomInv, [Next]_vars PROVE RoomInv'
  OBVIOUS
<1>1. HopInv' /\ Timing'
  BY NextFollows, NextTiming DEF RoomInv, HopInv
<1>2. SUFFICES BufTypes' /\ \A q \in PfcPrios : Covered(q)'
  BY <1>1, Zenon DEF RoomInv
<1>3. ASSUME bufVars' = bufVars PROVE BufTypes'
  BY <1>3 DEF bufVars, BufTypes, RoomInv
<1>4. CASE StartSending \/ SendingEnds
  <2>1. BufTypes'
    BY <1>3, <1>4 DEF StartSending, SendingEnds
  <2> QED
    BY <1>4, <2>1, SenderCovered
<1>5. CASE FrameArrives
  <2>1. BufTypes'
    BY <1>3, <1>5 DEF FrameArrives
  <2> QED
    BY <1>5, <2>1, FrameCovered
<1>6. CASE PacketArrives
  <2>1. \A q \in PfcPrios : Covered(q)'
    BY <1>6, ArrivalCovered
  <2>2. BufTypes'
    <3>1. wire # <<>> /\ wire \in Seq(Packet) /\ In \in Ports /\ BufTypes
      BY <1>6, HopAssumption DEF PacketArrives, Due, RoomInv, HopInv, Types
    <3>2. Head(wire) \in Packet
      BY <3>1
    <3>3. Head(wire).q \in Prios
      BY <3>2 DEF Packet
    <3>4. AdmitPacket(Other, Head(wire).q, 1, In) \/ RejectPacket(In, Head(wire).q, 1)
      BY <1>6 DEF PacketArrives
    <3>5. CASE AdmitPacket(Other, Head(wire).q, 1, In)
      BY <3>1, <3>3, <3>5, AdmitTakes
    <3>6. CASE RejectPacket(In, Head(wire).q, 1)
      BY <1>3, <3>6 DEF RejectPacket
    <3> QED
      BY <3>4, <3>5, <3>6
  <2> QED
    BY <2>1, <2>2
<1>7. CASE OtherArrives
  <2>1. \A q \in PfcPrios : Covered(q)'
    BY <1>7, OtherCovered
  <2>2. BufTypes'
    <3>1. PICK r \in OtherClasses : AdmitPacket(Other, r, 1, Other) \/ RejectPacket(Other, r, 1)
      BY <1>7 DEF OtherArrives
    <3>2. r \in Prios /\ Other \in Ports /\ BufTypes
      BY HopAssumption DEF RoomInv
    <3>3. CASE AdmitPacket(Other, r, 1, Other)
      BY <3>2, <3>3, AdmitTakes
    <3>4. CASE RejectPacket(Other, r, 1)
      BY <1>3, <3>4 DEF RejectPacket
    <3> QED
      BY <3>1, <3>3, <3>4
  <2> QED
    BY <2>1, <2>2
<1>8. ASSUME NEW i \in Ports, NEW r \in Prios, PacketLeaves(i, r)
      PROVE  BufTypes' /\ \A q \in PfcPrios : Covered(q)'
  <2>1. BufTypes'
    <3>1. ReleasePacket(Other, r, 1, i) /\ BufTypes
      BY <1>8 DEF PacketLeaves, RoomInv
    <3> QED
      BY <3>1, ReleaseTakes
  <2>2. \A q \in PfcPrios : Covered(q)'
    BY <1>8, LeavesCovered
  <2> QED
    BY <2>1, <2>2
<1>9. CASE Tick
  <2>1. BufTypes'
    BY <1>3, <1>9 DEF Tick
  <2> QED
    BY <1>9, <2>1, TickCovered
<1>10. CASE UNCHANGED vars
  <2>1. bufVars' = bufVars /\ hopVars' = hopVars
    BY <1>10 DEF vars
  <2>2. BufTypes'
    BY <1>3, <2>1
  <2>3. ASSUME NEW q \in PfcPrios PROVE Covered(q)'
    <3>1. Covered(q)
      BY DEF RoomInv
    <3> QED
      BY <2>1, <3>1 DEF bufVars, hopVars, Covered, BeginsAtMost, Extra, Idle
  <2> QED
    BY <2>2, <2>3
<1> QED
  BY <1>4, <1>5, <1>6, <1>7, <1>8, <1>9, <1>10 DEF Next, Link, Leaves

\* The headroom that configureDynamicPfc lays out takes everything that a SING
\* sender still sends after XOFF, whatever the delay of the link, the classes,
\* the thresholds and the load of the shared pool: no PFC packet is lost.
THEOREM HeadroomSuffices ==
  ASSUME Upstream = "switch", HeadroomCap[In] >= DefaultHeadroom[In]
  PROVE  Spec => []Lossless
<1>1. HeadroomCap[In] >= 2 * LinkDelay + 2
  BY HopAssumption DEF DefaultHeadroom
<1>2. Init => RoomInv
  BY InitRoom
<1>3. RoomInv /\ [Next]_vars => RoomInv'
  BY <1>1, NextRoom
<1>4. RoomInv => Lossless
  <2> SUFFICES ASSUME RoomInv, Due(wire), Head(wire).q \in PfcPrios
               PROVE  Admits(In, Head(wire).q, 1)
    BY DEF Lossless
  <2> DEFINE q == Head(wire).q
             h == ingressHeadroom[<<In, q>>]
  <2>1. /\ wire # <<>> /\ wire \in Seq(Packet) /\ BufTypes /\ Covered(q) /\ q \in Prios
        /\ In \in Ports /\ HeadroomCap[In] \in Nat /\ LinkDelay \in Nat /\ FramesInOrder(frames)
    BY HopAssumption, BufferAssumption DEF RoomInv, HopInv, Types, Due, Timing
  <2>2. ToShared(In, q, 1) \in {0, 1}
    BY <2>1, SharedOrHeadroom
  <2>3. h \in Nat
    BY <2>1 DEF BufTypes, Classes
  <2>4. h + 1 <= HeadroomCap[In]
    <3>1. CASE xoffSent[<<In, q>>]
      <4>1. PICK n \in Nat : h + Count(wire, q) + One(sending.q, q) + n <= HeadroomCap[In]
        BY <2>1, <3>1 DEF Covered
      <4>2. Count(wire, q) = Count(Tail(wire), q) + One(q, q)
        BY <2>1, CountTail
      <4>3. Count(Tail(wire), q) \in Nat
        <5>1. Tail(wire) \in Seq(Packet)
          BY <2>1
        <5> QED
          BY <5>1, CountIsBounded
      <4>4. One(q, q) = 1 /\ One(sending.q, q) \in Nat
        BY DEF One
      <4> HIDE DEF q, h
      <4> QED
        BY <2>1, <2>3, <4>1, <4>2, <4>3, <4>4
    <3>2. CASE ~xoffSent[<<In, q>>]
      <4>1. h = 0
        BY <2>1, <3>2 DEF Covered
      <4> QED
        BY <1>1, <2>1, <4>1
    <3> QED
      BY <3>1, <3>2
  <2>5. HeadroomOf(In, q) = HeadroomCap[In]
    BY DEF HeadroomOf
  <2>6. q \in PfcPrios
    OBVIOUS
  <2> HIDE DEF q
  <2>7. Admits(In, q, 1)
    BY <2>1, <2>2, <2>3, <2>4, <2>5, <2>6 DEF Admits
  <2> QED
    BY <2>7 DEF q
<1> QED
  BY <1>2, <1>3, <1>4, PTL DEF Spec
=============================================================================
