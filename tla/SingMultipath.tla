--------------------------- MODULE SingMultipath ---------------------------
(***************************************************************************)
(* How SingSrc picks a path for each packet (SingMultipath and its         *)
(* policies): packets ask for a path, ACKs, NACKs and timeouts report on   *)
(* paths.  The feedback is free: any path that may have carried a packet   *)
(* can be reported on at any time, a timeout always on UnknownEv, for the  *)
(* source does not know the path of the packet it lost.                    *)
(*                                                                         *)
(* A path is its index; the random upper bits of an entropy are left out.  *)
(* A path is chosen for a unit of packets, and when a unit ends the next   *)
(* choice is made at once: `chosen' is then _current_pathid.  With unit 0  *)
(* every packet has a choice of its own.                                   *)
(***************************************************************************)
EXTENDS SingReps, Functions

CONSTANTS
  XorOf,         \* the exclusive or of _path_xor and an index
  Setups,        \* the policies to be run, each with a granularity and a behavior
  MaxPenalty,    \* _max_penalty: 15
  EcnPenalty,    \* _ecn_penalty
  NackPenalty,   \* the penalty of a trimmed packet: 4
  MaxBad,        \* bound: reports that penalise a path
  MaxRecycled    \* bound: length of _next_pathid

\* The number of paths is a power of two, so a path varies with the index.
ASSUME MultipathAssumption ==
  /\ Setups \subseteq [policy : {"oblivious", "bitmap", "reps", "reps_legacy", "mixed"},
                       unit : Nat, behavior : {"keep", "random"}]
  /\ XorOf \in [Paths -> [Paths -> Paths]]
  /\ \A x, i, j \in Paths : XorOf[x][i] = XorOf[x][j] => i = j
  /\ MaxPenalty \in Nat /\ MaxBad \in Nat
  /\ EcnPenalty \in 1 .. MaxPenalty
  /\ NackPenalty \in 1 .. MaxPenalty

VARIABLES
  policy,
  unit,       \* _path_selection_granularity
  behavior,   \* _intra_granularity_behavior
  seqSent,    \* _highest_sent, counted as far as the policy looks at it
  used,       \* _bytes_sent_since_last_path_update
  packet,     \* path and path_sel_end of the last packet
  turns,      \* the turn-taking part of oblivious and bitmap
  legacy,     \* the state of SingMpRepsLegacy
  bad         \* the number of reports that penalised a path

mpVars == <<reps, chosen, policy, unit, behavior, seqSent, used, packet,
            turns, legacy, bad>>

TakesTurns == policy \in {"oblivious", "bitmap", "mixed"}
Penalises == policy \in {"bitmap", "mixed"}

\* turns.round lists the paths chosen since the index was last 0.
MpInit ==
  /\ Init
  /\ \E s \in Setups : policy = s.policy /\ unit = s.unit /\ behavior = s.behavior
  /\ seqSent = 0 /\ used = 0 /\ bad = 0
  /\ packet = [path |-> 0, end |-> TRUE]
  /\ \E x \in IF TakesTurns THEN Paths ELSE {0} :
       turns = [index |-> 0, xor |-> x, penalty |-> [p \in Paths |-> 0],
                skips |-> 0, round |-> <<>>]
  /\ legacy = [crt |-> 0, recycled |-> <<>>]

--------------------------------------------------------------------------
(* Taking turns: SingMpOblivious and SingMpBitmap                          *)

LookedAt(t) == XorOf[t.xor][t.index]

\* A slip: a new xor for every packet.
StepAlwaysRedraws(t) ==
  {[t EXCEPT !.index = (@ + 1) % NumPaths, !.xor = x,
             !.round = IF t.index + 1 = NumPaths THEN <<>> ELSE @] : x \in Paths}
\* The index goes on; when it wraps, the xor is drawn anew.
Step(t) ==
  IF t.index + 1 < NumPaths THEN {[t EXCEPT !.index = @ + 1]}
  ELSE {[t EXCEPT !.index = 0, !.xor = x, !.round = <<>>] : x \in Paths}

\* The path whose turn it is is returned, and the index moves on.
Take(t) ==
  {[path |-> LookedAt(t), turns |-> n] : n \in Step([t EXCEPT !.round = Append(@, LookedAt(t))])}

Lighten(t, p) ==
  [t EXCEPT !.penalty[p] = @ - 1,
            !.skips = IF t.penalty[p] = 1 THEN @ - 1 ELSE @]

\* A slip: skipping a path leaves its penalty alone.
SkippedUntouched(t) == t
\* Only the first path skipped has its penalty taken down.
Skipped(t) == Lighten(t, LookedAt(t))

\* The path looked at so many looks later, and the turns then: the index wraps
\* once at most, and x is drawn then.
Later(t, looks, x) ==
  IF t.index + looks < NumPaths THEN XorOf[t.xor][t.index + looks]
                                ELSE XorOf[x][t.index + looks - NumPaths]
Further(t, looks, x) ==
  IF t.index + looks < NumPaths THEN [t EXCEPT !.index = @ + looks]
  ELSE [t EXCEPT !.index = @ + looks - NumPaths, !.xor = x, !.round = <<>>]

\* A slip: the search ends when half the paths have been seen.
GivesUpEarly(looks) == looks = NumPaths \div 2
GivesUp(looks) == looks = NumPaths

\* The search ends after so many looks, with xor x if the index has wrapped.
EndsAfter(t, looks, x) ==
  /\ t.penalty[Later(t, looks, x)] = 0 \/ GivesUp(looks)
  /\ \A k \in 1 .. looks - 1 : t.penalty[Later(t, k, x)] > 0 /\ ~GivesUp(k)

Ends(t) ==
  {Further(t, e[1], e[2]) : e \in {d \in (1 .. NumPaths) \X Paths : EndsAfter(t, d[1], d[2])}}

\* The search for a path without a penalty.
Search(t) ==
  UNION {Take(n) : n \in IF t.penalty[LookedAt(t)] = 0 THEN {t} ELSE UNION {Ends(s) : s \in {Skipped(t)}}}

\* A slip: a path is counted every time it is reported.
CountSkipAgain(t, p, feedback) == IF feedback # "good" THEN t.skips + 1 ELSE t.skips
CountSkip(t, p, feedback) ==
  IF feedback # "good" /\ t.penalty[p] = 0 THEN t.skips + 1 ELSE t.skips

Penalty(feedback) ==
  CASE feedback = "good" -> 0
    [] feedback = "ecn" -> EcnPenalty
    [] feedback = "nack" -> NackPenalty
    [] feedback = "timeout" -> MaxPenalty

BitmapProcessEv(t, p, feedback) ==
  [t EXCEPT !.skips = CountSkip(t, p, feedback),
            !.penalty[p] = AtMost(@ + Penalty(feedback), MaxPenalty)]

--------------------------------------------------------------------------
(* Recycling without a ring: SingMpRepsLegacy                              *)

Recycle(l) == [l EXCEPT !.crt = Head(l.recycled), !.recycled = Tail(@)]

\* The first window visits the paths in turn.
LegacyNext(l, window) ==
  IF seqSent < AtMost(window, NumPaths) THEN {[l EXCEPT !.crt = (@ + 1) % NumPaths]}
  ELSE IF l.recycled = <<>> THEN {[l EXCEPT !.crt = p] : p \in Paths}
  ELSE {Recycle(l)}

LegacyProcessEv(l, p, feedback) ==
  IF feedback = "good" THEN [l EXCEPT !.recycled = Append(@, p)] ELSE l

--------------------------------------------------------------------------
(* A policy's nextEntropy: what it may return and the state it leaves      *)

Selector == [turns |-> turns, legacy |-> legacy, ring |-> reps]

ByTurns(s, results) ==
  {[path |-> r.path, s |-> [s EXCEPT !.turns = r.turns]] : r \in results}

MpNextEntropy(s, window) ==
  CASE policy = "oblivious" -> ByTurns(s, Take(s.turns))
    [] policy = "bitmap" -> ByTurns(s, Search(s.turns))
    [] policy = "reps" ->
         {[path |-> r.path, s |-> [s EXCEPT !.ring = r.ring]] : r \in RepsNextEntropy(s.ring)}
    [] policy = "reps_legacy" ->
         {[path |-> l.crt, s |-> [s EXCEPT !.legacy = l]] : l \in LegacyNext(s.legacy, window)}
    [] policy = "mixed" ->
         IF s.legacy.recycled # <<>>
         THEN {[path |-> Head(s.legacy.recycled), s |-> [s EXCEPT !.legacy = Recycle(@)]]}
         ELSE ByTurns(s, Search(s.turns))

--------------------------------------------------------------------------
(* The calls of SingSrc                                                    *)

Becomes(r) ==
  /\ chosen' = r.path
  /\ turns' = r.s.turns
  /\ legacy' = r.s.legacy
  /\ reps' = r.s.ring

\* A slip: a choice for every packet of a unit.
ChosenAnew(window) == MpNextEntropy(Selector, window)
\* _path_initialized: the first packet of a unit policy makes two choices if
\* it ends its unit.
Current(window) ==
  IF seqSent = 0 THEN MpNextEntropy(Selector, window)
  ELSE {[path |-> chosen, s |-> Selector]}

EndsUnit(size) == used + size >= unit

\* selectPathForPacket for a packet that has a choice of its own.
SelectForPacket(window) ==
  /\ unit = 0
  /\ \E r \in MpNextEntropy(Selector, window) :
       Becomes(r) /\ packet' = [path |-> r.path, end |-> FALSE]
  /\ UNCHANGED used

\* selectPathForPacket within a unit.
SelectForUnit(size, window) ==
  /\ unit > 0
  /\ \E current \in Current(window) :
       /\ \E p \in IF behavior = "random" THEN Paths ELSE {current.path} :
            packet' = [path |-> p, end |-> EndsUnit(size)]
       /\ IF EndsUnit(size)
          THEN used' = 0 /\ \E r \in MpNextEntropy(current.s, window) : Becomes(r)
          ELSE used' = used + size /\ Becomes(current)

Counted == IF policy = "reps_legacy" THEN NumPaths ELSE 1

\* prepareDataPacketForSend, for a new packet or a retransmission; the window
\* is cwnd in packets.
Select ==
  /\ \E size \in 1 .. 2, window \in IF policy = "reps_legacy" THEN {1, NumPaths} ELSE {1} :
       SelectForPacket(window) \/ SelectForUnit(size, window)
  /\ \/ seqSent' = AtMost(seqSent + 1, Counted)
     \/ seqSent > 0 /\ UNCHANGED seqSent
  /\ UNCHANGED <<policy, unit, behavior, bad>>

\* The policy's processEv.
MpProcessEv(p, feedback) ==
  /\ reps' = IF policy = "reps" THEN RepsProcessEv(reps, p, feedback) ELSE reps
  /\ turns' = IF Penalises THEN BitmapProcessEv(turns, p, feedback) ELSE turns
  /\ legacy' = IF policy \in {"reps_legacy", "mixed"}
               THEN LegacyProcessEv(legacy, p, feedback) ELSE legacy
  /\ UNCHANGED <<chosen, policy, unit, behavior, seqSent, used, packet>>

\* An ACK without a mark, or the NACK of a packet trimmed at the last hop.
GoodReport ==
  /\ seqSent > 0
  /\ Len(legacy.recycled) < MaxRecycled
  /\ \E p \in Paths : MpProcessEv(p, "good")
  /\ UNCHANGED bad

\* A marked ACK or a NACK.
BadReport ==
  /\ seqSent > 0
  /\ bad < MaxBad /\ bad' = IF Penalises THEN bad + 1 ELSE bad
  /\ \E p \in Paths, feedback \in {"ecn", "nack"} : MpProcessEv(p, feedback)

Timeout ==
  /\ seqSent > 0
  /\ bad < MaxBad /\ bad' = IF Penalises THEN bad + 1 ELSE bad
  /\ MpProcessEv(UnknownEv, "timeout")

MpTick ==
  /\ policy = "reps"
  /\ Tick
  /\ UNCHANGED <<policy, unit, behavior, seqSent, used, packet, turns, legacy, bad>>

MpNext == Select \/ GoodReport \/ BadReport \/ Timeout \/ MpTick

\* Packets keep being sent and answered, and time goes on.
MpSpec == MpInit /\ [][MpNext]_mpVars
          /\ WF_mpVars(Select) /\ WF_mpVars(GoodReport) /\ WF_mpVars(MpTick)

--------------------------------------------------------------------------
(* Properties                                                              *)

\* The counter of paths to skip follows the penalties, whichever order reports
\* and searches come in: the search asserts that it has something to count
\* down (sing_mp.cpp:160).
SkipCountExact == turns.skips = Cardinality({p \in Paths : turns.penalty[p] > 0})

\* Taking turns is fair: no path is chosen twice before the index has been
\* through all of them, although penalised paths are passed over and the xor
\* may change in the middle of a search.
NoPathTwiceARound == IsInjective(turns.round)

Penalised == {p \in Paths : turns.penalty[p] > 0}

\* The search may give up and return a path with a penalty, and while it runs
\* the xor may change so that it does not see every path (sing_mp.cpp:171):
\* even so that happens only when more than half of the paths are penalised.
PenalisedPathOnlyWhenMost ==
  [][policy = "bitmap" /\ turns' # turns /\ bad' = bad /\ chosen' \in Penalised'
       => 2 * Cardinality(Penalised) > NumPaths]_mpVars

\* Within a unit all packets take one path, unless each is to take a random one.
UnitKeepsPath ==
  [][behavior = "keep" /\ ~packet.end /\ unit > 0 => packet'.path = packet.path]_mpVars

\* Penalties wear off by being passed over: once reports of trouble stop, every
\* path is used again, however the xor falls.
PenaltiesWearOff == (policy = "bitmap" /\ Penalised # {}) ~> Penalised = {}
==========================================================================
