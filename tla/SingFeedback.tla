--------------------------- MODULE SingFeedback ---------------------------
(***************************************************************************)
(* How the source learns which paths are good: packets take their path to  *)
(* the sink, the sink answers with ACKs and NACKs that name paths, and the *)
(* source reports them to its path selector (processEv).                   *)
(*                                                                         *)
(* With the policies REPS and BITMAP an ACK tells of the packet it answers.*)
(* With REPS_ACKAGG and BITMAP_ACKAGG the sink collects what packets tell  *)
(* and the next ACK carries it all.  When an ACK is due is decided in      *)
(* SingSink; here it may be at any new packet, and is where this module's  *)
(* packets force one.  A packet may be lost, delayed, marked, trimmed, and *)
(* sent again while the first transmission is still under way.             *)
(***************************************************************************)
EXTENDS Integers, Sequences, FiniteSets, SequencesExt

CONSTANTS
  Algorithms,  \* values of load_balancing_algo that are run
  Paths,
  NumPkts,     \* packets of the flow
  MaxSends     \* bound: transmissions

DSN == 0 .. NumPkts - 1
None == "none"

ASSUME FeedbackAssumption ==
  /\ Algorithms \subseteq {"REPS", "REPS_ACKAGG", "BITMAP", "BITMAP_ACKAGG"}
  /\ None \notin Paths
  /\ NumPkts \in Nat /\ MaxSends \in Nat

VARIABLES
  algo,       \* load_balancing_algo
  tx,         \* per DSN: "unsent", "in_flight", "pending_rtx" or "acked"
  sends,      \* transmissions so far
  flight,     \* packets on their way
  received,   \* the DSNs the sink has
  goods,      \* _pending_non_ecn_evs_since_last_ack
  firstMark,  \* _pending_first_ecn_ev_since_last_ack; its flag is set with it
  marks,      \* _pending_ecn_evs_since_last_ack
  back,       \* answers on their way
  owed,       \* history: per path, good news and marks not yet told or lost
  marked      \* history: the paths of marked packets since the last ACK

srcVars == <<algo, tx, sends>>
sinkVars == <<received, goods, firstMark, marks>>
vars == <<srcVars, flight, sinkVars, back, owed, marked>>

UsesReps == algo \in {"REPS", "REPS_ACKAGG"}

Init ==
  /\ algo \in Algorithms
  /\ tx = [d \in DSN |-> "unsent"]
  /\ sends = 0 /\ flight = {} /\ received = {}
  /\ goods = <<>> /\ firstMark = None /\ marks = <<>>
  /\ back = {} /\ marked = <<>>
  /\ owed = [p \in Paths |-> [good |-> 0, mark |-> 0]]

--------------------------------------------------------------------------
(* The source sends                                                        *)

Transmit(d) ==
  /\ sends < MaxSends /\ sends' = sends + 1
  /\ \E p \in Paths, end \in BOOLEAN :
       flight' = flight \cup {[n |-> sends, dsn |-> d, path |-> p, end |-> end]}
  /\ tx' = [tx EXCEPT ![d] = "in_flight"]
  /\ UNCHANGED <<algo, sinkVars, back, owed, marked>>

\* In the order of DSNs, and again when a NACK came or the timer fired.
SendNew ==
  \E d \in DSN : tx[d] = "unsent" /\ (\A e \in 0 .. d - 1 : tx[e] # "unsent") /\ Transmit(d)
SendAgain == \E d \in DSN : tx[d] \in {"in_flight", "pending_rtx"} /\ Transmit(d)

--------------------------------------------------------------------------
(* The sink answers                                                        *)

\* makeAck; covers stands for the cumulative ACK and the SACK bits. With an
\* aggregating policy it leaves out the mark and the end of a unit.
PlainAck(pkt, ce, end) ==
  LET alone == algo \in {"REPS", "BITMAP"}
  IN [type |-> "ack", n |-> pkt.n, ev |-> pkt.path, ecn |-> ce /\ alone, end |-> end /\ alone,
      goods |-> <<>>, marks |-> <<>>, covers |-> received']

Flush == goods' = <<>> /\ firstMark' = None /\ marks' = <<>>

\* The paths of unmarked packets, and the path that was marked first.
AttachAggFeedback(ack, g, f) ==
  [ack EXCEPT !.goods = g, !.ecn = (f # None), !.ev = IF f # None THEN f ELSE @]
\* The paths of marked packets.
AttachBitmapAggFeedback(ack, m) == [ack EXCEPT !.marks = m, !.ecn = (m # <<>>)]

\* beforeSendAck of the three policies, after g, f and m have been noted.
Attach(ack, g, f, m) ==
  CASE algo = "REPS_ACKAGG" -> AttachAggFeedback(ack, g, f)
    [] algo = "BITMAP_ACKAGG" -> AttachBitmapAggFeedback(ack, m)
    [] OTHER -> ack

Answer(ack, g, f, m) ==
  /\ back' = back \cup {Attach(ack, g, f, m)}
  /\ Flush
  /\ marked' = <<>>

NoteFirst(pkt, ce) ==
  IF algo = "REPS_ACKAGG" /\ ce /\ firstMark = None THEN pkt.path ELSE firstMark

\* A slip: a duplicate's mark is forgotten.
DuplicateUnnoted(pkt, ce) == firstMark
\* RepsAckAggPolicy::onDuplicate keeps the mark that made the sink answer.
NoteDuplicate(pkt, ce) == NoteFirst(pkt, ce)

NoteGood(pkt, ce) ==
  IF algo = "REPS_ACKAGG" /\ ~ce THEN Append(goods, pkt.path) ELSE goods

NoteMark(pkt, ce) ==
  IF algo = "BITMAP_ACKAGG" /\ ce THEN Append(marks, pkt.path) ELSE marks

SinceLastAck(pkt, ce) == IF ce THEN Append(marked, pkt.path) ELSE marked

\* What a packet has to tell: REPS asks only the last packet of a unit, and an
\* ACK that aggregates for it names the first path marked since the last ACK.
Owe(pkt, good, mark) ==
  owed' = [owed EXCEPT ![pkt.path] = [good |-> @.good + (IF good THEN 1 ELSE 0),
                                      mark |-> @.mark + (IF mark THEN 1 ELSE 0)]]
TellsGood(pkt, ce) == ~ce /\ (algo = "REPS_ACKAGG" \/ (algo = "REPS" /\ pkt.end))
TellsMark(ce) == ce /\ (algo = "REPS_ACKAGG" => marked = <<>>)

\* processData, stages 3 to 6.  With the aggregating policies neither a mark
\* nor the end of a unit forces an ACK.
ReceiveNew(pkt, ce) ==
  /\ pkt.dsn \notin received
  /\ received' = received \cup {pkt.dsn}
  /\ Owe(pkt, TellsGood(pkt, ce), TellsMark(ce))
  /\ \/ Answer(PlainAck(pkt, ce, pkt.end), NoteGood(pkt, ce), NoteFirst(pkt, ce), NoteMark(pkt, ce))
     \/ /\ algo \in {"REPS", "BITMAP"} => ~ce /\ ~pkt.end
        /\ goods' = NoteGood(pkt, ce)
        /\ firstMark' = NoteFirst(pkt, ce)
        /\ marks' = NoteMark(pkt, ce)
        /\ marked' = SinceLastAck(pkt, ce)
        /\ UNCHANGED back

\* processData, stage 2, and onDuplicate: always an ACK, and a mark counts.
ReceiveDuplicate(pkt, ce) ==
  /\ pkt.dsn \in received
  /\ UNCHANGED received
  /\ Owe(pkt, FALSE, TellsMark(ce))
  /\ Answer(PlainAck(pkt, ce, FALSE), goods, NoteDuplicate(pkt, ce), NoteMark(pkt, ce))

\* handleDuplicateTrimmed: the ACK carries nothing that was collected.
ReceiveTrimmedDuplicate(pkt) ==
  /\ pkt.dsn \in received
  /\ UNCHANGED <<sinkVars, owed, marked>>
  /\ back' = back \cup {PlainAck(pkt, FALSE, FALSE)}

\* buildTrimmedNack: a packet trimmed at the last hop speaks for its path.
ReceiveTrimmed(pkt, ce) ==
  /\ pkt.dsn \notin received
  /\ \E lastHop \in BOOLEAN :
       /\ back' = back \cup {[type |-> "nack", n |-> pkt.n, ev |-> pkt.path, ecn |-> ce,
                              dsn |-> pkt.dsn, lastHop |-> lastHop]}
       /\ Owe(pkt, lastHop /\ ~ce, lastHop /\ ce)
  /\ UNCHANGED <<sinkVars, marked>>

SinkReceives ==
  /\ \E pkt \in flight :
       /\ flight' = flight \ {pkt}
       /\ \/ \E ce \in BOOLEAN : ReceiveNew(pkt, ce)
          \/ \E ce \in BOOLEAN : ReceiveDuplicate(pkt, ce)
          \/ ReceiveTrimmedDuplicate(pkt)
          \/ \E ce \in BOOLEAN : ReceiveTrimmed(pkt, ce)
  /\ UNCHANGED srcVars

--------------------------------------------------------------------------
(* The source listens                                                      *)

Said(paths, feedback) == [i \in DOMAIN paths |-> [path |-> paths[i], feedback |-> feedback]]

\* A slip: REPS hears every ACK.
HearsEveryAck(algorithm, ack) == TRUE
HearsAck(algorithm, ack) == algorithm # "REPS" \/ ack.end

\* processAckPathFeedback: the calls of processEv, in their order.
AckReports(algorithm, ack) ==
  CASE algorithm = "REPS_ACKAGG" ->
         (IF ack.ecn THEN Said(<<ack.ev>>, "ecn") ELSE <<>>) \o Said(ack.goods, "good")
    [] algorithm = "BITMAP_ACKAGG" -> Said(ack.marks, "ecn")
    [] OTHER -> IF HearsAck(algorithm, ack)
                THEN Said(<<ack.ev>>, IF ack.ecn THEN "ecn" ELSE "good") ELSE <<>>

\* processNack, for a packet that is still waited for.
NackReports(nack) ==
  Said(<<nack.ev>>, IF ~nack.lastHop THEN "nack" ELSE IF nack.ecn THEN "ecn" ELSE "good")

Reports(algorithm, answer) ==
  IF answer.type = "ack" THEN AckReports(algorithm, answer) ELSE NackReports(answer)

Count(reports, p, feedback) ==
  Cardinality({i \in DOMAIN reports : reports[i] = [path |-> p, feedback |-> feedback]})

Tell(reports) ==
  owed' = [p \in Paths |-> [good |-> owed[p].good - Count(reports, p, "good"),
                            mark |-> owed[p].mark - Count(reports, p, "ecn")]]

AckArrives ==
  /\ \E ack \in back :
       /\ ack.type = "ack"
       /\ back' = back \ {ack}
       /\ tx' = [d \in DSN |-> IF d \in ack.covers THEN "acked" ELSE tx[d]]
       /\ Tell(AckReports(algo, ack))
  /\ UNCHANGED <<algo, sends, flight, sinkVars, marked>>

\* A NACK for a packet that was acknowledged or already waits to be sent again
\* tells nothing any more.
NackArrives ==
  /\ \E nack \in back :
       /\ nack.type = "nack"
       /\ back' = back \ {nack}
       /\ tx' = IF tx[nack.dsn] = "in_flight" THEN [tx EXCEPT ![nack.dsn] = "pending_rtx"] ELSE tx
       /\ Tell(NackReports(nack))
  /\ UNCHANGED <<algo, sends, flight, sinkVars, marked>>

--------------------------------------------------------------------------
(* The fabric                                                              *)

LosePacket ==
  /\ \E pkt \in flight : flight' = flight \ {pkt}
  /\ UNCHANGED <<srcVars, sinkVars, back, owed, marked>>

\* What a lost answer had to tell is lost with it.
LoseAnswer ==
  /\ \E answer \in back : back' = back \ {answer} /\ Tell(Reports(algo, answer))
  /\ UNCHANGED <<srcVars, flight, sinkVars, marked>>

Next ==
  \/ SendNew \/ SendAgain \/ SinkReceives
  \/ AckArrives \/ NackArrives
  \/ LosePacket \/ LoseAnswer

Spec == Init /\ [][Next]_vars

--------------------------------------------------------------------------
(* Properties                                                              *)

\* What the answers on their way will say of a path.
Unheard(answers, algorithm, p, feedback) ==
  UNION {{<<a, i>> : i \in {j \in DOMAIN Reports(algorithm, a) :
                              Reports(algorithm, a)[j] = [path |-> p, feedback |-> feedback]}}
         : a \in answers}
Under(answers, algorithm, p, feedback) == Cardinality(Unheard(answers, algorithm, p, feedback))

Noted(paths, p) == Cardinality({i \in DOMAIN paths : paths[i] = p})

\* REPS hears good news of a path exactly once for each packet that brought it:
\* with aggregation every new unmarked packet, otherwise the last one of each
\* unit, and a packet trimmed at the last hop.  Duplicates, ACKs sent for
\* another reason, and late, repeated or reordered answers add nothing.
CreditsAreEarned ==
  UsesReps => \A p \in Paths : owed[p].good = Noted(goods, p) + Under(back, algo, p, "good")

\* What the sink has noted of the marks of path p: f first, m all of them.
MarkNotes(algorithm, f, m, p) ==
  IF algorithm # "REPS_ACKAGG" THEN Noted(m, p) ELSE IF f = p THEN 1 ELSE 0

\* The bitmap hears of every mark, duplicates included, once. An aggregating
\* REPS sink keeps the first path that is marked after an ACK until the next
\* one, and that ACK names it, once and no other, even if it is itself the
\* answer to a packet, new or duplicate, that was marked on another path.
MarksAreTold ==
  algo # "REPS" =>
    \A p \in Paths :
      owed[p].mark = MarkNotes(algo, firstMark, marks, p) + Under(back, algo, p, "ecn")
==========================================================================
