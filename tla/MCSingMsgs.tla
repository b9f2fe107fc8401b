----------------------------- MODULE MCSingMsgs -----------------------------
(***************************************************************************)
(* Instances of SingMsgs for TLC: message 1 has two packets, 2 follows when *)
(* it is sent, 3 when it is received; the others are on their own.         *)
(***************************************************************************)
EXTENDS SingMsgs

MCSize == [m \in Msgs |-> IF m = 1 THEN 3 ELSE 1]
MCAfter == [m \in Msgs |-> CASE m = 2 -> [msg |-> 1, status |-> "SentLast"]
                             [] m = 3 -> [msg |-> 1, status |-> "RecvdLast"]
                             [] OTHER -> [msg |-> 0, status |-> "SentLast"]]

\* What ChainsGoOn is proved from holds of this instance.
ASSUME MCAcyclic == Acyclic
=============================================================================
