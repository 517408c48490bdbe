---------------------------- MODULE FifoSemaphore ----------------------------
(***************************************************************************)
(* What a keyed work queue promises its callers: at most Max of them run at *)
(* a time, the others wait in arrival order, and nobody waits while there   *)
(* is room.                                                                 *)
(***************************************************************************)
EXTENDS Naturals, Sequences, FiniteSets

CONSTANTS Callers, Max

VARIABLES running, waiting, open

Init == running = {} /\ waiting = <<>> /\ open = TRUE

\* Callers enter from the head of q while there is room next to those in R.
Admit(R, q) ==
  LET room == IF open' /\ Cardinality(R) < Max THEN Max - Cardinality(R) ELSE 0
      n == IF room < Len(q) THEN room ELSE Len(q)
  IN /\ running' = R \cup {q[i] : i \in 1..n}
     /\ waiting' = SubSeq(q, n + 1, Len(q))

Waiting == {waiting[i] : i \in DOMAIN waiting}

Arrive(c) == open /\ c \notin running \cup Waiting /\ UNCHANGED open /\ Admit(running, Append(waiting, c))
Leave(c) == c \in running /\ UNCHANGED open /\ Admit(running \ {c}, waiting)
GiveUp(c) ==
  /\ UNCHANGED open
  /\ \E i \in DOMAIN waiting :
       /\ waiting[i] = c
       /\ Admit(running, SubSeq(waiting, 1, i - 1) \o SubSeq(waiting, i + 1, Len(waiting)))
Close == open /\ open' = FALSE /\ running' = running /\ waiting' = <<>>

Next == Close \/ \E c \in Callers : Arrive(c) \/ Leave(c) \/ GiveUp(c)
Spec == Init /\ [][Next]_<<running, waiting, open>>
=============================================================================
