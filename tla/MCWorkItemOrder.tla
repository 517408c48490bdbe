---------------------------- MODULE MCWorkItemOrder ----------------------------
(* WorkItemOrder for TLC: job n is the first job of work item n, the later *)
(* ones are repairs or follow it.                                          *)
(*                                                                         *)
(* Two instances share the run: a chain of three work items, in the        *)
(* variables of WorkItemOrder, whose safety is checked; and, in a copy of  *)
(* them, two work items that cross, with human gates and cancellations,    *)
(* whose progress is checked.  `part` is chosen at the start and says      *)
(* which of the two moves.                                                 *)
EXTENDS WorkItemOrder, TLC

\* Three work items whose repairs cross; the third has two jobs in a row and is
\* merged after the first.
ChainWi == 1 :> 1 @@ 2 :> 2 @@ 3 :> 3 @@ 4 :> 1 @@ 5 :> 2 @@ 6 :> 3 @@ 7 :> 3
ChainParent == 1 :> 0 @@ 2 :> 0 @@ 3 :> 0 @@ 4 :> 1 @@ 5 :> 2 @@ 6 :> 3 @@ 7 :> 0
ChainAfter == [j \in Job |-> IF j = 7 THEN {3} ELSE {}]
ChainScope == 1 :> {"a"} @@ 2 :> {"b"} @@ 3 :> {"c"} @@ 4 :> {"b"} @@ 5 :> {"a", "c"} @@ 6 :> {"b"} @@ 7 :> {"a"}
ThirdAfterFirst == [w \in WorkItem |-> IF w = 3 THEN {1} ELSE {}]

\* Two work items; each repair plans the file the other one edits.
CrossWi == 1 :> 1 @@ 2 :> 2 @@ 3 :> 1 @@ 4 :> 2
CrossParent == 1 :> 0 @@ 2 :> 0 @@ 3 :> 1 @@ 4 :> 2
CrossScope == 1 :> {"a"} @@ 2 :> {"b"} @@ 3 :> {"b"} @@ 4 :> {"a"}

VARIABLES part, xJob, xNotReady, xWi, xMergeAfter, xLocks, xKeep, xStarted, xClaims,
    xWaits, xPass, xEdited, xRetries, xGates, xMergeFailures, xCancels

crossVars == <<xJob, xNotReady, xWi, xMergeAfter, xLocks, xKeep, xStarted, xClaims,
               xWaits, xPass, xEdited, xRetries, xGates, xMergeFailures, xCancels>>

Cross == INSTANCE WorkItemOrder WITH
    WorkItem <- {1, 2}, Job <- 1..4, Wi <- CrossWi, Parent <- CrossParent,
    After <- [j \in 1..4 |-> {}], Scope <- CrossScope, Path <- {"a", "b"},
    Sequenced <- {}, MergeAfter <- [w \in {1, 2} |-> {}], MaxGates <- 1, MaxCancels <- 1,
    job <- xJob, notReady <- xNotReady, wi <- xWi, mergeAfter <- xMergeAfter,
    locks <- xLocks, keep <- xKeep, started <- xStarted, claims <- xClaims,
    waits <- xWaits, pass <- xPass, edited <- xEdited, retries <- xRetries,
    gates <- xGates, mergeFailures <- xMergeFailures, cancels <- xCancels

\* The instance that does not move has one initial state.
MCInit ==
    /\ part \in {"chain", "cross"}
    /\ OrderInit /\ (part = "cross" => notReady = {})
    /\ Cross!OrderInit /\ (part = "chain" => xNotReady = {})

Crossing(A) == part = "cross" /\ A /\ UNCHANGED <<part, orderVars>>

MCNext ==
    \/ part = "chain" /\ OrderNext /\ UNCHANGED <<part, crossVars>>
    \/ Crossing(Cross!OrderNext)

allVars == <<part, orderVars, crossVars>>

(* Fairness of WorkItemOrder, for the instance whose progress is checked.  *)
MCFairness ==
    /\ WF_allVars(Crossing(Cross!Scan))
    /\ \A j \in 1..4 :
         /\ WF_allVars(Crossing(Cross!becomesReady(j)))
         /\ WF_allVars(Crossing(Cross!Worker(j)))
         /\ WF_allVars(Crossing(Cross!answerRetry(j)))
    /\ \A w \in {1, 2} :
         /\ WF_allVars(Crossing(Cross!completeWorkItem(w)))
         /\ WF_allVars(Crossing(Cross!merge(w)))
         /\ WF_allVars(Crossing(Cross!retryMerge(w)))

MCSpec == MCInit /\ [][MCNext]_allVars /\ MCFairness

(* EveryWorkItemSettles of the two work items that cross.                  *)
CrossingItemsSettle == part = "cross" => Cross!EveryWorkItemSettles
=============================================================================
