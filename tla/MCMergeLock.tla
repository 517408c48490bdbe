---------------------------- MODULE MCMergeLock ------------------------------
(* MergeLock for TLC: two processes, one of which makes two calls.  The unit *)
(* of time is a third of the lock's duration.                                *)
(*                                                                           *)
(* Two instances share the run: one whose renewals are served in time, in    *)
(* the variables of MergeLock, and one whose renewals may fail and come at   *)
(* any time, in a copy of them.  `part` is chosen at the start and says      *)
(* which of the two moves.                                                   *)
EXTENDS MergeLock

CONSTANTS a, b, c, procA, procB, ownerA, ownerB, ownerB2,
  AnyLate,        \* lateness without effect: beyond the bound of the clock
  LateClock       \* bound of the clock of the late instance

AllCalls == {a, b, c}
OnlyA == {a}
AllOwners == {ownerA, ownerB, ownerB2}
BothProcs == {procA, procB}
PidOfOwner == [o \in AllOwners |-> IF o = ownerA THEN procA ELSE procB]
\* The two calls of the second process use the default owner string.
SharedOwner == [x \in AllCalls |-> IF x = a THEN ownerA ELSE ownerB]
\* Every call has an owner string of its own.
OwnOwner == [x \in AllCalls |-> CASE x = a -> ownerA [] x = b -> ownerB [] x = c -> ownerB2]

VARIABLES part, lClock, lRow, lAlive, lSt, lSeen, lLockLost, lDue, lOvertaken

lateVars == <<lClock, lRow, lAlive, lSt, lSeen, lLockLost, lDue, lOvertaken>>

Late == INSTANCE MergeLock WITH
       OwnerOf <- OwnOwner, MaxLate <- AnyLate, RenewErrors <- TRUE, MaxClock <- LateClock,
       clock <- lClock,
       row <- lRow,
       alive <- lAlive,
       st <- lSt,
       seen <- lSeen,
       lockLost <- lLockLost,
       due <- lDue,
       overtaken <- lOvertaken

MCInit == part \in {"served", "late"} /\ MergeInit /\ Late!MergeInit

MCNext ==
  \/ part = "served" /\ MergeNext /\ UNCHANGED <<part, lateVars>>
  \/ part = "late" /\ Late!MergeNext /\ UNCHANGED <<part, mergeVars>>

MCSpec == MCInit /\ [][MCNext]_<<part, mergeVars, lateVars>>

\* SuccessNotOvertaken whatever happens to the renewals, for calls that have an
\* owner string of their own.
LateSuccessNotOvertaken == Late!SuccessNotOvertaken
=============================================================================
