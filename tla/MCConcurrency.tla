---------------------------- MODULE MCConcurrency ----------------------------
(* The primitives of shared/concurrency for TLC: AssetGate, KeyedGate and  *)
(* InstallLock, which share no state.                                      *)
(*                                                                         *)
(* Four instances share the run and `part`, chosen at the start, says      *)
(* which of them moves: "reads", a gate with the policy read-priority;     *)
(* "fifo", in the same variables a fifo gate without the second reader,    *)
(* whose progress is checked; "keyed", a work queue; and "install".        *)
EXTENDS AssetGate

VARIABLES part,
  kClosed, kCur, kPending, kInFlight, kSt, kAt, kCleanups,
  iAlive, iLock, iReaper, iPc, iTok, iRtok, iWon, iCalls, iBusy

keyedVars == <<kClosed, kCur, kPending, kInFlight, kSt, kAt, kCleanups>>
installVars == <<iAlive, iLock, iReaper, iPc, iTok, iRtok, iWon, iCalls, iBusy>>
allVars == <<part, assetVars, keyedVars, installVars>>

ByPriority == [t \in Tasks |-> IF t \in {"p1", "p2"} THEN 1 ELSE 0]

Fifo == INSTANCE AssetGate WITH NoWait <- {}, Policy <- "fifo"

KeyedTasks == {"a", "b", "c", "d", "e"}
KeyedQueues == {"q1", "q2"}
Keyed == INSTANCE KeyedGate WITH
  Tasks <- KeyedTasks, NoWait <- {"d"}, Queues <- KeyedQueues, NoQueue <- "none", MaxConcurrency <- 2,
  closed <- kClosed, cur <- kCur, pending <- kPending, inFlight <- kInFlight,
  st <- kSt, at <- kAt, cleanups <- kCleanups

InstallProcs == {"x", "y", "z"}
Install == INSTANCE InstallLock WITH
  Proc <- InstallProcs, Malformed <- 1, MaxCalls <- 1, MaxBusy <- 1,
  alive <- iAlive, lock <- iLock, reaper <- iReaper, pc <- iPc, tok <- iTok, rtok <- iRtok,
  won <- iWon, calls <- iCalls, busy <- iBusy

MCInit ==
  /\ part \in {"reads", "fifo", "keyed", "install"}
  /\ AssetInit /\ Keyed!Init /\ Install!Init

Reads(A) == part = "reads" /\ A /\ UNCHANGED <<part, keyedVars, installVars>>
InFifo(A) == part = "fifo" /\ A /\ st'["r2"] = "idle" /\ UNCHANGED <<part, keyedVars, installVars>>
InKeyed(A) == part = "keyed" /\ A /\ UNCHANGED <<part, assetVars, installVars>>
InInstall(A) == part = "install" /\ A /\ UNCHANGED <<part, assetVars, keyedVars>>

MCNext == Reads(AssetNext) \/ InFifo(Fifo!AssetNext) \/ InKeyed(Keyed!Next) \/ InInstall(Install!Next)

\* Fairness of AssetGate, KeyedGate and InstallLock.
MCFairness ==
  /\ \A t \in Tasks : WF_allVars(InFifo(Fifo!finish(t))) /\ WF_allVars(InFifo(Fifo!settle(t)))
  /\ \A o \in Objs : WF_allVars(InFifo(Fifo!cleanup(o)))
  /\ WF_allVars(InFifo(Fifo!growOlder))
  /\ \A t \in KeyedTasks : WF_allVars(InKeyed(Keyed!finish(t)))
  /\ \A q \in KeyedQueues : WF_allVars(InKeyed(Keyed!cleanup(q)))
  /\ WF_allVars(InInstall(Install!tick))
  /\ \A p \in InstallProcs : WF_allVars(InInstall(Install!Round(p)))

MCSpec == MCInit /\ [][MCNext]_allVars /\ MCFairness

\* EventuallyServed of the fifo gate.
FifoEventuallyServed == part = "fifo" => EventuallyServed

\* QueueImplementsSemaphore of KeyedGate: the work queue is one FIFO semaphore,
\* however often it is dropped and created again.
QueueImplementsSemaphore == Keyed!QueueImplementsSemaphore

\* OrphanReaped of the dependency install lock: the lock file of a dead process
\* is reaped while somebody waits, also when reapers die.
InstallOrphanReaped == part = "install" => Install!OrphanReaped
=============================================================================
