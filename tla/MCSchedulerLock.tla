-------------------------- MODULE MCSchedulerLock ---------------------------
(* SchedulerLock for TLC.  One unit of time is ten seconds: renewal 30 s,    *)
(* time to live 60 s, steal and error limit 45 s, liveness wait 35 s, error  *)
(* retry 5 s, the fractions rounded up.                                      *)
(*                                                                           *)
(* Two instances share the run: one whose database is never busy, in the     *)
(* variables of SchedulerLock, and one whose statements may fail, in a copy  *)
(* of them.  `part` is chosen at the start and says which of the two moves.  *)
EXTENDS SchedulerLock, TLC

CONSTANTS p1, p2,
  BusyClock       \* bound of the clock of the instance with a busy database

TwoProcs == {p1, p2}
ProcSymmetry == Permutations(Procs)

VARIABLES part, bClock, bRow, bPh, bTries, bSeen, bWakeAt, bRunning,
  bRenewing, bLastRenewed, bDue, bMaint, bLease, bWorking

busyVars == <<bClock, bRow, bPh, bTries, bSeen, bWakeAt, bRunning,
              bRenewing, bLastRenewed, bDue, bMaint, bLease, bWorking>>

Busy == INSTANCE SchedulerLock WITH
       RenewalErrors <- TRUE, MaxClock <- BusyClock,
       clock <- bClock,
       row <- bRow,
       ph <- bPh,
       tries <- bTries,
       seen <- bSeen,
       wakeAt <- bWakeAt,
       running <- bRunning,
       renewing <- bRenewing,
       lastRenewed <- bLastRenewed,
       due <- bDue,
       maint <- bMaint,
       lease <- bLease,
       working <- bWorking

MCInit == part \in {"calm", "busy"} /\ Init /\ Busy!Init

MCNext ==
  \/ part = "calm" /\ Next /\ UNCHANGED <<part, busyVars>>
  \/ part = "busy" /\ Busy!Next /\ UNCHANGED <<part, vars>>

MCSpec == MCInit /\ [][MCNext]_<<part, vars, busyVars>>

\* RowOutlivesRenewal with a database that may be busy: a scheduler whose
\* renewals fail concedes before its row can be acquired by another process.
BusyRowOutlivesRenewal == Busy!RowOutlivesRenewal
=============================================================================
