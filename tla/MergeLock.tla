------------------------------ MODULE MergeLock ------------------------------
(***************************************************************************)
(* The merge lock: the "merge" row of scheduler_locks, held for the time   *)
(* of a callback (a merge, a push, the deletion of a branch) by            *)
(* withMergeLock and withMergeLockSync.  The owner string starts with      *)
(* merge-<pid>; the calls of one process that pass no ownerId of their own *)
(* share one string.  A row whose process is gone is reclaimed at once, an *)
(* expired one by whoever comes next, and a callback is reported as a      *)
(* success only if the row is still there and still carries the owner.     *)
(***************************************************************************)
EXTENDS Integers

CONSTANTS
  Calls,        \* calls of withMergeLock and withMergeLockSync
  SyncCalls,    \* those of withMergeLockSync: no renewal, the process is blocked
  Owners,       \* owner strings
  Procs,        \* processes
  OwnerOf,      \* the owner string a call passes
  PidOf,        \* the process an owner string names
  NoOwner,      \* the row is absent
  Duration,     \* durationSec
  RenewEvery,   \* renewEveryMs: a third of the duration
  MaxLate,      \* how late a renewal, or the end of a callback, may come
  RenewErrors,  \* whether a renewal may fail on a busy database
  MaxClock      \* bound of the clock

MergeConstantsOK ==
  /\ SyncCalls \subseteq Calls
  /\ OwnerOf \in [Calls -> Owners]
  /\ PidOf \in [Owners -> Procs]
  /\ NoOwner \notin Owners
  /\ {Duration, RenewEvery, MaxLate, MaxClock} \subseteq Nat
  /\ 0 < RenewEvery /\ RenewEvery < Duration
  /\ RenewErrors \in BOOLEAN

ASSUME MergeConstants == MergeConstantsOK

VARIABLES
  clock,
  row,       \* owner_id, acquired_at and expires_at of the row
  alive,     \* which processes run
  st,        \* where each call is
  seen,      \* the row a call found in its way
  lockLost,  \* the flag of the renewal timer
  due,       \* when the call's renewal, or its end, is due
  overtaken  \* another call acquired the lock while this callback ran (history)

mergeVars == <<clock, row, alive, st, seen, lockLost, due, overtaken>>

-----------------------------------------------------------------------------
NoMergeRow == [owner |-> NoOwner, acq |-> 0, exp |-> 0]

Rows == [owner : Owners \cup {NoOwner}, acq : 0..MaxClock,
         exp : 0..(MaxClock + Duration)]

States == {"idle", "probe", "reclaim", "reacquire", "held", "ok", "failed",
           "success", "lost", "refused", "dead"}

Pid(c) == PidOf[OwnerOf[c]]

\* Inside the callback, or between its end and the release of the row.
Active(c) == st[c] \in {"held", "ok", "failed"}

MergeInit ==
  /\ clock = 0
  /\ row = NoMergeRow
  /\ alive = [p \in Procs |-> TRUE]
  /\ st = [c \in Calls |-> "idle"]
  /\ seen = [c \in Calls |-> NoMergeRow]
  /\ lockLost = [c \in Calls |-> FALSE]
  /\ due = [c \in Calls |-> 0]
  /\ overtaken = [c \in Calls |-> FALSE]

\* A synchronous callback keeps every other call of its process from running.
Runs(c) ==
  /\ alive[Pid(c)]
  /\ \A d \in SyncCalls : d # c /\ Pid(d) = Pid(c) => ~Active(d)

RowOf(c) == [owner |-> OwnerOf[c], acq |-> clock, exp |-> clock + Duration]

CanAcquire == row.owner = NoOwner \/ row.exp < clock

enter(c) ==
  /\ CanAcquire
  /\ row' = RowOf(c)
  /\ st' = [st EXCEPT ![c] = "held"]
  /\ lockLost' = [lockLost EXCEPT ![c] = FALSE]
  /\ due' = [due EXCEPT ![c] = clock + RenewEvery]
  /\ overtaken' = [d \in Calls |-> IF d = c THEN FALSE
                                   ELSE overtaken[d] \/ st[d] = "held"]
  /\ UNCHANGED <<clock, alive, seen>>

Goto(c, s) ==
  /\ st' = [st EXCEPT ![c] = s]
  /\ UNCHANGED <<clock, row, alive, seen, lockLost, due, overtaken>>

acquireMergeLock(c) ==
  /\ Runs(c)
  /\ st[c] = "idle"
  /\ enter(c) \/ (~CanAcquire /\ Goto(c, "probe"))

\* getSchedulerLockInfo and process.kill(pid, 0): only the row of another
\* process that is positively gone may be reclaimed.
Reclaimable(c) ==
  /\ row.owner # NoOwner
  /\ PidOf[row.owner] # Pid(c)
  /\ ~alive[PidOf[row.owner]]

probe(c) ==
  /\ Runs(c)
  /\ st[c] = "probe"
  /\ \/ ~Reclaimable(c) /\ Goto(c, "refused")
     \/ /\ Reclaimable(c)
        /\ st' = [st EXCEPT ![c] = "reclaim"]
        /\ seen' = [seen EXCEPT ![c] = row]
        /\ UNCHANGED <<clock, row, alive, lockLost, due, overtaken>>

\* Mutant: the row is deleted by its name only.
SameLeaseByName(c) == row.owner # NoOwner

\* The DELETE matches the complete lease that was observed.
SameLease(c) == row = seen[c]

reclaim(c) ==
  /\ Runs(c)
  /\ st[c] = "reclaim"
  /\ row' = IF SameLease(c) THEN NoMergeRow ELSE row
  /\ st' = [st EXCEPT ![c] = "reacquire"]
  /\ UNCHANGED <<clock, alive, seen, lockLost, due, overtaken>>

reacquire(c) ==
  /\ Runs(c)
  /\ st[c] = "reacquire"
  /\ enter(c) \/ (~CanAcquire /\ Goto(c, "refused"))

Renewed(c) ==
  /\ row.owner = OwnerOf[c]
  /\ row' = RowOf(c)
  /\ UNCHANGED lockLost

\* The renewal timer of withMergeLock: a busy database is left to the next tick.
renew(c) ==
  /\ Runs(c)
  /\ c \notin SyncCalls
  /\ st[c] = "held"
  /\ due[c] <= clock
  /\ due' = [due EXCEPT ![c] = clock + RenewEvery]
  /\ \/ Renewed(c)
     \/ /\ row.owner # OwnerOf[c]
        /\ lockLost' = [lockLost EXCEPT ![c] = TRUE]
        /\ UNCHANGED row
     \/ RenewErrors /\ UNCHANGED <<row, lockLost>>
  /\ UNCHANGED <<clock, alive, st, seen, overtaken>>

\* Mutant: the end of the callback trusts the timer's flag.
StillOwnedByFlag(c) == TRUE

mergeLockStillOwned(c) == row.owner = OwnerOf[c] /\ clock < row.exp

\* The callback returns and the row is read again; a callback that throws skips
\* the check.
finishMerge(c) ==
  /\ Runs(c)
  /\ st[c] = "held"
  /\ \/ ~lockLost[c] /\ mergeLockStillOwned(c) /\ Goto(c, "ok")
     \/ Goto(c, "failed")

\* releaseMergeLock, in the finally block: deletes by owner.
release(c) ==
  /\ Runs(c)
  /\ st[c] \in {"ok", "failed"}
  /\ row' = IF row.owner = OwnerOf[c] THEN NoMergeRow ELSE row
  /\ st' = [st EXCEPT ![c] = IF st[c] = "ok" THEN "success" ELSE "lost"]
  /\ UNCHANGED <<clock, alive, seen, lockLost, due, overtaken>>

crash(p) ==
  /\ alive[p]
  /\ alive' = [alive EXCEPT ![p] = FALSE]
  /\ st' = [c \in Calls |-> IF Pid(c) = p THEN "dead" ELSE st[c]]
  /\ UNCHANGED <<clock, row, seen, lockLost, due, overtaken>>

\* Time passes, but no live call is left unserved for more than MaxLate.
tick ==
  /\ clock < MaxClock
  /\ \A c \in Calls : Active(c) => clock < due[c] + MaxLate
  /\ clock' = clock + 1
  /\ UNCHANGED <<row, alive, st, seen, lockLost, due, overtaken>>

callStep(c) ==
  \/ acquireMergeLock(c) \/ probe(c) \/ reclaim(c) \/ reacquire(c)
  \/ renew(c) \/ finishMerge(c) \/ release(c)

MergeNext == tick \/ (\E c \in Calls : callStep(c)) \/ (\E p \in Procs : crash(p))

MergeSpec == MergeInit /\ [][MergeNext]_mergeVars

-----------------------------------------------------------------------------
(* Properties.                                                             *)

\* Every variable has its type.
MergeTypeOK ==
  /\ clock \in 0..MaxClock
  /\ row \in Rows
  /\ alive \in [Procs -> BOOLEAN]
  /\ st \in [Calls -> States]
  /\ seen \in [Calls -> Rows]
  /\ lockLost \in [Calls -> BOOLEAN]
  /\ due \in [Calls -> 0..(MaxClock + RenewEvery)]
  /\ overtaken \in [Calls -> BOOLEAN]

\* withMergeLock serializes merges: as long as renewals are served, no two
\* callbacks run at once, the reclaims of dead owners and the calls that share
\* an owner string included.
MergeExclusive ==
  \A c, d \in Calls : st[c] = "held" /\ st[d] = "held" => c = d

\* "A successful merge/push must be able to prove it still owns the
\* serialization boundary" (mergeLockStillOwned): a call that passes the final
\* check was not overtaken by another call that acquired the lock meanwhile.
SuccessNotOvertaken ==
  \A c \in Calls : st[c] \in {"ok", "success"} => ~overtaken[c]
=============================================================================
