------------------------------- MODULE InstallLock -------------------------------
(***************************************************************************)
(* The dependency install lock (dependency-install-lock.js): a file that   *)
(* is created exclusively, and reaped by a waiter that finds its owner     *)
(* dead. Reapers exclude one another by a second file, which is reaped     *)
(* when its owner is dead. Every file operation is a step of its own.      *)
(***************************************************************************)
EXTENDS Naturals, FiniteSets

CONSTANTS
    Proc,           \* processes; each makes one call at a time
    Malformed,      \* MALFORMED_LOCK_STALE_MS
    MaxCalls,       \* bound: calls of withDependencyInstallLock per process
    MaxBusy         \* bound: releases that failed five times

VARIABLES
    alive,          \* processes that exist
    lock, reaper,   \* the two files
    pc,
    tok, rtok,      \* ACTIVE_LOCK_TOKENS: of the lock and of the reaper
    won,            \* what reapStaleLock will return
    calls, busy

vars == <<alive, lock, reaper, pc, tok, rtok, won, calls, busy>>

(* A token stands for the file it is written to; 0: there is no file.      *)
Token == 1..(2 * Cardinality(Proc) + 2)
NoFile == [id |-> 0, blank |-> FALSE, pid |-> CHOOSE p \in Proc : TRUE, age |-> 0]
NewFile(p, id) == [id |-> id, blank |-> TRUE, pid |-> p, age |-> 0]

InUse == {lock.id, reaper.id} \cup {tok[p] : p \in Proc} \cup {rtok[p] : p \in Proc}
Fresh == CHOOSE i \in Token : i \notin InUse

Init ==
    /\ alive = Proc
    /\ lock = NoFile
    /\ reaper = NoFile
    /\ pc = [p \in Proc |-> "idle"]
    /\ tok = [p \in Proc |-> 0]
    /\ rtok = [p \in Proc |-> 0]
    /\ won = [p \in Proc |-> FALSE]
    /\ calls = [p \in Proc |-> 0]
    /\ busy = 0

Step(p, from, to) == p \in alive /\ pc[p] = from /\ pc' = [pc EXCEPT ![p] = to]

(* lockIsStale, asked by p: a file that is not there is stale. Nobody      *)
(* installs for MAX_LOCK_AGE_MS, a day.                                    *)
Stale(f, p) ==
    \/ f.id = 0
    \/ f.blank /\ f.age > Malformed
    \/ /\ f.id # 0 /\ ~f.blank
       /\ \/ f.pid = p /\ f.id \notin {tok[p], rtok[p]}
          \/ f.pid \notin alive

-----------------------------------------------------------------------------
(* withDependencyInstallLock                                               *)

call(p) ==
    /\ Step(p, "idle", "open")
    /\ calls[p] < MaxCalls
    /\ calls' = [calls EXCEPT ![p] = @ + 1]
    /\ UNCHANGED <<alive, lock, reaper, tok, rtok, won, busy>>

(* openSync with wx                                                        *)
openLock(p) ==
    /\ Step(p, "open", "write")
    /\ lock.id = 0
    /\ lock' = NewFile(p, Fresh)
    /\ tok' = [tok EXCEPT ![p] = Fresh]
    /\ UNCHANGED <<alive, reaper, rtok, won, calls, busy>>

lockExists(p) ==
    /\ Step(p, "open", "check")
    /\ lock.id # 0
    /\ UNCHANGED <<alive, lock, reaper, tok, rtok, won, calls, busy>>

(* The handle is written, whatever the path names by now.                  *)
writeLock(p) ==
    /\ Step(p, "write", "install")
    /\ lock' = IF lock.id = tok[p] THEN [lock EXCEPT !.blank = FALSE, !.age = 0] ELSE lock
    /\ UNCHANGED <<alive, reaper, tok, rtok, won, calls, busy>>

checkLock(p) ==
    /\ Step(p, "check", IF Stale(lock, p) THEN "reap" ELSE "wait")
    /\ UNCHANGED <<alive, lock, reaper, tok, rtok, won, calls, busy>>

(* The delay is over: another round, or the wait has timed out.            *)
poll(p) ==
    /\ Step(p, "wait", "open")
    /\ UNCHANGED <<alive, lock, reaper, tok, rtok, won, calls, busy>>

timeout(p) ==
    /\ Step(p, "wait", "idle")
    /\ UNCHANGED <<alive, lock, reaper, tok, rtok, won, calls, busy>>

-----------------------------------------------------------------------------
(* reapStaleLock                                                           *)

openReaper(p) ==
    /\ Step(p, "reap", "writeReaper")
    /\ reaper.id = 0
    /\ reaper' = NewFile(p, Fresh)
    /\ rtok' = [rtok EXCEPT ![p] = Fresh]
    /\ UNCHANGED <<alive, lock, tok, won, calls, busy>>

(* Mutant of ReaperStale: the file of a dead reaper is left alone.         *)
ReaperNeverStale(p) == FALSE

ReaperStale(p) == Stale(reaper, p)

reaperExists(p) ==
    /\ Step(p, "reap", IF ReaperStale(p) THEN "unlinkReaper" ELSE "wait")
    /\ reaper.id # 0
    /\ UNCHANGED <<alive, lock, reaper, tok, rtok, won, calls, busy>>

unlinkReaper(p) ==
    /\ Step(p, "unlinkReaper", "wait")
    /\ reaper' = NoFile
    /\ UNCHANGED <<alive, lock, tok, rtok, won, calls, busy>>

writeReaper(p) ==
    /\ Step(p, "writeReaper", "recheck")
    /\ reaper' = IF reaper.id = rtok[p] THEN [reaper EXCEPT !.blank = FALSE, !.age = 0]
                 ELSE reaper
    /\ UNCHANGED <<alive, lock, tok, rtok, won, calls, busy>>

recheck(p) ==
    /\ Step(p, "recheck", IF Stale(lock, p) THEN "unlink" ELSE "dropReaper")
    /\ UNCHANGED <<alive, lock, reaper, tok, rtok, won, calls, busy>>

unlink(p) ==
    /\ Step(p, "unlink", "dropReaper")
    /\ lock' = NoFile
    /\ won' = [won EXCEPT ![p] = lock.id # 0]
    /\ UNCHANGED <<alive, reaper, tok, rtok, calls, busy>>

-----------------------------------------------------------------------------
(* releaseOwnedLock reads the token and then unlinks the path. Unlinking   *)
(* fails on Windows while somebody has the file open.                      *)

AfterReap(p) == IF won[p] THEN "open" ELSE "wait"

ReaperReleased(p) ==
    /\ rtok' = [rtok EXCEPT ![p] = 0]
    /\ won' = [won EXCEPT ![p] = FALSE]
    /\ UNCHANGED <<alive, lock, tok, calls>>

dropReaper(p) ==
    \/ /\ ~reaper.blank /\ reaper.id = rtok[p]
       /\ Step(p, "dropReaper", "removeReaper")
       /\ UNCHANGED <<alive, lock, reaper, tok, rtok, won, calls, busy>>
    \/ /\ reaper.blank \/ reaper.id # rtok[p]
       /\ Step(p, "dropReaper", AfterReap(p))
       /\ ReaperReleased(p)
       /\ UNCHANGED <<reaper, busy>>

removeReaper(p) ==
    /\ Step(p, "removeReaper", AfterReap(p))
    /\ ReaperReleased(p)
    /\ \/ reaper' = NoFile /\ UNCHANGED busy
       \/ /\ busy < MaxBusy /\ busy' = busy + 1
          /\ UNCHANGED reaper

(* fn returns or throws.                                                   *)
finish(p) ==
    /\ Step(p, "install", "drop")
    /\ UNCHANGED <<alive, lock, reaper, tok, rtok, won, calls, busy>>

LockReleased(p) ==
    /\ tok' = [tok EXCEPT ![p] = 0]
    /\ UNCHANGED <<alive, reaper, rtok, won, calls>>

drop(p) ==
    \/ /\ ~lock.blank /\ lock.id = tok[p]
       /\ Step(p, "drop", "remove")
       /\ UNCHANGED <<alive, lock, reaper, tok, rtok, won, calls, busy>>
    \/ /\ lock.blank \/ lock.id # tok[p]
       /\ Step(p, "drop", "idle")
       /\ LockReleased(p)
       /\ UNCHANGED <<lock, busy>>

remove(p) ==
    /\ Step(p, "remove", "idle")
    /\ LockReleased(p)
    /\ \/ lock' = NoFile /\ UNCHANGED busy
       \/ /\ busy < MaxBusy /\ busy' = busy + 1
          /\ UNCHANGED lock

-----------------------------------------------------------------------------
(* A process is killed; somebody survives.                                 *)
crash(p) ==
    /\ p \in alive /\ alive # {p}
    /\ alive' = alive \ {p}
    /\ pc' = [pc EXCEPT ![p] = "idle"]
    /\ tok' = [tok EXCEPT ![p] = 0]
    /\ rtok' = [rtok EXCEPT ![p] = 0]
    /\ won' = [won EXCEPT ![p] = FALSE]
    /\ UNCHANGED <<lock, reaper, calls, busy>>

(* Time passes; nobody is that long between creating and writing a file.   *)
Older(f) == IF f.blank /\ f.age <= Malformed THEN [f EXCEPT !.age = @ + 1] ELSE f
tick ==
    /\ \A p \in Proc : pc[p] \notin {"write", "writeReaper"}
    /\ lock' = Older(lock)
    /\ reaper' = Older(reaper)
    /\ UNCHANGED <<alive, pc, tok, rtok, won, calls, busy>>

Round(p) ==
    \/ openLock(p) \/ lockExists(p) \/ writeLock(p) \/ checkLock(p) \/ poll(p)
    \/ openReaper(p) \/ reaperExists(p) \/ unlinkReaper(p) \/ writeReaper(p)
    \/ recheck(p) \/ unlink(p) \/ dropReaper(p) \/ removeReaper(p)
    \/ finish(p) \/ drop(p) \/ remove(p)

Next ==
    \/ tick
    \/ \E p \in Proc : call(p) \/ Round(p) \/ timeout(p) \/ crash(p)

Spec == Init /\ [][Next]_vars

(* Time passes, waiters poll, and installers come to an end.               *)
Fairness == WF_vars(tick) /\ \A p \in Proc : WF_vars(Round(p))

FairSpec == Spec /\ Fairness

-----------------------------------------------------------------------------
(* The lock file of a process that died, written or not.                   *)
Orphan == lock.id # 0 /\ lock.pid \notin alive
Waiting(p) == pc[p] \notin {"idle", "install", "drop", "remove"}

(* A lock file left by a dead process does not outlast a waiter, not even  *)
(* if reapers die as well.                                                 *)
OrphanReaped ==
    \A p \in Proc : (Orphan /\ Waiting(p)) ~> (~Orphan \/ ~Waiting(p))

=============================================================================
