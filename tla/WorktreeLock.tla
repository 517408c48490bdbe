------------------------------ MODULE WorktreeLock ------------------------------
(***************************************************************************)
(* The lock file of a worktree (worktree-locks.js, WorktreeLock.js). It is *)
(* created, removed and marked in transactions of one SQLite database, but *)
(* inspected outside them; a waiter removes the file of an owner that is   *)
(* gone. Whether an owner on a worker thread of the same process is gone   *)
(* is told by the names that ThreadLifetimeRegistry gives to threads.      *)
(***************************************************************************)
EXTENDS Integers, FiniteSets

CONSTANTS
    Proc,
    Main,           \* the main thread of each process
    Worker,         \* worker threads: names that are started again and again
    ProcOf,         \* the process of a thread
    Caller,         \* users of the lock
    On,             \* the thread they run on
    Slot,           \* indices of the shared array
    MaxGen,         \* 2147483647: the largest generation
    Stale,          \* WORKTREE_LOCK_STALE_MS
    Multiplier,     \* WORKTREE_LOCK_LIVE_PID_STALE_MULTIPLIER
    MaxHold,        \* for how long a caller keeps the lock
    MaxLocks,       \* bound: lock files created
    MaxStarts,      \* bound: worker threads started
    MaxBusy         \* bound: releases that never got the SQLite lock

Thread == Main \cup Worker

ASSUME ThreadAssumption ==
    /\ Main \cap Worker = {}
    /\ ProcOf \in [Thread -> Proc]
    /\ On \in [Caller -> Thread]
    /\ Slot # {} /\ Main # {}
ASSUME TimeAssumption ==
    /\ MaxGen \in Nat \ {0}
    /\ {Stale, Multiplier, MaxHold} \subseteq Nat \ {0}
ASSUME BoundAssumption == {MaxLocks, MaxStarts, MaxBusy} \subseteq Nat

VARIABLES
    alive,          \* processes that exist
    slot,           \* ThreadLifetimeRegistry.states of each process
    up,             \* threads that run
    name,           \* workerData.posseThreadLifetime of a thread
    ended,          \* names of threads that are over, to be retired
    inc,            \* threadId; 0 for the main thread
    file,           \* the lock file
    pc, mine,       \* a caller: where it is and the token it owns
    seen, want,     \* ... the stat and the token it wants to remove
    held,           \* ... for how long it has had the lock
    locks, starts, busy

registry == <<slot, name, ended, inc, starts>>
caller == <<pc, mine, seen, want, held>>
vars == <<alive, up, registry, file, caller, locks, busy>>

(* No registry slot was free; also the main thread.                        *)
NoName == [slot |-> CHOOSE s \in Slot : TRUE, gen |-> 0]

(* id 0: there is no file. A blank one was created and never written.      *)
NoFile == [id |-> 0, blank |-> FALSE, released |-> FALSE, on |-> CHOOSE t \in Thread : TRUE,
           inc |-> 0, name |-> NoName, age |-> 0]

Stat(f) == <<f.id, f.blank, f.released>>

MaxAge == Stale * Multiplier + 1
Abs(n) == IF n < 0 THEN -n ELSE n

Runs(c) == On[c] \in up

Init ==
    /\ alive = Proc
    /\ slot = [p \in Proc |-> [s \in Slot |-> 0]]
    /\ up = Main
    /\ name = [t \in Thread |-> NoName]
    /\ ended = [p \in Proc |-> {}]
    /\ inc = [t \in Thread |-> 0]
    /\ file = NoFile
    /\ pc = [c \in Caller |-> "idle"]
    /\ mine = [c \in Caller |-> 0]
    /\ seen = [c \in Caller |-> Stat(NoFile)]
    /\ want = [c \in Caller |-> 0]
    /\ held = [c \in Caller |-> 0]
    /\ locks = 0
    /\ starts = 0
    /\ busy = 0

-----------------------------------------------------------------------------
(* ThreadLifetimeRegistry and ThreadManager                                *)

(* A slot whose last generation is used up is never reserved again.        *)
Reservable(p, s) == slot[p][s] <= 0 /\ slot[p][s] # -MaxGen

(* reserve: other reservations under way may make it skip a slot.          *)
Reserve(p, n) ==
    IF \A s \in Slot : ~Reservable(p, s)
    THEN n = NoName /\ UNCHANGED slot
    ELSE \E s \in Slot :
           /\ Reservable(p, s)
           /\ n = [slot |-> s, gen |-> Abs(slot[p][s]) + 1]
           /\ slot' = [slot EXCEPT ![p][s] = n.gen]

(* run: the thread starts with its name, or its constructor throws.        *)
startThread(t, n) ==
    /\ t \in Worker \ up
    /\ ProcOf[t] \in alive
    /\ starts < MaxStarts
    /\ starts' = starts + 1
    /\ Reserve(ProcOf[t], n)
    /\ \/ /\ up' = up \cup {t}
          /\ name' = [name EXCEPT ![t] = n]
          /\ inc' = [inc EXCEPT ![t] = starts + 1]
          /\ UNCHANGED ended
       \/ /\ n # NoName
          /\ ended' = [ended EXCEPT ![ProcOf[t]] = @ \cup {n}]
          /\ UNCHANGED <<up, name, inc>>
    /\ UNCHANGED <<alive, file, caller, locks, busy>>

Names == [slot : Slot, gen : 1..MaxGen]
Fresh(p) == {[slot |-> s, gen |-> Abs(slot[p][s]) + 1] : s \in Slot}
Started(t) == \E n \in Fresh(ProcOf[t]) \cup {NoName} : startThread(t, n)

(* Callers of threads that are over.                                       *)
Gone(threads) ==
    /\ pc' = [c \in Caller |-> IF On[c] \in threads THEN "idle" ELSE pc[c]]
    /\ mine' = [c \in Caller |-> IF On[c] \in threads THEN 0 ELSE mine[c]]
    /\ held' = [c \in Caller |-> IF On[c] \in threads THEN 0 ELSE held[c]]
    /\ seen' = [c \in Caller |-> IF On[c] \in threads THEN Stat(NoFile) ELSE seen[c]]
    /\ want' = [c \in Caller |-> IF On[c] \in threads THEN 0 ELSE want[c]]

(* A thread that ends while it creates the file leaves it blank.           *)
FileLeft(threads) ==
    \/ UNCHANGED <<file, locks>>
    \/ /\ file.id = 0
       /\ locks < MaxLocks
       /\ \E c \in Caller : On[c] \in threads /\ pc[c] = "try"
       /\ locks' = locks + 1
       /\ file' = [NoFile EXCEPT !.id = locks + 1, !.blank = TRUE]

(* The thread returns, throws or is terminated.                            *)
endThread(t) ==
    /\ t \in Worker \cap up
    /\ up' = up \ {t}
    /\ ended' = [ended EXCEPT ![ProcOf[t]] = @ \cup ({name[t]} \ {NoName})]
    /\ name' = [name EXCEPT ![t] = NoName]
    /\ inc' = [inc EXCEPT ![t] = 0]
    /\ FileLeft({t})
    /\ Gone({t})
    /\ UNCHANGED <<alive, slot, starts, busy>>

(* Mutant of RetiredSlot: the slot is overwritten whoever has it.          *)
RetiredSlotBlindly(p, n) == -n.gen

RetiredSlot(p, n) == IF slot[p][n.slot] = n.gen THEN -n.gen ELSE slot[p][n.slot]

(* retire, from the exit event and again from cleanup.                     *)
retire(p, n) ==
    /\ p \in alive
    /\ n \in ended[p]
    /\ slot' = [slot EXCEPT ![p][n.slot] = RetiredSlot(p, n)]
    /\ UNCHANGED <<alive, up, name, ended, inc, starts, file, caller, locks, busy>>

Retired(p) == \E n \in Names : slot[p][n.slot] = n.gen /\ retire(p, n)
RetiredAgain(p) == \E n \in Names : slot[p][n.slot] # n.gen /\ retire(p, n)

(* Mutant of HasExited: a slot that was reserved again is not recognised.  *)
HasExitedExactly(p, n) == n.gen > 0 /\ slot[p][n.slot] = -n.gen

HasExited(p, n) ==
    n.gen > 0 /\ (slot[p][n.slot] = -n.gen \/ Abs(slot[p][n.slot]) > n.gen)

(* A process is killed; somebody survives.                                 *)
crash(p) ==
    /\ p \in alive /\ alive # {p}
    /\ alive' = alive \ {p}
    /\ up' = {t \in up : ProcOf[t] # p}
    /\ FileLeft({t \in up : ProcOf[t] = p})
    /\ Gone({t \in Thread : ProcOf[t] = p})
    /\ UNCHANGED <<registry, busy>>

-----------------------------------------------------------------------------
(* acquireWorktreeLock                                                     *)

Step(c, from, to) == Runs(c) /\ pc[c] = from /\ pc' = [pc EXCEPT ![c] = to]

begin(c) ==
    /\ Step(c, "idle", "try")
    /\ UNCHANGED <<alive, up, registry, file, mine, seen, want, held, locks, busy>>

(* createLockFile                                                          *)
create(c) ==
    /\ Step(c, "try", "holding")
    /\ file.id = 0
    /\ locks < MaxLocks
    /\ locks' = locks + 1
    /\ file' = [id |-> locks + 1, blank |-> FALSE, released |-> FALSE, on |-> On[c],
                inc |-> inc[On[c]], name |-> name[On[c]], age |-> 0]
    /\ mine' = [mine EXCEPT ![c] = locks + 1]
    /\ held' = [held EXCEPT ![c] = 0]
    /\ UNCHANGED <<alive, up, registry, seen, want, busy>>

(* The file exists: its stat is taken.                                     *)
statLock(c) ==
    /\ Step(c, "try", "inspect")
    /\ file.id # 0
    /\ seen' = [seen EXCEPT ![c] = Stat(file)]
    /\ UNCHANGED <<alive, up, registry, file, mine, want, held, locks, busy>>

(* hasActiveWorktreeLockToken, asked on the thread that created the file.  *)
Active(id) == \E c \in Caller : pc[c] = "holding" /\ mine[c] = id

(* shouldReclaimParsedWorktreeLock, by a caller on thread t: the owner     *)
(* released the file, is gone, or is too old.                              *)
Reclaimable(t) ==
    LET p == ProcOf[file.on] IN
    \/ file.released
    \/ p \notin alive
    \/ /\ p \in alive /\ p = ProcOf[t]
       /\ \/ HasExited(p, file.name)
          \/ file.on = t /\ file.inc = inc[t] /\ ~Active(file.id) /\ file.age > Stale
    \/ /\ p \in alive /\ p # ProcOf[t]
       /\ file.age > Stale * Multiplier

(* The metadata is read, maybe of another file than the stat; a file       *)
(* without is judged by its age.                                           *)
decide(c) ==
    /\ Runs(c)
    /\ pc[c] = "inspect"
    /\ \E reclaim \in {IF file.id = 0 THEN FALSE
                       ELSE IF file.blank THEN seen[c] = Stat(file) /\ file.age > Stale
                       ELSE Reclaimable(On[c])} :
         /\ pc' = [pc EXCEPT ![c] = IF reclaim THEN "remove" ELSE "try"]
         /\ want' = [want EXCEPT ![c] = IF reclaim THEN file.id ELSE 0]
         /\ seen' = [seen EXCEPT ![c] = IF reclaim THEN @ ELSE Stat(NoFile)]
    /\ UNCHANGED <<alive, up, registry, file, mine, held, locks, busy>>

(* Mutant of Removable: whatever is there is removed.                      *)
RemovableAny(c) == file.id # 0

(* The token is the one decided about and the file the one looked at.      *)
Removable(c) == file.id # 0 /\ file.id = want[c] /\ Stat(file) = seen[c]

(* removeLockIfOwner by a waiter                                           *)
removeLockIfOwner(c) ==
    /\ Step(c, "remove", "try")
    /\ file' = IF Removable(c) THEN NoFile ELSE file
    /\ seen' = [seen EXCEPT ![c] = Stat(NoFile)]
    /\ want' = [want EXCEPT ![c] = 0]
    /\ UNCHANGED <<alive, up, registry, mine, held, locks, busy>>

(* The wait is over or aborted.                                            *)
giveUp(c) ==
    /\ Step(c, "try", "idle")
    /\ UNCHANGED <<alive, up, registry, file, mine, seen, want, held, locks, busy>>

-----------------------------------------------------------------------------
(* WorktreeLock.release                                                    *)

startRelease(c) ==
    /\ Step(c, "holding", "releasing")
    /\ held' = [held EXCEPT ![c] = 0]
    /\ UNCHANGED <<alive, up, registry, file, mine, seen, want, locks, busy>>

Forgotten(c) ==
    /\ Step(c, "releasing", "idle")
    /\ mine' = [mine EXCEPT ![c] = 0]
    /\ UNCHANGED <<alive, up, registry, seen, want, held, locks>>

removeOwn(c) ==
    /\ Forgotten(c)
    /\ file' = IF file.id = mine[c] THEN NoFile ELSE file
    /\ UNCHANGED busy

(* The removal fails five times: the file is marked, or that fails too.    *)
writeReleasedMarker(c) ==
    /\ Forgotten(c)
    /\ busy < MaxBusy
    /\ busy' = busy + 1
    /\ file' \in {file, IF file.id = mine[c] THEN [file EXCEPT !.released = TRUE] ELSE file}

-----------------------------------------------------------------------------
(* Time passes; nobody keeps the lock for longer than MaxHold.             *)
tick ==
    /\ \A c \in Caller : pc[c] = "holding" => held[c] < MaxHold
    /\ held' = [c \in Caller |-> IF pc[c] = "holding" THEN held[c] + 1 ELSE held[c]]
    /\ file' = [file EXCEPT !.age = IF file.id # 0 /\ @ < MaxAge THEN @ + 1 ELSE @]
    /\ UNCHANGED <<alive, up, registry, pc, mine, seen, want, locks, busy>>

Wait(c) == create(c) \/ statLock(c) \/ decide(c) \/ removeLockIfOwner(c)
Release(c) == removeOwn(c) \/ writeReleasedMarker(c)

Next ==
    \/ tick
    \/ \E t \in Worker : Started(t) \/ endThread(t)
    \/ \E p \in Proc : Retired(p) \/ RetiredAgain(p) \/ crash(p)
    \/ \E c \in Caller : begin(c) \/ Wait(c) \/ giveUp(c) \/ startRelease(c) \/ Release(c)

Spec == Init /\ [][Next]_vars

(* Time passes, exit events arrive, waiters poll and owners release.       *)
Fairness ==
    /\ WF_vars(tick)
    /\ \A p \in Proc : WF_vars(Retired(p))
    /\ \A c \in Caller : WF_vars(Wait(c)) /\ WF_vars(startRelease(c)) /\ WF_vars(Release(c))

FairSpec == Spec /\ Fairness

-----------------------------------------------------------------------------
(* Types; generations stay within the 32-bit range of the shared array.    *)
TypeOK ==
    /\ alive \subseteq Proc
    /\ slot \in [Proc -> [Slot -> (-MaxGen)..MaxGen]]
    /\ up \subseteq Thread
    /\ name \in [Thread -> Names \cup {NoName}]
    /\ ended \in [Proc -> SUBSET Names]
    /\ inc \in [Thread -> 0..MaxStarts]
    /\ file \in [id : 0..MaxLocks, blank : BOOLEAN, released : BOOLEAN, on : Thread,
                 inc : 0..MaxStarts, name : Names \cup {NoName}, age : 0..MaxAge]
    /\ pc \in [Caller -> {"idle", "try", "inspect", "remove", "holding", "releasing"}]
    /\ mine \in [Caller -> 0..MaxLocks]
    /\ seen \in [Caller -> (0..MaxLocks) \X BOOLEAN \X BOOLEAN]
    /\ want \in [Caller -> 0..MaxLocks]
    /\ held \in [Caller -> 0..MaxHold]
    /\ locks \in 0..MaxLocks /\ starts \in 0..MaxStarts /\ busy \in 0..MaxBusy

(* One caller at a time is between acquiring and releasing the worktree    *)
(* lock, over all threads and processes, crashes, reclaims decided on old  *)
(* readings and failed releases.                                           *)
HoldersApart ==
    \A c, d \in Caller : pc[c] = "holding" /\ pc[d] = "holding" => c = d

(* The registry never says of a running thread that it has exited,         *)
(* whatever threads had its slot before and however often they are retired *)
(* ("stale lock files cannot name a new owner").                           *)
RunningNotExited ==
    \A t \in up : ~HasExited(ProcOf[t], name[t])

(* The owner of the file is gone and can be told to be.                    *)
Orphan(i) ==
    /\ file.id = i
    /\ \/ file.blank
       \/ ProcOf[file.on] \notin alive
       \/ /\ file.name # NoName
          /\ file.on \notin up \/ inc[file.on] # file.inc

Waits(c) == pc[c] \in {"try", "inspect", "remove"}

(* A file left by a dead process, an ended thread, or one that ended while *)
(* creating it does not outlast a caller that keeps waiting.               *)
OrphanReclaimed ==
    \A i \in 1..MaxLocks, c \in Caller :
        (Orphan(i) /\ Waits(c)) ~> (file.id # i \/ ~Waits(c))

=============================================================================
