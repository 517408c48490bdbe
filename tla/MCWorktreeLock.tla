----------------------------- MODULE MCWorktreeLock -----------------------------
(* WorktreeLock for TLC: a process with a main and a worker thread, and    *)
(* another one.                                                            *)
(*                                                                         *)
(* Two instances share the run: releases that may find the database busy,  *)
(* in the variables of WorktreeLock, whose safety is checked; and, in a    *)
(* copy of them, releases that get through, whose waiters make progress.   *)
(* `part` is chosen at the start and says which of the two moves.          *)
EXTENDS WorktreeLock, TLC

ThreadProcs == "mainP" :> "P" @@ "workP" :> "P" @@ "mainQ" :> "Q"
CallerThreads == "a" :> "mainP" @@ "b" :> "workP" @@ "c" :> "mainQ"

VARIABLES part, wAlive, wSlot, wUp, wName, wEnded, wInc, wFile, wPc,
    wMine, wSeen, wWant, wHeld, wLocks, wStarts, wBusy

waitVars == <<wAlive, wSlot, wUp, wName, wEnded, wInc, wFile, wPc,
              wMine, wSeen, wWant, wHeld, wLocks, wStarts, wBusy>>

Waiting == INSTANCE WorktreeLock WITH
    MaxBusy <- 0, MaxHold <- 1, MaxLocks <- 1, MaxStarts <- 2,
    alive <- wAlive, slot <- wSlot, up <- wUp, name <- wName, ended <- wEnded,
    inc <- wInc, file <- wFile, pc <- wPc, mine <- wMine, seen <- wSeen,
    want <- wWant, held <- wHeld, locks <- wLocks, starts <- wStarts, busy <- wBusy

MCInit == part \in {"busy", "waiting"} /\ Init /\ Waiting!Init

Waited(A) == part = "waiting" /\ A /\ UNCHANGED <<part, vars>>

MCNext ==
    \/ part = "busy" /\ Next /\ UNCHANGED <<part, waitVars>>
    \/ Waited(Waiting!Next)

allVars == <<part, vars, waitVars>>

(* Fairness of WorktreeLock, for the instance whose progress is checked.   *)
MCFairness ==
    /\ WF_allVars(Waited(Waiting!tick))
    /\ \A p \in Proc : WF_allVars(Waited(Waiting!Retired(p)))
    /\ \A c \in Caller : /\ WF_allVars(Waited(Waiting!Wait(c)))
                         /\ WF_allVars(Waited(Waiting!startRelease(c)))
                         /\ WF_allVars(Waited(Waiting!Release(c)))

MCSpec == MCInit /\ [][MCNext]_allVars /\ MCFairness

(* OrphanReclaimed when releases get through to the database.              *)
WaitedOrphanReclaimed == part = "waiting" => Waiting!OrphanReclaimed
=============================================================================
