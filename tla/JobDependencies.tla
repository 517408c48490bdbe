--------------------------- MODULE JobDependencies ---------------------------
(***************************************************************************)
(* The graph of job dependencies: edges added by planners, rewired when a   *)
(* job fails and another takes its place, and the cascade that cancels the  *)
(* jobs whose hard dependencies can no longer succeed.                      *)
(*                                                                          *)
(* An edge <<j, d>> says that j waits for d.  A status stands for a group   *)
(* of the code's: "active" is leased, running or parked, "failed" is failed *)
(* or dead_letter.  The handlers run in the scheduler's event loop: between *)
(* two synchronous steps of one of them (mid # NoJob) only other processes  *)
(* and a crash can intervene.                                               *)
(***************************************************************************)
EXTENDS Naturals, FiniteSets

CONSTANTS
  Jobs,         \* ids, handed out in any order
  NoJob,
  WorkItems,    \* the sets of jobs cancelDeadlockedJobsAtomic may be limited to
  MaxEdits,     \* bound on the edges added and removed by callers
  MaxSpawn,     \* bound on the replacements a verdict spawns
  MaxCrashes,   \* bound on the crashes of the scheduler's process
  HandlerCrash  \* whether the process may die between two steps of a handler

ASSUME DependencyConstants ==
  /\ NoJob \notin Jobs
  /\ WorkItems \subseteq SUBSET Jobs
  /\ MaxEdits \in Nat /\ MaxSpawn \in Nat /\ MaxCrashes \in Nat
  /\ HandlerCrash \in BOOLEAN

VARIABLES
  status,    \* of each job, "absent" before its creation
  hard,      \* edges of dependency_kind hard
  soft,      \* edges of dependency_kind soft
  picked,    \* runnable jobs of the scheduler's last scan
  orig,      \* the job a recovery gate was spawned for, or a retry replaces
  gate,      \* what kind of recovery gate a job is
  mid,       \* the job whose handler is between two steps
  edits,     \* number of edits so far
  stale,     \* whether an edit came after the last scan
  crashes    \* number of crashes so far

graph == <<hard, soft>>
gates == <<orig, gate>>
counts == <<edits, stale, crashes>>
vars == <<status, graph, picked, gates, mid, counts>>

Statuses == {"absent", "queued", "active", "succeeded", "failed", "canceled"}
Kinds == {"hard", "soft"}
GateKinds == {"none", "deadLetter", "blocked"}
Edges == Jobs \X Jobs

TypeOK ==
  /\ status \in [Jobs -> Statuses]
  /\ hard \subseteq Edges /\ soft \subseteq Edges
  /\ hard \cap soft = {}
  /\ \A e \in hard \cup soft : status[e[1]] # "absent" /\ status[e[2]] # "absent"
  /\ picked \subseteq Jobs
  /\ orig \in [Jobs -> Jobs \cup {NoJob}]
  /\ gate \in [Jobs -> GateKinds]
  /\ mid \in Jobs \cup {NoJob}
  /\ edits \in 0..MaxEdits /\ stale \in BOOLEAN /\ crashes \in 0..MaxCrashes

Init ==
  /\ status = [j \in Jobs |-> "absent"]
  /\ hard = {} /\ soft = {}
  /\ picked = {}
  /\ orig = [j \in Jobs |-> NoJob]
  /\ gate = [j \in Jobs |-> "none"]
  /\ mid = NoJob
  /\ edits = 0 /\ stale = FALSE /\ crashes = 0

-----------------------------------------------------------------------------
(* The graph.                                                              *)

With(s) == {j \in Jobs : status[j] = s}
Exists(j) == status[j] # "absent"
Fresh == With("absent")
Dead == With("failed") \cup With("canceled")
Graph == hard \cup soft
From(E, a) == {b \in Jobs : <<a, b>> \in E}
Only(cond, x) == IF cond THEN {x} ELSE {}

Closed(E, S) == \A e \in E : e[1] \in S => e[2] \in S

\* dep_chain, the recursive query: what a waits for, directly or not.
Chain(E, a) ==
  LET direct == From(E, a)
      closed == {S \in SUBSET Jobs : direct \subseteq S /\ Closed(E, S)}
  IN {b \in Jobs : \A S \in closed : b \in S}

\* Whether an edge from j to d would close a cycle.
Cycle(E, j, d) == j = d \/ j \in Chain(E, d)

Dependents(d) == {j \in Jobs : <<j, d>> \in Graph}
HardDependents(d) == {j \in Jobs : <<j, d>> \in hard}

\* The edges D are deleted and the others inserted: an edge that is there already
\* only changes from soft to hard.
Insert(D, newHard, newSoft) ==
  /\ hard' = (hard \ D) \cup newHard
  /\ soft' = ((soft \ D) \cup newSoft) \ hard'

\* Mutant: only a self-dependency is refused.
AcceptedOthers(j, R) == R \ {j}

\* rewireDependency and rewireDependencyChain of all jobs in S from job old to
\* the jobs R, those of H with hard edges, and extra hard edges, in one
\* transaction: each keeps its edge if it can get none of R.
\* R is one job or S is one job or R is new, so the order does not matter.
Accepted(j, R) == {r \in R : ~Cycle(Graph, j, r)}
Rewirable(S, R) == {j \in S : Accepted(j, R) # {}}
Rewire(S, old, R, H, extra) ==
  LET moved == Rewirable(S, R)
      new == {x \in moved \X R : x[2] \in Accepted(x[1], R)}
  IN Insert(moved \X {old}, {x \in new : x[1] \in H} \cup extra, {x \in new : x[1] \notin H})

-----------------------------------------------------------------------------
(* Callers of the queue: planners, operators, other processes.              *)

\* (The last id is kept for the gate a handler is about to create.)
createJob(j) ==
  /\ j \in Fresh /\ (mid = NoJob \/ Cardinality(Fresh) > 1)
  /\ status' = [status EXCEPT ![j] = "queued"]
  /\ UNCHANGED <<graph, picked, gates, mid, counts>>

Edit ==
  /\ edits' = edits + 1
  /\ stale' = (picked # {})
  /\ UNCHANGED <<status, picked, gates, mid, crashes>>

addDependency(j, d, kind) ==
  /\ edits < MaxEdits /\ Exists(j) /\ Exists(d)
  /\ ~Cycle(Graph, j, d)
  /\ Insert({}, Only(kind = "hard", <<j, d>>), Only(kind = "soft", <<j, d>>))
  /\ Edit

removeDependency(j, d) ==
  /\ edits < MaxEdits /\ <<j, d>> \in Graph
  /\ hard' = hard \ {<<j, d>>} /\ soft' = soft \ {<<j, d>>}
  /\ Edit

\* A rewire by a caller: rewireDependencyChain of one job (a held database task,
\* an operator's repair).
rewireDependencyChain(j, old, R, kind) ==
  /\ edits < MaxEdits /\ <<j, old>> \in Graph /\ R \subseteq {d \in Jobs : Exists(d)}
  /\ Accepted(j, R) # {}
  /\ Rewire({j}, old, R, Only(kind = "hard", j), {})
  /\ Edit

-----------------------------------------------------------------------------
(* The scheduler's lap.                                                     *)

\* Mutant: a dependency that ended in any way is taken for satisfied.
RunnableSettled ==
  {j \in With("queued") :
     \A d \in From(Graph, j) : status[d] \in {"succeeded", "failed", "canceled"}}

Runnable ==
  {j \in With("queued") :
     /\ \A d \in From(hard, j) : status[d] = "succeeded"
     /\ \A d \in From(soft, j) : status[d] \in {"succeeded", "failed", "canceled"}}

scan ==
  /\ mid = NoJob
  /\ picked' = Runnable
  /\ stale' = FALSE
  /\ UNCHANGED <<status, graph, gates, mid, edits, crashes>>

\* acquireLease looks at the status again, not at the dependencies.
lease(j) ==
  /\ mid = NoJob /\ j \in picked /\ status[j] = "queued"
  /\ status' = [status EXCEPT ![j] = "active"]
  /\ picked' = picked \ {j}
  /\ UNCHANGED <<graph, gates, mid, counts>>

\* Mutant: a canceled dependency is not counted as dead.
DeadlockedByFailure(W, C) ==
  {j \in W \cap (With("queued") \ C) : \E d \in From(hard, j) : status[d] = "failed"}

\* findDeadlockedJobs, limited to W and with the jobs C canceled already.
Deadlocked(W, C) ==
  {j \in W \cap (With("queued") \ C) : \E d \in From(hard, j) : d \in Dead \cup C}

\* Mutant: one pass over the jobs.
OnePass(W) == Deadlocked(W, {})

\* The passes of cancelDeadlockedJobsAtomic.
CanceledBy(W) ==
  LET pass[n \in 0..Cardinality(Jobs)] ==
        IF n = 0 THEN {} ELSE LET gone == pass[n - 1] IN gone \cup Deadlocked(W, gone)
  IN pass[Cardinality(Jobs)]

cancelDeadlockedJobs(W) ==
  LET gone == CanceledBy(W) IN
  /\ mid = NoJob /\ gone # {}
  /\ status' = [j \in Jobs |-> IF j \in gone /\ status[j] = "queued" THEN "canceled" ELSE status[j]]
  /\ UNCHANGED <<graph, picked, gates, mid, counts>>

-----------------------------------------------------------------------------
(* What becomes of an active job.                                           *)

Active(j) == mid = NoJob /\ status[j] = "active"
ActiveTask(j) == Active(j) /\ gate[j] = "none"

NewGate(g, j, kind) ==
  /\ g \in Fresh
  /\ orig' = [orig EXCEPT ![g] = j]
  /\ gate' = [gate EXCEPT ![g] = kind]

succeed(j) ==
  /\ ActiveTask(j)
  /\ status' = [status EXCEPT ![j] = "succeeded"]
  /\ UNCHANGED <<graph, picked, gates, mid, counts>>

\* A gate whose answer is not actionable, or a job that fails for good.
fail(j) ==
  /\ Active(j)
  /\ status' = [status EXCEPT ![j] = "failed"]
  /\ UNCHANGED <<graph, picked, gates, mid, counts>>

\* The failure verdict, one transaction: the job fails, jobs R are spawned in its
\* place, perhaps behind gates G, and its dependents are rewired to R.
failVerdict(j, R, G) ==
  /\ ActiveTask(j)
  /\ R # {} /\ R \cup G \subseteq Fresh /\ R \cap G = {}
  /\ Cardinality(R \cup G) <= MaxSpawn
  /\ status' = [i \in Jobs |-> IF i = j THEN "failed"
                               ELSE IF i \in R \cup G THEN "queued" ELSE status[i]]
  /\ Rewire(Dependents(j), j, R, HardDependents(j), R \X G)
  /\ UNCHANGED <<picked, gates, mid, counts>>

\* Dead letter: a recovery gate g is spawned and the dependents rewired to it
\* (and only then does the lease end as dead_letter).
spawnDeadLetterRecovery(j, g) ==
  /\ ActiveTask(j) /\ Dependents(j) # {}
  /\ NewGate(g, j, "deadLetter")
  /\ status' = [status EXCEPT ![g] = "queued"]
  /\ Rewire(Dependents(j), j, {g}, HardDependents(j), {})
  /\ mid' = j
  /\ UNCHANGED <<picked, counts>>

releaseDeadLetter(j) ==
  /\ mid = j /\ status[j] = "active" /\ gate[j] = "none"
  /\ status' = [status EXCEPT ![j] = "failed"]
  /\ mid' = NoJob
  /\ UNCHANGED <<graph, picked, gates, counts>>

\* Blocked for the third time, one transaction: the job is dead-lettered and its
\* dependents wait for the gate, as hard dependents whatever they were.
parkBlockedRecoveryGate(j, g) ==
  /\ ActiveTask(j)
  /\ NewGate(g, j, "blocked")
  /\ status' = [status EXCEPT ![j] = "failed", ![g] = "queued"]
  /\ Rewire(Dependents(j), j, {g}, Jobs, {})
  /\ UNCHANGED <<picked, mid, counts>>

\* The older branch for the same case: first dead_letter, then the gate.
blockedRelease(j) ==
  /\ ActiveTask(j) /\ Dependents(j) # {} /\ Fresh # {}
  /\ status' = [status EXCEPT ![j] = "failed"]
  /\ mid' = j
  /\ UNCHANGED <<graph, picked, gates, counts>>

blockedRewire(j, g) ==
  /\ mid = j /\ status[j] = "failed"
  /\ NewGate(g, j, "blocked")
  /\ status' = [status EXCEPT ![g] = "queued"]
  /\ Rewire(Dependents(j), j, {g}, HardDependents(j), {})
  /\ mid' = NoJob
  /\ UNCHANGED <<picked, counts>>

-----------------------------------------------------------------------------
(* Answers to a recovery gate g.                                            *)

ActiveGate(g, kind) == Active(g) /\ gate[g] = kind

\* The dead-lettered job and those it is a retry of.
Lineage(o) ==
  {o} \cup Chain({<<a, orig[a]>> : a \in {i \in Jobs : gate[i] = "none" /\ orig[i] # NoJob}}, o)

\* Retry of a dead-lettered job: a copy n with its dependencies takes its place.
deadLetterRetry(g, n) ==
  LET o == orig[g]
      needs(E) == {d \in Jobs : \E a \in Lineage(o) : <<a, d>> \in E}
      moved == {i \in Dependents(g) : \A d \in needs(Graph) : ~Cycle(Graph, i, d)}
      movedHard == moved \cap HardDependents(g)
  IN /\ ActiveGate(g, "deadLetter") /\ n \in Fresh
     /\ status' = [status EXCEPT ![n] = "queued", ![g] = "succeeded",
                                 ![o] = IF @ = "failed" THEN "canceled" ELSE @]
     /\ Insert(moved \X {g}, (movedHard \X {n}) \cup ({n} \X needs(hard)),
               ((moved \ movedHard) \X {n}) \cup ({n} \X needs(soft)))
     /\ orig' = [orig EXCEPT ![n] = o]
     /\ UNCHANGED <<picked, gate, mid, counts>>

\* Skip, or the waiver of a blocked job: its dependents wait for the gate only.
settleOriginal(g, s) ==
  /\ ActiveGate(g, "blocked") \/ (ActiveGate(g, "deadLetter") /\ s = "canceled")
  /\ status' = [status EXCEPT ![g] = "succeeded", ![orig[g]] = s]
  /\ UNCHANGED <<graph, picked, gates, mid, counts>>

\* Failure of a dead-lettered job: the gate ends like after any other answer.
confirmFailure(g) ==
  /\ ActiveGate(g, "deadLetter")
  /\ status' = [status EXCEPT ![g] = "succeeded"]
  /\ UNCHANGED <<graph, picked, gates, mid, counts>>

\* Retry or failure of a blocked job: its dependents come back to it, then it is
\* requeued or failed.
restoreGateDependentsToOriginal(g) ==
  /\ ActiveGate(g, "blocked")
  /\ Rewire(Dependents(g), g, {orig[g]}, HardDependents(g), {})
  /\ mid' = g
  /\ UNCHANGED <<status, picked, gates, counts>>

setOriginal(g, s) ==
  /\ mid = g /\ gate[g] = "blocked"
  /\ status' = [status EXCEPT ![orig[g]] = s, ![g] = "succeeded"]
  /\ mid' = NoJob
  /\ UNCHANGED <<graph, picked, gates, counts>>

-----------------------------------------------------------------------------
\* The process dies; recovery requeues the jobs it had leased.
crash ==
  /\ crashes < MaxCrashes /\ (mid # NoJob => HandlerCrash)
  /\ With("active") # {} \/ mid # NoJob
  /\ status' = [j \in Jobs |-> IF status[j] = "active" THEN "queued" ELSE status[j]]
  /\ mid' = NoJob
  /\ picked' = {}
  /\ crashes' = crashes + 1
  /\ UNCHANGED <<graph, gates, edits, stale>>

Caller ==
  \/ \E j \in Jobs : createJob(j)
  \/ \E j, d \in Jobs, k \in Kinds : addDependency(j, d, k)
  \/ \E x \in Graph :
       \/ removeDependency(x[1], x[2])
       \/ \E R \in SUBSET Jobs, k \in Kinds : rewireDependencyChain(x[1], x[2], R, k)

Lap == scan \/ (\E j \in Jobs : lease(j)) \/ \E W \in WorkItems : cancelDeadlockedJobs(W)

Outcome(j) ==
  \/ succeed(j) \/ fail(j) \/ blockedRelease(j)
  \/ confirmFailure(j) \/ restoreGateDependentsToOriginal(j)
  \/ \E s \in {"canceled", "succeeded"} : settleOriginal(j, s)
  \/ \E R \in SUBSET Fresh : \E G \in SUBSET (Fresh \ R) : failVerdict(j, R, G)
  \/ \E g \in Fresh :
       spawnDeadLetterRecovery(j, g) \/ parkBlockedRecoveryGate(j, g) \/ deadLetterRetry(j, g)

Continue(j) ==
  \/ releaseDeadLetter(j)
  \/ \E s \in {"queued", "failed"} : setOriginal(j, s)
  \/ \E g \in Fresh : blockedRewire(j, g)

Next == Caller \/ Lap \/ crash \/ \E j \in Jobs : Outcome(j) \/ Continue(j)

Spec == Init /\ [][Next]_vars

\* The scheduler laps, jobs end (people answer their gates), handlers finish.
FairSpec ==
  /\ Spec
  /\ WF_vars(scan)
  /\ WF_vars(cancelDeadlockedJobs(Jobs))
  /\ \A j \in Jobs : WF_vars(lease(j)) /\ WF_vars(Outcome(j)) /\ WF_vars(Continue(j))

-----------------------------------------------------------------------------
(* Properties.                                                             *)

\* No sequence of additions, rewires and replacements by several assessors,
\* planners and operators closes a cycle: every set of jobs has one that waits
\* for none of the others.  (The jobs on a cycle would wait for ever.)
Acyclic == \A S \in SUBSET Jobs : S # {} => \E j \in S : From(Graph, j) \cap S = {}

\* rewireDependency checks for a cycle before it removes the old edge.  "The old
\* edge can't produce a false positive": the check has the same outcome without it.
OldEdgeIrrelevant ==
  \A e \in Graph, d \in Jobs : Cycle(Graph, e[1], d) <=> Cycle(Graph \ {e}, e[1], d)

\* The jobs that can never run: queued, in W, with a hard dependency that is dead
\* or can never run.
Doomed(W) ==
  {j \in Jobs : \A S \in SUBSET Jobs :
     (\A i \in W \cap With("queued") : From(hard, i) \cap (Dead \cup S) # {} => i \in S) => j \in S}

\* The cascade cancels exactly the jobs that can never run, however long the chain.
CascadeExact ==
  [][\A W \in WorkItems : cancelDeadlockedJobs(W) =>
       {j \in Jobs : status'[j] = "canceled" /\ status[j] # "canceled"} = Doomed(W)]_vars

\* Every queued job is leased or canceled in the end.
EventuallySettled == \A j \in Jobs : status[j] = "queued" ~> status[j] # "queued"

\* Between two edits by callers, no outcome of another job makes a dependency of
\* a job that was found runnable unsatisfied: a job is leased only when all its
\* hard dependencies have succeeded.
LeasedWhenReady ==
  [][\A j \in Jobs : lease(j) /\ ~stale =>
       \A i \in From(hard, j) : status[i] = "succeeded"]_vars
=============================================================================
