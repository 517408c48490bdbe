------------------------------ MODULE KeyedGate ------------------------------
(***************************************************************************)
(* KeyedAsyncGate with the AsyncWorkQueue it keeps per key, for one key, in *)
(* one event loop.  As in AssetGate, the queue of a key is dropped from the *)
(* map by a microtask once it looks idle, and the next call creates another.*)
(***************************************************************************)
EXTENDS Naturals, Sequences, FiniteSets

CONSTANTS
  Tasks,           \* calls of run, each made again after it ended
  NoWait,          \* those with waitMs = 0
  Queues,          \* identities of AsyncWorkQueue objects
  NoQueue,         \* no entry in the map
  MaxConcurrency

VARIABLES
  closed,     \* of the gate and of its queue: close sets both
  cur,        \* the queue in the map
  pending,    \* pending tasks of each queue
  inFlight,   \* its counter of running tasks
  st,         \* state of each call
  at,         \* the queue a call was made on
  cleanups    \* queues whose cleanup microtask is pending

vars == <<closed, cur, pending, inFlight, st, at, cleanups>>

Init ==
  /\ closed = FALSE
  /\ cur = NoQueue
  /\ pending = [q \in Queues |-> <<>>]
  /\ inFlight = [q \in Queues |-> 0]
  /\ st = [t \in Tasks |-> "idle"]
  /\ at = [t \in Tasks |-> NoQueue]
  /\ cleanups = {}

-----------------------------------------------------------------------------

Room(n) == IF n < MaxConcurrency THEN MaxConcurrency - n ELSE 0

Least(a, b) == IF a < b THEN a ELSE b
Count(p, n) == IF closed THEN 0 ELSE Least(Room(n), Len(p))

\* drain queue q, whose pending tasks are p and counter n, with calls in states s.
Drain(q, p, n, s) ==
  LET k == Count(p, n) IN
  /\ pending' = [pending EXCEPT ![q] = SubSeq(p, k + 1, Len(p))]
  /\ inFlight' = [inFlight EXCEPT ![q] = n + k]
  /\ st' = [t \in Tasks |-> IF \E i \in 1..k : p[i] = t THEN "running" ELSE s[t]]

\* cleanupQueueIfIdle, called by the release and cancel hooks before the drain.
IdleSeen(q, p, n) == IF p = <<>> /\ n = 0 THEN {q} ELSE {}

Fresh(q) == q # cur /\ q \notin cleanups /\ \A t \in Tasks : at[t] # q

QueueFor(q) == IF cur # NoQueue THEN q = cur ELSE q \in Queues /\ Fresh(q)

\* Mutant: the newest call is served first.
EnqueuedFirst(p, t) == <<t>> \o p

Enqueued(p, t) == Append(p, t)

\* run.  With waitMs = 0 a call that did not start at once is canceled.
run(t, q) ==
  LET refused == t \in NoWait /\ Count(Enqueued(pending[q], t), inFlight[q]) <= Len(pending[q]) IN
  /\ st[t] = "idle" /\ ~closed
  /\ QueueFor(q)
  /\ cur' = q
  /\ IF refused
     THEN /\ Drain(q, pending[q], inFlight[q], st)
          /\ cleanups' = cleanups \cup IdleSeen(q, pending[q], inFlight[q])
          /\ at' = at
     ELSE /\ Drain(q, Enqueued(pending[q], t), inFlight[q], [st EXCEPT ![t] = "pending"])
          /\ at' = [at EXCEPT ![t] = q]
          /\ UNCHANGED cleanups
  /\ UNCHANGED closed

\* The signal was aborted before the call: the queue exists, no task is added.
runAborted(t, q) ==
  /\ st[t] = "idle" /\ ~closed
  /\ QueueFor(q)
  /\ cur' = q
  /\ Drain(q, pending[q], inFlight[q], st)
  /\ cleanups' = cleanups \cup IdleSeen(q, pending[q], inFlight[q])
  /\ UNCHANGED <<closed, at>>

\* The callback ended: counter, release hook, drain, and only then the caller.
finish(t) ==
  LET q == at[t]
      n == inFlight[q] - 1
  IN /\ st[t] = "running"
     /\ at' = [at EXCEPT ![t] = NoQueue]
     /\ Drain(q, pending[q], n, [st EXCEPT ![t] = "idle"])
     /\ cleanups' = cleanups \cup IdleSeen(q, pending[q], n)
     /\ UNCHANGED <<closed, cur>>

\* The pending tasks without t, which is among them once.
Without(p, t) ==
  LET i == CHOOSE k \in DOMAIN p : p[k] = t
  IN  SubSeq(p, 1, i - 1) \o SubSeq(p, i + 1, Len(p))

\* Timeout or abort of a pending call.
cancelTask(t) ==
  LET q == at[t]
      p == Without(pending[q], t)
  IN /\ st[t] = "pending"
     /\ at' = [at EXCEPT ![t] = NoQueue]
     /\ Drain(q, p, inFlight[q], [st EXCEPT ![t] = "idle"])
     /\ cleanups' = cleanups \cup IdleSeen(q, p, inFlight[q])
     /\ UNCHANGED <<closed, cur>>

close ==
  LET canceled == {t \in Tasks : st[t] = "pending" /\ at[t] = cur} IN
  /\ ~closed
  /\ closed' = TRUE
  /\ st' = [t \in Tasks |-> IF t \in canceled THEN "idle" ELSE st[t]]
  /\ at' = [t \in Tasks |-> IF t \in canceled THEN NoQueue ELSE at[t]]
  /\ pending' = [q \in Queues |-> IF q = cur THEN <<>> ELSE pending[q]]
  /\ cleanups' = IF canceled = {} THEN cleanups ELSE cleanups \cup IdleSeen(cur, <<>>, inFlight[cur])
  /\ UNCHANGED <<cur, inFlight>>

\* The microtask of cleanupQueueIfIdle.
cleanup(q) ==
  /\ q \in cleanups
  /\ cleanups' = cleanups \ {q}
  /\ cur' = IF cur = q /\ inFlight[q] = 0 /\ pending[q] = <<>> THEN NoQueue ELSE cur
  /\ UNCHANGED <<closed, pending, inFlight, st, at>>

Next ==
  \/ \E t \in Tasks :
       \/ \E q \in Queues : run(t, q) \/ runAborted(t, q)
       \/ finish(t) \/ cancelTask(t)
  \/ \E q \in Queues : cleanup(q)
  \/ close

Spec == Init /\ [][Next]_vars

\* Callbacks end and microtasks run; nobody has to time out.
FairSpec ==
  /\ Spec
  /\ \A t \in Tasks : WF_vars(finish(t))
  /\ \A q \in Queues : WF_vars(cleanup(q))

-----------------------------------------------------------------------------
(* Properties.                                                             *)

Semaphore == INSTANCE FifoSemaphore
  WITH Callers <- Tasks, Max <- MaxConcurrency, open <- ~closed,
       running <- {t \in Tasks : st[t] = "running"},
       waiting <- IF cur = NoQueue THEN <<>> ELSE pending[cur]

\* However often the queue of the key is dropped and created again, and however
\* calls leave it, the gate is one FIFO semaphore: never more than
\* MaxConcurrency callbacks run, in arrival order, and nobody waits next to a
\* free slot.
QueueImplementsSemaphore == Semaphore!Spec

=============================================================================
