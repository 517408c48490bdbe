------------------------------ MODULE AssetGate ------------------------------
(***************************************************************************)
(* ProtectedAssetGate, the reader/writer gate in front of the databases and *)
(* the code index, with the release barriers AsyncResourceGate keeps on top *)
(* of it, for one key.  Everything runs in one event loop: an action is the *)
(* code between two yields, the drain that ends it included.                *)
(*                                                                          *)
(* The gate keeps a state object per key in a map and drops it, from a      *)
(* microtask, when it looks idle: a task holds the object it was enqueued   *)
(* on, which need not be the one in the map.                                *)
(***************************************************************************)
EXTENDS Integers, Sequences, FiniteSets

CONSTANTS
  Tasks,      \* calls of read and write, each made again after it ended
  Writers,    \* those of write ("blocking"); the others read
  Priority,   \* the priority option of each
  NoWait,     \* the calls with waitMs = 0
  Objs,       \* identities of state objects
  NoObj,      \* no entry in the map
  Waiters,    \* callers of waitForRelease
  Policy,     \* "read-priority", "fifo" or "writer-priority"
  Aging       \* PRIORITY_AGING_MS: a writer queued this long is not jumped

AssetConstantsOK ==
  /\ Writers \subseteq Tasks /\ NoWait \subseteq Tasks
  /\ Priority \in [Tasks -> Nat]
  /\ NoObj \notin Objs
  /\ Policy \in {"read-priority", "fifo", "writer-priority"}
  /\ Aging \in Nat

ASSUME AssetConstants == AssetConstantsOK

VARIABLES
  closed,    \* the gate refuses work
  cur,       \* the state object the map holds for the key
  queue,     \* queue of each state object
  st,        \* state of each call
  at,        \* the state object a call was enqueued on
  age,       \* how long a call has been queued, up to Aging
  cleanups,  \* state objects whose cleanup microtask is pending
  barrier,   \* writes whose release barrier is registered
  waitOn     \* the releases a waitForRelease call still waits for

gate == <<closed, cur, queue, st, at, age, cleanups>>
assetVars == <<closed, cur, queue, st, at, age, cleanups, barrier, waitOn>>

States == {"idle", "queued", "running", "refused"}

Running(o) == {t \in Tasks : st[t] = "running" /\ at[t] = o}

AssetInit ==
  /\ closed = FALSE
  /\ cur = NoObj
  /\ queue = [o \in Objs |-> <<>>]
  /\ st = [t \in Tasks |-> "idle"]
  /\ at = [t \in Tasks |-> NoObj]
  /\ age = [t \in Tasks |-> 0]
  /\ cleanups = {}
  /\ barrier = {}
  /\ waitOn = [w \in Waiters |-> {}]

-----------------------------------------------------------------------------
(* The queue.                                                              *)

InsertAt(q, i, t) == SubSeq(q, 1, i - 1) \o <<t>> \o SubSeq(q, i, Len(q))

\* Mutant: waiting does not protect a writer.
NoAging(t) == Priority[t] + 1

\* A writer of age Aging ranks above every priority; ranks are priorities + 1.
Rank(t) == IF age[t] >= Aging THEN 0 ELSE Priority[t] + 1

Outranks(t, u) == u \in Writers /\ Rank(u) # 0 /\ Rank(u) < Priority[t] + 1

\* The first position that satisfies a set of indices, or the end.
FirstOr(q, S) == IF S = {} THEN Len(q) + 1 ELSE CHOOSE i \in S : \A k \in S : i <= k

Position(q, t, writing) ==
  LET jumped == {i \in DOMAIN q : Outranks(t, q[i])}
      readers == {i \in DOMAIN q : q[i] \notin Writers}
      writers == {i \in DOMAIN q : q[i] \in Writers}
  IN CASE t \in Writers /\ Priority[t] > 0 -> FirstOr(q, jumped)
       [] t \in Writers /\ Priority[t] = 0 /\ Policy = "writer-priority" -> FirstOr(q, readers)
       [] t \notin Writers /\ Policy = "read-priority" /\ writing -> FirstOr(q, writers)
       [] OTHER -> Len(q) + 1

\* What drain starts: the readers at the head, or else a writer alone.
HeadReaders(q) == {q[i] : i \in {k \in DOMAIN q : \A m \in 1..k : q[m] \notin Writers}}
Startable(q, running) ==
  IF closed \/ running \cap Writers # {} \/ q = <<>> THEN {}
  ELSE IF q[1] \notin Writers THEN HeadReaders(q)
  ELSE IF running = {} THEN {q[1]} ELSE {}

\* drain, after a synchronous change left object o with queue q and the calls
\* s in progress; the other calls keep their state.
Drain(o, q, s) ==
  LET running == {t \in Tasks : s[t] = "running" /\ at'[t] = o}
      started == Startable(q, running)
      rest == SubSeq(q, Cardinality(started) + 1, Len(q))
  IN /\ st' = [t \in Tasks |-> IF t \in started THEN "running" ELSE s[t]]
     /\ queue' = [queue EXCEPT ![o] = rest]
     /\ age' = [t \in Tasks |-> IF st'[t] = "queued" THEN age[t] ELSE 0]
     /\ cleanups' = IF rest = <<>> /\ running \cup started = {}
                    THEN cleanups \cup {o} ELSE cleanups

\* The queue without t, which stands in it once.
Without(q, t) ==
  LET i == CHOOSE k \in DOMAIN q : q[k] = t
  IN  SubSeq(q, 1, i - 1) \o SubSeq(q, i + 1, Len(q))

-----------------------------------------------------------------------------
(* Barriers.                                                               *)

\* The registrations left after the calls T released theirs.
LeftAfter(T) == barrier \ T

releaseBarriers(T) ==
  /\ barrier' = LeftAfter(T)
  /\ waitOn' = [w \in Waiters |-> waitOn[w] \ T]

-----------------------------------------------------------------------------
(* Operations.                                                             *)

FreshObj(o) == o # cur /\ o \notin cleanups /\ \A t \in Tasks : at[t] # o

\* stateFor: the object in the map, or a new one.
StateFor(o) == IF cur # NoObj THEN o = cur ELSE o \in Objs /\ FreshObj(o)

Register(t) == barrier \cup ({t} \cap Writers)

\* read or write: insert and drain.  A call with waitMs = 0 that could not
\* start at once is canceled before the call returns.
enqueue(t, o) ==
  LET q == InsertAt(queue[o], Position(queue[o], t, Running(o) \cap Writers # {}), t) IN
  /\ st[t] = "idle" /\ t \notin barrier /\ ~closed
  /\ StateFor(o)
  /\ cur' = o
  /\ IF t \in NoWait /\ t \notin Startable(q, Running(o))
     THEN /\ at' = at
          /\ Drain(o, queue[o], st)
          /\ UNCHANGED <<barrier, waitOn>>
     ELSE /\ at' = [at EXCEPT ![t] = o]
          /\ Drain(o, q, [st EXCEPT ![t] = "queued"])
          /\ barrier' = Register(t)
          /\ UNCHANGED waitOn
  /\ UNCHANGED closed

\* The signal of the call was aborted already: nothing is inserted, but the
\* object is created and drained.
enqueueAborted(t, o) ==
  /\ st[t] = "idle" /\ t \notin barrier /\ ~closed
  /\ StateFor(o)
  /\ cur' = o
  /\ at' = at
  /\ Drain(o, queue[o], st)
  /\ UNCHANGED <<closed, barrier, waitOn>>

\* A closed gate rejects before there is a waiter: the barrier that write has
\* registered is left to the rejection handler.
enqueueClosed(t) ==
  /\ st[t] = "idle" /\ t \notin barrier /\ closed
  /\ st' = [st EXCEPT ![t] = "refused"]
  /\ barrier' = Register(t)
  /\ UNCHANGED <<closed, cur, queue, at, age, cleanups, waitOn>>

\* The catch of write: "final safety net for every rejected enqueue path".
settle(t) ==
  /\ st[t] = "refused"
  /\ st' = [st EXCEPT ![t] = "idle"]
  /\ releaseBarriers({t})
  /\ UNCHANGED <<closed, cur, queue, at, age, cleanups>>

\* The callback and onBeforeRelease have ended, in whichever way.
finish(t) ==
  /\ st[t] = "running"
  /\ at' = [at EXCEPT ![t] = NoObj]
  /\ Drain(at[t], queue[at[t]], [st EXCEPT ![t] = "idle"])
  /\ releaseBarriers({t})
  /\ UNCHANGED <<closed, cur>>

\* Timeout or abort of a queued call.
cancelWaiter(t) ==
  /\ st[t] = "queued"
  /\ at' = [at EXCEPT ![t] = NoObj]
  /\ Drain(at[t], Without(queue[at[t]], t), [st EXCEPT ![t] = "idle"])
  /\ releaseBarriers({t})
  /\ UNCHANGED <<closed, cur>>

closeWith(canceled, idle) ==
  /\ ~closed
  /\ closed' = TRUE
  /\ st' = [t \in Tasks |-> IF t \in canceled THEN "idle" ELSE st[t]]
  /\ at' = [t \in Tasks |-> IF t \in canceled THEN NoObj ELSE at[t]]
  /\ age' = [t \in Tasks |-> IF t \in canceled THEN 0 ELSE age[t]]
  /\ queue' = [o \in Objs |-> IF o = cur THEN <<>> ELSE queue[o]]
  /\ cleanups' = cleanups \cup idle
  /\ releaseBarriers(canceled)
  /\ UNCHANGED cur

\* close cancels what is queued on the object of the map; running calls end by
\* themselves.
close ==
  LET canceled == {t \in Tasks : st[t] = "queued" /\ at[t] = cur} IN
  closeWith(canceled, IF canceled # {} /\ Running(cur) = {} THEN {cur} ELSE {})

\* Mutant: the microtask trusts what the drain saw.
cleanupState(o) ==
  /\ o \in cleanups
  /\ cleanups' = cleanups \ {o}
  /\ cur' = IF cur = o THEN NoObj ELSE cur
  /\ UNCHANGED <<closed, queue, st, at, age, barrier, waitOn>>

\* The microtask of cleanupState looks again.
cleanup(o) ==
  /\ o \in cleanups
  /\ cleanups' = cleanups \ {o}
  /\ cur' = IF cur = o /\ queue[o] = <<>> /\ Running(o) = {} THEN NoObj ELSE cur
  /\ UNCHANGED <<closed, queue, st, at, age, barrier, waitOn>>

\* waitForRelease resolves at once, or when every release registered now has
\* come; its timeout only rejects the caller's promise.
waitForRelease(w) ==
  /\ waitOn[w] = {} /\ barrier # {}
  /\ waitOn' = [waitOn EXCEPT ![w] = barrier]
  /\ UNCHANGED <<gate, barrier>>

growOlder ==
  /\ \E t \in Tasks : st[t] = "queued" /\ age[t] < Aging
  /\ age' = [t \in Tasks |-> IF st[t] = "queued" /\ age[t] < Aging THEN age[t] + 1 ELSE age[t]]
  /\ UNCHANGED <<closed, cur, queue, st, at, cleanups, barrier, waitOn>>

AssetNext ==
  \/ \E t \in Tasks :
       \/ \E o \in Objs : enqueue(t, o) \/ enqueueAborted(t, o)
       \/ enqueueClosed(t) \/ settle(t) \/ finish(t) \/ cancelWaiter(t)
  \/ \E o \in Objs : cleanup(o)
  \/ \E w \in Waiters : waitForRelease(w)
  \/ close \/ growOlder

AssetSpec == AssetInit /\ [][AssetNext]_assetVars

\* Callbacks end, microtasks and rejection handlers run, time passes.  Nobody
\* has to time out or be aborted, and callers may come back for ever.
AssetFairness ==
  /\ \A t \in Tasks : WF_assetVars(finish(t)) /\ WF_assetVars(settle(t))
  /\ \A o \in Objs : WF_assetVars(cleanup(o))
  /\ WF_assetVars(growOlder)

AssetFairSpec == AssetSpec /\ AssetFairness

-----------------------------------------------------------------------------
(* Properties.                                                             *)

\* The gate's purpose, over the calls themselves and not over the counters of
\* one state object: while a write runs, nothing else runs, even if the map
\* dropped and recreated the state of the key in between.
WritersExclusive ==
  \A t, u \in Tasks :
    st[t] = "running" /\ st[u] = "running" /\ t \in Writers => t = u

\* Every queued call is started, canceled or rejected in the end, although other
\* callers come back for ever with a higher priority (policy "fifo").
EventuallyServed == \A t \in Tasks : st[t] = "queued" ~> st[t] # "queued"

=============================================================================
