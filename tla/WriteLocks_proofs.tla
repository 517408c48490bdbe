--------------------------- MODULE WriteLocks_proofs ---------------------------
(***************************************************************************)
(* For any jobs, scopes, repair lineages and bounds, no two executing jobs *)
(* of a work item hold a common path, and the guard of the file tools      *)
(* admits no write into the paths of another one.  The proof needs two     *)
(* strengthenings: findOrdinaryWriteLockConflict exempts the ancestors of  *)
(* a job, which is sound because a repair exists only once the job it      *)
(* repairs is terminal; and the guard believes lock rows, which is sound   *)
(* because they never cover more than the lock derived from the payload.   *)
(***************************************************************************)
EXTENDS WriteLocks, TLAPS

(* A job that exists has only terminal ancestors.                          *)
BornAfterParent ==
    \A j \in Job : status[j] # "absent" =>
        \A k \in Ancestors[j] : status[k] \in Terminal

(* The lock rows of a job stay within what it would lock if executed.      *)
RowsBacked ==
    \A j \in Job : rows[j] \subseteq WriteScope(scope[j], status[j], assessOnly[j])

(* A worker that lost its lease had a job.                                 *)
ZombieHasJob == \A j \in Job : zombie[j] => status[j] # "absent"

IInv == TypeOK /\ BornAfterParent /\ LocksDisjoint /\ RowsBacked /\ ZombieHasJob

-----------------------------------------------------------------------------
(* A parent in the work item is an ancestor.                               *)
LEMMA ParentIsAncestor ==
    ASSUME NEW c \in Job, Parent[c] \in Job
    PROVE  Parent[c] \in Ancestors[c]
BY DEF Ancestors

(* The other ancestors of a job are those of its parent.                   *)
LEMMA AncestorsOfChild ==
    ASSUME NEW c \in Job, NEW j \in Job, Parent[c] = j,
           NEW k \in Ancestors[c], k # j
    PROVE  k \in Ancestors[j]
<1>1. k \in Job
  BY DEF Ancestors
<1>2. SUFFICES ASSUME NEW S \in SUBSET (Job \cup {Plan}),
                      Parent[j] \in S,
                      \A a \in S \cap Job : Parent[a] \in S
               PROVE  k \in S
  BY <1>1 DEF Ancestors
<1> DEFINE T == S \cup {j}
<1>3. T \in SUBSET (Job \cup {Plan})
  OBVIOUS
<1>4. Parent[c] \in T /\ \A a \in T \cap Job : Parent[a] \in T
  BY <1>2
<1>5. \A U \in SUBSET (Job \cup {Plan}) :
        (Parent[c] \in U /\ \A a \in U \cap Job : Parent[a] \in U) => k \in U
  BY DEF Ancestors
<1>6. k \in T
  <2> HIDE DEF T
  <2> QED BY <1>3, <1>4, <1>5
<1> QED BY <1>6

(* Jobs that wait behind j and are exempted for it are queued.             *)
LEMMA DependentsAreQueued ==
    ASSUME NEW j \in Job, NEW k \in QueuedDependents(j)
    PROVE  status[k] = "queued"
<1> DEFINE Q == {d \in Job \ {j} : status[d] = "queued"}
<1>1. Q \in SUBSET Job
  OBVIOUS
<1>2. \A d \in Job \ {j} : (status[d] = "queued" /\ deps[d] \cap (Q \cup {j}) # {}) => d \in Q
  OBVIOUS
<1>3. \A S \in SUBSET Job :
        (\A d \in Job \ {j} : (status[d] = "queued" /\ deps[d] \cap (S \cup {j}) # {})
                                 => d \in S) => k \in S
  BY DEF QueuedDependents
<1>4. k \in Q
  <2> HIDE DEF Q
  <2> QED BY <1>1, <1>2, <1>3
<1> QED BY <1>4

(* An executing job holds its whole scope.                                 *)
LEMMA ActiveHolds ==
    ASSUME NEW j \in Job, NEW s, NEW st \in Active, NEW ao \in BOOLEAN, NEW n \in Nat
    PROVE  Held(j, s, st, ao, n) = WriteScope(s, st, ao)
BY DEF Held, IsActiveLock

(* What a job writes in is a set of paths, and not empty.                  *)
LEMMA ScopeNotEmpty ==
    ASSUME NEW s \in (SUBSET Path) \ {{}}, NEW st, NEW ao
    PROVE  WriteScope(s, st, ao) # {} /\ WriteScope(s, st, ao) \in SUBSET Path
BY DEF WriteScope

(* What anybody is taken to hold is a set of paths.                        *)
LEMMA HeldType ==
    ASSUME NEW j \in Job, NEW s \in SUBSET Path, NEW st, NEW ao, NEW n
    PROVE  /\ Held(j, s, st, ao, n) \in SUBSET Path
           /\ IndexHeld(j, s, st, ao, n) \in SUBSET Path
BY DEF Held, IndexHeld, WriteScope

(* What a wake, heard or lost, leaves in the cache.                        *)
LEMMA ReconciledType ==
    ASSUME NEW j \in Job, NEW s \in SUBSET Path, NEW st, NEW ao, NEW n,
           index \in [Job -> SUBSET Path], Reconciled(j, s, st, ao, n)
    PROVE  index' \in [Job -> SUBSET Path]
BY HeldType DEF Reconciled

(* What an expansion leaves in the payload and the rows.                   *)
LEMMA WidenedType ==
    ASSUME TypeOK, NEW j \in Job, NEW paths \in SUBSET Path
    PROVE  /\ widenedScope(j, paths) \in [Job -> (SUBSET Path) \ {{}}]
           /\ widenedScope(j, paths)[j] \in SUBSET Path
           /\ additionalRows(j, paths) \in [Job -> SUBSET Path]
<1>1. scope[j] \cup paths \in (SUBSET Path) \ {{}}
  BY DEF TypeOK
<1>2. widenedScope(j, paths) \in [Job -> (SUBSET Path) \ {{}}]
  BY <1>1 DEF TypeOK, widenedScope
<1>3. rows[j] \cup paths \in SUBSET Path
  BY DEF TypeOK
<1>4. additionalRows(j, paths) \in [Job -> SUBSET Path]
  BY <1>3 DEF TypeOK, additionalRows
<1> QED BY <1>2, <1>4

-----------------------------------------------------------------------------
(* The status part of a step: terminal jobs stay terminal.                 *)
LEMMA SettleEffect ==
    ASSUME TypeOK, NEW j \in Job, NEW st \in Status, NEW ao \in BOOLEAN,
           NEW n \in Nat, Settle(j, st, ao, n)
    PROVE  /\ status' \in [Job -> Status]
           /\ assessOnly' \in [Job -> BOOLEAN]
           /\ attempts' \in [Job -> Nat]
           /\ rows' \in [Job -> SUBSET Path]
           /\ index' \in [Job -> SUBSET Path]
<1>1. status' \in [Job -> Status]
  BY DEF Settle, TypeOK
<1>2. assessOnly' \in [Job -> BOOLEAN]
  BY Zenon DEF Settle, TypeOK
<1>3. attempts' \in [Job -> Nat]
  BY DEF Settle, TypeOK
<1>4. rows' \in [Job -> SUBSET Path]
  BY DEF Settle, TypeOK
<1>5. index' \in [Job -> SUBSET Path]
  BY ReconciledType DEF Settle, TypeOK
<1> QED BY <1>1, <1>2, <1>3, <1>4, <1>5

(* Type correctness is inductive by itself.                                *)
LEMMA TypeStep ==
    ASSUME TypeOK, Next
    PROVE  TypeOK'
<1> USE DEF TypeOK, scopeVars
<1> SUFFICES ASSUME NEW j \in Job,
                    \/ acquireLeaseWithWriteLocks(j)
                    \/ leaseRefused(j)
                    \/ Worker(j)
                    \/ \E p \in Path : toolWrite(j, p) \/ toolWriteRefused(j, p)
                    \/ \E p \in Path : requestJobScopeExpansion(j, p)
                    \/ parkForScope(j)
                    \/ approveScope(j) \/ denyScope(j)
                    \/ resume(j)
                    \/ sweep(j)
                    \/ shutdownRequeue(j)
                    \/ releaseJobFileLocks(j)
                    \/ zombieStops(j)
                    \/ cancelDeadlocked(j)
                    \/ refreshFromDb
                    \/ UNCHANGED vars
             PROVE  TypeOK'
  <2>1. CASE refreshFromDb
    BY <2>1, HeldType DEF refreshFromDb, JobLocks, scopeVars
  <2>2. CASE sleepUntilWake
    BY <2>2 DEF sleepUntilWake, vars, scopeVars
  <2> QED BY <2>1, <2>2 DEF Next
<1>1. CASE acquireLeaseWithWriteLocks(j)
  <2>1. MyScope(j) \in SUBSET Path
    BY ScopeNotEmpty DEF MyScope
  <2>2. status' \in [Job -> Status]
    BY <1>1 DEF acquireLeaseWithWriteLocks, Status, Active
  <2>3. rows' \in [Job -> SUBSET Path] /\ index' \in [Job -> SUBSET Path]
    BY <1>1, <2>1 DEF acquireLeaseWithWriteLocks
  <2> QED BY <1>1, <2>2, <2>3 DEF acquireLeaseWithWriteLocks
<1>2. CASE leaseRefused(j)
  <2>1. rows' \in [Job -> SUBSET Path]
    BY <1>2 DEF leaseRefused, cleanupStaleFileLocks
  <2> QED BY <1>2, <2>1 DEF leaseRefused
<1>3. CASE Worker(j)
  <2>0. attempts[j] \in Nat /\ assessOnly[j] \in BOOLEAN
    OBVIOUS
  <2>1. CASE startRunning(j)
    <3>1. status' \in [Job -> Status]
      BY <2>1 DEF startRunning, Status, Active
    <3>2. attempts' \in [Job -> Nat]
      BY <2>1 DEF startRunning
    <3>3. index' \in [Job -> SUBSET Path]
      BY <2>1, ReconciledType DEF startRunning
    <3> QED BY <2>1, <3>1, <3>2, <3>3 DEF startRunning
  <2>2. CASE acquireAssessmentBarrier(j)
    <3>1. CASE LiveSiblings(j) = {}
      <4>1. status' \in [Job -> Status]
        BY <2>2, <3>1 DEF acquireAssessmentBarrier, Status, Active
      <4>2. assessOnly' \in [Job -> BOOLEAN]
        BY <2>2, <3>1, Zenon DEF acquireAssessmentBarrier
      <4>3. rows' \in [Job -> SUBSET Path] /\ attempts' = attempts
        BY <2>2, <3>1 DEF acquireAssessmentBarrier
      <4>4. index' \in [Job -> SUBSET Path]
        BY <2>2, <3>1, ReconciledType DEF acquireAssessmentBarrier
      <4> QED BY <2>2, <4>1, <4>2, <4>3, <4>4 DEF acquireAssessmentBarrier
    <3>2. CASE LiveSiblings(j) # {}
      <4>1. Settle(j, "queued", TRUE, attempts[j])
        BY <2>2, <3>2 DEF acquireAssessmentBarrier
      <4>2. "queued" \in Status
        BY DEF Status
      <4> QED BY <2>0, <2>2, <4>1, <4>2, SettleEffect DEF acquireAssessmentBarrier
    <3> QED BY <3>1, <3>2
  <2>3. CASE verdictPass(j)
    <3>1. "succeeded" \in Status
      BY DEF Status, Terminal
    <3> QED BY <2>0, <2>3, <3>1, SettleEffect DEF verdictPass
  <2>4. CASE verdictFail(j)
    <3>1. status' \in [Job -> Status]
      BY <2>4 DEF verdictFail, Status, Terminal
    <3>2. rows' \in [Job -> SUBSET Path]
      BY <2>4 DEF verdictFail
    <3>3. deps' \in [Job -> SUBSET Job]
      BY <2>4 DEF verdictFail, Children
    <3>4. index' \in [Job -> SUBSET Path]
      <4>1. \A k \in Job : IndexHeld(k, scope[k], status'[k], FALSE, attempts[k]) \in SUBSET Path
        BY HeldType
      <4>2. PICK heard \in BOOLEAN :
              index' = IF heard THEN [k \in Job |->
                                        IF k \in Children(j) \cup {j}
                                        THEN IndexHeld(k, scope[k], status'[k], FALSE, attempts[k])
                                        ELSE index[k]]
                       ELSE index
        BY <2>4 DEF verdictFail
      <4>3. CASE heard = TRUE
        BY <4>1, <4>2, <4>3
      <4>4. CASE heard = FALSE
        BY <4>2, <4>4
      <4> QED BY <4>3, <4>4
    <3> QED BY <2>4, <3>1, <3>2, <3>3, <3>4 DEF verdictFail
  <2>5. CASE assessmentFails(j)
    <3>1. "queued" \in Status /\ "parked" \in Status
      BY DEF Status
    <3>2. Settle(j, "queued", TRUE, attempts[j]) \/ Settle(j, "parked", TRUE, attempts[j])
      BY <2>5 DEF assessmentFails
    <3>3. assessed' \in [Job -> Nat]
      <4>1. CASE assessed[j] < MaxAssess
        BY <2>5, <4>1 DEF assessmentFails
      <4>2. CASE ~(assessed[j] < MaxAssess)
        BY <2>5, <4>2 DEF assessmentFails
      <4> QED BY <4>1, <4>2
    <3>4. parks' = parks \/ parks' = parks + 1
      BY <2>5 DEF assessmentFails
    <3>5. parks' \in Nat
      BY <3>4
    <3> QED BY <2>0, <2>5, <3>1, <3>2, <3>3, <3>5, SettleEffect DEF assessmentFails
  <2>6. CASE retryOrFail(j)
    <3>1. "queued" \in Status /\ "failed" \in Status
      BY DEF Status, Terminal
    <3>2. Settle(j, "queued", FALSE, attempts[j]) \/ Settle(j, "failed", FALSE, attempts[j])
      BY <2>6 DEF retryOrFail
    <3> QED BY <2>0, <2>6, <3>1, <3>2, SettleEffect DEF retryOrFail
  <2>7. CASE park(j)
    <3>1. "parked" \in Status
      BY DEF Status
    <3>2. parks' = parks + 1 /\ Settle(j, "parked", FALSE, attempts[j])
      BY <2>7 DEF park
    <3>3. parks' \in Nat
      BY <3>2
    <3> QED BY <2>0, <2>7, <3>1, <3>2, <3>3, SettleEffect DEF park
  <2> QED BY <1>3, <2>1, <2>2, <2>3, <2>4, <2>5, <2>6, <2>7 DEF Worker
<1>4. CASE \E p \in Path : toolWrite(j, p) \/ toolWriteRefused(j, p)
  <2>0. PICK p \in Path : toolWrite(j, p) \/ toolWriteRefused(j, p)
    BY <1>4
  <2>2. CASE toolWrite(j, p)
    BY <2>0, <2>2 DEF toolWrite
  <2>3. CASE toolWriteRefused(j, p)
    <3>1. rows' \in [Job -> SUBSET Path]
      BY <2>3 DEF toolWriteRefused, cleanupStaleFileLocks
    <3> QED BY <2>3, <3>1 DEF toolWriteRefused
  <2> QED BY <2>0, <2>2, <2>3
<1>12. CASE \E p \in Path : requestJobScopeExpansion(j, p)
  <2>0. PICK p \in Path : requestJobScopeExpansion(j, p)
    BY <1>12
  <2>1. expansions' \in Nat
    BY <2>0 DEF requestJobScopeExpansion
  <2>2. CASE asked' = asked
    <3>1. CASE scope' = widenedScope(j, {p}) /\ rows' = additionalRows(j, {p})
               /\ Reconciled(j, scope'[j], status[j], assessOnly[j], attempts[j])
      <4>1. scope' \in [Job -> (SUBSET Path) \ {{}}] /\ rows' \in [Job -> SUBSET Path]
        BY <2>0, <3>1, WidenedType
      <4>2. index' \in [Job -> SUBSET Path]
        BY <3>1, <4>1, ReconciledType
      <4> QED BY <2>0, <2>1, <2>2, <4>1, <4>2 DEF requestJobScopeExpansion
    <3>2. CASE UNCHANGED <<rows, scope, index>>
      BY <2>0, <2>1, <2>2, <3>2 DEF requestJobScopeExpansion
    <3> QED BY <2>0, <3>1, <3>2 DEF requestJobScopeExpansion
  <2>3. CASE asked' = [asked EXCEPT ![j] = @ \cup {p}] /\ UNCHANGED <<rows, scope, index>>
    <3>1. asked' \in [Job -> SUBSET Path]
      BY <2>3
    <3> QED BY <2>0, <2>1, <2>3, <3>1 DEF requestJobScopeExpansion
  <2> QED BY <2>0, <2>2, <2>3 DEF requestJobScopeExpansion
<1>13. CASE parkForScope(j)
  <2> DEFINE n == IF attempts[j] > 0 THEN attempts[j] - 1 ELSE 0
  <2>1. "parked" \in Status
    BY DEF Status
  <2>2. n \in Nat
    OBVIOUS
  <2>3. Settle(j, "parked", FALSE, n)
    BY <1>13 DEF parkForScope
  <2> HIDE DEF n
  <2> QED BY <1>13, <2>1, <2>2, <2>3, SettleEffect DEF parkForScope
<1>14. CASE approveScope(j)
  <2>1. asked[j] \in SUBSET Path
    OBVIOUS
  <2>2. scope' \in [Job -> (SUBSET Path) \ {{}}] /\ rows' \in [Job -> SUBSET Path]
    BY <1>14, <2>1, WidenedType DEF approveScope
  <2>3. asked' \in [Job -> SUBSET Path]
    BY <1>14 DEF approveScope
  <2>4. status' \in [Job -> Status]
    BY <1>14 DEF approveScope, Status
  <2>5. index' \in [Job -> SUBSET Path]
    BY <1>14, <2>2, ReconciledType DEF approveScope
  <2> QED BY <1>14, <2>2, <2>3, <2>4, <2>5 DEF approveScope
<1>15. CASE denyScope(j)
  <2>1. asked' \in [Job -> SUBSET Path]
    BY <1>15 DEF denyScope
  <2>2. status' \in [Job -> Status]
    BY <1>15 DEF denyScope, Status, Terminal
  <2>3. index' \in [Job -> SUBSET Path]
    BY <1>15, ReconciledType DEF denyScope
  <2> QED BY <1>15, <2>1, <2>2, <2>3 DEF denyScope
<1>5. CASE resume(j)
  BY <1>5 DEF resume, Status
<1>6. CASE sweep(j) \/ shutdownRequeue(j)
  <2>0. Requeued(j)
    BY <1>6 DEF sweep, shutdownRequeue
  <2>1. status' \in [Job -> Status]
    BY <2>0 DEF Requeued, Status
  <2>2. assessOnly' \in [Job -> BOOLEAN]
    BY <2>0, Zenon DEF Requeued
  <2>3. attempts' \in [Job -> Nat]
    BY <2>0 DEF Requeued
  <2>4. CASE sweep(j)
    <3>1. index' \in [Job -> SUBSET Path]
      <4>1. \A k \in Job :
              Held(k, scope[k], status'[k], assessOnly'[k], attempts'[k]) \in SUBSET Path
        BY HeldType
      <4>2. Refreshed(status', assessOnly', attempts') \in [Job -> SUBSET Path]
        BY <4>1 DEF Refreshed
      <4> QED BY <2>4, <4>2 DEF sweep
    <3>2. zombie' \in [Job -> BOOLEAN]
      BY <2>4, Zenon DEF sweep
    <3>3. rows' \in [Job -> SUBSET Path] /\ sweeps' \in Nat
      BY <2>4 DEF sweep
    <3> QED BY <2>1, <2>2, <2>3, <2>4, <3>1, <3>2, <3>3 DEF sweep
  <2>5. CASE shutdownRequeue(j)
    <3>1. index' \in [Job -> SUBSET Path]
      BY <2>5, ReconciledType DEF shutdownRequeue
    <3> QED BY <2>1, <2>2, <2>3, <2>5, <3>1 DEF shutdownRequeue
  <2> QED BY <1>6, <2>4, <2>5
<1>7. CASE releaseJobFileLocks(j)
  BY <1>7 DEF releaseJobFileLocks
<1>8. CASE zombieStops(j)
  <2>1. zombie' \in [Job -> BOOLEAN]
    BY <1>8, Zenon DEF zombieStops
  <2> QED BY <1>8, <2>1 DEF zombieStops
<1>9. CASE cancelDeadlocked(j)
  <2>1. "failed" \in Status /\ attempts[j] \in Nat /\ assessOnly[j] \in BOOLEAN
    BY DEF Status, Terminal
  <2> QED BY <1>9, <2>1, SettleEffect DEF cancelDeadlocked
<1>10. CASE refreshFromDb
  BY <1>10, HeldType DEF refreshFromDb, JobLocks
<1>11. CASE UNCHANGED vars
  BY <1>11 DEF vars
<1> QED BY <1>1, <1>2, <1>3, <1>4, <1>5, <1>6, <1>7, <1>8, <1>9, <1>10, <1>11, <1>12,
           <1>13, <1>14, <1>15

-----------------------------------------------------------------------------
(* What a job that is executed would lock, in terms of its row.            *)
Locks(j) == WriteScope(scope[j], status[j], assessOnly[j])

Same == status' = status /\ assessOnly' = assessOnly /\ scope' = scope

Starts(j) ==
    /\ status[j] = "queued"
    /\ Conflicts(j, Locks(j), JobLocks) = {}
    /\ status' = [status EXCEPT ![j] = "leased"]
    /\ assessOnly' = assessOnly
    /\ scope' = scope

Runs(j) ==
    /\ status[j] = "leased"
    /\ status' = [status EXCEPT ![j] = "running"]
    /\ assessOnly' = assessOnly
    /\ scope' = scope

Assesses(j) ==
    /\ status[j] = "running"
    /\ LiveSiblings(j) = {}
    /\ status' = [status EXCEPT ![j] = "awaiting"]
    /\ \A k \in Job \ {j} : assessOnly'[k] = assessOnly[k]
    /\ scope' = scope

Stops(j) ==
    /\ status[j] \in Active \cup {"queued", "parked"}
    /\ status'[j] \in Terminal \cup {"queued", "parked"}
    /\ \A k \in Job \ {j} : status'[k] = status[k] /\ assessOnly'[k] = assessOnly[k]
    /\ scope' = scope

Repairs(j) ==
    /\ status[j] = "awaiting"
    /\ status' = [k \in Job |-> IF k = j THEN "failed"
                                ELSE IF k \in Children(j) THEN "queued" ELSE status[k]]
    /\ assessOnly' = assessOnly
    /\ scope' = scope

Expands(j) ==
    /\ status[j] \in Active
    /\ status' = status
    /\ assessOnly' = assessOnly
    /\ \E paths \in SUBSET Path :
         /\ Conflicts(j, paths, JobLocks) = {}
         /\ scope' = [scope EXCEPT ![j] = @ \cup paths]

Defers(j) ==
    /\ status[j] \notin Active
    /\ status'[j] = status[j] \/ (status[j] = "parked" /\ status'[j] \in {"queued", "failed"})
    /\ assessOnly' = assessOnly
    /\ \A k \in Job \ {j} : status'[k] = status[k] /\ scope'[k] = scope[k]

(* What a settled job's row becomes.                                       *)
LEMMA SettleStops ==
    ASSUME TypeOK, NEW j \in Job, NEW st \in Terminal \cup {"queued", "parked"},
           NEW ao, NEW n, Settle(j, st, ao, n), scope' = scope,
           status[j] \in Active \cup {"queued", "parked"}
    PROVE  Stops(j)
<1>1. status'[j] = st /\ \A k \in Job \ {j} : status'[k] = status[k]
  BY DEF Settle, TypeOK
<1>2. \A k \in Job \ {j} : assessOnly'[k] = assessOnly[k]
  BY Zenon DEF Settle, TypeOK
<1> QED BY <1>1, <1>2 DEF Stops

(* The ways a step changes the rows the locks are derived from.            *)
LEMMA StepKinds ==
    ASSUME TypeOK, Next
    PROVE  \/ Same
           \/ \E j \in Job : \/ Starts(j) \/ Runs(j) \/ Assesses(j) \/ Stops(j) \/ Repairs(j)
                             \/ Expands(j) \/ Defers(j)
<1> USE DEF scopeVars
<1>1. CASE refreshFromDb \/ sleepUntilWake
  BY <1>1 DEF refreshFromDb, sleepUntilWake, vars, Same
<1>2. ASSUME NEW j \in Job, acquireLeaseWithWriteLocks(j)
      PROVE  Starts(j)
  BY <1>2 DEF acquireLeaseWithWriteLocks, Candidate, leaseGranted, MyScope, Locks, Starts
<1>3. ASSUME NEW j \in Job,
             \/ leaseRefused(j)
             \/ \E p \in Path : toolWrite(j, p) \/ toolWriteRefused(j, p)
             \/ releaseJobFileLocks(j)
             \/ zombieStops(j)
      PROVE  Same
  BY <1>3 DEF leaseRefused, toolWrite, toolWriteRefused, releaseJobFileLocks, zombieStops, Same
<1>4. ASSUME NEW j \in Job, startRunning(j)
      PROVE  Runs(j)
  BY <1>4 DEF startRunning, Runs
<1>5. ASSUME NEW j \in Job, acquireAssessmentBarrier(j)
      PROVE  Assesses(j) \/ Stops(j)
  <2>1. CASE LiveSiblings(j) = {}
    <3>1. \A k \in Job \ {j} : assessOnly'[k] = assessOnly[k]
      BY <1>5, <2>1, Zenon DEF acquireAssessmentBarrier, TypeOK
    <3> QED BY <1>5, <2>1, <3>1 DEF acquireAssessmentBarrier, Assesses
  <2>2. CASE LiveSiblings(j) # {}
    <3>1. Settle(j, "queued", TRUE, attempts[j]) /\ status[j] = "running" /\ scope' = scope
      BY <1>5, <2>2 DEF acquireAssessmentBarrier
    <3> QED BY <3>1, SettleStops DEF Active
  <2> QED BY <2>1, <2>2
<1>6. ASSUME NEW j \in Job,
             \/ verdictPass(j)
             \/ assessmentFails(j)
             \/ retryOrFail(j)
             \/ park(j)
             \/ cancelDeadlocked(j)
      PROVE  Stops(j)
  <2>1. PICK st \in Terminal \cup {"queued", "parked"}, ao \in {TRUE, FALSE, assessOnly[j]} :
          Settle(j, st, ao, attempts[j])
    BY <1>6 DEF verdictPass, assessmentFails, retryOrFail, park, cancelDeadlocked, Terminal
  <2>2. status[j] \in Active \cup {"queued", "parked"} /\ scope' = scope
    BY <1>6 DEF verdictPass, assessmentFails, retryOrFail, park, cancelDeadlocked, Active
  <2> QED BY <2>1, <2>2, SettleStops
<1>7. ASSUME NEW j \in Job, verdictFail(j)
      PROVE  Repairs(j)
  BY <1>7 DEF verdictFail, Repairs
<1>8. ASSUME NEW j \in Job, resume(j)
      PROVE  Stops(j)
  BY <1>8 DEF resume, Stops, TypeOK
<1>9. ASSUME NEW j \in Job, sweep(j) \/ shutdownRequeue(j)
      PROVE  Stops(j)
  <2>1. Requeued(j) /\ status[j] \in Active /\ scope' = scope
    BY <1>9 DEF sweep, shutdownRequeue
  <2>2. status'[j] = "queued" /\ \A k \in Job \ {j} : status'[k] = status[k]
    BY <2>1 DEF Requeued, TypeOK
  <2>3. \A k \in Job \ {j} : assessOnly'[k] = assessOnly[k]
    BY <2>1, Zenon DEF Requeued, TypeOK
  <2> QED BY <2>1, <2>2, <2>3 DEF Stops
<1>10. ASSUME NEW j \in Job, NEW p \in Path, requestJobScopeExpansion(j, p)
       PROVE  Same \/ Expands(j) \/ Defers(j)
  <2>1. CASE scope' = scope
    BY <1>10, <2>1 DEF requestJobScopeExpansion, Same
  <2>2. CASE scope' = widenedScope(j, {p}) /\ additionalPathsFree(j, {p})
    <3>1. CASE status[j] \in Active
      BY <1>10, <2>2, <3>1 DEF requestJobScopeExpansion, Expands, widenedScope,
                               additionalPathsFree
    <3>2. CASE status[j] \notin Active
      <4>1. \A k \in Job \ {j} : scope'[k] = scope[k]
        BY <2>2 DEF widenedScope, TypeOK
      <4> QED BY <1>10, <3>2, <4>1 DEF requestJobScopeExpansion, Defers
    <3> QED BY <3>1, <3>2
  <2> QED BY <1>10, <2>1, <2>2 DEF requestJobScopeExpansion
<1>11. ASSUME NEW j \in Job, parkForScope(j)
       PROVE  Stops(j)
  <2>1. PICK n : Settle(j, "parked", FALSE, n)
    BY <1>11 DEF parkForScope
  <2>2. status[j] \in Active /\ scope' = scope
    BY <1>11 DEF parkForScope, Implements, Active
  <2> QED BY <2>1, <2>2, SettleStops
<1>12. ASSUME NEW j \in Job, approveScope(j)
       PROVE  Expands(j) \/ Defers(j)
  <2>1. CASE status[j] \in Active
    <3>1. status' = status
      BY <1>12, <2>1 DEF approveScope, TypeOK, Active
    <3>2. asked[j] \in SUBSET Path
      BY DEF TypeOK
    <3> QED BY <1>12, <2>1, <3>1, <3>2 DEF approveScope, Expands, widenedScope,
                                           additionalPathsFree
  <2>2. CASE status[j] \notin Active
    <3>1. \A k \in Job \ {j} : scope'[k] = scope[k] /\ status'[k] = status[k]
      BY <1>12 DEF approveScope, widenedScope, TypeOK
    <3>2. status'[j] = IF status[j] = "parked" THEN "queued" ELSE status[j]
      BY <1>12 DEF approveScope, TypeOK
    <3> QED BY <1>12, <2>2, <3>1, <3>2 DEF approveScope, Defers
  <2> QED BY <2>1, <2>2
<1>13. ASSUME NEW j \in Job, denyScope(j)
       PROVE  Same \/ Defers(j)
  <2>1. CASE status[j] \in Active
    BY <1>13, <2>1 DEF denyScope, TypeOK, Active, Same
  <2>2. CASE status[j] \notin Active
    <3>1. /\ status'[j] = IF status[j] = "parked" THEN "failed" ELSE status[j]
          /\ \A k \in Job \ {j} : status'[k] = status[k]
      BY <1>13 DEF denyScope, TypeOK
    <3> QED BY <1>13, <2>2, <3>1 DEF denyScope, Defers
  <2> QED BY <2>1, <2>2
<1> QED BY <1>1, <1>2, <1>3, <1>4, <1>5, <1>6, <1>7, <1>8, <1>9, <1>10, <1>11, <1>12, <1>13
        DEF Next, Worker

-----------------------------------------------------------------------------
(* A job that is being assessed has no repairs yet.                        *)
LEMMA NoRepairsYet ==
    ASSUME TypeOK, BornAfterParent, NEW j \in Job, status[j] \notin Terminal,
           NEW k \in Children(j)
    PROVE  status[k] = "absent"
<1>1. k \in Job /\ Parent[k] = j
  BY DEF Children
<1>2. j \in Ancestors[k]
  BY <1>1, ParentIsAncestor
<1> QED BY <1>1, <1>2 DEF BornAfterParent

(* A job is created only after its ancestors ended, and they stay ended.   *)
LEMMA BornStep ==
    ASSUME TypeOK, BornAfterParent, Next
    PROVE  BornAfterParent'
<1> SUFFICES ASSUME NEW c \in Job, status'[c] # "absent",
                    NEW k \in Ancestors[c]
             PROVE  status'[k] \in Terminal
  BY DEF BornAfterParent, Ancestors
<1>0. k \in Job
  BY DEF Ancestors
<1>1. CASE Same
  BY <1>1 DEF Same, BornAfterParent
<1>2. ASSUME NEW j \in Job, Starts(j) \/ Runs(j) \/ Assesses(j) \/ Stops(j)
      PROVE  status'[k] \in Terminal
  <2>1. /\ \A i \in Job \ {j} : status'[i] = status[i]
        /\ status[j] # "absent" /\ status[j] \notin Terminal
    BY <1>2 DEF Starts, Runs, Assesses, Stops, TypeOK, Active, Terminal
  <2>2. status[c] # "absent"
    BY <2>1
  <2>3. status[k] \in Terminal
    BY <2>2 DEF BornAfterParent
  <2> QED BY <1>0, <2>1, <2>3
<1>3. ASSUME NEW j \in Job, Repairs(j)
      PROVE  status'[k] \in Terminal
  <2>1. status[j] \notin Terminal /\ status[j] # "absent"
    BY <1>3 DEF Repairs, Terminal
  <2>2. \A i \in Children(j) : status[i] = "absent"
    BY <2>1, NoRepairsYet
  <2>3. k = j \/ status[k] \in Terminal
    <3>1. CASE status[c] # "absent"
      BY <3>1 DEF BornAfterParent
    <3>2. CASE status[c] = "absent"
      <4>1. c \in Children(j)
        BY <1>3, <2>1, <3>2 DEF Repairs, TypeOK
      <4>2. Parent[c] = j
        BY <4>1 DEF Children
      <4>3. k = j \/ k \in Ancestors[j]
        BY <4>2, AncestorsOfChild
      <4> QED BY <2>1, <4>3 DEF BornAfterParent
    <3> QED BY <3>1, <3>2
  <2>4. k # j => k \notin Children(j)
    BY <2>2, <2>3 DEF Terminal
  <2> QED BY <1>0, <1>3, <2>3, <2>4 DEF Repairs, Terminal
<1>4. CASE \E j \in Job : Expands(j)
  BY <1>4 DEF Expands, BornAfterParent
<1>5. ASSUME NEW j \in Job, Defers(j)
      PROVE  status'[k] \in Terminal
  <2>1. status[c] # "absent"
    BY <1>5 DEF Defers
  <2>2. status[k] \in Terminal
    BY <2>1 DEF BornAfterParent
  <2> QED BY <1>0, <1>5, <2>2 DEF Defers, Terminal
<1> QED BY <1>1, <1>2, <1>3, <1>4, <1>5, StepKinds

(* The locks of executing jobs, read off their rows.                       *)
LEMMA LocksOfActive ==
    ASSUME TypeOK, NEW j \in Job, status[j] \in Active
    PROVE  JobLocks[j] = Locks(j) /\ Locks(j) # {}
<1>1. Held(j, scope[j], status[j], assessOnly[j], attempts[j]) = Locks(j)
  BY ActiveHolds DEF TypeOK, Locks
<1>2. scope[j] \in (SUBSET Path) \ {{}}
  BY DEF TypeOK
<1> QED BY <1>1, <1>2, ScopeNotEmpty DEF JobLocks, Locks

(* Nobody who is exempt from the conflicts of a job is being executed.     *)
LEMMA ExemptAreIdle ==
    ASSUME BornAfterParent, NEW j \in Job, status[j] # "absent", NEW k \in Allowed(j)
    PROVE  status[k] \notin Active
<1>1. k \in Ancestors[j] => status[k] \notin Active
  BY DEF BornAfterParent, Active, Terminal
<1>2. k \in QueuedCohort(j) => status[k] \notin Active
  BY DEF QueuedCohort, Active
<1>3. k \in QueuedDependents(j) => status[k] \notin Active
  BY DependentsAreQueued DEF Active
<1> QED BY <1>1, <1>2, <1>3 DEF Allowed

(* Paths that are free of conflicts are apart from all executing jobs.     *)
LEMMA FreeIsApart ==
    ASSUME TypeOK, BornAfterParent, NEW j \in Job, status[j] # "absent",
           NEW paths, Conflicts(j, paths, JobLocks) = {},
           NEW k \in Job \ {j}, status[k] \in Active
    PROVE  Locks(k) \cap paths = {}
<1>1. k \notin Allowed(j)
  BY ExemptAreIdle
<1>2. JobLocks[k] \cap paths = {}
  BY <1>1 DEF Conflicts
<1> QED BY <1>2, LocksOfActive

(* A job enters assessment only while no other job is executed.            *)
LEMMA AssessesAlone ==
    ASSUME TypeOK, NEW j \in Job, Assesses(j), NEW k \in Job \ {j}
    PROVE  status[k] \notin Active
<1> SUFFICES ASSUME status[k] \in Active
             PROVE  FALSE
  OBVIOUS
<1>1. JobLocks[k] # {}
  BY LocksOfActive
<1> QED BY <1>1 DEF Assesses, LiveSiblings, Active

(* Executing jobs stay apart in every step.                                *)
LEMMA DisjointStep ==
    ASSUME IInv, Next
    PROVE  LocksDisjoint'
<1> USE DEF IInv
<1>0. TypeOK'
  BY TypeStep
<1> SUFFICES ASSUME NEW a \in Job, NEW b \in Job, a # b,
                    status'[a] \in Active, status'[b] \in Active
             PROVE  JobLocks'[a] \cap JobLocks'[b] = {}
  BY DEF LocksDisjoint
<1>1. JobLocks'[a] = Locks(a)' /\ JobLocks'[b] = Locks(b)'
  <2>1. /\ Held(a, scope'[a], status'[a], assessOnly'[a], attempts'[a]) = Locks(a)'
        /\ Held(b, scope'[b], status'[b], assessOnly'[b], attempts'[b]) = Locks(b)'
    BY <1>0, ActiveHolds DEF TypeOK, Locks
  <2> QED BY <2>1 DEF JobLocks
<1>2. SUFFICES Locks(a)' \cap Locks(b)' = {}
  BY <1>1
<1>3. \A i, k \in Job : i # k /\ status[i] \in Active /\ status[k] \in Active
        => Locks(i) \cap Locks(k) = {}
  BY LocksOfActive DEF LocksDisjoint
<1>4. CASE Same
  BY <1>3, <1>4 DEF Same, Locks
<1>5. ASSUME NEW j \in Job, Starts(j)
      PROVE  Locks(a)' \cap Locks(b)' = {}
  <2>1. \A k \in Job \ {j} : status'[k] = status[k] /\ Locks(k)' = Locks(k)
    BY <1>5 DEF Starts, Locks, TypeOK
  <2>2. Locks(j)' = Locks(j)
    BY <1>5 DEF Starts, Locks, WriteScope, NeedsBarrier, TypeOK
  <2>3. \A k \in Job \ {j} : status[k] \in Active => Locks(k) \cap Locks(j) = {}
    <3>1. status[j] # "absent" /\ Conflicts(j, Locks(j), JobLocks) = {}
      BY <1>5 DEF Starts
    <3> QED BY <3>1, FreeIsApart
  <2> QED BY <1>3, <2>1, <2>2, <2>3
<1>6. ASSUME NEW j \in Job, Runs(j)
      PROVE  Locks(a)' \cap Locks(b)' = {}
  <2>1. \A k \in Job \ {j} : status'[k] = status[k] /\ Locks(k)' = Locks(k)
    BY <1>6 DEF Runs, Locks, TypeOK
  <2>2. Locks(j)' = Locks(j) /\ status[j] \in Active
    BY <1>6 DEF Runs, Locks, WriteScope, NeedsBarrier, TypeOK, Active
  <2> QED BY <1>3, <2>1, <2>2
<1>7. ASSUME NEW j \in Job, Assesses(j)
      PROVE  Locks(a)' \cap Locks(b)' = {}
  <2>1. \A k \in Job \ {j} : status'[k] = status[k] /\ status[k] \notin Active
    BY <1>7, AssessesAlone DEF Assesses, TypeOK
  <2> QED BY <2>1
<1>8. ASSUME NEW j \in Job, Stops(j) \/ Repairs(j)
      PROVE  Locks(a)' \cap Locks(b)' = {}
  <2>1. \A k \in Job : status'[k] \in Active =>
          status[k] \in Active /\ Locks(k)' = Locks(k)
    BY <1>8 DEF Stops, Repairs, Locks, Active, Terminal
  <2> QED BY <1>3, <2>1
<1>9. ASSUME NEW j \in Job, Expands(j)
      PROVE  Locks(a)' \cap Locks(b)' = {}
  <2>1. PICK paths \in SUBSET Path : /\ Conflicts(j, paths, JobLocks) = {}
                                     /\ scope' = [scope EXCEPT ![j] = @ \cup paths]
    BY <1>9 DEF Expands
  <2>2. status' = status /\ assessOnly' = assessOnly /\ status[j] \in Active
    BY <1>9 DEF Expands
  <2>3. \A k \in Job \ {j} : Locks(k)' = Locks(k)
    BY <2>1, <2>2 DEF Locks, TypeOK
  <2>4. Locks(j)' \subseteq Locks(j) \cup paths
    BY <2>1, <2>2 DEF Locks, WriteScope, TypeOK
  <2>5. \A k \in Job \ {j} : status[k] \in Active => Locks(k) \cap paths = {}
    <3>1. status[j] # "absent"
      BY <2>2 DEF Active
    <3> QED BY <2>1, <3>1, FreeIsApart
  <2> QED BY <1>3, <2>2, <2>3, <2>4, <2>5
<1>10. ASSUME NEW j \in Job, Defers(j)
       PROVE  Locks(a)' \cap Locks(b)' = {}
  <2>1. \A k \in Job : status'[k] \in Active =>
          status[k] \in Active /\ Locks(k)' = Locks(k)
    BY <1>10 DEF Defers, Locks, Active
  <2> QED BY <1>3, <2>1
<1> QED BY <1>4, <1>5, <1>6, <1>7, <1>8, <1>9, <1>10, StepKinds

-----------------------------------------------------------------------------
(* A lock that keeps its scope and its barrier does not shrink, and it     *)
(* always covers the scope.                                                *)
LEMMA LocksGrow ==
    ASSUME TypeOK', NEW k \in Job, scope[k] \subseteq scope'[k],
           scope[k] \subseteq Path,
           NeedsBarrier(status[k], assessOnly[k]) => NeedsBarrier(status'[k], assessOnly'[k])
    PROVE  Locks(k) \subseteq Locks(k)'
BY DEF Locks, WriteScope, TypeOK

LEMMA LocksCoverScope ==
    ASSUME TypeOK, NEW k \in Job
    PROVE  scope[k] \subseteq Locks(k)
BY DEF Locks, WriteScope, TypeOK

(* The rows of a job that a step leaves alone stay backed.                 *)
LEMMA UntouchedRows ==
    ASSUME RowsBacked, NEW k \in Job, rows'[k] \subseteq rows[k],
           status'[k] = status[k], assessOnly'[k] = assessOnly[k], scope'[k] = scope[k]
    PROVE  rows'[k] \subseteq Locks(k)'
BY DEF RowsBacked, Locks

(* A settled job has no rows.                                              *)
LEMMA SettledRows ==
    ASSUME TypeOK, RowsBacked, NEW j \in Job, NEW st, NEW ao, NEW n,
           Settle(j, st, ao, n), scope' = scope, NEW k \in Job
    PROVE  rows'[k] \subseteq Locks(k)'
<1>1. CASE k = j
  BY <1>1 DEF Settle, TypeOK
<1>2. CASE k # j
  <2>1. status'[k] = status[k] /\ rows'[k] = rows[k]
    BY <1>2 DEF Settle, TypeOK
  <2>2. assessOnly'[k] = assessOnly[k]
    BY <1>2, Zenon DEF Settle, TypeOK
  <2> QED BY <2>1, <2>2, UntouchedRows
<1> QED BY <1>1, <1>2

(* The rows stay within the derived lock: they are taken from it, at a     *)
(* lease, a barrier or a write in scope; a job that leaves its barrier     *)
(* drops its rows or stays assess-only; and an expansion widens the rows   *)
(* of an executing job together with its payload.                          *)
LEMMA RowsStep ==
    ASSUME IInv, Next
    PROVE  RowsBacked'
<1> USE DEF IInv, scopeVars
<1>0. TypeOK'
  BY TypeStep
<1> SUFFICES ASSUME NEW k \in Job
             PROVE  rows'[k] \subseteq Locks(k)'
  BY DEF RowsBacked, Locks
<1>1. CASE refreshFromDb \/ sleepUntilWake
  BY <1>1, UntouchedRows DEF refreshFromDb, sleepUntilWake, vars
<1>2. ASSUME NEW j \in Job, acquireLeaseWithWriteLocks(j)
      PROVE  rows'[k] \subseteq Locks(k)'
  <2>1. /\ status[j] = "queued" /\ status' = [status EXCEPT ![j] = "leased"]
        /\ rows' = [rows EXCEPT ![j] = @ \cup Locks(j)]
        /\ assessOnly' = assessOnly /\ scope' = scope
    BY <1>2 DEF acquireLeaseWithWriteLocks, Candidate, MyScope, Locks
  <2>2. Locks(k)' = Locks(k)
    BY <2>1 DEF Locks, WriteScope, NeedsBarrier, TypeOK
  <2>3. rows[k] \subseteq Locks(k)
    BY DEF RowsBacked, Locks
  <2> QED BY <2>1, <2>2, <2>3 DEF TypeOK
<1>3. ASSUME NEW j \in Job,
             \/ leaseRefused(j)
             \/ \E p \in Path : toolWriteRefused(j, p)
             \/ releaseJobFileLocks(j)
             \/ zombieStops(j)
      PROVE  rows'[k] \subseteq Locks(k)'
  <2>1. status' = status /\ assessOnly' = assessOnly /\ scope' = scope
    BY <1>3 DEF leaseRefused, toolWriteRefused, releaseJobFileLocks, zombieStops
  <2>2. cleanupStaleFileLocks \/ rows' = [rows EXCEPT ![j] = {}] \/ rows' = rows
    BY <1>3 DEF leaseRefused, toolWriteRefused, releaseJobFileLocks, zombieStops
  <2>3. rows'[k] \subseteq rows[k]
    BY <2>2 DEF cleanupStaleFileLocks, TypeOK
  <2> QED BY <2>1, <2>3, UntouchedRows
<1>4. ASSUME NEW j \in Job, NEW p \in Path, toolWrite(j, p)
      PROVE  rows'[k] \subseteq Locks(k)'
  <2>1. p \in Locks(j)
    BY <1>4, LocksCoverScope DEF toolWrite
  <2>2. Locks(k)' = Locks(k)
    BY <1>4 DEF toolWrite, Locks
  <2>3. rows[k] \subseteq Locks(k)
    BY DEF RowsBacked, Locks
  <2> QED BY <1>4, <2>1, <2>2, <2>3 DEF toolWrite, TypeOK
<1>5. ASSUME NEW j \in Job, startRunning(j)
      PROVE  rows'[k] \subseteq Locks(k)'
  <2>1. Locks(k)' = Locks(k)
    BY <1>5 DEF startRunning, Locks, WriteScope, NeedsBarrier, TypeOK
  <2> QED BY <1>5, <2>1 DEF startRunning, RowsBacked, Locks
<1>6. ASSUME NEW j \in Job, acquireAssessmentBarrier(j)
      PROVE  rows'[k] \subseteq Locks(k)'
  <2>1. CASE LiveSiblings(j) = {}
    <3>1. CASE k = j
      <4>1. Locks(j)' = Path
        BY <1>6, <2>1 DEF acquireAssessmentBarrier, Locks, WriteScope, NeedsBarrier, TypeOK
      <4> QED BY <1>0, <3>1, <4>1 DEF TypeOK
    <3>2. CASE k # j
      <4>1. status'[k] = status[k] /\ rows'[k] = rows[k] /\ scope'[k] = scope[k]
        BY <1>6, <2>1, <3>2 DEF acquireAssessmentBarrier, TypeOK
      <4>2. assessOnly'[k] = assessOnly[k]
        BY <1>6, <2>1, <3>2, Zenon DEF acquireAssessmentBarrier, TypeOK
      <4> QED BY <4>1, <4>2, UntouchedRows
    <3> QED BY <3>1, <3>2
  <2>2. CASE LiveSiblings(j) # {}
    BY <1>6, <2>2, SettledRows DEF acquireAssessmentBarrier
  <2> QED BY <2>1, <2>2
<1>7. ASSUME NEW j \in Job,
             \/ verdictPass(j)
             \/ assessmentFails(j)
             \/ retryOrFail(j)
             \/ park(j)
             \/ cancelDeadlocked(j)
             \/ parkForScope(j)
      PROVE  rows'[k] \subseteq Locks(k)'
  <2>1. \E st, ao, n : Settle(j, st, ao, n)
    BY <1>7 DEF verdictPass, assessmentFails, retryOrFail, park, cancelDeadlocked,
                parkForScope
  <2>2. scope' = scope
    BY <1>7 DEF verdictPass, assessmentFails, retryOrFail, park, cancelDeadlocked,
                parkForScope
  <2> QED BY <2>1, <2>2, SettledRows
<1>8. ASSUME NEW j \in Job, verdictFail(j)
      PROVE  rows'[k] \subseteq Locks(k)'
  <2>1. CASE k = j
    BY <1>8, <2>1 DEF verdictFail, TypeOK
  <2>2. CASE k # j
    <3>1. /\ rows'[k] = rows[k] /\ assessOnly' = assessOnly /\ scope' = scope
          /\ status'[k] = IF k \in Children(j) THEN "queued" ELSE status[k]
      BY <1>8, <2>2 DEF verdictFail, TypeOK
    <3>2. k \in Children(j) => status[k] = "absent"
      BY <1>8, NoRepairsYet DEF verdictFail, Terminal
    <3>3. Locks(k)' = Locks(k)
      BY <3>1, <3>2 DEF Locks, WriteScope, NeedsBarrier
    <3> QED BY <3>1, <3>3 DEF RowsBacked, Locks
  <2> QED BY <2>1, <2>2
<1>9. ASSUME NEW j \in Job, resume(j)
      PROVE  rows'[k] \subseteq Locks(k)'
  <2>1. k # j => rows'[k] = rows[k] /\ status'[k] = status[k]
    BY <1>9 DEF resume, TypeOK
  <2>2. k = j => rows'[k] = {}
    BY <1>9 DEF resume, TypeOK
  <2>3. assessOnly' = assessOnly /\ scope' = scope
    BY <1>9 DEF resume
  <2> QED BY <2>1, <2>2, <2>3, UntouchedRows
<1>10. ASSUME NEW j \in Job, sweep(j) \/ shutdownRequeue(j)
       PROVE  rows'[k] \subseteq Locks(k)'
  <2>0. Requeued(j) /\ scope' = scope
    BY <1>10 DEF sweep, shutdownRequeue
  <2>1. CASE k # j
    <3>1. status'[k] = status[k]
      BY <2>0, <2>1 DEF Requeued, TypeOK
    <3>2. assessOnly'[k] = assessOnly[k]
      BY <2>0, <2>1, Zenon DEF Requeued, TypeOK
    <3>3. rows'[k] = rows[k]
      BY <1>10, <2>1 DEF sweep, shutdownRequeue, TypeOK
    <3> QED BY <2>0, <3>1, <3>2, <3>3, UntouchedRows
  <2>2. CASE k = j /\ sweep(j)
    BY <2>2 DEF sweep, TypeOK
  <2>3. CASE k = j /\ shutdownRequeue(j)
    <3>1. NeedsBarrier(status[j], assessOnly[j]) => assessOnly'[j]
      BY <2>0, Zenon DEF Requeued, NeedsBarrier, TypeOK
    <3>2. NeedsBarrier(status[j], assessOnly[j]) => NeedsBarrier(status'[j], assessOnly'[j])
      BY <3>1, Zenon DEF NeedsBarrier
    <3>3. scope[j] \subseteq Path /\ scope[j] \subseteq scope'[j]
      BY <2>0 DEF TypeOK
    <3>4. Locks(j) \subseteq Locks(j)'
      BY <1>0, <3>2, <3>3, LocksGrow
    <3> QED BY <2>3, <3>4 DEF shutdownRequeue, RowsBacked, Locks
  <2> QED BY <1>10, <2>1, <2>2, <2>3
<1>11. ASSUME NEW j \in Job, NEW paths \in SUBSET Path,
              rows' = additionalRows(j, paths), scope' = widenedScope(j, paths),
              assessOnly' = assessOnly,
              status' = status \/ status' = [status EXCEPT ![j] =
                                               IF @ = "parked" THEN "queued" ELSE @]
       PROVE  rows'[k] \subseteq Locks(k)'
  <2>1. /\ scope[k] \subseteq Path /\ scope[k] \subseteq scope'[k]
        /\ k = j => paths \subseteq scope'[k]
    BY <1>11 DEF widenedScope, TypeOK
  <2>2. NeedsBarrier(status[k], assessOnly[k]) => NeedsBarrier(status'[k], assessOnly'[k])
    BY <1>11 DEF NeedsBarrier, TypeOK
  <2>3. Locks(k) \subseteq Locks(k)'
    BY <1>0, <2>1, <2>2, LocksGrow
  <2>4. scope'[k] \subseteq Locks(k)'
    BY <1>0 DEF Locks, WriteScope, TypeOK
  <2>5. rows'[k] \subseteq rows[k] \cup (IF k = j THEN paths ELSE {})
    BY <1>11 DEF additionalRows, TypeOK
  <2>6. rows[k] \subseteq Locks(k)
    BY DEF RowsBacked, Locks
  <2> QED BY <2>1, <2>3, <2>4, <2>5, <2>6
<1>12. ASSUME NEW j \in Job, NEW p \in Path, requestJobScopeExpansion(j, p)
       PROVE  rows'[k] \subseteq Locks(k)'
  <2>1. status' = status /\ assessOnly' = assessOnly
    BY <1>12 DEF requestJobScopeExpansion
  <2>2. CASE rows' = additionalRows(j, {p}) /\ scope' = widenedScope(j, {p})
    BY <1>11, <2>1, <2>2
  <2>3. CASE rows' = rows /\ scope' = scope
    BY <2>1, <2>3, UntouchedRows
  <2> QED BY <1>12, <2>2, <2>3 DEF requestJobScopeExpansion
<1>13. ASSUME NEW j \in Job, approveScope(j)
       PROVE  rows'[k] \subseteq Locks(k)'
  <2>1. asked[j] \in SUBSET Path
    BY DEF TypeOK
  <2> QED BY <1>11, <1>13, <2>1 DEF approveScope
<1>14. ASSUME NEW j \in Job, denyScope(j)
       PROVE  rows'[k] \subseteq Locks(k)'
  <2>1. rows' = rows /\ assessOnly' = assessOnly /\ scope' = scope
    BY <1>14 DEF denyScope
  <2>2. status'[k] = "awaiting" <=> status[k] = "awaiting"
    BY <1>14 DEF denyScope, TypeOK
  <2>3. Locks(k)' = Locks(k)
    BY <2>1, <2>2 DEF Locks, WriteScope, NeedsBarrier
  <2> QED BY <2>1, <2>3 DEF RowsBacked, Locks
<1> QED BY <1>1, <1>2, <1>3, <1>4, <1>5, <1>6, <1>7, <1>8, <1>9, <1>10, <1>12, <1>13, <1>14
        DEF Next, Worker

(* A job never goes away again, and only the sweep of a running job leaves *)
(* a worker behind.                                                        *)
LEMMA ZombieStep ==
    ASSUME IInv, Next
    PROVE  ZombieHasJob'
<1> USE DEF IInv
<1> SUFFICES ASSUME NEW k \in Job, zombie'[k]
             PROVE  status'[k] # "absent"
  BY DEF ZombieHasJob
<1>1. zombie[k] \/ status[k] \in Active
  <2>1. zombie' = zombie \/ \E j \in Job : sweep(j) \/ zombieStops(j)
    <3>1. ASSUME NEW j \in Job, Worker(j)
          PROVE  zombie' = zombie
      BY <3>1 DEF Worker, startRunning, acquireAssessmentBarrier, verdictPass, verdictFail,
                  assessmentFails, retryOrFail, park
    <3>2. ASSUME NEW j \in Job, \E p \in Path : \/ toolWrite(j, p)
                                              \/ toolWriteRefused(j, p)
                                              \/ requestJobScopeExpansion(j, p)
          PROVE  zombie' = zombie
      BY <3>2 DEF toolWrite, toolWriteRefused, requestJobScopeExpansion
    <3>3. ASSUME NEW j \in Job,
                 \/ acquireLeaseWithWriteLocks(j)
                 \/ leaseRefused(j)
                 \/ parkForScope(j)
                 \/ approveScope(j)
                 \/ denyScope(j)
                 \/ resume(j)
                 \/ shutdownRequeue(j)
                 \/ releaseJobFileLocks(j)
                 \/ cancelDeadlocked(j)
          PROVE  zombie' = zombie
      BY <3>3 DEF acquireLeaseWithWriteLocks, leaseRefused, parkForScope, approveScope,
                  denyScope, resume, shutdownRequeue, releaseJobFileLocks, cancelDeadlocked
    <3>4. CASE refreshFromDb \/ sleepUntilWake
      BY <3>4 DEF refreshFromDb, sleepUntilWake, vars
    <3> QED BY <3>1, <3>2, <3>3, <3>4 DEF Next
  <2>2. ASSUME NEW j \in Job, sweep(j)
        PROVE  zombie[k] \/ status[k] \in Active
    <3>1. k # j => zombie'[k] = zombie[k]
      BY <2>2, Zenon DEF sweep, TypeOK
    <3> QED BY <2>2, <3>1, Zenon DEF sweep
  <2>3. ASSUME NEW j \in Job, zombieStops(j)
        PROVE  zombie[k]
    BY <2>3, Zenon DEF zombieStops, TypeOK
  <2> QED BY <2>1, <2>2, <2>3
<1>2. status[k] # "absent"
  BY <1>1 DEF ZombieHasJob, Active
<1> QED
  <2>1. CASE Same \/ \E j \in Job : Expands(j)
    BY <1>2, <2>1 DEF Same, Expands
  <2>2. ASSUME NEW j \in Job, Starts(j) \/ Runs(j) \/ Assesses(j) \/ Stops(j) \/ Repairs(j)
        PROVE  status'[k] # "absent"
    BY <1>2, <2>2 DEF Starts, Runs, Assesses, Stops, Repairs, TypeOK, Terminal
  <2>3. ASSUME NEW j \in Job, Defers(j)
        PROVE  status'[k] # "absent"
    BY <1>2, <2>3 DEF Defers
  <2> QED BY <2>1, <2>2, <2>3, StepKinds

-----------------------------------------------------------------------------
(* Only dev jobs exist at first, and they have no ancestors.               *)
LEMMA InitInv == Init => IInv
<1> SUFFICES ASSUME Init PROVE IInv
  OBVIOUS
<1>1. TypeOK
  <2>1. status \in [Job -> Status]
    BY DEF Init, Status
  <2>2. assessOnly \in [Job -> BOOLEAN] /\ zombie \in [Job -> BOOLEAN]
    BY Zenon DEF Init
  <2>3. /\ attempts \in [Job -> Nat] /\ assessed \in [Job -> Nat]
        /\ deps \in [Job -> SUBSET Job]
    BY AfterAssumption DEF Init
  <2>4. scope \in [Job -> (SUBSET Path) \ {{}}] /\ asked \in [Job -> SUBSET Path]
    BY ScopeAssumption DEF Init
  <2> QED BY <2>1, <2>2, <2>3, <2>4 DEF Init, TypeOK
<1>2. BornAfterParent
  <2> SUFFICES ASSUME NEW j \in Job, status[j] # "absent", NEW k \in Ancestors[j]
               PROVE  FALSE
    BY DEF BornAfterParent
  <2>1. Parent[j] = Plan
    BY DEF Init, Dev
  <2> DEFINE S == {Plan}
  <2>2. S \in SUBSET (Job \cup {Plan}) /\ Parent[j] \in S
    BY <2>1
  <2>3. \A a \in S \cap Job : Parent[a] \in S
    BY JobAssumption
  <2>4. k \in Job /\ \A U \in SUBSET (Job \cup {Plan}) :
          (Parent[j] \in U /\ \A a \in U \cap Job : Parent[a] \in U) => k \in U
    BY DEF Ancestors
  <2>5. k \in S
    <3> HIDE DEF S
    <3> QED BY <2>2, <2>3, <2>4
  <2> QED BY <2>4, <2>5, JobAssumption
<1>3. LocksDisjoint
  BY DEF Init, LocksDisjoint, Active
<1>4. RowsBacked
  BY DEF Init, RowsBacked
<1>5. ZombieHasJob
  BY Zenon DEF Init, ZombieHasJob
<1> QED BY <1>1, <1>2, <1>3, <1>4, <1>5 DEF IInv

(* The strengthened invariant is inductive.                                *)
THEOREM IInvariance == Spec => []IInv
<1>1. IInv /\ [Next]_vars => IInv'
  <2> SUFFICES ASSUME IInv, [Next]_vars PROVE IInv'
    OBVIOUS
  <2>1. CASE Next
    BY <2>1, TypeStep, BornStep, DisjointStep, RowsStep, ZombieStep DEF IInv
  <2>2. CASE UNCHANGED vars
    <3> USE <2>2 DEF IInv, vars, scopeVars
    <3>1. TypeOK' /\ BornAfterParent'
      BY DEF TypeOK, BornAfterParent
    <3>2. LocksDisjoint'
      BY DEF LocksDisjoint, JobLocks
    <3>3. RowsBacked' /\ ZombieHasJob'
      BY DEF RowsBacked, ZombieHasJob
    <3> QED BY <3>1, <3>2, <3>3
  <2> QED BY <2>1, <2>2
<1> QED BY <1>1, InitInv, PTL DEF Spec

(* Every variable keeps its type, whatever the jobs and scopes.            *)
THEOREM TypeCorrect == Spec => []TypeOK
<1>1. IInv => TypeOK
  BY DEF IInv
<1> QED BY <1>1, IInvariance, PTL

(* Two executing jobs of a work item never hold a common path, for any     *)
(* number of jobs, any scopes and repair lineages, however stale the       *)
(* scheduler's cache of the locks is.                                      *)
THEOREM ExecutingJobsApart == Spec => []LocksDisjoint
<1>1. IInv => LocksDisjoint
  BY DEF IInv
<1> QED BY <1>1, IInvariance, PTL

-----------------------------------------------------------------------------
(* The guard of the file tools admits no write into the paths of another   *)
(* executing job.  For a path the job has a row of, the row lies in its    *)
(* own lock, which is apart from the others'; for any other path the guard *)
(* finds the conflict, whoever is exempted.                                *)
THEOREM GuardIsSound == Spec => []GuardProtects
<1>1. IInv => GuardProtects
  <2> SUFFICES ASSUME IInv, NEW j \in Job, NEW k \in Job, j # k, Writes(j),
                      status[k] \in Active, NEW p \in JobLocks[k],
                      status[j] \in Active \/ p \notin rows[j],
                      guardAdmits(j, p)
               PROVE  FALSE
    BY DEF GuardProtects
  <2> USE DEF IInv
  <2>1. CASE p \in rows[j]
    <3>1. status[j] \in Active
      BY <2>1
    <3>2. p \in Locks(j)
      BY <2>1 DEF RowsBacked, Locks
    <3>3. p \in JobLocks[j]
      BY <3>1, <3>2, LocksOfActive
    <3> QED BY <3>1, <3>3 DEF LocksDisjoint
  <2>2. CASE p \notin rows[j]
    <3>1. Conflicts(j, {p}, JobLocks) = {}
      BY <2>2 DEF guardAdmits
    <3>2. status[j] # "absent"
      BY DEF Writes, Implements, ZombieHasJob
    <3>3. Locks(k) \cap {p} = {}
      BY <3>1, <3>2, FreeIsApart
    <3> QED BY <3>3, LocksOfActive
  <2> QED BY <2>1, <2>2
<1> QED BY <1>1, IInvariance, PTL

=============================================================================
