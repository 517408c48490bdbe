------------------------ MODULE AttemptBudget_proofs -------------------------
(***************************************************************************)
(* For any budgets, faults, retries and leases: no interruption, sweep or  *)
(* recovery takes back the charge of a failure.                            *)
(***************************************************************************)
EXTENDS AttemptBudget, TLAPS

Statuses == Holding \cup Settled \cup {"queued"}

Steps == {"none", "leased", "setup", "impl", "failing", "stashing", "inspect", "audit",
          "marking", "assessSetup", "assess", "gone"}

Jobs == [status : Statuses, token : Leases \cup {NoLease}, expired : BOOLEAN,
         count : Nat, max : Nat, acount : Nat, amax : Nat, assessOnly : BOOLEAN]

RowStatuses == {"running", "failed", "interrupted", "succeeded"}
Rows == [kind : {"implementation", "assessment"}, status : RowStatuses,
         by : Leases, charged : BOOLEAN]

Histories == [failed : Nat, stray : Nat, lapsed : Nat]

TypeOK ==
  /\ job \in Jobs
  /\ rows \in Seq(Rows)
  /\ worker \in [Leases -> [pc : Steps, row : Nat]]
  /\ history \in Histories

\* Where a worker has no row yet, where it has one, and where that row is the
\* charge of an implementation attempt that it may still refund or settle.
Rowless == {"none", "leased", "setup", "assessSetup"}
Attempting == {"impl", "failing", "stashing"}
WithRow == Attempting \cup {"inspect", "audit", "marking", "assess"}

RowsOwned ==
  /\ \A w \in Leases : worker[w].pc \in Rowless => \A i \in 1..Len(rows) : rows[i].by # w
  /\ \A w \in Leases : worker[w].pc \in WithRow =>
       worker[w].row \in 1..Len(rows) /\ rows[worker[w].row].by = w
  /\ \A w \in Leases : worker[w].pc \in Attempting =>
       rows[worker[w].row].kind = "implementation"

\* The lease that is held has at most one row, the latest.
LeaseRowLatest ==
  \A i \in 1..Len(rows) : rows[i].by = job.token => i = Len(rows)

\* The charge of an implementation attempt under the lease that is held is not
\* that of a failure.
ChargedAttempt ==
  \E i \in 1..Len(rows) : rows[i].by = job.token /\ rows[i].kind = "implementation"
Failures ==
  /\ history.failed <= job.count + history.stray
  /\ ChargedAttempt => history.failed + 1 <= job.count + history.stray

\* Nor is the charge of an assessment under way: under the lease that is held or,
\* after a sweep, as long as no later row was opened.
ChargedAssessment(w) ==
  \/ worker[w].pc \in {"audit", "assess"} /\ worker[w].row = Len(rows)
  \/ worker[w].pc = "marking" /\ job.token = w
Assessments ==
  /\ history.lapsed <= job.acount
  /\ \A w \in Leases : ChargedAssessment(w) => history.lapsed + 1 <= job.acount

IInv == TypeOK /\ RowsOwned /\ LeaseRowLatest /\ Failures /\ Assessments

-----------------------------------------------------------------------------
(* Operators *)

\* q has the rows of job_attempts with at most their status and charge changed.
SameBooks(q) ==
  /\ q \in Seq(Rows) /\ Len(q) = Len(rows)
  /\ \A i \in 1..Len(rows) : q[i].by = rows[i].by /\ q[i].kind = rows[i].kind

LEMMA SameRows ==
  ASSUME TypeOK
  PROVE  SameBooks(rows)
BY DEF TypeOK, SameBooks

LEMMA ChangedRow ==
  ASSUME NEW q, SameBooks(q), NEW r \in 1..Len(rows), NEW s \in RowStatuses
  PROVE  /\ SameBooks([q EXCEPT ![r].status = s])
         /\ SameBooks([q EXCEPT ![r].charged = FALSE])
<1>1. q \in Seq(Rows) /\ Len(q) = Len(rows) /\ q[r] \in Rows
  BY DEF SameBooks
<1>2. /\ [q[r] EXCEPT !.status = s] \in Rows
      /\ [q[r] EXCEPT !.status = s].by = q[r].by
      /\ [q[r] EXCEPT !.status = s].kind = q[r].kind
  BY <1>1 DEF Rows, RowStatuses
<1>3. /\ [q[r] EXCEPT !.charged = FALSE] \in Rows
      /\ [q[r] EXCEPT !.charged = FALSE].by = q[r].by
      /\ [q[r] EXCEPT !.charged = FALSE].kind = q[r].kind
  BY <1>1 DEF Rows
<1>4. ASSUME NEW e \in Rows, e.by = q[r].by, e.kind = q[r].kind
      PROVE  SameBooks([q EXCEPT ![r] = e])
  BY <1>1, <1>4 DEF SameBooks
<1> QED
  BY <1>2, <1>3, <1>4

LEMMA ClosedBooks ==
  ASSUME TypeOK, NEW r \in 1..Len(rows), NEW s \in RowStatuses, NEW w \in Leases
  PROVE  /\ SameBooks(Closed(r, s)) /\ SameBooks(ClosedIfRunning(r, s))
         /\ SameBooks(Uncharge(rows, r, w))
         /\ SameBooks([Uncharge(rows, r, w) EXCEPT ![r].status = s])
<1>1. SameBooks(rows)
  BY SameRows
<1>2. SameBooks(Closed(r, s)) /\ SameBooks(ClosedIfRunning(r, s))
  BY <1>1, ChangedRow DEF Closed, ClosedIfRunning
<1>3. SameBooks(Uncharge(rows, r, w))
  BY <1>1, ChangedRow DEF Uncharge, RowStatuses
<1> QED
  BY <1>2, <1>3, ChangedRow

LEMMA AllClosedBooks ==
  ASSUME NEW q, SameBooks(q), NEW s \in RowStatuses
  PROVE  SameBooks(ClosedAs(q, s))
<1>1. q \in Seq(Rows) /\ Len(q) = Len(rows) /\ DOMAIN q = 1..Len(rows)
  BY DEF SameBooks
<1> DEFINE e(i) == IF q[i].status = "running" THEN [q[i] EXCEPT !.status = s] ELSE q[i]
<1>2. ASSUME NEW i \in 1..Len(rows)
      PROVE  e(i) \in Rows /\ e(i).by = q[i].by /\ e(i).kind = q[i].kind
  <2>1. q[i] \in Rows
    BY <1>1
  <2> QED
    BY <2>1 DEF Rows, RowStatuses
<1>3. ClosedAs(q, s) = [i \in 1..Len(rows) |-> e(i)]
  BY <1>1 DEF ClosedAs
<1> HIDE DEF e
<1>4. Len(rows) \in Nat
  BY <1>1
<1> QED
  BY <1>1, <1>2, <1>3, <1>4 DEF SameBooks

LEMMA JobChanges ==
  ASSUME NEW j \in Jobs, NEW s \in Statuses
  PROVE  /\ Unleased(j, s) \in Jobs /\ Unleased(j, s).token = NoLease
         /\ Unleased(j, s).count = j.count /\ Unleased(j, s).acount = j.acount
BY DEF Jobs, Unleased

-----------------------------------------------------------------------------
(* What steps keep *)

\* Workers only move on, and keep the row they opened.
Moves(a, b) ==
  /\ b \in Rowless => a \in Rowless
  /\ b \in WithRow => a \in WithRow
  /\ b \in Attempting => a \in Attempting
Moved ==
  /\ worker' \in [Leases -> [pc : Steps, row : Nat]]
  /\ \A w \in Leases :
       worker'[w].row = worker[w].row /\ Moves(worker[w].pc, worker'[w].pc)

LEMMA GoMoves ==
  ASSUME TypeOK, NEW w \in Leases, NEW s \in Steps, Go(w, s), Moves(worker[w].pc, s)
  PROVE  /\ Moved /\ worker'[w].pc = s
         /\ \A v \in Leases \ {w} : worker'[v] = worker[v]
BY DEF TypeOK, Go, Moved, Moves

LEMMA RowsKept ==
  ASSUME RowsOwned, SameBooks(rows'), Moved
  PROVE  RowsOwned'
BY DEF RowsOwned, SameBooks, Moved, Moves, Rowless, WithRow, Attempting

LEMMA LatestKept ==
  ASSUME TypeOK, LeaseRowLatest, SameBooks(rows'), job'.token \in {job.token, NoLease}
  PROVE  LeaseRowLatest' /\ (ChargedAttempt' => ChargedAttempt /\ job'.token = job.token)
<1>1. \A i \in 1..Len(rows) : rows[i].by # NoLease
  <2>1. \A i \in 1..Len(rows) : rows[i] \in Rows
    BY DEF TypeOK
  <2> QED
    BY <2>1 DEF Rows, Leases, NoLease
<1> QED
  BY <1>1 DEF LeaseRowLatest, SameBooks, ChargedAttempt

LEMMA FailuresKept ==
  ASSUME Failures, ChargedAttempt' => ChargedAttempt,
         job'.count = job.count, history'.failed = history.failed,
         history'.stray = history.stray
  PROVE  Failures'
BY DEF Failures

LEMMA AssessmentsKept ==
  ASSUME Assessments, job'.acount = job.acount, history'.lapsed = history.lapsed,
         \A v \in Leases : ChargedAssessment(v)' => ChargedAssessment(v)
  PROVE  Assessments'
BY DEF Assessments

\* Everything but the two books.
Kept == TypeOK' /\ RowsOwned' /\ LeaseRowLatest' /\ (ChargedAttempt' => ChargedAttempt /\ job'.token = job.token)

LEMMA RestKept ==
  ASSUME IInv, job' \in Jobs, history' \in Histories, SameBooks(rows'), Moved,
         job'.token \in {job.token, NoLease}
  PROVE  Kept
<1>1. TypeOK'
  BY DEF TypeOK, Histories, SameBooks, Moved
<1> QED
  BY <1>1, RowsKept, LatestKept DEF IInv, Kept

\* The row of the worker that holds the lease is the latest, and no other
\* worker has a charge outstanding.
LEMMA OwnerRow ==
  ASSUME IInv, NEW w \in Leases, worker[w].pc \in WithRow, job.token = w
  PROVE  /\ worker[w].row = Len(rows)
         /\ worker[w].pc \in Attempting => ChargedAttempt
         /\ \A v \in Leases : ChargedAssessment(v) => v = w
<1>1. worker[w].row \in 1..Len(rows) /\ rows[worker[w].row].by = w
  BY DEF IInv, RowsOwned
<1>2. worker[w].row = Len(rows)
  BY <1>1 DEF IInv, LeaseRowLatest
<1>3. worker[w].pc \in Attempting => ChargedAttempt
  BY <1>1 DEF IInv, RowsOwned, ChargedAttempt
<1>4. ASSUME NEW v \in Leases, ChargedAssessment(v) PROVE v = w
  <2>1. CASE worker[v].pc = "marking" /\ job.token = v
    BY <2>1
  <2>2. CASE worker[v].pc \in {"audit", "assess"} /\ worker[v].row = Len(rows)
    BY <1>1, <1>2, <2>2 DEF IInv, RowsOwned, WithRow
  <2> QED
    BY <1>4, <2>1, <2>2 DEF ChargedAssessment
<1> QED
  BY <1>2, <1>3, <1>4

-----------------------------------------------------------------------------
(* Steps of a worker *)

Auditing == {"audit", "assess", "marking"}

\* A worker moves to a step that is not part of an assessment.
LEMMA WorkerKept ==
  ASSUME IInv, job' \in Jobs, history' \in Histories, SameBooks(rows'),
         job'.token \in {job.token, NoLease},
         NEW w \in Leases, NEW s \in Steps \ Auditing, Go(w, s), Moves(worker[w].pc, s)
  PROVE  /\ Kept
         /\ \A v \in Leases : ChargedAssessment(v)' => ChargedAssessment(v) /\ v # w
<1>1. /\ Moved /\ worker'[w].pc = s
      /\ \A v \in Leases \ {w} : worker'[v] = worker[v]
  BY GoMoves DEF IInv
<1>2. Kept
  BY <1>1, RestKept
<1>3. ASSUME NEW v \in Leases, ChargedAssessment(v)'
      PROVE  ChargedAssessment(v) /\ v # w
  <2>1. v # w
    BY <1>1, <1>3 DEF ChargedAssessment, Auditing
  <2>2. worker'[v] = worker[v] /\ Len(rows') = Len(rows) /\ v # NoLease
    BY <1>1, <2>1 DEF SameBooks, Leases, NoLease
  <2> QED
    BY <1>3, <2>1, <2>2 DEF ChargedAssessment
<1> QED
  BY <1>2, <1>3

\* ... and no budget is touched.
LEMMA QuietWorker ==
  ASSUME IInv, job' \in Jobs, SameBooks(rows'), job'.token \in {job.token, NoLease},
         history' = history, job'.count = job.count, job'.acount = job.acount,
         NEW w \in Leases, NEW s \in Steps \ Auditing, Go(w, s), Moves(worker[w].pc, s)
  PROVE  IInv'
<1>1. history' \in Histories
  BY DEF IInv, TypeOK, Histories
<1>2. /\ Kept
      /\ \A v \in Leases : ChargedAssessment(v)' => ChargedAssessment(v) /\ v # w
  BY <1>1, WorkerKept
<1>3. Failures'
  BY <1>2, FailuresKept DEF IInv, Kept
<1>4. Assessments'
  BY <1>2, AssessmentsKept DEF IInv
<1> QED
  BY <1>2, <1>3, <1>4 DEF IInv, Kept

LEMMA GoneMoves ==
  ASSUME NEW a
  PROVE  "gone" \in Steps \ Auditing /\ Moves(a, "gone")
BY DEF Steps, Auditing, Moves, Rowless, WithRow, Attempting

LEMMA AcquireStep ==
  ASSUME IInv, NEW w \in Leases, acquireLease(w)
  PROVE  IInv'
<1>1. /\ job' \in Jobs /\ job'.token = w /\ job'.count = job.count /\ job'.acount = job.acount
      /\ worker[w].pc = "none" /\ Go(w, "leased") /\ rows' = rows /\ history' = history
  BY DEF acquireLease, IInv, TypeOK, Jobs, Statuses, Holding
<1>2. SameBooks(rows') /\ history' \in Histories
  BY <1>1, SameRows DEF IInv, TypeOK, Histories
<1>3. /\ Moved /\ worker'[w].pc = "leased"
      /\ \A v \in Leases \ {w} : worker'[v] = worker[v]
  <2>1. "leased" \in Steps /\ Moves(worker[w].pc, "leased")
    BY <1>1 DEF Steps, Moves, Rowless, WithRow, Attempting
  <2> QED
    BY <1>1, <2>1, GoMoves DEF IInv
<1>4. TypeOK' /\ RowsOwned'
  BY <1>1, <1>2, <1>3, RowsKept DEF IInv, TypeOK, Moved
<1>5. \A i \in 1..Len(rows') : rows'[i].by # job'.token
  BY <1>1 DEF IInv, RowsOwned, Rowless
<1>6. LeaseRowLatest' /\ Failures'
  BY <1>1, <1>5 DEF LeaseRowLatest, IInv, Failures, ChargedAttempt
<1>7. ASSUME NEW v \in Leases, ChargedAssessment(v)' PROVE ChargedAssessment(v)
  BY <1>1, <1>3, <1>7 DEF ChargedAssessment
<1>8. Assessments'
  BY <1>1, <1>7, AssessmentsKept DEF IInv
<1> QED
  BY <1>4, <1>6, <1>8 DEF IInv

LEMMA StartStep ==
  ASSUME IInv, NEW w \in Leases, startRunning(w) \/ deferBeforeAttempt(w)
  PROVE  IInv'
<1>1. SameBooks(rows')
  BY SameRows DEF IInv, startRunning, deferBeforeAttempt
<1>2. /\ job' \in Jobs /\ job'.token \in {job.token, NoLease}
      /\ job'.count = job.count /\ job'.acount = job.acount /\ history' = history
  <2>1. job \in Jobs /\ "queued" \in Statuses
    BY DEF IInv, TypeOK, Statuses
  <2>2. CASE startRunning(w)
    BY <2>1, <2>2 DEF startRunning, Jobs, Statuses, Holding
  <2>3. CASE deferBeforeAttempt(w)
    BY <2>1, <2>3, JobChanges DEF deferBeforeAttempt, Released
  <2> QED
    BY <2>2, <2>3
<1>3. \E s \in Steps \ Auditing : Go(w, s) /\ Moves(worker[w].pc, s)
  <2>1. \/ Go(w, "gone")
        \/ worker[w].pc = "leased" /\ (Go(w, "setup") \/ Go(w, "assessSetup"))
    BY DEF startRunning, deferBeforeAttempt
  <2>2. /\ "setup" \in Steps \ Auditing /\ "assessSetup" \in Steps \ Auditing
        /\ Moves("leased", "setup") /\ Moves("leased", "assessSetup")
    BY DEF Steps, Auditing, Moves, Rowless, WithRow, Attempting
  <2> QED
    BY <2>1, <2>2, GoneMoves
<1> QED
  BY <1>1, <1>2, <1>3, QuietWorker

\* incrementAndCreateAttempt and startAssessOnly open the latest row.
LEMMA OpenedRow ==
  ASSUME IInv, NEW w \in Leases, worker[w].pc \in Rowless, job.token = w,
         NEW e \in Rows, e.by = w, rows' = Append(rows, e),
         job' \in Jobs, job'.token \in {w, NoLease}, history' \in Histories,
         NEW s \in Steps, s \notin Rowless,
         s \in WithRow => worker' = [worker EXCEPT ![w] = [pc |-> s, row |-> Len(rows) + 1]],
         s \notin WithRow => Go(w, s),
         s \in Attempting => e.kind = "implementation"
  PROVE  /\ TypeOK' /\ RowsOwned' /\ LeaseRowLatest'
         /\ ChargedAttempt' => job'.token = w /\ e.kind = "implementation"
         /\ \A v \in Leases \ {w} : ~ChargedAssessment(v)'
         /\ worker'[w].pc = s
<1>0. /\ rows \in Seq(Rows) /\ rows' \in Seq(Rows) /\ Len(rows) \in Nat
      /\ Len(rows') = Len(rows) + 1 /\ rows'[Len(rows) + 1] = e
      /\ \A i \in 1..Len(rows) : rows'[i] = rows[i]
  BY DEF IInv, TypeOK
<1>1. /\ worker' \in [Leases -> [pc : Steps, row : Nat]]
      /\ worker'[w].pc = s /\ (s \in WithRow => worker'[w].row = Len(rows) + 1)
      /\ \A v \in Leases \ {w} : worker'[v] = worker[v]
  <2>1. worker \in [Leases -> [pc : Steps, row : Nat]]
    BY DEF IInv, TypeOK
  <2>2. CASE s \in WithRow
    <3>1. Len(rows) + 1 \in Nat
      BY <1>0
    <3> QED
      BY <2>1, <2>2, <3>1
  <2>3. CASE s \notin WithRow
    BY <2>1, <2>3 DEF Go
  <2> QED
    BY <2>2, <2>3
<1>2. TypeOK'
  BY <1>0, <1>1 DEF TypeOK, Histories
<1>3. \A i \in 1..Len(rows) : rows[i].by # w
  BY DEF IInv, RowsOwned
<1>4. \A i \in 1..(Len(rows) + 1) : i # Len(rows) + 1 => i \in 1..Len(rows)
  BY <1>0
<1>5. RowsOwned'
  <2>1. ASSUME NEW v \in Leases, worker'[v].pc \in Rowless
        PROVE  \A i \in 1..Len(rows') : rows'[i].by # v
    <3>1. v # w
      BY <1>1, <2>1
    <3>2. \A i \in 1..Len(rows) : rows[i].by # v
      BY <1>1, <2>1, <3>1 DEF IInv, RowsOwned
    <3> QED
      BY <1>0, <1>4, <3>1, <3>2
  <2>2. ASSUME NEW v \in Leases, worker'[v].pc \in WithRow
        PROVE  worker'[v].row \in 1..Len(rows') /\ rows'[worker'[v].row].by = v
    <3>1. CASE v = w
      BY <1>0, <1>1, <2>2, <3>1
    <3>2. CASE v # w
      <4>1. worker[v].row \in 1..Len(rows) /\ rows[worker[v].row].by = v
        BY <1>1, <2>2, <3>2 DEF IInv, RowsOwned
      <4> QED
        BY <1>0, <1>1, <3>2, <4>1
    <3> QED
      BY <3>1, <3>2
  <2>3. ASSUME NEW v \in Leases, worker'[v].pc \in Attempting
        PROVE  rows'[worker'[v].row].kind = "implementation"
    <3>1. CASE v = w
      BY <1>0, <1>1, <2>3, <3>1 DEF WithRow
    <3>2. CASE v # w
      <4>1. worker[v].row \in 1..Len(rows) /\ rows[worker[v].row].kind = "implementation"
        BY <1>1, <2>3, <3>2 DEF IInv, RowsOwned, WithRow
      <4> QED
        BY <1>0, <1>1, <3>2, <4>1
    <3> QED
      BY <3>1, <3>2
  <2> QED
    BY <2>1, <2>2, <2>3 DEF RowsOwned
<1>6. \A i \in 1..Len(rows) : rows[i].by # NoLease
  <2>1. \A i \in 1..Len(rows) : rows[i] \in Rows
    BY <1>0
  <2> QED
    BY <2>1 DEF Rows, Leases, NoLease
<1>7. w # NoLease
  BY DEF Leases, NoLease
<1>8. LeaseRowLatest'
  BY <1>0, <1>3, <1>4, <1>6, <1>7 DEF LeaseRowLatest
<1>9. ChargedAttempt' => job'.token = w /\ e.kind = "implementation"
  BY <1>0, <1>3, <1>4, <1>6, <1>7 DEF ChargedAttempt
<1>10. ASSUME NEW v \in Leases \ {w} PROVE ~ChargedAssessment(v)'
  <2>1. worker[v].pc \in WithRow => worker[v].row \in 1..Len(rows)
    BY DEF IInv, RowsOwned
  <2>2. v # NoLease /\ worker'[v] = worker[v]
    BY <1>1 DEF Leases, NoLease
  <2>3. worker[v].row # Len(rows) + 1 \/ worker[v].pc \notin {"audit", "assess"}
    BY <1>0, <2>1 DEF WithRow
  <2> QED
    BY <1>0, <2>2, <2>3 DEF ChargedAssessment
<1> QED
  BY <1>1, <1>2, <1>5, <1>8, <1>9, <1>10

LEMMA AttemptStep ==
  ASSUME IInv, NEW w \in Leases, incrementAndCreateAttempt(w)
  PROVE  IInv'
<1> USE DEF incrementAndCreateAttempt
<1>1. CASE ~LeaseValid(w)
  <2>1. SameBooks(rows') /\ job' = job /\ job \in Jobs /\ history' = history /\ Go(w, "gone")
    BY <1>1, SameRows DEF IInv, TypeOK
  <2> QED
    BY <2>1, GoneMoves, QuietWorker
<1>2. CASE LeaseValid(w)
  <2> DEFINE e == NewRow("implementation", w)
  <2>1. /\ worker[w].pc \in Rowless /\ job.token = w /\ "impl" \in Steps
        /\ "impl" \notin Rowless /\ "impl" \in WithRow /\ "impl" \in Attempting
    BY <1>2 DEF LeaseValid, Owns, Rowless, Steps, WithRow, Attempting
  <2>2. e \in Rows /\ e.by = w /\ e.kind = "implementation" /\ rows' = Append(rows, e)
    BY <1>2 DEF NewRow, Rows, RowStatuses
  <2>3. /\ job' \in Jobs /\ job'.token = w /\ job'.count = job.count + 1 /\ job'.acount = 0
        /\ job.count \in Nat
    <3>1. job \in Jobs /\ job' = chargeAttempt(w)
      BY <1>2 DEF IInv, TypeOK
    <3>2. job.count \in Nat /\ job.count + 1 \in Nat
      BY <3>1 DEF Jobs
    <3> HIDE DEF incrementAndCreateAttempt
    <3> QED
      BY <2>1, <3>1, <3>2 DEF Jobs, chargeAttempt
  <2>4. /\ history' \in Histories /\ history'.failed = history.failed
        /\ history'.stray = history.stray /\ history'.lapsed = 0
        /\ history.failed \in Nat /\ history.stray \in Nat
    BY <1>2 DEF IInv, TypeOK, Histories
  <2>5. worker' = [worker EXCEPT ![w] = [pc |-> "impl", row |-> Len(rows) + 1]]
    BY <1>2
  <2> HIDE DEF e, incrementAndCreateAttempt
  <2>6. /\ TypeOK' /\ RowsOwned' /\ LeaseRowLatest'
        /\ \A v \in Leases \ {w} : ~ChargedAssessment(v)'
        /\ worker'[w].pc = "impl"
    BY <2>1, <2>2, <2>3, <2>4, <2>5, OpenedRow
  <2>7. Failures'
    BY <2>3, <2>4 DEF IInv, Failures
  <2>8. Assessments'
    BY <2>3, <2>4, <2>6 DEF Assessments, ChargedAssessment
  <2> QED
    BY <2>6, <2>7, <2>8 DEF IInv
<1> QED
  BY <1>1, <1>2

\* attemptFails, attemptInterrupted and acquireAssessmentBarrier.
LEMMA AttemptEndsStep ==
  ASSUME IInv, NEW w \in Leases,
         attemptFails(w) \/ attemptInterrupted(w) \/ acquireAssessmentBarrier(w)
  PROVE  IInv'
<1>1. worker[w].pc = "impl" /\ worker[w].row \in 1..Len(rows)
  BY DEF attemptFails, attemptInterrupted, acquireAssessmentBarrier, IInv, RowsOwned,
    WithRow, Attempting
<1>2. SameBooks(rows')
  <2>1. SameBooks(rows) /\ \A s \in RowStatuses :
          SameBooks(Closed(worker[w].row, s)) /\ SameBooks(ClosedIfRunning(worker[w].row, s))
    BY <1>1, SameRows, ClosedBooks DEF IInv
  <2> QED
    BY <2>1 DEF attemptFails, attemptInterrupted, acquireAssessmentBarrier, RowStatuses
<1>3. /\ job' \in Jobs /\ job'.token \in {job.token, NoLease}
      /\ job'.count = job.count /\ job'.acount = job.acount /\ history' = history
  <2>1. job \in Jobs
    BY DEF IInv, TypeOK
  <2>2. CASE attemptFails(w) \/ attemptInterrupted(w)
    BY <2>1, <2>2 DEF attemptFails, attemptInterrupted
  <2>3. CASE acquireAssessmentBarrier(w)
    BY <2>1, <2>3 DEF acquireAssessmentBarrier, Released, Unleased, Jobs, Statuses, Holding
  <2> QED
    BY <2>2, <2>3
<1>4. \E s \in Steps \ Auditing : Go(w, s) /\ Moves(worker[w].pc, s)
  <2>1. Go(w, "gone") \/ Go(w, "failing") \/ Go(w, "stashing") \/ Go(w, "inspect")
    BY DEF attemptFails, attemptInterrupted, acquireAssessmentBarrier
  <2>2. \A s \in {"failing", "stashing", "inspect"} :
          s \in Steps \ Auditing /\ Moves("impl", s)
    BY DEF Steps, Auditing, Moves, Rowless, WithRow, Attempting
  <2> QED
    BY <1>1, <2>1, <2>2, GoneMoves
<1> QED
  BY <1>2, <1>3, <1>4, QuietWorker

\* retryDuringShutdown, releaseWithoutPenalty and contention: the charge that is
\* taken back is that of the attempt under the lease.
LEMMA RefundStep ==
  ASSUME IInv, NEW w \in Leases,
         retryDuringShutdown(w) \/ releaseWithoutPenalty(w) \/ contention(w)
  PROVE  IInv'
<1>1. /\ worker[w].pc \in Attempting /\ worker[w].pc \in WithRow
      /\ worker[w].row \in 1..Len(rows)
  BY DEF retryDuringShutdown, releaseWithoutPenalty, contention, IInv, RowsOwned, WithRow,
    Attempting
<1>2. /\ job' = refundRelease(w).job /\ Go(w, "gone") /\ history' = history
      /\ rows' = refundRelease(w).rows \/ rows' = InterruptReleased(w)
  BY DEF retryDuringShutdown, releaseWithoutPenalty, contention
<1>3. SameBooks(rows')
  <2>1. /\ SameBooks(rows) /\ SameBooks(Uncharge(rows, worker[w].row, w))
        /\ SameBooks([Uncharge(rows, worker[w].row, w) EXCEPT ![worker[w].row].status = "interrupted"])
    BY <1>1, SameRows, ClosedBooks DEF IInv, RowStatuses
  <2> QED
    BY <1>2, <2>1 DEF refundRelease, InterruptReleased
<1>4. /\ job \in Jobs /\ job.count \in Nat /\ history' \in Histories
      /\ history.failed \in Nat /\ history.stray \in Nat
  BY <1>2 DEF IInv, TypeOK, Jobs, Histories
<1>5. /\ job' \in Jobs /\ job'.acount = job.acount
      /\ Owns(w) => job'.token = NoLease /\ job'.count = Minus1(job.count)
      /\ ~Owns(w) => job' = job
  <2>1. CASE Owns(w)
    <3> DEFINE j == Unleased(job, "queued")
    <3>1. j \in Jobs /\ j.token = NoLease /\ j.count = job.count /\ j.acount = job.acount
      BY <1>4, JobChanges DEF Statuses
    <3>2. job' = [j EXCEPT !.count = Minus1(@)]
      BY <1>2, <2>1 DEF refundRelease, Released
    <3>3. Minus1(j.count) \in Nat
      BY <1>4, <3>1 DEF Minus1
    <3> HIDE DEF j
    <3> QED
      BY <2>1, <3>1, <3>2, <3>3 DEF Jobs
  <2>2. CASE ~Owns(w)
    BY <1>2, <1>4, <2>2 DEF refundRelease
  <2> QED
    BY <2>1, <2>2
<1>6. /\ Kept
      /\ \A v \in Leases : ChargedAssessment(v)' => ChargedAssessment(v) /\ v # w
  BY <1>2, <1>3, <1>4, <1>5, GoneMoves, WorkerKept
<1>7. Assessments'
  BY <1>2, <1>5, <1>6, AssessmentsKept DEF IInv
<1>8. Failures'
  <2>1. CASE ~Owns(w)
    BY <1>2, <1>5, <1>6, <2>1, FailuresKept DEF IInv, Kept
  <2>2. CASE Owns(w)
    <3>1. ChargedAttempt /\ job.token = w
      BY <1>1, <2>2, OwnerRow DEF Owns
    <3>2. ~ChargedAttempt'
      BY <1>5, <1>6, <2>2, <3>1 DEF Kept, Leases, NoLease
    <3>3. history.failed + 1 <= job.count + history.stray
      BY <3>1 DEF IInv, Failures
    <3>4. history.failed <= Minus1(job.count) + history.stray
      BY <1>4, <3>3 DEF Minus1
    <3> QED
      BY <1>2, <1>5, <2>2, <3>2, <3>4 DEF Failures
  <2> QED
    BY <2>1, <2>2
<1> QED
  BY <1>6, <1>7, <1>8 DEF IInv, Kept

\* settleFailure books the failure of the owner, which is charged in j.
LEMMA SettleFailureStep ==
  ASSUME IInv, NEW w \in Leases, NEW j \in Jobs, NEW early \in BOOLEAN,
         j.token = job.token, j.acount = job.acount, job.count <= j.count,
         Owns(w) => history.failed + 1 <= j.count + history.stray,
         settleFailure(w, j, early), Go(w, "gone"), rows' = rows
  PROVE  IInv'
<1>1. SameBooks(rows') /\ history \in Histories /\ j.count \in Nat /\ job.count \in Nat
      /\ history.failed \in Nat /\ history.stray \in Nat
  BY SameRows DEF IInv, TypeOK, Histories, Jobs
<1>2. /\ job' \in Jobs /\ job'.acount = job.acount /\ job'.count = j.count
      /\ Owns(w) => job'.token = NoLease
      /\ ~Owns(w) => job'.token = job.token
  <2>1. "dead_letter" \in Statuses /\ "queued" \in Statuses
    BY DEF Statuses, Settled
  <2>2. \E t \in Statuses : job' = IF Owns(w) THEN Unleased(j, t) ELSE j
    BY <2>1 DEF settleFailure
  <2> QED
    BY <2>2, JobChanges
<1>3. /\ history' \in Histories /\ history'.lapsed = history.lapsed /\ history'.stray = history.stray
      /\ Owns(w) => history'.failed = history.failed + 1
      /\ ~Owns(w) => history'.failed = history.failed
  <2>1. history' = IF Owns(w) THEN [history EXCEPT !.failed = @ + 1] ELSE history
    BY DEF settleFailure
  <2>2. history.failed + 1 \in Nat
    BY <1>1
  <2> QED
    BY <1>1, <2>1, <2>2 DEF Histories
<1>4. /\ Kept
      /\ \A v \in Leases : ChargedAssessment(v)' => ChargedAssessment(v) /\ v # w
  BY <1>1, <1>2, <1>3, GoneMoves, WorkerKept
<1>5. Assessments'
  BY <1>2, <1>3, <1>4, AssessmentsKept DEF IInv
<1>6. Failures'
  <2>1. CASE Owns(w)
    <3>1. ~ChargedAttempt'
      BY <1>2, <1>4, <2>1 DEF Kept, Owns, Leases, NoLease
    <3> QED
      BY <1>2, <1>3, <2>1, <3>1 DEF Failures
  <2>2. CASE ~Owns(w)
    BY <1>1, <1>2, <1>3, <1>4, <2>2 DEF Failures, IInv, Kept
  <2> QED
    BY <2>1, <2>2
<1> QED
  BY <1>4, <1>5, <1>6 DEF IInv, Kept

LEMMA RetryStep ==
  ASSUME IInv, NEW w \in Leases, retryOrFail(w)
  PROVE  IInv'
<1>1. PICK early \in BOOLEAN : settleFailure(w, job, early)
  BY DEF retryOrFail
<1>2. job \in Jobs /\ job.count <= job.count /\ Go(w, "gone") /\ rows' = rows
  BY DEF IInv, TypeOK, Jobs, retryOrFail
<1>3. ASSUME Owns(w) PROVE history.failed + 1 <= job.count + history.stray
  <2>1. ChargedAttempt
    BY <1>3, OwnerRow DEF Owns, retryOrFail, WithRow, Attempting
  <2> QED
    BY <2>1 DEF IInv, Failures
<1> QED
  BY <1>1, <1>2, <1>3, SettleFailureStep

LEMMA CatastropheStep ==
  ASSUME IInv, NEW w \in Leases, catastrophicError(w)
  PROVE  IInv'
<1>1. Go(w, "gone") /\ rows' = rows
  BY DEF catastrophicError
<1>2. job \in Jobs /\ job.count \in Nat /\ history.failed \in Nat /\ history.stray \in Nat
  BY DEF IInv, TypeOK, Jobs, Histories
<1>3. CASE job.token = w
  <2> DEFINE j == setupFailureCounted
  <2>1. PICK early \in BOOLEAN : settleFailure(w, j, early)
    BY <1>3 DEF catastrophicError
  <2>2. j \in Jobs /\ j.token = job.token /\ j.acount = job.acount /\ j.count = job.count + 1
    <3>1. job.count + 1 \in Nat
      BY <1>2
    <3> QED
      BY <1>2, <3>1 DEF setupFailureCounted, Jobs
  <2> HIDE DEF j
  <2>3. job.count <= j.count /\ history.failed + 1 <= j.count + history.stray
    BY <1>2, <2>2 DEF IInv, Failures
  <2> QED
    BY <1>1, <2>1, <2>2, <2>3, SettleFailureStep
<1>4. CASE job.token # w
  <2>1. job' = job /\ history' = history /\ SameBooks(rows')
    BY <1>1, <1>4, SameRows DEF catastrophicError, IInv
  <2> QED
    BY <1>1, <1>2, <2>1, GoneMoves, QuietWorker
<1> QED
  BY <1>3, <1>4

-----------------------------------------------------------------------------
(* Assessments *)

LEMMA AssessmentFailedJob ==
  ASSUME NEW w \in Leases, NEW j \in Jobs, NEW gate \in BOOLEAN
  PROVE  /\ assessmentFailed(w, j, gate) \in Jobs
         /\ assessmentFailed(w, j, gate).count = j.count
         /\ assessmentFailed(w, j, gate).acount = j.acount
         /\ LeaseValid(w) => assessmentFailed(w, j, gate).token = NoLease
         /\ ~LeaseValid(w) => assessmentFailed(w, j, gate) = j
<1>1. "waiting_on_human" \in Statuses /\ "queued" \in Statuses
  BY DEF Statuses, Settled
<1>2. CASE LeaseValid(w)
  <2>1. PICK t \in Statuses :
          assessmentFailed(w, j, gate) = [Unleased(j, t) EXCEPT !.assessOnly = TRUE]
    BY <1>1, <1>2 DEF assessmentFailed
  <2> DEFINE u == Unleased(j, t)
  <2>2. u \in Jobs /\ u.token = NoLease /\ u.count = j.count /\ u.acount = j.acount
    BY JobChanges
  <2> HIDE DEF u
  <2> QED
    BY <1>2, <2>1, <2>2 DEF Jobs, u
<1>3. CASE ~LeaseValid(w)
  BY <1>3 DEF assessmentFailed
<1> QED
  BY <1>2, <1>3

LEMMA DeferredJob ==
  ASSUME IInv, NEW w \in Leases, deferDirty(w)
  PROVE  /\ job' \in Jobs /\ job'.token \in {job.token, NoLease}
         /\ job'.count = job.count /\ job'.acount = job.acount
<1>1. job \in Jobs
  BY DEF IInv, TypeOK
<1>2. CASE job' = [Released(w, "queued") EXCEPT !.assessOnly = TRUE]
  BY <1>1, <1>2 DEF Released, Unleased, Jobs, Statuses
<1>3. CASE job' = assessmentFailed(w, job, TRUE)
  BY <1>1, <1>3, AssessmentFailedJob
<1> QED
  BY <1>2, <1>3 DEF deferDirty

\* An assessment of the owner fails or ends: its charge becomes that of a failure.
LEMMA LapseStep ==
  ASSUME IInv, NEW w \in Leases, worker[w].pc \in Auditing, SameBooks(rows'), Go(w, "gone"),
         job' \in Jobs, job'.count = job.count, job'.acount = job.acount,
         LeaseValid(w) => job'.token = NoLease,
         ~LeaseValid(w) => job'.token = job.token,
         history' = IF LeaseValid(w) THEN [history EXCEPT !.lapsed = @ + 1] ELSE history
  PROVE  IInv'
<1>1. history \in Histories /\ history.lapsed \in Nat /\ history.lapsed + 1 \in Nat
  BY DEF IInv, TypeOK, Histories
<1>2. /\ history' \in Histories /\ history'.failed = history.failed /\ history'.stray = history.stray
      /\ LeaseValid(w) => history'.lapsed = history.lapsed + 1
      /\ ~LeaseValid(w) => history' = history
  BY <1>1 DEF Histories
<1>3. /\ Kept
      /\ \A v \in Leases : ChargedAssessment(v)' => ChargedAssessment(v) /\ v # w
  BY <1>2, GoneMoves, WorkerKept
<1>4. Failures'
  BY <1>2, <1>3, FailuresKept DEF IInv, Kept
<1>5. Assessments'
  <2>1. CASE LeaseValid(w)
    <3>1. worker[w].row = Len(rows) /\ \A v \in Leases : ChargedAssessment(v) => v = w
      BY <2>1, OwnerRow DEF LeaseValid, Owns, Auditing, WithRow
    <3>2. ChargedAssessment(w)
      BY <2>1, <3>1 DEF ChargedAssessment, Auditing, LeaseValid, Owns
    <3>3. history.lapsed + 1 <= job.acount
      BY <3>2 DEF IInv, Assessments
    <3> QED
      BY <1>2, <1>3, <2>1, <3>1, <3>3 DEF Assessments
  <2>2. CASE ~LeaseValid(w)
    BY <1>2, <1>3, <2>2, AssessmentsKept DEF IInv
  <2> QED
    BY <2>1, <2>2
<1> QED
  BY <1>3, <1>4, <1>5 DEF IInv, Kept

LEMMA AuditEndsStep ==
  ASSUME IInv, NEW w \in Leases,
         settleAuditFailure(w) \/ transportError(w) \/ verdict(w) \/ assessFails(w)
  PROVE  IInv'
<1>1. /\ worker[w].pc \in Auditing /\ Go(w, "gone")
      /\ worker[w].row \in 1..Len(rows)
  BY DEF settleAuditFailure, transportError, verdict, assessFails, Auditing, IInv, RowsOwned,
    WithRow
<1>2. SameBooks(rows')
  <2>1. SameBooks(rows) /\ \A s \in RowStatuses : SameBooks(Closed(worker[w].row, s))
    BY <1>1, SameRows, ClosedBooks DEF IInv
  <2>2. \/ rows' = rows
        \/ \E s \in RowStatuses : rows' = Closed(worker[w].row, s)
    <3>1. /\ "succeeded" \in RowStatuses /\ "failed" \in RowStatuses
          /\ "interrupted" \in RowStatuses
      BY DEF RowStatuses
    <3> QED
      BY <3>1 DEF settleAuditFailure, transportError, verdict, assessFails
  <2> QED
    BY <2>1, <2>2
<1>3. history' = IF LeaseValid(w) THEN [history EXCEPT !.lapsed = @ + 1] ELSE history
  BY DEF settleAuditFailure, transportError, verdict, assessFails
<1>4. job \in Jobs
  BY DEF IInv, TypeOK
<1>5. /\ job' \in Jobs /\ job'.count = job.count /\ job'.acount = job.acount
      /\ LeaseValid(w) => job'.token = NoLease
      /\ ~LeaseValid(w) => job'.token = job.token
  <2>1. CASE settleAuditFailure(w)
    <3> DEFINE j == [job EXCEPT !.assessOnly = TRUE]
    <3>1. j \in Jobs /\ j.count = job.count /\ j.acount = job.acount /\ j.token = job.token
      BY <1>4 DEF Jobs
    <3>2. PICK gate \in BOOLEAN : job' = assessmentFailed(w, j, gate)
      BY <2>1 DEF settleAuditFailure
    <3> HIDE DEF j
    <3> QED
      BY <3>1, <3>2, AssessmentFailedJob
  <2>2. CASE transportError(w) \/ assessFails(w)
    <3>1. PICK gate \in BOOLEAN : job' = assessmentFailed(w, job, gate)
      BY <2>2 DEF transportError, assessFails
    <3> QED
      BY <1>4, <3>1, AssessmentFailedJob
  <2>3. CASE verdict(w) /\ LeaseValid(w)
    <3>1. PICK s \in {"succeeded", "failed", "waiting_on_human", "queued"} :
            job' = [Unleased(job, s) EXCEPT !.assessOnly = (s = "queued")]
      BY <2>3 DEF verdict
    <3> DEFINE u == Unleased(job, s)
    <3>2. u \in Jobs /\ u.token = NoLease /\ u.count = job.count /\ u.acount = job.acount
      BY <1>4, <3>1, JobChanges DEF Statuses, Settled
    <3>3. (s = "queued") \in BOOLEAN
      OBVIOUS
    <3> HIDE DEF u
    <3> QED
      BY <2>3, <3>1, <3>2, <3>3 DEF Jobs, u
  <2>4. CASE verdict(w) /\ ~LeaseValid(w)
    BY <1>4, <2>4 DEF verdict
  <2> QED
    BY <2>1, <2>2, <2>3, <2>4
<1> QED
  BY <1>1, <1>2, <1>3, <1>5, LapseStep

\* acount + 1.
LEMMA ChargedJob ==
  ASSUME NEW j \in Jobs
  PROVE  /\ [j EXCEPT !.acount = @ + 1] \in Jobs
         /\ [j EXCEPT !.acount = @ + 1].acount = j.acount + 1
         /\ [j EXCEPT !.acount = @ + 1].count = j.count
         /\ [j EXCEPT !.acount = @ + 1].token = j.token
<1>1. j.acount \in Nat /\ j.acount + 1 \in Nat
  BY DEF Jobs
<1> QED
  BY <1>1 DEF Jobs

LEMMA LapsedHistory ==
  ASSUME IInv
  PROVE  LET h == [history EXCEPT !.lapsed = @ + 1]
         IN  /\ h \in Histories /\ h.lapsed = history.lapsed + 1
             /\ h.failed = history.failed /\ h.stray = history.stray
<1>1. history \in Histories /\ history.lapsed + 1 \in Nat
  BY DEF IInv, TypeOK, Histories
<1> QED
  BY <1>1 DEF Histories

LEMMA AttachedStep ==
  ASSUME IInv, NEW w \in Leases, beginAttachedAssessment(w)
  PROVE  IInv'
<1>1. worker[w].pc = "inspect" /\ worker[w].row \in 1..Len(rows) /\ worker[w].pc \in WithRow
  BY DEF beginAttachedAssessment, IInv, RowsOwned, WithRow
<1>2. SameBooks(rows')
  <2>1. SameBooks(rows) /\ \A s \in RowStatuses : SameBooks(Closed(worker[w].row, s))
    BY <1>1, SameRows, ClosedBooks DEF IInv
  <2> QED
    BY <2>1 DEF beginAttachedAssessment, RowStatuses
<1>3. /\ job \in Jobs /\ job.acount \in Nat /\ history \in Histories /\ history.lapsed \in Nat
  BY DEF IInv, TypeOK, Jobs, Histories
<1> DEFINE charged == [job EXCEPT !.acount = @ + 1]
<1>4. /\ charged \in Jobs /\ charged.acount = job.acount + 1
      /\ charged.count = job.count /\ charged.token = job.token
  BY <1>3, ChargedJob
<1>5. CASE LeaseValid(w) /\ job' = charged /\ Go(w, "audit") /\ history' = history
  <2> HIDE DEF charged
  <2>1. "audit" \in Steps /\ Moves(worker[w].pc, "audit")
    BY <1>1 DEF Steps, Moves, Rowless, WithRow, Attempting
  <2>2. /\ Moved /\ worker'[w].pc = "audit"
        /\ \A v \in Leases \ {w} : worker'[v] = worker[v]
    BY <1>5, <2>1, GoMoves DEF IInv
  <2>3. Kept
    BY <1>2, <1>3, <1>4, <1>5, <2>2, RestKept
  <2>4. Failures'
    BY <1>4, <1>5, <2>3, FailuresKept DEF IInv, Kept
  <2>5. Assessments'
    BY <1>3, <1>4, <1>5 DEF IInv, Assessments
  <2> QED
    BY <2>3, <2>4, <2>5 DEF IInv, Kept
<1>6. CASE /\ LeaseValid(w) /\ job' = assessmentFailed(w, charged, FALSE) /\ Go(w, "gone")
           /\ history' = [history EXCEPT !.lapsed = @ + 1]
  <2> HIDE DEF charged
  <2>1. /\ job' \in Jobs /\ job'.token = NoLease /\ job'.count = job.count
        /\ job'.acount = job.acount + 1
    BY <1>4, <1>6, AssessmentFailedJob
  <2>2. /\ history' \in Histories /\ history'.lapsed = history.lapsed + 1
        /\ history'.failed = history.failed /\ history'.stray = history.stray
    BY <1>6, LapsedHistory
  <2>3. /\ Kept
        /\ \A v \in Leases : ChargedAssessment(v)' => ChargedAssessment(v) /\ v # w
    BY <1>2, <1>6, <2>1, <2>2, GoneMoves, WorkerKept
  <2>4. Failures'
    BY <2>1, <2>2, <2>3, FailuresKept DEF IInv, Kept
  <2>5. Assessments'
    BY <1>3, <2>1, <2>2, <2>3 DEF IInv, Assessments
  <2> QED
    BY <2>3, <2>4, <2>5 DEF IInv, Kept
<1>7. CASE deferDirty(w) /\ Go(w, "gone") /\ history' = history
  BY <1>2, <1>7, DeferredJob, GoneMoves, QuietWorker
<1>8. CASE job' = job /\ Go(w, "gone") /\ history' = history
  BY <1>2, <1>3, <1>8, GoneMoves, QuietWorker
<1> QED
  BY <1>5, <1>6, <1>7, <1>8 DEF beginAttachedAssessment

LEMMA AuditFailsStep ==
  ASSUME IInv, NEW w \in Leases, auditFails(w)
  PROVE  IInv'
<1>1. worker[w].pc = "audit" /\ worker[w].row \in 1..Len(rows) /\ worker[w].pc \in WithRow
  BY DEF auditFails, IInv, RowsOwned, WithRow
<1>2. SameBooks(rows') /\ job' = job /\ history' = history /\ Go(w, "marking")
  BY <1>1, ClosedBooks DEF auditFails, RowStatuses, IInv
<1>3. "marking" \in Steps /\ Moves(worker[w].pc, "marking")
  BY <1>1 DEF Steps, Moves, Rowless, WithRow, Attempting
<1>4. /\ Moved /\ worker'[w].pc = "marking"
      /\ \A v \in Leases \ {w} : worker'[v] = worker[v]
  BY <1>2, <1>3, GoMoves DEF IInv
<1>5. job \in Jobs /\ history \in Histories
  BY DEF IInv, TypeOK, Histories
<1>6. Kept
  BY <1>2, <1>4, <1>5, RestKept
<1>7. Failures'
  BY <1>2, <1>6, FailuresKept DEF IInv, Kept
<1>8. ASSUME NEW v \in Leases, ChargedAssessment(v)' PROVE ChargedAssessment(v)
  <2>1. CASE v # w
    BY <1>2, <1>4, <1>8, <2>1 DEF ChargedAssessment, SameBooks
  <2>2. CASE v = w
    <3>1. job.token = w
      BY <1>2, <1>4, <1>8, <2>2 DEF ChargedAssessment
    <3> QED
      BY <1>1, <2>2, <3>1, OwnerRow DEF ChargedAssessment
  <2> QED
    BY <2>1, <2>2
<1>9. Assessments'
  BY <1>2, <1>8, AssessmentsKept DEF IInv
<1> QED
  BY <1>6, <1>7, <1>9 DEF IInv, Kept

\* The refund of an interruption, the late one of a worker whose lease was swept
\* included, takes back a charge that is still outstanding.
LEMMA InterruptedStep ==
  ASSUME IInv, NEW w \in Leases, assessmentInterrupted(w)
  PROVE  IInv'
<1> DEFINE r == worker[w].row
           refunds == rows[r].status = "running" /\ interruptRefunds(w, r)
           refunded == IF refunds THEN [job EXCEPT !.acount = Minus1(@)] ELSE job
<1>1. /\ worker[w].pc \in {"audit", "assess"} /\ worker[w].pc \in WithRow
      /\ r \in 1..Len(rows) /\ rows[r].by = w
  BY DEF assessmentInterrupted, IInv, RowsOwned, WithRow
<1>2. SameBooks(rows') /\ Go(w, "gone") /\ history' = history
  BY <1>1, ClosedBooks DEF assessmentInterrupted, IInv, RowStatuses
<1>3. /\ job \in Jobs /\ job.acount \in Nat /\ history \in Histories /\ history.lapsed \in Nat
  BY DEF IInv, TypeOK, Jobs, Histories
<1>4. /\ refunded \in Jobs /\ refunded.token = job.token /\ refunded.count = job.count
      /\ refunded.acount = IF refunds THEN Minus1(job.acount) ELSE job.acount
  <2>1. Minus1(job.acount) \in Nat
    BY <1>3 DEF Minus1
  <2> HIDE DEF refunds
  <2> QED
    BY <1>3, <2>1 DEF Jobs
<1>5. /\ job' \in Jobs /\ job'.token \in {job.token, NoLease} /\ job'.count = job.count
      /\ job'.acount = refunded.acount
  <2>1. \/ job' = [Unleased(refunded, "queued") EXCEPT !.assessOnly = TRUE]
        \/ job' = Unleased(refunded, "canceled")
        \/ job' = refunded
    BY DEF assessmentInterrupted
  <2> HIDE DEF refunded
  <2>2. /\ Unleased(refunded, "queued") \in Jobs /\ Unleased(refunded, "canceled") \in Jobs
        /\ Unleased(refunded, "queued").token = NoLease
        /\ Unleased(refunded, "canceled").token = NoLease
        /\ Unleased(refunded, "queued").count = job.count
        /\ Unleased(refunded, "canceled").count = job.count
        /\ Unleased(refunded, "queued").acount = refunded.acount
        /\ Unleased(refunded, "canceled").acount = refunded.acount
    BY <1>4, JobChanges DEF Statuses, Settled
  <2>3. ASSUME NEW j \in Jobs
        PROVE  LET k == [j EXCEPT !.assessOnly = TRUE]
               IN  k \in Jobs /\ k.token = j.token /\ k.count = j.count /\ k.acount = j.acount
    BY DEF Jobs
  <2> QED
    BY <1>4, <2>1, <2>2, <2>3
<1>6. /\ Kept
      /\ \A v \in Leases : ChargedAssessment(v)' => ChargedAssessment(v) /\ v # w
  BY <1>2, <1>3, <1>5, GoneMoves, WorkerKept
<1>7. Failures'
  BY <1>2, <1>5, <1>6, FailuresKept DEF IInv, Kept
<1>8. Assessments'
  <2>1. CASE ~refunds
    <3>1. job'.acount = job.acount
      BY <1>4, <1>5, <2>1
    <3> QED
      BY <1>2, <1>6, <3>1, AssessmentsKept DEF IInv
  <2>2. CASE refunds
    <3>1. r = Len(rows)
      BY <1>1, <2>2, OwnerRow DEF interruptRefunds
    <3>2. history.lapsed + 1 <= job.acount
      BY <1>1, <3>1 DEF ChargedAssessment, IInv, Assessments
    <3>3. ASSUME NEW v \in Leases, ChargedAssessment(v)' PROVE FALSE
      <4>1. ChargedAssessment(v) /\ v # w
        BY <1>6, <3>3
      <4>2. CASE worker[v].pc \in {"audit", "assess"} /\ worker[v].row = Len(rows)
        BY <1>1, <3>1, <4>1, <4>2 DEF IInv, RowsOwned, WithRow
      <4>3. CASE worker[v].pc = "marking" /\ job.token = v
        BY <2>2, <4>1, <4>3 DEF interruptRefunds, Leases, NoLease
      <4> QED
        BY <4>1, <4>2, <4>3 DEF ChargedAssessment
    <3>4. job'.acount = Minus1(job.acount) /\ history.lapsed <= Minus1(job.acount)
      BY <1>3, <1>4, <1>5, <2>2, <3>2 DEF Minus1
    <3> QED
      BY <1>2, <3>3, <3>4 DEF Assessments
  <2> QED
    BY <2>1, <2>2
<1> QED
  BY <1>6, <1>7, <1>8 DEF IInv, Kept

LEMMA AssessOnlyStep ==
  ASSUME IInv, NEW w \in Leases, startAssessOnly(w)
  PROVE  IInv'
<1>1. worker[w].pc = "assessSetup" /\ worker[w].pc \in Rowless /\ SameBooks(rows)
  BY SameRows DEF startAssessOnly, Rowless, IInv
<1>2. /\ job \in Jobs /\ job.acount \in Nat /\ job.acount + 1 \in Nat /\ job.count \in Nat
      /\ history \in Histories /\ history.lapsed \in Nat
      /\ history.failed \in Nat /\ history.stray \in Nat
  BY DEF IInv, TypeOK, Jobs, Histories
<1> DEFINE charged == [job EXCEPT !.acount = @ + 1]
           opened == [job EXCEPT !.status = "awaiting_assessment", !.acount = @ + 1,
                                 !.assessOnly = FALSE]
           e == NewRow("assessment", w)
           failedRow == [NewRow("assessment", w) EXCEPT !.status = "failed"]
<1>3. /\ charged \in Jobs /\ charged.acount = job.acount + 1
      /\ charged.count = job.count /\ charged.token = job.token
  BY <1>2, ChargedJob
<1>4. /\ opened \in Jobs /\ opened.acount = job.acount + 1
      /\ opened.count = job.count /\ opened.token = job.token
  BY <1>2 DEF Jobs, Statuses, Holding
<1>5. /\ e \in Rows /\ e.by = w /\ e.kind # "implementation"
      /\ failedRow \in Rows /\ failedRow.by = w /\ failedRow.kind # "implementation"
  BY DEF NewRow, Rows, RowStatuses
<1>6. CASE /\ LeaseValid(w) /\ job' = opened /\ rows' = Append(rows, e) /\ history' = history
           /\ worker' = [worker EXCEPT ![w] = [pc |-> "assess", row |-> Len(rows) + 1]]
  <2> HIDE DEF e, opened, charged, failedRow
  <2>1. /\ "assess" \in Steps /\ "assess" \notin Rowless /\ "assess" \in WithRow
        /\ "assess" \notin Attempting /\ job.token = w
    BY <1>6 DEF Steps, Rowless, WithRow, Attempting, LeaseValid, Owns
  <2>2. /\ TypeOK' /\ RowsOwned' /\ LeaseRowLatest' /\ ~ChargedAttempt'
        /\ \A v \in Leases \ {w} : ~ChargedAssessment(v)'
    BY <1>1, <1>2, <1>4, <1>5, <1>6, <2>1, OpenedRow
  <2>3. Failures'
    BY <1>4, <1>6, <2>2 DEF IInv, Failures
  <2>4. Assessments'
    BY <1>2, <1>4, <1>6 DEF IInv, Assessments
  <2> QED
    BY <2>2, <2>3, <2>4 DEF IInv
<1>7. CASE /\ LeaseValid(w) /\ job' = assessmentFailed(w, charged, FALSE)
           /\ rows' = Append(rows, failedRow) /\ Go(w, "gone")
           /\ history' = [history EXCEPT !.lapsed = @ + 1]
  <2> HIDE DEF e, opened, charged, failedRow
  <2>1. /\ "gone" \in Steps /\ "gone" \notin Rowless /\ "gone" \notin WithRow
        /\ "gone" \notin Attempting /\ job.token = w
    BY <1>7 DEF Steps, Rowless, WithRow, Attempting, LeaseValid, Owns
  <2>2. /\ job' \in Jobs /\ job'.token = NoLease /\ job'.count = job.count
        /\ job'.acount = job.acount + 1
    BY <1>3, <1>7, AssessmentFailedJob
  <2>3. /\ history' \in Histories /\ history'.lapsed = history.lapsed + 1
        /\ history'.failed = history.failed /\ history'.stray = history.stray
    BY <1>7, LapsedHistory
  <2>4. /\ TypeOK' /\ RowsOwned' /\ LeaseRowLatest' /\ ~ChargedAttempt'
        /\ \A v \in Leases \ {w} : ~ChargedAssessment(v)'
        /\ worker'[w].pc = "gone"
    BY <1>1, <1>5, <1>7, <2>1, <2>2, <2>3, OpenedRow
  <2>5. Failures'
    BY <2>2, <2>3, <2>4 DEF IInv, Failures
  <2>6. Assessments'
    BY <1>2, <2>2, <2>3, <2>4 DEF IInv, Assessments, ChargedAssessment
  <2> QED
    BY <2>4, <2>5, <2>6 DEF IInv
<1>8. CASE deferDirty(w) /\ Go(w, "gone") /\ rows' = rows /\ history' = history
  BY <1>1, <1>8, DeferredJob, GoneMoves, QuietWorker
<1>9. CASE /\ LeaseValid(w) /\ job' = assessmentFailed(w, job, FALSE) /\ Go(w, "gone")
           /\ rows' = rows /\ history' = history
  BY <1>1, <1>2, <1>9, AssessmentFailedJob, GoneMoves, QuietWorker
<1>10. CASE job' = job /\ Go(w, "gone") /\ rows' = rows /\ history' = history
  BY <1>1, <1>2, <1>10, GoneMoves, QuietWorker
<1> QED
  BY <1>6, <1>7, <1>8, <1>9, <1>10 DEF startAssessOnly

-----------------------------------------------------------------------------
(* Sweeps, the process and the operator *)

LEMMA NobodyGoesOn ==
  ASSUME TypeOK, worker' = worker \/ AllGone
  PROVE  Moved /\ \A v \in Leases : worker'[v].pc \in Auditing => worker'[v] = worker[v]
<1>1. worker \in [Leases -> [pc : Steps, row : Nat]]
  BY DEF TypeOK
<1>2. CASE worker' = worker
  BY <1>1, <1>2 DEF Moved, Moves
<1>3. CASE AllGone
  <2>1. ASSUME NEW v \in Leases
        PROVE  /\ worker'[v] \in [pc : Steps, row : Nat] /\ worker'[v].row = worker[v].row
               /\ worker'[v] = worker[v] \/ worker'[v].pc = "gone"
    BY <1>1, <1>3 DEF AllGone, Steps
  <2>2. worker' \in [Leases -> [pc : Steps, row : Nat]]
    BY <1>3, <2>1 DEF AllGone
  <2>3. \A v \in Leases : Moves(worker[v].pc, worker'[v].pc)
    BY <2>1, GoneMoves DEF Moves
  <2> QED
    BY <2>1, <2>2, <2>3 DEF Moved, Auditing
<1> QED
  BY <1>2, <1>3

\* No worker goes on, and no budget is touched.
LEMMA QuietStep ==
  ASSUME IInv, job' \in Jobs, SameBooks(rows'), job'.token \in {job.token, NoLease},
         history' = history, job'.count = job.count, job'.acount = job.acount,
         worker' = worker \/ AllGone
  PROVE  IInv'
<1>1. history' \in Histories
  BY DEF IInv, TypeOK, Histories
<1>2. Moved /\ \A v \in Leases : worker'[v].pc \in Auditing => worker'[v] = worker[v]
  BY NobodyGoesOn DEF IInv
<1>3. Kept
  BY <1>1, <1>2, RestKept
<1>4. Failures'
  BY <1>3, FailuresKept DEF IInv, Kept
<1>5. ASSUME NEW v \in Leases, ChargedAssessment(v)' PROVE ChargedAssessment(v)
  <2>1. worker'[v] = worker[v] /\ Len(rows') = Len(rows) /\ v # NoLease
    BY <1>2, <1>5 DEF ChargedAssessment, Auditing, SameBooks, Leases, NoLease
  <2> QED
    BY <1>5, <2>1 DEF ChargedAssessment
<1>6. Assessments'
  BY <1>5, AssessmentsKept DEF IInv
<1> QED
  BY <1>3, <1>4, <1>6 DEF IInv, Kept

\* A sweep takes back the charge of the attempt under the lease it ends, or
\* counts a stray refund.
LEMMA SweepStep ==
  ASSUME IInv, NEW q, SameBooks(q), sweep(q), worker' = worker \/ AllGone
  PROVE  IInv'
<1>1. /\ job \in Jobs /\ job.count \in Nat /\ history \in Histories
      /\ history.failed \in Nat /\ history.stray \in Nat /\ history.stray + 1 \in Nat
  BY DEF IInv, TypeOK, Jobs, Histories
<1> DEFINE n == IF sweepRefunds THEN Minus1(job.count) ELSE job.count
<1>2. /\ job' \in Jobs /\ job'.token = NoLease /\ job'.acount = job.acount /\ job'.count = n
  <2> DEFINE u == Unleased(job, "queued")
             b == (u.assessOnly \/ job.status = "awaiting_assessment")
  <2>1. u \in Jobs /\ u.token = NoLease /\ u.count = job.count /\ u.acount = job.acount
    BY <1>1, JobChanges DEF Statuses
  <2>2. n \in Nat /\ b \in BOOLEAN
    BY <1>1, <2>1 DEF Minus1, Jobs
  <2>3. job' = [u EXCEPT !.count = n, !.assessOnly = b]
    BY <2>1 DEF sweep, Requeued
  <2> HIDE DEF u, b, n
  <2> QED
    BY <2>1, <2>2, <2>3 DEF Jobs
<1>3. /\ history' \in Histories /\ history'.failed = history.failed
      /\ history'.lapsed = history.lapsed
      /\ history'.stray = IF sweepRefunds /\ Last(rows).by # job.token
                          THEN history.stray + 1 ELSE history.stray
  BY <1>1 DEF sweep, Histories
<1>4. rows' = q
  BY DEF sweep
<1>5. Moved /\ \A v \in Leases : worker'[v].pc \in Auditing => worker'[v] = worker[v]
  BY NobodyGoesOn DEF IInv
<1>6. Kept
  BY <1>2, <1>3, <1>4, <1>5, RestKept
<1>7. ASSUME NEW v \in Leases, ChargedAssessment(v)' PROVE ChargedAssessment(v)
  <2>1. worker'[v] = worker[v] /\ Len(rows') = Len(rows) /\ v # NoLease
    BY <1>4, <1>5, <1>7 DEF ChargedAssessment, Auditing, SameBooks, Leases, NoLease
  <2> QED
    BY <1>2, <1>7, <2>1 DEF ChargedAssessment
<1>8. Assessments'
  BY <1>2, <1>3, <1>7, AssessmentsKept DEF IInv
<1>9. ~ChargedAttempt'
  <2>1. \A i \in 1..Len(rows') : rows'[i].by # NoLease
    <3>1. \A i \in 1..Len(rows') : rows'[i] \in Rows
      BY <1>4 DEF SameBooks
    <3> QED
      BY <3>1 DEF Rows, Leases, NoLease
  <2> QED
    BY <1>2, <2>1 DEF ChargedAttempt
<1>10. history'.failed <= job'.count + history'.stray
  <2>1. CASE ~sweepRefunds
    BY <1>2, <1>3, <2>1 DEF IInv, Failures
  <2>2. CASE sweepRefunds /\ Last(rows).by # job.token
    <3>1. history.failed <= job.count + history.stray
      BY DEF IInv, Failures
    <3>2. history.failed <= Minus1(job.count) + (history.stray + 1)
      BY <1>1, <3>1 DEF Minus1
    <3> QED
      BY <1>2, <1>3, <2>2, <3>2
  <2>3. CASE sweepRefunds /\ Last(rows).by = job.token
    <3>1. Len(rows) \in 1..Len(rows) /\ Last(rows) = rows[Len(rows)]
      BY <2>3 DEF sweepRefunds, Last, IInv, TypeOK
    <3>2. ChargedAttempt
      BY <2>3, <3>1 DEF sweepRefunds, ChargedAttempt
    <3>3. history.failed + 1 <= job.count + history.stray
      BY <3>2 DEF IInv, Failures
    <3>4. history.failed <= Minus1(job.count) + history.stray
      BY <1>1, <3>3 DEF Minus1
    <3> QED
      BY <1>2, <1>3, <2>3, <3>4
  <2> QED
    BY <2>1, <2>2, <2>3
<1> QED
  BY <1>6, <1>8, <1>9, <1>10 DEF IInv, Kept, Failures

LEMMA SweptBooks ==
  ASSUME IInv, job.status \in Holding
  PROVE  SameBooks(sweptRows)
<1>1. CASE ~sweepRefunds
  BY <1>1, SameRows DEF sweptRows, IInv
<1>2. CASE sweepRefunds
  <2>1. Len(rows) \in 1..Len(rows) /\ SameBooks(rows)
    BY <1>2, SameRows DEF sweepRefunds, IInv, TypeOK
  <2> QED
    BY <1>2, <2>1, ChangedRow DEF sweptRows, Uncharge, RowStatuses
<1> QED
  BY <1>1, <1>2

LEMMA ProcessStep ==
  ASSUME IInv, leaseExpires \/ requeueExpiredLeases \/ forcedExit \/ crash \/ boot
  PROVE  IInv'
<1>1. job \in Jobs /\ SameBooks(rows)
  BY SameRows DEF IInv, TypeOK
<1>2. CASE leaseExpires
  <2>1. /\ job' \in Jobs /\ job'.token = job.token
        /\ job'.count = job.count /\ job'.acount = job.acount
    BY <1>1, <1>2 DEF leaseExpires, Jobs
  <2> QED
    BY <1>1, <1>2, <2>1, QuietStep DEF leaseExpires
<1>3. CASE requeueExpiredLeases
  BY <1>3, SweptBooks, SweepStep DEF requeueExpiredLeases
<1>4. CASE forcedExit
  <2>1. CASE job.status \in Holding
    BY <1>4, <2>1, SweptBooks, AllClosedBooks, SweepStep DEF forcedExit, RowStatuses
  <2>2. CASE job.status \notin Holding
    BY <1>1, <1>4, <2>2, QuietStep DEF forcedExit
  <2> QED
    BY <2>1, <2>2
<1>5. CASE crash
  BY <1>1, <1>5, QuietStep DEF crash
<1>6. CASE boot
  <2>1. CASE job.status \in Holding
    BY <1>6, <2>1, SweptBooks, AllClosedBooks, SweepStep DEF boot, RowStatuses
  <2>2. CASE job.status \notin Holding
    BY <1>1, <1>6, <2>2, AllClosedBooks, QuietStep DEF boot, RowStatuses
  <2> QED
    BY <2>1, <2>2
<1> QED
  BY <1>2, <1>3, <1>4, <1>5, <1>6

LEMMA OperatorStep ==
  ASSUME IInv, beginJobRetryGeneration \/ extendAssessmentMaxAttempts \/ cancelJob
  PROVE  IInv'
<1>1. /\ job \in Jobs /\ SameBooks(rows) /\ job.count + MaxAttempts \in Nat
      /\ job.acount + 1 \in Nat
  BY SameRows, BudgetAssumption DEF IInv, TypeOK, Jobs
<1>2. rows' = rows /\ worker' = worker /\ history' = history
  BY DEF beginJobRetryGeneration, extendAssessmentMaxAttempts, cancelJob
<1>3. /\ job' \in Jobs /\ job'.token \in {job.token, NoLease}
      /\ job'.count = job.count /\ job'.acount = job.acount
  <2>1. CASE beginJobRetryGeneration
    BY <1>1, <2>1 DEF beginJobRetryGeneration, Jobs, Statuses
  <2>2. CASE extendAssessmentMaxAttempts
    BY <1>1, <2>2 DEF extendAssessmentMaxAttempts, Jobs, Statuses
  <2>3. CASE cancelJob
    BY <1>1, <2>3, JobChanges DEF cancelJob, Statuses, Settled
  <2> QED
    BY <2>1, <2>2, <2>3
<1> QED
  BY <1>1, <1>2, <1>3, QuietStep

LEMMA Invariance == Spec => []IInv
<1>1. Init => IInv
  <2> SUFFICES ASSUME Init PROVE IInv
    OBVIOUS
  <2>1. rows = <<>> /\ Len(rows) = 0 /\ rows \in Seq(Rows)
    BY DEF Init
  <2>2. /\ job \in Jobs /\ job.count = 0 /\ job.acount = 0 /\ history \in Histories
        /\ history.failed = 0 /\ history.stray = 0 /\ history.lapsed = 0
    BY BudgetAssumption DEF Init, Jobs, Statuses, Histories, NoLease
  <2>3. /\ worker \in [Leases -> [pc : Steps, row : Nat]]
        /\ \A w \in Leases : worker[w].pc = "none"
    BY DEF Init, Steps
  <2> QED
    BY <2>1, <2>2, <2>3 DEF IInv, TypeOK, Histories, RowsOwned, LeaseRowLatest, Failures,
      Assessments, ChargedAttempt, ChargedAssessment, WithRow, Attempting
<1>2. IInv /\ [Next]_vars => IInv'
  <2> SUFFICES ASSUME IInv, [Next]_vars PROVE IInv'
    OBVIOUS
  <2>1. CASE UNCHANGED vars
    <3>1. SameBooks(rows) /\ job \in Jobs
      BY SameRows DEF IInv, TypeOK
    <3> QED
      BY <2>1, <3>1, QuietStep DEF vars
  <2>2. ASSUME NEW w \in Leases, acquireLease(w) \/ Work(w) \/ Fault(w) PROVE IInv'
    <3>1. CASE Work(w)
      BY <3>1, StartStep, AttemptStep, AttemptEndsStep, RetryStep, RefundStep, AttachedStep,
        AuditFailsStep, AuditEndsStep, AssessOnlyStep DEF Work
    <3>2. CASE Fault(w)
      BY <3>2, StartStep, CatastropheStep, RefundStep, AttemptEndsStep, InterruptedStep
        DEF Fault
    <3> QED
      BY <2>2, <3>1, <3>2, AcquireStep
  <2> QED
    BY <2>1, <2>2, ProcessStep, OperatorStep DEF Next, Done
<1> QED
  BY <1>1, <1>2, PTL DEF Spec

\* Every column, row and worker keeps its type.
THEOREM TypeCorrect == Spec => []TypeOK
<1>1. IInv => TypeOK
  BY DEF IInv
<1> QED
  BY <1>1, Invariance, PTL

\* For any budgets and any number of faults, retries and leases: apart from the
\* refunds a sweep makes for an attempt of an earlier lease, every failure that
\* retryOrFail settled stays charged against max_attempts.
THEOREM FailuresStayCharged == Spec => []FailuresCharged
<1>1. IInv => FailuresCharged
  BY DEF IInv, Failures, FailuresCharged
<1> QED
  BY <1>1, Invariance, PTL

\* No interruption of an assessment, not even the late one of a worker that lost
\* its lease to a sweep, takes back the charge of an assessment that failed.
THEOREM AssessmentsStayCharged == Spec => []AssessmentFailuresCharged
<1>1. IInv => AssessmentFailuresCharged
  BY DEF IInv, Assessments, AssessmentFailuresCharged
<1> QED
  BY <1>1, Invariance, PTL
=============================================================================
