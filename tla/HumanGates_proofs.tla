------------------------- MODULE HumanGates_proofs ---------------------------
(***************************************************************************)
(* For any number of gates, resolvers, crashes and lapsed leases: an       *)
(* answer in flight finds its contract as it left it, and a parked job     *)
(* whose question can be answered leaves its park only by an answer.       *)
(* What the leases of gates and jobs rest on, the clock by which every     *)
(* process judges them (LeaseClock, with no state in common), is proved in *)
(* the second part.                                                        *)
(***************************************************************************)
EXTENDS HumanGates, LeaseClock, FiniteSetTheorems, TLAPS

GateRows ==
  [state : {"none", "open", "resolving", "resolved", "superseded"},
   status : {"none", "queued", "waiting_on_human", "succeeded", "failed", "canceled"},
   lease : Resolver \cup {"none", "ghost"}, expiry : {"live", "grace", "expired"},
   question : Nat, finished : Nat, action : Answer \cup {"none"},
   resume : {"none", "pending", "completed"}, answered : BOOLEAN]

JobRows == [status : {"queued", "running", "waiting_on_review", "succeeded", "failed"},
            lease : {"none", "held", "stale"}, recovered : BOOLEAN]

ResolverStates == [pc : {"idle", "claimed", "begun", "applied", "completed"},
                   gate : Gate \cup {0}, answer : Answer \cup {"none"}]

TypeOK ==
  /\ job \in JobRows
  /\ worker \in {"idle", "running", "parked", "spawned"}
  /\ park \in Nat
  /\ applied \in Answer \cup {"none"}
  /\ gate \in [Gate -> GateRows]
  /\ res \in [Resolver -> ResolverStates]
  /\ sweep \in [pc : {"idle", "claimed", "failed_job"}, gate : Gate \cup {0}]

\* The gates were created in the order of their numbers; a lease stands on a
\* parked gate job only, and a contract belongs to a gate job.
RowOK(row) ==
  /\ row.state # "none" => row.status # "none"
  /\ row.lease # "none" => row.status = "waiting_on_human"
GatesInOrder ==
  /\ \E n \in Nat : Children = 1..n
  /\ \A g \in Gate : RowOK(gate[g])

\* A resolver past its claim of the contract holds it, or lost it for good to
\* somebody who closed it.
Claimed(row, r) ==
  row.lease = r => row.state = "open" \/ (row.state = "superseded" /\ row.expiry = "expired")
Resolves(row, r) ==
  \/ row.state = "resolving" /\ row.lease = r /\ row.expiry # "expired"
  \/ row.state \in {"resolved", "superseded"} /\ row.lease # r
InFlightOf(r) ==
  res[r].pc # "idle" =>
    /\ res[r].gate \in Gate /\ res[r].answer \in Answer
    /\ gate[res[r].gate].status # "none"
    /\ res[r].pc = "claimed" => Claimed(gate[res[r].gate], r)
    /\ res[r].pc \in {"begun", "applied"} => Resolves(gate[res[r].gate], r)
    /\ res[r].pc = "completed" => gate[res[r].gate].state = "resolved"
InFlight == \A r \in Resolver : InFlightOf(r)

\* One contract is active at most, and none while a headless timeout fails the job.
OneActive ==
  /\ \A g, h \in Gate : Active(g) /\ Active(h) => g = h
  /\ sweep.pc # "idle" =>
       worker # "parked" /\ sweep.gate \in Gate /\ gate[sweep.gate].status # "none"
  /\ sweep.pc = "claimed" => \A g \in Gate : ~Active(g)

\* A resume waits in the outbox for the lease of the parked job it was given for.
Over == job.status \in {"succeeded", "failed"}
ResumesAnswered ==
  /\ worker = "running" => job.status = "running" /\ job.lease = "held"
  /\ Over => job.lease = "none"
  /\ Pending => Over \/ (Parked /\ applied # "none" /\ job.lease # "none")

IInv == TypeOK /\ GatesInOrder /\ InFlight /\ OneActive /\ ResumesAnswered

-----------------------------------------------------------------------------
(* Rows of gates *)

ActiveRow(row) == row.state \in ACTIVE_GATE_STATES

\* What a row keeps in every step but its creation, and what a step that is not
\* the resolver's own leaves of its claim.
RowKept(a, b) ==
  /\ RowOK(b)
  /\ a.status = "none" <=> b.status = "none"
  /\ ActiveRow(b) => ActiveRow(a)
RowFor(a, b, r) ==
  /\ Claimed(a, r) => Claimed(b, r)
  /\ Resolves(a, r) => Resolves(b, r)
  /\ a.state = "resolved" => b.state = "resolved"

LEMMA NoNames == ASSUME NEW r \in Resolver PROVE r # "none" /\ r # "ghost"
BY GateBounds

LEMMA RowsFinish ==
  ASSUME TypeOK, NEW row \in GateRows,
         NEW s \in {"waiting_on_human", "succeeded", "failed", "canceled"}
  PROVE  /\ Finish(row, s) \in GateRows
         /\ Finish(row, s).status = s /\ Finish(row, s).lease = "none"
         /\ Finish(row, s).state = row.state /\ Finish(row, s).expiry = row.expiry
         /\ Finish(row, s).resume = row.resume
BY DEF TypeOK, GateRows, Finish

LEMMA RowsSupersede ==
  ASSUME NEW row \in GateRows
  PROVE  /\ supersedeHumanGate(row) \in GateRows
         /\ supersedeHumanGate(row).state =
              IF ActiveRow(row) THEN "superseded" ELSE row.state
         /\ supersedeHumanGate(row).lease = row.lease
         /\ supersedeHumanGate(row).status = row.status
         /\ supersedeHumanGate(row).expiry = row.expiry
         /\ supersedeHumanGate(row).resume = row.resume
BY DEF GateRows, supersedeHumanGate, ActiveRow

LEMMA RowsReopen ==
  ASSUME NEW row \in GateRows
  PROVE  /\ reopenHumanGate(row) \in GateRows
         /\ reopenHumanGate(row).state = "open" /\ reopenHumanGate(row).lease = row.lease
         /\ reopenHumanGate(row).status = row.status
         /\ reopenHumanGate(row).resume = row.resume
BY DEF GateRows, reopenHumanGate

-----------------------------------------------------------------------------
(* What steps keep *)

LEMMA OrderKept ==
  ASSUME GatesInOrder, \A g \in Gate : RowKept(gate[g], gate'[g])
  PROVE  GatesInOrder'
<1>1. Children' = Children
  BY DEF Children, RowKept
<1> QED
  BY <1>1 DEF GatesInOrder, RowKept

LEMMA OtherKept ==
  ASSUME NEW r \in Resolver, InFlightOf(r), res'[r] = res[r],
         \A g \in Gate : RowKept(gate[g], gate'[g]) /\ RowFor(gate[g], gate'[g], r)
  PROVE  InFlightOf(r)'
BY DEF InFlightOf, RowKept, RowFor

LEMMA ActiveKept ==
  ASSUME OneActive, \A g \in Gate : RowKept(gate[g], gate'[g]),
         sweep' = sweep \/ sweep'.pc = "idle",
         worker' = "parked" => worker = "parked" \/ sweep'.pc = "idle"
  PROVE  OneActive'
<1>1. \A g \in Gate : /\ Active(g)' => Active(g)
                      /\ gate'[g].status = "none" => gate[g].status = "none"
  BY DEF Active, RowKept, ActiveRow
<1> QED
  BY <1>1 DEF OneActive

NoNewResume == \A g \in Gate : gate'[g].resume = "pending" => gate[g].resume = "pending"

LEMMA ResumesKept ==
  ASSUME ResumesAnswered, NoNewResume, job' = job, applied' = applied,
         worker' = "running" => worker = "running"
  PROVE  ResumesAnswered'
<1>1. Pending' => Pending
  BY DEF Pending, NoNewResume
<1> QED
  BY <1>1 DEF ResumesAnswered, Over, Parked

\* A step on the gates alone, by nobody or by the resolver r.
LEMMA GatesStep ==
  ASSUME IInv, gate' \in [Gate -> GateRows], NoNewResume,
         UNCHANGED <<job, worker, park, applied, sweep>>,
         \A g \in Gate : RowKept(gate[g], gate'[g]),
         res' \in [Resolver -> ResolverStates],
         \A r \in Resolver : \/ InFlightOf(r)'
                             \/ /\ res'[r] = res[r]
                                /\ \A g \in Gate : RowFor(gate[g], gate'[g], r)
  PROVE  IInv'
<1>1. TypeOK'
  BY DEF IInv, TypeOK
<1>2. GatesInOrder' /\ OneActive' /\ ResumesAnswered'
  BY OrderKept, ActiveKept, ResumesKept DEF IInv
<1>3. InFlight'
  BY OtherKept DEF IInv, InFlight
<1> QED
  BY <1>1, <1>2, <1>3 DEF IInv

LEMMA SameRow ==
  ASSUME IInv, NEW g \in Gate
  PROVE  /\ RowKept(gate[g], gate[g]) /\ gate[g] \in GateRows
         /\ \A r \in Resolver : RowFor(gate[g], gate[g], r)
BY DEF IInv, TypeOK, GatesInOrder, RowKept, RowFor

\* ... that touches one gate only.
LEMMA OneGateStep ==
  ASSUME IInv, NEW g \in Gate, NEW row \in GateRows, gate' = [gate EXCEPT ![g] = row],
         RowKept(gate[g], row), row.resume = "pending" => gate[g].resume = "pending",
         UNCHANGED <<job, worker, park, applied, sweep>>,
         res' \in [Resolver -> ResolverStates],
         \A r \in Resolver : \/ InFlightOf(r)'
                             \/ res'[r] = res[r] /\ RowFor(gate[g], row, r)
  PROVE  IInv'
<1>1. gate \in [Gate -> GateRows]
  BY DEF IInv, TypeOK
<1>2. gate'[g] = row /\ \A h \in Gate \ {g} : gate'[h] = gate[h]
  BY <1>1
<1>3. gate' \in [Gate -> GateRows] /\ NoNewResume
  BY <1>1, <1>2 DEF NoNewResume
<1>4. \A h \in Gate : RowKept(gate[h], gate'[h])
  BY <1>2, SameRow
<1>5. ASSUME NEW r \in Resolver
      PROVE  \/ InFlightOf(r)'
             \/ res'[r] = res[r] /\ \A h \in Gate : RowFor(gate[h], gate'[h], r)
  BY <1>2, SameRow
<1> QED
  BY <1>3, <1>4, <1>5, GatesStep

LEMMA ResolverMoves ==
  ASSUME IInv, NEW r \in Resolver
  PROVE  /\ Idle(r) => /\ res' \in [Resolver -> ResolverStates] /\ InFlightOf(r)'
                       /\ \A q \in Resolver \ {r} : res'[q] = res[q]
         /\ \A pc \in {"begun", "applied", "completed"} : Advance(r, pc) =>
              /\ res' \in [Resolver -> ResolverStates]
              /\ res'[r].pc = pc /\ res'[r].gate = res[r].gate /\ res'[r].answer = res[r].answer
              /\ \A q \in Resolver \ {r} : res'[q] = res[q]
<1>1. res \in [Resolver -> ResolverStates]
  BY DEF IInv, TypeOK
<1>2. ASSUME Idle(r)
      PROVE  /\ res' \in [Resolver -> ResolverStates] /\ res'[r].pc = "idle"
             /\ \A q \in Resolver \ {r} : res'[q] = res[q]
  BY <1>1, <1>2 DEF Idle, ResolverStates
<1>3. ASSUME NEW pc \in {"begun", "applied", "completed"}, Advance(r, pc)
      PROVE  /\ res' \in [Resolver -> ResolverStates]
             /\ res'[r].pc = pc /\ res'[r].gate = res[r].gate /\ res'[r].answer = res[r].answer
             /\ \A q \in Resolver \ {r} : res'[q] = res[q]
  BY <1>1, <1>3 DEF Advance, ResolverStates
<1> QED
  BY <1>2, <1>3 DEF InFlightOf

-----------------------------------------------------------------------------
(* Steps of a resolver *)

LEMMA ParkStep ==
  ASSUME IInv, NEW g \in Gate, parkGate(g)
  PROVE  IInv'
<1> DEFINE row == [gate[g] EXCEPT !.status = "waiting_on_human"]
<1>1. gate[g] \in GateRows /\ gate[g].status = "queued" /\ gate[g].lease = "none"
  BY DEF IInv, TypeOK, parkGate, GatesInOrder, RowOK
<1>2. /\ row \in GateRows /\ row.status = "waiting_on_human" /\ row.state = gate[g].state
      /\ row.lease = gate[g].lease /\ row.expiry = gate[g].expiry /\ row.resume = gate[g].resume
  BY <1>1 DEF GateRows
<1>3. gate' = [gate EXCEPT ![g] = row] /\ UNCHANGED <<job, worker, park, applied, res, sweep>>
  BY DEF parkGate
<1> HIDE DEF row
<1>4. RowKept(gate[g], row) /\ \A r \in Resolver : RowFor(gate[g], row, r)
  BY <1>1, <1>2 DEF RowKept, RowOK, ActiveRow, RowFor, Claimed, Resolves
<1>5. res' \in [Resolver -> ResolverStates]
  BY <1>3 DEF IInv, TypeOK
<1> QED
  BY <1>2, <1>3, <1>4, <1>5, OneGateStep

LEMMA ClaimStep ==
  ASSUME IInv, NEW r \in Resolver, NEW g \in Gate, NEW a \in Answer, claimHumanInputJob(r, g, a)
  PROVE  IInv'
<1> DEFINE row == [gate[g] EXCEPT !.status = "waiting_on_human", !.lease = r, !.expiry = "live"]
           st == [pc |-> "claimed", gate |-> g, answer |-> a]
<1>1. gate[g] \in GateRows /\ gate[g].state = "open" /\ gate[g].status \in {"queued", "waiting_on_human"}
  BY DEF IInv, TypeOK, claimHumanInputJob
<1>2. /\ row \in GateRows /\ row.status = "waiting_on_human" /\ row.state = "open"
      /\ row.lease = r /\ row.expiry = "live" /\ row.resume = gate[g].resume
  BY <1>1 DEF GateRows
<1>3. /\ gate' = [gate EXCEPT ![g] = row] /\ res' = [res EXCEPT ![r] = st]
      /\ UNCHANGED <<job, worker, park, applied, sweep>>
  <2>1. gate \in [Gate -> GateRows]
    BY DEF IInv, TypeOK
  <2> QED
    BY <2>1 DEF claimHumanInputJob
<1>4. /\ st \in ResolverStates /\ res \in [Resolver -> ResolverStates]
      /\ gate \in [Gate -> GateRows]
  BY DEF ResolverStates, IInv, TypeOK
<1>5. /\ res' \in [Resolver -> ResolverStates] /\ res'[r] = st
      /\ \A q \in Resolver \ {r} : res'[q] = res[q]
  BY <1>3, <1>4
<1>6. gate'[g] = row
  BY <1>3, <1>4
<1>7. InFlightOf(r)'
  <2>1. res'[r].pc = "claimed" /\ res'[r].gate = g /\ res'[r].answer = a
    BY <1>5
  <2> QED
    BY <1>2, <1>6, <2>1 DEF InFlightOf, Claimed
<1> HIDE DEF row, st
<1>8. RowKept(gate[g], row)
  BY <1>1, <1>2, NoNames DEF RowKept, RowOK, ActiveRow
<1>9. \A q \in Resolver \ {r} : RowFor(gate[g], row, q)
  BY <1>1, <1>2 DEF RowFor, Claimed, Resolves
<1>10. row.resume = "pending" => gate[g].resume = "pending"
  BY <1>2
<1>11. row \in GateRows /\ res' \in [Resolver -> ResolverStates]
  BY <1>2, <1>5
<1>12. \A q \in Resolver : \/ InFlightOf(q)'
                           \/ res'[q] = res[q] /\ RowFor(gate[g], row, q)
  BY <1>5, <1>7, <1>9
<1> QED
  BY <1>3, <1>8, <1>10, <1>11, <1>12, OneGateStep

\* The row after a release by r, for everybody else.
LEMMA ReleaseRow ==
  ASSUME TypeOK, NEW row \in GateRows, RowOK(row), NEW r \in Resolver \cup {"none"},
         NEW s \in {"waiting_on_human", "succeeded", "failed", "canceled"}, row.status # "none"
  PROVE  /\ Release(row, r, s) \in GateRows /\ RowKept(row, Release(row, r, s))
         /\ Release(row, r, s).resume = row.resume
         /\ Release(row, r, s).state = row.state
         /\ Release(row, r, s).lease = row.lease \/ Release(row, r, s).lease = "none"
         /\ \A q \in Resolver \ {r} : RowFor(row, Release(row, r, s), q)
<1> DEFINE f == Finish(row, s)
<1>1. /\ f \in GateRows /\ f.status = s /\ f.lease = "none" /\ f.state = row.state
      /\ f.expiry = row.expiry /\ f.resume = row.resume
  BY RowsFinish
<1>2. Release(row, r, s) = IF row.lease = r THEN f ELSE row
  BY DEF Release
<1> HIDE DEF f
<1>3. RowKept(row, f) /\ RowKept(row, row)
  BY <1>1 DEF RowKept, RowOK, ActiveRow
<1>4. ASSUME NEW q \in Resolver \ {r}
      PROVE  (row.lease = r => RowFor(row, f, q)) /\ RowFor(row, row, q)
  BY <1>1, NoNames DEF RowFor, Claimed, Resolves
<1> QED
  BY <1>1, <1>2, <1>3, <1>4

LEMMA GateOf ==
  ASSUME IInv, NEW r \in Resolver, res[r].pc # "idle"
  PROVE  /\ res[r].gate \in Gate /\ gate[res[r].gate] \in GateRows
         /\ RowOK(gate[res[r].gate]) /\ gate[res[r].gate].status # "none"
         /\ res[r].answer \in Answer
BY DEF IInv, InFlight, InFlightOf, TypeOK, GatesInOrder

LEMMA BeginStep ==
  ASSUME IInv, NEW r \in Resolver, beginHumanGateResolution(r)
  PROVE  IInv'
<1> DEFINE g == res[r].gate
           row == gate[g]
<1>1. /\ g \in Gate /\ row \in GateRows /\ RowOK(row) /\ row.status # "none"
      /\ res[r].answer \in Answer /\ res[r].pc = "claimed" /\ Claimed(row, r)
      /\ TypeOK /\ gate \in [Gate -> GateRows]
  BY GateOf DEF beginHumanGateResolution, IInv, InFlight, InFlightOf, TypeOK
<1>2. UNCHANGED <<job, worker, park, applied, sweep>>
  BY DEF beginHumanGateResolution
<1>3. CASE row.state = "resolved" /\ Advance(r, "begun") /\ gate' = gate
  <2>1. /\ res' \in [Resolver -> ResolverStates]
        /\ res'[r].pc = "begun" /\ res'[r].gate = g /\ res'[r].answer = res[r].answer
        /\ \A q \in Resolver \ {r} : res'[q] = res[q]
    BY <1>3, ResolverMoves
  <2>2. Resolves(row, r)
    BY <1>1, <1>3 DEF Claimed, Resolves
  <2>3. InFlightOf(r)'
    BY <1>1, <1>3, <2>1, <2>2 DEF InFlightOf
  <2> QED
    BY <1>1, <1>2, <1>3, <2>1, <2>3, SameRow, GatesStep DEF NoNewResume
<1>4. ASSUME NEW s \in {"waiting_on_human", "canceled"},
             gate' = [gate EXCEPT ![g] = Release(row, r, s)], Idle(r)
      PROVE  IInv'
  <2>1. /\ res' \in [Resolver -> ResolverStates] /\ InFlightOf(r)'
        /\ \A q \in Resolver \ {r} : res'[q] = res[q]
    BY <1>4, ResolverMoves
  <2>2. /\ Release(row, r, s) \in GateRows /\ RowKept(row, Release(row, r, s))
        /\ Release(row, r, s).resume = row.resume
        /\ \A q \in Resolver \ {r} : RowFor(row, Release(row, r, s), q)
    BY <1>1, ReleaseRow
  <2> QED
    BY <1>1, <1>2, <1>4, <2>1, <2>2, OneGateStep
<1>5. CASE /\ row.state = "open" /\ row.lease = r
           /\ gate' = [gate EXCEPT ![g] = Release(supersedeHumanGate(row), r, "canceled")]
           /\ Idle(r)
  <2> DEFINE sup == supersedeHumanGate(row)
             new == Release(sup, r, "canceled")
  <2>1. /\ res' \in [Resolver -> ResolverStates] /\ InFlightOf(r)'
        /\ \A q \in Resolver \ {r} : res'[q] = res[q]
    BY <1>5, ResolverMoves
  <2>2. /\ sup \in GateRows /\ sup.state = "superseded" /\ sup.lease = r
        /\ sup.status = row.status /\ sup.resume = row.resume /\ sup.expiry = row.expiry
    BY <1>1, <1>5, RowsSupersede DEF ActiveRow, ACTIVE_GATE_STATES
  <2>3. new \in GateRows /\ RowKept(sup, new) /\ new.resume = row.resume /\ new.lease = "none"
        /\ new.state = "superseded" /\ new.status = "canceled"
    BY <1>1, <2>2, RowsFinish DEF Release, RowKept, RowOK, ActiveRow
  <2> HIDE DEF sup, new
  <2>4. RowKept(row, new) /\ \A q \in Resolver \ {r} : RowFor(row, new, q)
    BY <1>1, <1>5, <2>3, NoNames
      DEF RowKept, RowOK, ActiveRow, ACTIVE_GATE_STATES, RowFor, Claimed, Resolves
  <2>5. gate' = [gate EXCEPT ![g] = new]
    BY <1>5 DEF new, sup
  <2> QED
    BY <1>1, <1>2, <2>1, <2>3, <2>4, <2>5, OneGateStep
<1>6. CASE /\ row.state = "open" /\ row.lease = r /\ LiveAtGrace(g)
           /\ gate' = [gate EXCEPT ![g].state = "resolving", ![g].action = res[r].answer]
           /\ Advance(r, "begun")
  <2> DEFINE new == [row EXCEPT !.state = "resolving", !.action = res[r].answer]
  <2>1. /\ res' \in [Resolver -> ResolverStates]
        /\ res'[r].pc = "begun" /\ res'[r].gate = g /\ res'[r].answer = res[r].answer
        /\ \A q \in Resolver \ {r} : res'[q] = res[q]
    BY <1>6, ResolverMoves
  <2>2. /\ new \in GateRows /\ new.state = "resolving" /\ new.lease = r
        /\ new.status = row.status /\ new.resume = row.resume /\ new.expiry = row.expiry
    BY <1>1, <1>6 DEF GateRows
  <2>3. gate' = [gate EXCEPT ![g] = new]
    BY <1>1, <1>6
  <2>4. gate'[g] = new /\ row.expiry # "expired"
    BY <1>1, <1>6, <2>3 DEF LiveAtGrace
  <2> HIDE DEF new
  <2>5. InFlightOf(r)'
    BY <1>1, <1>6, <2>1, <2>2, <2>4 DEF InFlightOf, Resolves
  <2>6. RowKept(row, new) /\ \A q \in Resolver \ {r} : RowFor(row, new, q)
    BY <1>1, <1>6, <2>2 DEF RowKept, RowOK, ActiveRow, ACTIVE_GATE_STATES, RowFor, Claimed,
      Resolves
  <2> QED
    BY <1>1, <1>2, <2>1, <2>2, <2>3, <2>5, <2>6, OneGateStep
<1> QED
  BY <1>3, <1>4, <1>5, <1>6 DEF beginHumanGateResolution

LEMMA GiveUpStep ==
  ASSUME IInv, NEW r \in Resolver, res[r].pc \in {"begun", "applied"}, GiveUp(r),
         UNCHANGED <<job, worker, park, applied, sweep>>
  PROVE  IInv'
<1> DEFINE g == res[r].gate
           row == gate[g]
           open == Release(reopenHumanGate(row), r, "waiting_on_human")
           shut == Release(supersedeHumanGate(row), r, "failed")
<1>1. /\ g \in Gate /\ row \in GateRows /\ RowOK(row) /\ row.status # "none"
      /\ Resolves(row, r) /\ TypeOK
  BY GateOf DEF IInv, InFlight, InFlightOf
<1>2. /\ res' \in [Resolver -> ResolverStates] /\ InFlightOf(r)'
      /\ \A q \in Resolver \ {r} : res'[q] = res[q]
  BY ResolverMoves DEF GiveUp
<1>3. \/ gate' = [gate EXCEPT ![g] = open] /\ row.state = "resolving" /\ row.lease = r
      \/ gate' = [gate EXCEPT ![g] = shut]
  BY DEF GiveUp
<1>4. CASE row.state = "resolving" /\ row.lease = r
  <2> DEFINE re == reopenHumanGate(row)
             sup == supersedeHumanGate(row)
  <2>1. /\ re \in GateRows /\ re.lease = r /\ re.resume = row.resume
        /\ sup \in GateRows /\ sup.lease = r /\ sup.resume = row.resume
        /\ sup.state = "superseded"
    BY <1>1, <1>4, RowsReopen, RowsSupersede DEF ActiveRow, ACTIVE_GATE_STATES
  <2>2. open = Finish(re, "waiting_on_human") /\ shut = Finish(sup, "failed")
    BY <2>1 DEF Release
  <2> HIDE DEF re, sup, open, shut
  <2>3. /\ open \in GateRows /\ open.lease = "none" /\ open.status = "waiting_on_human"
        /\ open.resume = row.resume
        /\ shut \in GateRows /\ shut.lease = "none" /\ shut.status = "failed"
        /\ shut.resume = row.resume /\ shut.state = "superseded"
    BY <1>1, <2>1, <2>2, RowsFinish
  <2>4. RowKept(row, open) /\ RowKept(row, shut)
    BY <1>1, <1>4, <2>3 DEF RowKept, RowOK, ActiveRow, ACTIVE_GATE_STATES
  <2>5. \A q \in Resolver \ {r} : RowFor(row, open, q) /\ RowFor(row, shut, q)
    BY <1>4, <2>3, NoNames DEF RowFor, Claimed, Resolves
  <2> QED
    BY <1>1, <1>2, <1>3, <2>3, <2>4, <2>5, OneGateStep
<1>5. CASE ~(row.state = "resolving" /\ row.lease = r)
  <2>1. row.state \in {"resolved", "superseded"} /\ row.lease # r
    BY <1>1, <1>5 DEF Resolves
  <2>2. shut = row
    BY <2>1 DEF Release, supersedeHumanGate, ACTIVE_GATE_STATES
  <2>3. gate' = [gate EXCEPT ![g] = row]
    BY <1>3, <1>5, <2>2
  <2>4. RowKept(row, row) /\ \A q \in Resolver : RowFor(row, row, q)
    BY <1>1, SameRow
  <2> HIDE DEF open, shut
  <2> QED
    BY <1>1, <1>2, <2>3, <2>4, OneGateStep
<1> QED
  BY <1>4, <1>5

LEMMA CompleteStep ==
  ASSUME IInv, NEW r \in Resolver, completeHumanGateResolution(r)
  PROVE  IInv'
<1> DEFINE g == res[r].gate
           row == gate[g]
<1>1. /\ g \in Gate /\ row \in GateRows /\ RowOK(row) /\ row.status # "none"
      /\ res[r].answer \in Answer /\ res[r].pc = "applied"
      /\ gate \in [Gate -> GateRows]
  BY GateOf DEF completeHumanGateResolution, IInv, TypeOK
<1>2. UNCHANGED <<job, worker, park, applied, sweep>>
  BY DEF completeHumanGateResolution
<1>3. ASSUME Advance(r, "completed"), NEW new \in GateRows, gate' = [gate EXCEPT ![g] = new],
             new.state = "resolved", RowKept(row, new), new.resume = row.resume,
             \A q \in Resolver \ {r} : RowFor(row, new, q)
      PROVE  IInv'
  <2>1. /\ res' \in [Resolver -> ResolverStates]
        /\ res'[r].pc = "completed" /\ res'[r].gate = g /\ res'[r].answer = res[r].answer
        /\ \A q \in Resolver \ {r} : res'[q] = res[q]
    BY <1>3, ResolverMoves
  <2>2. gate'[g] = new
    BY <1>1, <1>3
  <2>3. InFlightOf(r)'
    BY <1>1, <1>3, <2>1, <2>2 DEF InFlightOf, RowKept
  <2> QED
    BY <1>1, <1>2, <1>3, <2>1, <2>3, OneGateStep
<1>4. CASE row.state = "resolved" /\ Advance(r, "completed") /\ gate' = gate
  <2>1. gate' = [gate EXCEPT ![g] = row]
    BY <1>1, <1>4
  <2> QED
    BY <1>1, <1>3, <1>4, <2>1, SameRow
<1>5. CASE /\ row.state = "resolving" /\ row.lease = r
           /\ gate' = [gate EXCEPT ![g].state = "resolved"] /\ Advance(r, "completed")
  <2> DEFINE new == [row EXCEPT !.state = "resolved"]
  <2>1. /\ new \in GateRows /\ new.state = "resolved" /\ new.lease = r
        /\ new.status = row.status /\ new.resume = row.resume
    BY <1>1, <1>5 DEF GateRows
  <2>2. gate' = [gate EXCEPT ![g] = new]
    BY <1>5
  <2> HIDE DEF new
  <2>3. RowKept(row, new) /\ \A q \in Resolver \ {r} : RowFor(row, new, q)
    BY <1>1, <1>5, <2>1 DEF RowKept, RowOK, ActiveRow, ACTIVE_GATE_STATES, RowFor, Claimed,
      Resolves
  <2> QED
    BY <1>3, <1>5, <2>1, <2>2, <2>3
<1>6. CASE GiveUp(r)
  BY <1>1, <1>2, <1>6, GiveUpStep
<1> QED
  BY <1>4, <1>5, <1>6 DEF completeHumanGateResolution

LEMMA ReleaseStep ==
  ASSUME IInv, NEW r \in Resolver, releaseHumanLease(r)
  PROVE  IInv'
<1> DEFINE g == res[r].gate
           row == gate[g]
<1>1. /\ g \in Gate /\ row \in GateRows /\ RowOK(row) /\ row.status # "none" /\ TypeOK
  BY GateOf DEF releaseHumanLease, IInv
<1>2. /\ res' \in [Resolver -> ResolverStates] /\ InFlightOf(r)'
      /\ \A q \in Resolver \ {r} : res'[q] = res[q]
  BY ResolverMoves DEF releaseHumanLease
<1>3. /\ Release(row, r, "succeeded") \in GateRows /\ RowKept(row, Release(row, r, "succeeded"))
      /\ Release(row, r, "succeeded").resume = row.resume
      /\ \A q \in Resolver \ {r} : RowFor(row, Release(row, r, "succeeded"), q)
  BY <1>1, ReleaseRow
<1>4. /\ gate' = [gate EXCEPT ![g] = Release(row, r, "succeeded")]
      /\ UNCHANGED <<job, worker, park, applied, sweep>>
  BY <1>1 DEF releaseHumanLease
<1> QED
  BY <1>1, <1>2, <1>3, <1>4, OneGateStep

\* cancelPendingReviewGatesForOriginal, for a resolver r of any gate and for those
\* of the others.
LEMMA CanceledRow ==
  ASSUME IInv, NEW gates \in [Gate -> GateRows], NEW g \in Gate, NEW h \in Gate,
         RowOK(gates[h])
  PROVE  LET new == CancelOthers(gates, g)[h]
         IN  /\ new \in GateRows /\ RowKept(gates[h], new) /\ new.resume = gates[h].resume
             /\ h = g => new = gates[h]
             /\ \A r \in Resolver : RowFor(gates[h], new, r)
<1> DEFINE row == gates[h]
           f == Finish(row, "canceled")
           sup == supersedeHumanGate(f)
           new == CancelOthers(gates, g)[h]
<1>1. row \in GateRows /\ TypeOK
  BY DEF IInv
<1>2. CASE h # g /\ row.status \notin {"none", "succeeded", "canceled"}
  <2>1. new = sup
    BY <1>2 DEF CancelOthers
  <2>2. /\ f \in GateRows /\ f.status = "canceled" /\ f.lease = "none" /\ f.state = row.state
        /\ f.resume = row.resume
    BY <1>1, RowsFinish
  <2> HIDE DEF f
  <2>3. /\ sup \in GateRows /\ sup.status = "canceled" /\ sup.lease = "none"
        /\ sup.resume = row.resume
        /\ sup.state = IF ActiveRow(row) THEN "superseded" ELSE row.state
    BY <2>2, RowsSupersede DEF ActiveRow
  <2> HIDE DEF sup, new
  <2>4. RowKept(row, new)
    BY <1>2, <2>1, <2>3 DEF RowKept, RowOK, ActiveRow, ACTIVE_GATE_STATES
  <2>5. ASSUME NEW r \in Resolver PROVE RowFor(row, new, r)
    BY <2>1, <2>3, NoNames DEF RowFor, Claimed, Resolves, ActiveRow, ACTIVE_GATE_STATES
  <2> HIDE DEF row
  <2>6. new \in GateRows /\ new.resume = row.resume /\ h # g
    BY <1>2, <2>1, <2>3
  <2> USE DEF new, row
  <2> QED
    BY <2>4, <2>5, <2>6
<1>3. CASE ~(h # g /\ row.status \notin {"none", "succeeded", "canceled"})
  <2>1. new = row
    BY <1>3 DEF CancelOthers
  <2>2. RowKept(row, row) /\ \A r \in Resolver : RowFor(row, row, r)
    BY DEF RowKept, RowFor
  <2> QED
    BY <1>1, <2>1, <2>2
<1> QED
  BY <1>2, <1>3

LEMMA ApplyStep ==
  ASSUME IInv, NEW r \in Resolver, applyAnswer(r)
  PROVE  IInv' /\ (Parked => applied' # "none")
<1> DEFINE g == res[r].gate
           a == res[r].answer
           resumes == Parked /\ a = "retry_assessment"
           mid == IF resumes THEN ResumedGates(g) ELSE gate
           canceled == CancelOthers(mid, g)
<1>1. /\ g \in Gate /\ a \in Answer /\ res[r].pc = "begun" /\ Resolves(gate[g], r)
      /\ gate[g].status # "none"
      /\ TypeOK /\ gate \in [Gate -> GateRows] /\ \A h \in Gate : RowOK(gate[h])
  BY GateOf DEF applyAnswer, IInv, InFlight, InFlightOf, TypeOK, GatesInOrder
<1>2. UNCHANGED <<worker, park, sweep>> /\ Advance(r, "applied")
  BY DEF applyAnswer
<1>3. a # "none"
  BY <1>1, GateBounds
<1>4. ASSUME NEW h \in Gate
      PROVE  /\ mid[h] \in GateRows
             /\ mid[h].state = gate[h].state /\ mid[h].status = gate[h].status
             /\ mid[h].lease = gate[h].lease /\ mid[h].expiry = gate[h].expiry
             /\ ~resumes => mid[h] = gate[h]
             /\ resumes /\ Unsettled(g) /\ job.lease = "none" => mid[h].resume # "pending"
             /\ resumes /\ ~Unsettled(g) => mid[h] = gate[h]
  <2>1. gate[h] \in GateRows /\ gate[h].resume \in {"none", "pending", "completed"}
    BY <1>1 DEF GateRows
  <2>2. CASE resumes
    <3> DEFINE new == IF job.lease = "none" THEN "completed" ELSE "pending"
    <3>1. \/ mid[h] = [gate[h] EXCEPT !.resume = new] /\ Unsettled(g)
          \/ mid[h] = gate[h] /\ ~(Unsettled(g) /\ (h = g \/ gate[h].resume = "pending"))
      BY <2>2 DEF ResumedGates
    <3>2. new \in {"pending", "completed"} /\ (job.lease = "none" => new # "pending")
      OBVIOUS
    <3> HIDE DEF new, mid
    <3>3. CASE mid[h] = [gate[h] EXCEPT !.resume = new] /\ Unsettled(g)
      BY <2>1, <2>2, <3>2, <3>3 DEF GateRows
    <3>4. CASE mid[h] = gate[h] /\ ~(Unsettled(g) /\ (h = g \/ gate[h].resume = "pending"))
      BY <2>1, <2>2, <3>4
    <3> QED
      BY <3>1, <3>3, <3>4
  <2>3. CASE ~resumes
    BY <2>1, <2>3
  <2> QED
    BY <2>2, <2>3
<1>5. mid \in [Gate -> GateRows] /\ \A h \in Gate : RowOK(mid[h])
  <2>1. \A h \in Gate : RowOK(mid[h])
    BY <1>1, <1>4 DEF RowOK
  <2>2. mid = [h \in Gate |-> mid[h]]
    BY <1>1 DEF ResumedGates
  <2> HIDE DEF mid
  <2> QED
    BY <1>4, <2>1, <2>2
<1>6. ASSUME NEW h \in Gate
      PROVE  /\ canceled[h] \in GateRows /\ RowKept(mid[h], canceled[h])
             /\ canceled[h].resume = mid[h].resume
             /\ h = g => canceled[h] = mid[h]
             /\ \A q \in Resolver : RowFor(mid[h], canceled[h], q)
  <2> HIDE DEF mid
  <2> QED
    BY <1>1, <1>5, CanceledRow
<1>7. ASSUME NEW h \in Gate
      PROVE  /\ gate'[h] \in GateRows /\ RowKept(canceled[h], gate'[h])
             /\ gate'[h].resume = canceled[h].resume
             /\ gate'[h].state = canceled[h].state /\ gate'[h].status = canceled[h].status
             /\ gate'[h].lease = canceled[h].lease /\ gate'[h].expiry = canceled[h].expiry
  <2>1. gate' = [canceled EXCEPT ![g].answered = @ \/ Parked]
    BY DEF applyAnswer
  <2>2. canceled = [k \in Gate |-> canceled[k]] /\ canceled[h] \in GateRows /\ RowOK(canceled[h])
    BY <1>6 DEF CancelOthers, RowKept
  <2> HIDE DEF canceled
  <2>3. (canceled[h].answered \/ Parked) \in BOOLEAN
    OBVIOUS
  <2>4. \/ gate'[h] = canceled[h]
        \/ gate'[h] = [canceled[h] EXCEPT !.answered = canceled[h].answered \/ Parked]
    BY <1>1, <2>1, <2>2
  <2>5. /\ gate'[h] \in GateRows /\ gate'[h].resume = canceled[h].resume
        /\ gate'[h].state = canceled[h].state /\ gate'[h].status = canceled[h].status
        /\ gate'[h].lease = canceled[h].lease /\ gate'[h].expiry = canceled[h].expiry
    BY <2>2, <2>3, <2>4 DEF GateRows
  <2> QED
    BY <2>2, <2>5 DEF RowKept, RowOK, ActiveRow
<1>8. gate' \in [Gate -> GateRows]
  <2>1. gate' = [k \in Gate |-> gate'[k]]
    BY DEF applyAnswer, CancelOthers
  <2> QED
    BY <1>7, <2>1
<1> HIDE DEF mid, canceled
<1>9. ASSUME NEW h \in Gate
      PROVE  /\ RowKept(gate[h], gate'[h])
             /\ \A q \in Resolver : RowFor(gate[h], gate'[h], q)
  BY <1>4, <1>6, <1>7 DEF RowKept, RowFor, Claimed, Resolves, ActiveRow
<1>10. /\ res' \in [Resolver -> ResolverStates]
       /\ res'[r].pc = "applied" /\ res'[r].gate = g /\ res'[r].answer = a
       /\ \A q \in Resolver \ {r} : res'[q] = res[q]
  BY <1>2, ResolverMoves
<1>11. InFlight'
  <2>1. InFlightOf(r)'
    BY <1>1, <1>9, <1>10 DEF InFlightOf, RowKept, RowFor
  <2>2. \A q \in Resolver \ {r} : InFlightOf(q)'
    BY <1>9, <1>10, OtherKept DEF IInv, InFlight
  <2> QED
    BY <2>1, <2>2 DEF InFlight
<1>12. GatesInOrder' /\ OneActive'
  BY <1>2, <1>9, OrderKept, ActiveKept DEF IInv
<1>13. /\ job' \in JobRows /\ applied' \in Answer \cup {"none"}
       /\ applied' = IF Parked THEN a ELSE applied
       /\ ~Parked => job' = job
       /\ resumes => job' = ResumedJob(g)
       /\ Parked /\ ~resumes => job'.status \in {"succeeded", "failed"} /\ job'.lease = "none"
  <2>1. job \in JobRows /\ applied \in Answer \cup {"none"}
    BY <1>1 DEF TypeOK
  <2>2. applied' = (IF Parked THEN a ELSE applied)
    BY DEF applyAnswer
  <2>3. CASE ~Parked
    BY <1>1, <2>1, <2>2, <2>3 DEF applyAnswer
  <2>4. CASE resumes
    BY <1>1, <2>1, <2>2, <2>4 DEF applyAnswer, ResumedJob, JobRows
  <2>5. CASE Parked /\ ~resumes
    <3>1. a \in {"pass", "fail"}
      BY <1>1, <2>5, GateBounds
    <3>2. Outcome[a] \in {"succeeded", "failed"}
      BY <3>1 DEF Outcome
    <3>3. job' = [job EXCEPT !.status = Outcome[a], !.lease = "none"]
      BY <2>5 DEF applyAnswer
    <3> QED
      BY <1>1, <2>1, <2>2, <2>5, <3>2, <3>3 DEF JobRows
  <2> QED
    BY <2>3, <2>4, <2>5
<1>14. ResumesAnswered'
  <2>1. worker = "running" => ~Parked
    BY DEF IInv, ResumesAnswered, Parked
  <2>2. CASE ~Parked
    <3>1. NoNewResume /\ job' = job /\ applied' = applied
      BY <1>4, <1>6, <1>7, <1>13, <2>2 DEF NoNewResume
    <3> QED
      BY <1>2, <3>1, ResumesKept DEF IInv
  <2>3. CASE Parked /\ ~resumes
    BY <1>2, <1>13, <2>1, <2>3 DEF ResumesAnswered, Over
  <2>4. CASE resumes /\ Unsettled(g) /\ job.lease = "none"
    <3>1. ~Pending'
      BY <1>4, <1>6, <1>7, <2>4 DEF Pending
    <3>2. job' = [job EXCEPT !.status = "queued"] /\ job \in JobRows
      BY <1>13, <2>4 DEF ResumedJob, IInv, TypeOK
    <3> QED
      BY <1>2, <2>1, <2>4, <3>1, <3>2 DEF ResumesAnswered, Over, JobRows
  <2>5. CASE resumes /\ ~(Unsettled(g) /\ job.lease = "none")
    <3>1. job' = job /\ applied' = a
      BY <1>13, <2>5 DEF ResumedJob
    <3>2. Pending' => Pending \/ job.lease # "none"
      BY <1>4, <1>6, <1>7, <2>5 DEF Pending
    <3> QED
      BY <1>2, <1>3, <2>1, <2>5, <3>1, <3>2 DEF IInv, ResumesAnswered, Over, Parked
  <2> QED
    BY <2>2, <2>3, <2>4, <2>5
<1>15. TypeOK'
  BY <1>1, <1>2, <1>8, <1>10, <1>13 DEF TypeOK
<1> QED
  BY <1>3, <1>11, <1>12, <1>13, <1>14, <1>15 DEF IInv

-----------------------------------------------------------------------------
(* Steps on the job alone *)

LEMMA JobStep ==
  ASSUME IInv, UNCHANGED <<gate, res>>, job' \in JobRows,
         worker' \in {"idle", "running", "parked", "spawned"}, park' \in Nat,
         applied' \in Answer \cup {"none"},
         sweep' \in [pc : {"idle", "claimed", "failed_job"}, gate : Gate \cup {0}],
         ResumesAnswered', OneActive'
  PROVE  IInv'
<1>1. TypeOK'
  BY DEF IInv, TypeOK
<1>2. GatesInOrder'
  BY DEF IInv, GatesInOrder, Children
<1>3. InFlight'
  BY DEF IInv, InFlight, InFlightOf
<1> QED
  BY <1>1, <1>2, <1>3 DEF IInv

\* The worker's steps up to the park.
LEMMA WorkerSteps ==
  ASSUME IInv, LeaseJob \/ FinishJob \/ needsReview
  PROVE  IInv' /\ ~(Parked /\ ~Parked')
<1>1. /\ job \in JobRows /\ park \in Nat /\ applied \in Answer \cup {"none"}
      /\ sweep \in [pc : {"idle", "claimed", "failed_job"}, gate : Gate \cup {0}]
      /\ ResumesAnswered /\ OneActive /\ sweep.pc = "idle"
  BY DEF IInv, TypeOK, LeaseJob, FinishJob, needsReview, EventLoopFree
<1>2. UNCHANGED <<gate, res, sweep>>
  BY DEF LeaseJob, FinishJob, needsReview
<1>3. (Pending' <=> Pending) /\ OneActive'
  BY <1>1, <1>2 DEF Pending, OneActive, Active
<1>4. CASE LeaseJob
  <2>1. /\ job' \in JobRows /\ job'.status = "running" /\ job'.lease = "held"
        /\ job.status = "queued" /\ worker' = "running" /\ UNCHANGED <<park, applied>>
    BY <1>1, <1>4 DEF LeaseJob, JobRows
  <2>2. ResumesAnswered'
    BY <1>1, <1>3, <2>1 DEF ResumesAnswered, Over, Parked
  <2> QED
    BY <1>1, <1>2, <1>3, <2>1, <2>2, JobStep DEF Parked
<1>5. CASE FinishJob
  <2>1. /\ job' \in JobRows /\ job'.status = "succeeded" /\ job'.lease = "none"
        /\ worker = "running" /\ worker' = "idle" /\ UNCHANGED <<park, applied>>
    BY <1>1, <1>5 DEF FinishJob, JobRows
  <2>2. ResumesAnswered' /\ ~Parked
    BY <1>1, <1>3, <2>1 DEF ResumesAnswered, Over, Parked
  <2> QED
    BY <1>1, <1>2, <1>3, <2>1, <2>2, JobStep
<1>6. CASE needsReview
  <2>1. /\ job' \in JobRows /\ job'.status = "waiting_on_review" /\ job'.lease = job.lease
        /\ worker = "running" /\ worker' = "parked" /\ park' = park + 1 /\ applied' = "none"
    BY <1>1, <1>6 DEF needsReview, JobRows
  <2>2. ResumesAnswered' /\ ~Parked
    BY <1>1, <1>3, <2>1 DEF ResumesAnswered, Over, Parked
  <2>3. park' \in Nat
    BY <1>1, <2>1
  <2> QED
    BY <1>1, <1>2, <1>3, <2>1, <2>2, <2>3, JobStep
<1> QED
  BY <1>4, <1>5, <1>6

\* The steps of the scheduler that end a park without an answer find no active
\* contract.
LEMMA OrphanStep ==
  ASSUME IInv, NEW present \in BOOLEAN, recoverOrphanedReview(present)
  PROVE  IInv' /\ \A g \in Gate : ~Active(g)
<1>1. /\ job \in JobRows /\ job.lease = "none" /\ Parked /\ ResumesAnswered
      /\ GatesInOrder /\ UNCHANGED <<worker, park, applied, gate, res, sweep>>
  BY DEF IInv, TypeOK, recoverOrphanedReview
<1>2. \A g \in Gate : ~Active(g)
  <2>1. \A g \in Gate : Active(g) => g \in Children
    BY <1>1 DEF GatesInOrder, RowOK, Active, Children, ACTIVE_GATE_STATES
  <2> QED
    BY <2>1 DEF recoverOrphanedReview, Orphaned
<1>3. /\ job' \in JobRows /\ job'.lease = "none" /\ job'.status \in {"queued", "failed"}
  <2>1. \/ job' = [job EXCEPT !.status = "queued", !.recovered = TRUE]
        \/ job' = [job EXCEPT !.status = "failed"]
    BY DEF recoverOrphanedReview
  <2> QED
    BY <1>1, <2>1 DEF JobRows
<1>4. ~Pending' /\ worker # "running"
  BY <1>1 DEF ResumesAnswered, Over, Parked, Pending
<1>5. ResumesAnswered' /\ OneActive'
  BY <1>1, <1>3, <1>4 DEF ResumesAnswered, Over, OneActive, Active, IInv
<1>6. IInv'
  BY <1>1, <1>3, <1>5, JobStep DEF IInv, TypeOK
<1> QED
  BY <1>2, <1>6

LEMMA TimeoutJobStep ==
  ASSUME IInv, timeoutFailsJob
  PROVE  IInv' /\ \A g \in Gate : ~Active(g)
<1>1. /\ job \in JobRows /\ ResumesAnswered /\ OneActive
      /\ sweep \in [pc : {"idle", "claimed", "failed_job"}, gate : Gate \cup {0}]
      /\ sweep.pc = "claimed" /\ UNCHANGED <<worker, park, applied, gate, res>>
      /\ sweep' = [sweep EXCEPT !.pc = "failed_job"]
  BY DEF IInv, TypeOK, timeoutFailsJob
<1>2. \A g \in Gate : ~Active(g)
  BY <1>1 DEF OneActive
<1>3. /\ sweep' \in [pc : {"idle", "claimed", "failed_job"}, gate : Gate \cup {0}]
      /\ sweep'.pc = "failed_job" /\ sweep'.gate = sweep.gate
  BY <1>1
<1>4. OneActive'
  BY <1>1, <1>2, <1>3 DEF OneActive, Active
<1>5. job' \in JobRows /\ ResumesAnswered'
  <2>1. CASE Parked /\ job.lease = "none"
    <3>1. job' = [job EXCEPT !.status = "failed"]
      BY <2>1 DEF timeoutFailsJob
    <3>2. job' \in JobRows /\ job'.lease = "none" /\ job'.status = "failed"
      BY <1>1, <2>1, <3>1 DEF JobRows
    <3>3. ~Pending' /\ worker # "running"
      BY <1>1, <2>1 DEF ResumesAnswered, Over, Parked, Pending
    <3> QED
      BY <1>1, <3>2, <3>3 DEF ResumesAnswered, Over
  <2>2. CASE ~(Parked /\ job.lease = "none")
    <3>1. job' = job
      BY <2>2 DEF timeoutFailsJob
    <3> QED
      BY <1>1, <3>1 DEF ResumesAnswered, Over, Pending, Parked
  <2> QED
    BY <2>1, <2>2
<1>6. IInv'
  BY <1>1, <1>3, <1>4, <1>5, JobStep DEF IInv, TypeOK
<1> QED
  BY <1>2, <1>6

LEMMA RunDiesStep ==
  ASSUME IInv, runDies
  PROVE  IInv' /\ job'.status = job.status
<1>1. /\ job \in JobRows /\ ResumesAnswered /\ OneActive /\ worker' = "idle"
      /\ UNCHANGED <<park, applied, gate, res>> /\ sweep' = [pc |-> "idle", gate |-> 0]
      /\ job' = [job EXCEPT !.lease = IF @ = "held" THEN "stale" ELSE @]
  BY DEF IInv, TypeOK, runDies
<1>2. /\ job' \in JobRows /\ job'.status = job.status
      /\ job'.lease = IF job.lease = "held" THEN "stale" ELSE job.lease
  BY <1>1 DEF JobRows
<1>3. ResumesAnswered'
  BY <1>1, <1>2 DEF ResumesAnswered, Over, Parked, Pending
<1>4. OneActive'
  BY <1>1 DEF OneActive, Active
<1>5. IInv'
  BY <1>1, <1>2, <1>3, <1>4, JobStep DEF IInv, TypeOK
<1> QED
  BY <1>2, <1>5

-----------------------------------------------------------------------------
(* The gate job is created *)

LEMMA CreateStep ==
  ASSUME IInv, createGateJob
  PROVE  IInv' /\ job' = job
<1>1. /\ TypeOK /\ GatesInOrder /\ InFlight /\ OneActive /\ ResumesAnswered
      /\ worker = "parked" /\ worker' = "spawned"
      /\ UNCHANGED <<job, park, applied, res, sweep>>
  BY DEF IInv, createGateJob
<1>2. CASE gate' = gate
  <2>1. OneActive' /\ ResumesAnswered'
    BY <1>1, <1>2 DEF OneActive, Active, ResumesAnswered, Over, Parked, Pending
  <2> QED
    BY <1>1, <1>2, <2>1, JobStep DEF TypeOK
<1>3. CASE ReusableGates = {}
  <2> DEFINE new == Cardinality(Children) + 1
             fresh == [NoGate EXCEPT !.state = "open", !.status = "queued", !.question = park]
  <2>1. PICK n \in Nat : Children = 1..n
    BY <1>1 DEF GatesInOrder
  <2>2. new = n + 1
    <3>1. Cardinality(1..n) = n
      BY FS_Interval
    <3> QED
      BY <2>1, <3>1
  <2>3. gate' = [g \in Gate |->
                   IF g = new THEN fresh
                   ELSE IF Terminal(g) THEN supersedeHumanGate(gate[g]) ELSE gate[g]]
    BY <1>3 DEF createGateJob
  <2>4. /\ fresh \in GateRows /\ fresh.state = "open" /\ fresh.status = "queued"
        /\ fresh.lease = "none" /\ fresh.resume = "none"
    BY <1>1 DEF NoGate, GateRows, TypeOK
  <2> HIDE DEF new, fresh
  <2>5. ASSUME NEW g \in Gate, g # new
        PROVE  /\ gate'[g] \in GateRows /\ RowKept(gate[g], gate'[g])
               /\ gate'[g].resume = gate[g].resume /\ ~Active(g)'
               /\ \A r \in Resolver : RowFor(gate[g], gate'[g], r)
    <3>1. gate[g] \in GateRows /\ RowOK(gate[g]) /\ (Active(g) => Terminal(g))
      BY <1>1, <1>3 DEF TypeOK, GatesInOrder, ReusableGates
    <3>2. CASE ~Terminal(g)
      <4>1. gate'[g] = gate[g] /\ ~Active(g)
        BY <2>3, <2>5, <3>1, <3>2
      <4> QED
        BY <3>1, <4>1, SameRow DEF Active
    <3>3. CASE Terminal(g)
      <4> DEFINE sup == supersedeHumanGate(gate[g])
      <4>1. gate'[g] = sup
        BY <2>3, <2>5, <3>3
      <4>2. /\ sup \in GateRows /\ sup.lease = gate[g].lease /\ sup.status = gate[g].status
            /\ sup.resume = gate[g].resume
            /\ sup.state = IF ActiveRow(gate[g]) THEN "superseded" ELSE gate[g].state
            /\ gate[g].lease = "none"
        BY <3>1, <3>3, RowsSupersede DEF RowOK, Terminal, TERMINAL_JOB_STATUSES
      <4> HIDE DEF sup
      <4>3. RowKept(gate[g], sup) /\ ~ActiveRow(sup)
        BY <3>1, <3>3, <4>2
           DEF RowKept, RowOK, ActiveRow, ACTIVE_GATE_STATES, Terminal, TERMINAL_JOB_STATUSES
      <4>4. \A r \in Resolver : RowFor(gate[g], sup, r)
        BY <4>2, NoNames DEF RowFor, Claimed, Resolves, ActiveRow, ACTIVE_GATE_STATES
      <4> QED
        BY <4>1, <4>2, <4>3, <4>4 DEF Active, ActiveRow
    <3> QED
      BY <3>2, <3>3
  <2>6. new \in Gate => gate'[new] = fresh /\ gate[new].status = "none"
    <3>1. new \notin Children
      BY <2>1, <2>2
    <3> QED
      BY <2>3, <3>1 DEF Children
  <2>7. gate' \in [Gate -> GateRows] /\ NoNewResume
    <3>1. \A g \in Gate : /\ gate'[g] \in GateRows
                          /\ gate'[g].resume = "pending" => gate[g].resume = "pending"
      BY <2>4, <2>5, <2>6
    <3>2. gate' = [g \in Gate |-> gate'[g]]
      BY <2>3
    <3> QED
      BY <3>1, <3>2 DEF NoNewResume
  <2>8. GatesInOrder'
    <3>1. Children' = Children \cup (Gate \cap {new})
      BY <2>4, <2>5, <2>6 DEF Children, RowKept
    <3>2. \E k \in Nat : Children' = 1..k
      <4>1. CASE new \in Gate
        <5>1. Children' = 1..(n + 1)
          BY <2>1, <2>2, <3>1, <4>1
        <5> QED
          BY <5>1
      <4>2. CASE new \notin Gate
        BY <2>1, <3>1, <4>2
      <4> QED
        BY <4>1, <4>2
    <3>3. \A g \in Gate : RowOK(gate'[g])
      BY <2>4, <2>5, <2>6 DEF RowKept, RowOK
    <3> QED
      BY <3>2, <3>3 DEF GatesInOrder
  <2>9. InFlight'
    <3>1. ASSUME NEW r \in Resolver
          PROVE  InFlightOf(r)'
      <4>1. InFlightOf(r) /\ res' = res
        BY <1>1 DEF InFlight
      <4>2. CASE res[r].pc # "idle"
        <5>1. res[r].gate \in Gate /\ res[r].gate # new
          BY <2>6, <4>1, <4>2 DEF InFlightOf
        <5> QED
          BY <2>5, <4>1, <4>2, <5>1 DEF InFlightOf, RowKept, RowFor
      <4> QED
        BY <4>1, <4>2 DEF InFlightOf
    <3> QED
      BY <3>1 DEF InFlight
  <2>10. OneActive'
    BY <1>1, <2>5 DEF OneActive
  <2>11. ResumesAnswered'
    BY <1>1, <2>7, ResumesKept
  <2> QED
    BY <1>1, <2>7, <2>8, <2>9, <2>10, <2>11 DEF IInv, TypeOK
<1> QED
  BY <1>1, <1>2, <1>3 DEF createGateJob

-----------------------------------------------------------------------------
(* A resume is consumed with the lease of the parked job *)

LEMMA ConsumeStep ==
  ASSUME IInv, job.lease # "none", job' = ConsumeJob, gate' = ConsumeEffects,
         UNCHANGED <<park, applied, res, sweep>>,
         worker' = "idle" \/ (worker' = worker /\ worker # "running")
  PROVE  IInv' /\ (Parked /\ ~Parked' => applied' # "none")
<1>1. /\ TypeOK /\ GatesInOrder /\ InFlight /\ OneActive /\ ResumesAnswered
      /\ job \in JobRows /\ gate \in [Gate -> GateRows]
      /\ worker' \in {"idle", "parked", "spawned"}
  BY DEF IInv, TypeOK
<1>2. ASSUME NEW g \in Gate
      PROVE  /\ gate'[g] \in GateRows /\ RowKept(gate[g], gate'[g])
             /\ gate'[g].resume # "pending"
             /\ \A r \in Resolver : RowFor(gate[g], gate'[g], r)
  <2> DEFINE new == [gate[g] EXCEPT !.resume = IF @ = "pending" THEN "completed" ELSE @]
  <2>1. gate'[g] = new /\ gate[g] \in GateRows /\ RowOK(gate[g])
    BY <1>1 DEF ConsumeEffects, GatesInOrder
  <2>2. /\ new \in GateRows /\ new.resume # "pending" /\ new.state = gate[g].state
        /\ new.status = gate[g].status /\ new.lease = gate[g].lease
        /\ new.expiry = gate[g].expiry
    BY <2>1 DEF GateRows
  <2> HIDE DEF new
  <2> QED
    BY <2>1, <2>2 DEF RowKept, RowOK, ActiveRow, RowFor, Claimed, Resolves
<1>3. gate' \in [Gate -> GateRows] /\ ~Pending'
  <2>1. gate' = [g \in Gate |-> gate'[g]]
    BY DEF ConsumeEffects
  <2> QED
    BY <1>2, <2>1 DEF Pending
<1>4. /\ job' \in JobRows /\ job'.lease = "none"
      /\ job'.status = IF Pending THEN "queued" ELSE job.status
  BY <1>1 DEF ConsumeJob, JobRows
<1>5. GatesInOrder' /\ OneActive'
  BY <1>1, <1>2, OrderKept, ActiveKept
<1>6. InFlight'
  BY <1>1, <1>2, OtherKept DEF InFlight
<1>7. ResumesAnswered'
  BY <1>1, <1>3, <1>4 DEF ResumesAnswered
<1>8. TypeOK'
  BY <1>1, <1>3, <1>4 DEF TypeOK
<1>9. Parked /\ ~Parked' => Pending /\ applied # "none"
  BY <1>1, <1>4 DEF ResumesAnswered, Over, Parked
<1> QED
  BY <1>5, <1>6, <1>7, <1>8, <1>9 DEF IInv

LEMMA ReleaseParkedStep ==
  ASSUME IInv, releaseParked
  PROVE  IInv' /\ (Parked /\ ~Parked' => applied' # "none")
<1>1. /\ ResumesAnswered /\ OneActive /\ worker' = "idle"
      /\ UNCHANGED <<park, applied, res, sweep>>
  BY DEF IInv, releaseParked
<1>2. CASE job.lease = "held"
  BY <1>1, <1>2, ConsumeStep DEF releaseParked
<1>3. CASE job.lease # "held"
  <2>1. job' = job /\ gate' = gate
    BY <1>3 DEF releaseParked
  <2>2. ResumesAnswered' /\ OneActive'
    BY <1>1, <2>1 DEF ResumesAnswered, Over, Parked, Pending, OneActive, Active
  <2> QED
    BY <1>1, <2>1, <2>2, JobStep DEF IInv, TypeOK, Parked
<1> QED
  BY <1>2, <1>3

LEMMA RequeueStep ==
  ASSUME IInv, requeueExpiredJob
  PROVE  IInv' /\ (Parked /\ ~Parked' => applied' # "none")
<1>1. /\ ResumesAnswered /\ OneActive /\ job.lease = "stale" /\ job \in JobRows
      /\ UNCHANGED <<worker, park, applied, res, sweep>> /\ worker # "running"
  BY DEF IInv, TypeOK, requeueExpiredJob, ResumesAnswered
<1>2. CASE Parked
  BY <1>1, <1>2, ConsumeStep DEF requeueExpiredJob
<1>3. CASE ~Parked
  <2>1. gate' = gate /\ job' = [job EXCEPT !.status = "queued", !.lease = "none"]
    BY <1>3 DEF requeueExpiredJob
  <2>2. job' \in JobRows /\ job'.status = "queued" /\ ~Pending
    BY <1>1, <1>3, <2>1 DEF JobRows, ResumesAnswered, Over
  <2>3. ResumesAnswered' /\ OneActive'
    BY <1>1, <2>1, <2>2 DEF ResumesAnswered, Over, Parked, Pending, OneActive, Active
  <2> QED
    BY <1>1, <1>3, <2>1, <2>2, <2>3, JobStep DEF IInv, TypeOK
<1> QED
  BY <1>2, <1>3

-----------------------------------------------------------------------------
(* The sweeps on the gates, time and the death of a resolver *)

LEMMA TimeoutClaimStep ==
  ASSUME IInv, NEW g \in Gate, claimHeadlessHumanGateTimeout(g)
  PROVE  IInv' /\ job' = job
<1> DEFINE row == [gate[g] EXCEPT !.state = "superseded"]
<1>1. /\ TypeOK /\ GatesInOrder /\ InFlight /\ OneActive /\ ResumesAnswered
      /\ gate \in [Gate -> GateRows] /\ RowOK(gate[g]) /\ worker # "parked"
      /\ gate[g].status = "waiting_on_human" /\ gate[g].state = "open"
      /\ gate[g].lease = "none" \/ gate[g].expiry = "expired"
      /\ UNCHANGED <<job, worker, park, applied, res>>
      /\ sweep' = [pc |-> "claimed", gate |-> g]
  BY DEF IInv, TypeOK, GatesInOrder, claimHeadlessHumanGateTimeout, LiveAtGrace, EventLoopFree
<1>2. /\ row \in GateRows /\ row.state = "superseded" /\ row.status = "waiting_on_human"
      /\ row.lease = gate[g].lease /\ row.expiry = gate[g].expiry
      /\ row.resume = gate[g].resume
  BY <1>1 DEF GateRows
<1>3. gate'[g] = row /\ gate' \in [Gate -> GateRows] /\ \A h \in Gate \ {g} : gate'[h] = gate[h]
  BY <1>1, <1>2 DEF claimHeadlessHumanGateTimeout
<1> HIDE DEF row
<1>4. RowKept(gate[g], row) /\ \A r \in Resolver : RowFor(gate[g], row, r)
  BY <1>1, <1>2, NoNames DEF RowKept, RowOK, ActiveRow, ACTIVE_GATE_STATES, RowFor, Claimed,
    Resolves
<1>5. \A h \in Gate : /\ RowKept(gate[h], gate'[h])
                      /\ \A r \in Resolver : RowFor(gate[h], gate'[h], r)
  BY <1>3, <1>4, SameRow
<1>6. GatesInOrder' /\ InFlight'
  BY <1>1, <1>5, OrderKept, OtherKept DEF InFlight
<1>7. OneActive'
  <2>1. \A h \in Gate : ~Active(h)'
    BY <1>1, <1>2, <1>3 DEF OneActive, Active, ACTIVE_GATE_STATES
  <2> QED
    BY <1>1, <1>2, <1>3, <2>1 DEF OneActive
<1>8. ResumesAnswered'
  <2>1. NoNewResume
    BY <1>2, <1>3 DEF NoNewResume
  <2> QED
    BY <1>1, <2>1, ResumesKept
<1> QED
  BY <1>1, <1>3, <1>6, <1>7, <1>8 DEF IInv, TypeOK

LEMMA TimeoutGateStep ==
  ASSUME IInv, timeoutFailsGate
  PROVE  IInv' /\ job' = job
<1> DEFINE g == sweep.gate
           row == Release(gate[g], "none", "failed")
<1>1. /\ TypeOK /\ GatesInOrder /\ InFlight /\ OneActive /\ ResumesAnswered
      /\ gate \in [Gate -> GateRows] /\ g \in Gate /\ gate[g].status # "none"
      /\ UNCHANGED <<job, worker, park, applied, res>>
      /\ sweep' = [pc |-> "idle", gate |-> 0]
      /\ gate' = [gate EXCEPT ![g] = row]
  BY DEF IInv, TypeOK, OneActive, timeoutFailsGate
<1>2. /\ row \in GateRows /\ RowKept(gate[g], row) /\ row.resume = gate[g].resume
      /\ \A r \in Resolver : RowFor(gate[g], row, r)
  <2>1. RowOK(gate[g]) /\ gate[g] \in GateRows /\ \A r \in Resolver : r # "none"
    BY <1>1, NoNames DEF GatesInOrder
  <2> HIDE DEF g
  <2> QED
    BY <1>1, <2>1, ReleaseRow
<1> HIDE DEF row
<1>3. gate'[g] = row /\ gate' \in [Gate -> GateRows] /\ \A h \in Gate \ {g} : gate'[h] = gate[h]
  BY <1>1, <1>2
<1>4. \A h \in Gate : /\ RowKept(gate[h], gate'[h])
                      /\ \A r \in Resolver : RowFor(gate[h], gate'[h], r)
  BY <1>2, <1>3, SameRow
<1>5. GatesInOrder' /\ InFlight' /\ OneActive'
  BY <1>1, <1>4, OrderKept, OtherKept, ActiveKept DEF InFlight
<1>6. ResumesAnswered'
  <2>1. NoNewResume
    BY <1>2, <1>3 DEF NoNewResume
  <2> QED
    BY <1>1, <2>1, ResumesKept
<1> QED
  BY <1>1, <1>3, <1>5, <1>6 DEF IInv, TypeOK

\* reconcileHumanGates takes a contract from nobody whose lease is current.
LEMMA ReconciledRow ==
  ASSUME IInv, NEW g \in Gate
  PROVE  /\ Reconciled(g) \in GateRows /\ RowKept(gate[g], Reconciled(g))
         /\ Reconciled(g).resume = gate[g].resume
         /\ \A r \in Resolver : RowFor(gate[g], Reconciled(g), r)
<1> DEFINE row == gate[g]
           new == Reconciled(g)
<1>1. row \in GateRows /\ RowOK(row) /\ TypeOK
  BY DEF IInv, TypeOK, GatesInOrder
<1>2. ASSUME NEW s \in {"succeeded", "canceled"}, row.state \in {"resolved", "superseded"},
             new = Finish(row, s)
      PROVE  /\ new \in GateRows /\ RowKept(row, new) /\ new.resume = row.resume
             /\ \A r \in Resolver : RowFor(row, new, r)
  <2>1. /\ new \in GateRows /\ new.status = s /\ new.lease = "none"
        /\ new.state = row.state /\ new.resume = row.resume
    BY <1>1, <1>2, RowsFinish
  <2> HIDE DEF new
  <2> QED
    BY <1>1, <1>2, <2>1, NoNames
       DEF RowKept, RowOK, ActiveRow, ACTIVE_GATE_STATES, RowFor, Claimed, Resolves
<1>3. ASSUME row.state \in ACTIVE_GATE_STATES, ~Terminal(g), new = retireGateJob(row),
             row.state = "resolving" => ~LiveAtGrace(g)
      PROVE  /\ new \in GateRows /\ RowKept(row, new) /\ new.resume = row.resume
             /\ \A r \in Resolver : RowFor(row, new, r)
  <2> DEFINE f == Finish(row, "canceled")
  <2>1. new = supersedeHumanGate(f)
    BY <1>3 DEF retireGateJob, Terminal
  <2>2. /\ f \in GateRows /\ f.status = "canceled" /\ f.lease = "none"
        /\ f.state = row.state /\ f.resume = row.resume
    BY <1>1, RowsFinish
  <2> HIDE DEF f
  <2>3. /\ new \in GateRows /\ new.status = "canceled" /\ new.lease = "none"
        /\ new.state = "superseded" /\ new.resume = row.resume
    BY <1>3, <2>1, <2>2, RowsSupersede DEF ActiveRow
  <2> HIDE DEF new
  <2>4. RowKept(row, new)
    BY <1>1, <1>3, <2>3 DEF RowKept, RowOK, ActiveRow, ACTIVE_GATE_STATES
  <2>5. \A r \in Resolver : RowFor(row, new, r)
    BY <1>3, <2>3, NoNames DEF RowFor, Claimed, Resolves, ACTIVE_GATE_STATES, LiveAtGrace
  <2> QED
    BY <2>3, <2>4, <2>5
<1>4. CASE row.state = "resolving" /\ ~LiveAtGrace(g) /\ new = reopenHumanGate(row)
  <2>1. /\ new \in GateRows /\ new.state = "open" /\ new.lease = row.lease
        /\ new.status = row.status /\ new.resume = row.resume
    BY <1>1, <1>4, RowsReopen
  <2> HIDE DEF new
  <2>2. RowKept(row, new)
    BY <1>1, <1>4, <2>1 DEF RowKept, RowOK, ActiveRow, ACTIVE_GATE_STATES
  <2>3. \A r \in Resolver : RowFor(row, new, r)
    BY <1>4, <2>1, NoNames DEF RowFor, Claimed, Resolves, LiveAtGrace
  <2> USE DEF new
  <2> QED
    BY <2>1, <2>2, <2>3
<1>5. CASE new = row
  BY <1>1, <1>5, SameRow
<1>6. \/ \E s \in {"succeeded", "canceled"} :
           row.state \in {"resolved", "superseded"} /\ new = Finish(row, s)
      \/ /\ row.state \in ACTIVE_GATE_STATES /\ ~Terminal(g) /\ new = retireGateJob(row)
         /\ row.state = "resolving" => ~LiveAtGrace(g)
      \/ row.state = "resolving" /\ ~LiveAtGrace(g) /\ new = reopenHumanGate(row)
      \/ new = row
  <2>1. CASE row.state \in {"resolved", "superseded"} /\ ~Terminal(g) /\ ~LiveNow(g)
    BY <2>1 DEF Reconciled
  <2>2. CASE row.state = "open" /\ ~Terminal(g) /\ job.status \notin AllowedSourceStates
    BY <2>2 DEF Reconciled, ACTIVE_GATE_STATES
  <2>3. CASE row.state = "resolving" /\ ~Terminal(g) /\ ~LiveAtGrace(g)
    BY <2>3 DEF Reconciled, ACTIVE_GATE_STATES
  <2>4. CASE /\ ~(row.state \in {"resolved", "superseded"} /\ ~Terminal(g) /\ ~LiveNow(g))
             /\ ~(row.state = "open" /\ ~Terminal(g) /\ job.status \notin AllowedSourceStates)
             /\ ~(row.state = "resolving" /\ ~Terminal(g) /\ ~LiveAtGrace(g))
    BY <2>4 DEF Reconciled
  <2> QED
    BY <2>1, <2>2, <2>3, <2>4
<1> QED
  BY <1>2, <1>3, <1>4, <1>5, <1>6

LEMMA ReconcileStep ==
  ASSUME IInv, reconcileHumanGates
  PROVE  IInv'
<1>1. /\ gate' = [g \in Gate |-> Reconciled(g)]
      /\ UNCHANGED <<job, worker, park, applied, res, sweep>>
      /\ res' \in [Resolver -> ResolverStates]
  BY DEF reconcileHumanGates, IInv, TypeOK
<1>2. \A g \in Gate : gate'[g] = Reconciled(g)
  BY <1>1
<1>3. gate' \in [Gate -> GateRows] /\ NoNewResume
  BY <1>1, <1>2, ReconciledRow DEF NoNewResume
<1>4. \A g \in Gate : RowKept(gate[g], gate'[g])
  BY <1>2, ReconciledRow
<1>5. \A r \in Resolver : \/ InFlightOf(r)'
                          \/ /\ res'[r] = res[r]
                             /\ \A g \in Gate : RowFor(gate[g], gate'[g], r)
  BY <1>1, <1>2, ReconciledRow
<1> QED
  BY <1>1, <1>3, <1>4, <1>5, GatesStep

LEMMA ClearStep ==
  ASSUME IInv, NEW g \in Gate, clearExpiredGateLease(g)
  PROVE  IInv'
<1> DEFINE row == [gate[g] EXCEPT !.lease = "none"]
<1>1. gate[g] \in GateRows /\ RowOK(gate[g]) /\ gate[g].expiry = "expired"
  BY DEF IInv, TypeOK, GatesInOrder, clearExpiredGateLease
<1>2. /\ row \in GateRows /\ row.status = gate[g].status /\ row.state = gate[g].state
      /\ row.lease = "none" /\ row.resume = gate[g].resume
  BY <1>1 DEF GateRows
<1>3. /\ gate' = [gate EXCEPT ![g] = row] /\ UNCHANGED <<job, worker, park, applied, res, sweep>>
      /\ res' \in [Resolver -> ResolverStates]
  BY DEF clearExpiredGateLease, IInv, TypeOK
<1> HIDE DEF row
<1>4. RowKept(gate[g], row) /\ \A r \in Resolver : RowFor(gate[g], row, r)
  BY <1>1, <1>2, NoNames DEF RowKept, RowOK, ActiveRow, RowFor, Claimed, Resolves
<1> QED
  BY <1>2, <1>3, <1>4, OneGateStep

LEMMA RunsOutStep ==
  ASSUME IInv, NEW g \in Gate, leaseRunsOut(g)
  PROVE  IInv'
<1> DEFINE row == [gate[g] EXCEPT !.expiry = IF @ = "live" THEN "grace" ELSE "expired"]
<1>1. /\ gate \in [Gate -> GateRows] /\ gate[g] \in GateRows /\ RowOK(gate[g])
      /\ gate[g].expiry # "expired"
      /\ \/ gate[g].lease = "ghost"
         \/ gate[g].lease \in Resolver /\ res[gate[g].lease].pc = "claimed"
  BY DEF IInv, TypeOK, GatesInOrder, leaseRunsOut
<1>2. /\ row \in GateRows /\ row.status = gate[g].status /\ row.state = gate[g].state
      /\ row.lease = gate[g].lease /\ row.resume = gate[g].resume
  BY <1>1 DEF GateRows
<1>3. /\ gate' = [gate EXCEPT ![g] = row] /\ UNCHANGED <<job, worker, park, applied, res, sweep>>
      /\ res' \in [Resolver -> ResolverStates]
  BY DEF leaseRunsOut, IInv, TypeOK
<1> HIDE DEF row
<1>4. RowKept(gate[g], row)
  BY <1>1, <1>2 DEF RowKept, RowOK, ActiveRow
<1>5. ASSUME NEW r \in Resolver
      PROVE  InFlightOf(r)' \/ (res'[r] = res[r] /\ RowFor(gate[g], row, r))
  <2>1. Claimed(gate[g], r) => Claimed(row, r)
    BY <1>1, <1>2 DEF Claimed
  <2>2. CASE gate[g].lease # r
    BY <1>2, <1>3, <2>1, <2>2 DEF RowFor, Resolves
  <2>3. CASE gate[g].lease = r
    <3>1. res[r].pc = "claimed" /\ InFlightOf(r)
      BY <1>1, <2>3, NoNames DEF IInv, InFlight
    <3>2. gate'[g] = row /\ \A h \in Gate \ {g} : gate'[h] = gate[h]
      BY <1>1, <1>3
    <3> QED
      BY <1>2, <1>3, <2>1, <3>1, <3>2 DEF InFlightOf
  <2> QED
    BY <2>2, <2>3
<1> QED
  BY <1>2, <1>3, <1>4, <1>5, OneGateStep

LEMMA DiesStep ==
  ASSUME IInv, NEW r \in Resolver, resolverDies(r)
  PROVE  IInv'
<1>1. /\ res' \in [Resolver -> ResolverStates] /\ InFlightOf(r)'
      /\ \A q \in Resolver \ {r} : res'[q] = res[q]
  BY ResolverMoves DEF resolverDies
<1>2. UNCHANGED <<job, worker, park, applied, sweep>>
  BY DEF resolverDies
<1>3. ASSUME NEW g \in Gate
      PROVE  /\ gate'[g] \in GateRows /\ RowKept(gate[g], gate'[g])
             /\ gate'[g].resume = gate[g].resume
             /\ \A q \in Resolver \ {r} : RowFor(gate[g], gate'[g], q)
  <2> DEFINE row == [gate[g] EXCEPT !.lease = "ghost"]
  <2>1. gate[g] \in GateRows /\ RowOK(gate[g])
    BY DEF IInv, TypeOK, GatesInOrder
  <2>2. CASE gate[g].lease = r
    <3>1. gate'[g] = row
      BY <2>2 DEF resolverDies
    <3>2. /\ row \in GateRows /\ row.status = gate[g].status /\ row.state = gate[g].state
          /\ row.lease = "ghost" /\ row.resume = gate[g].resume
      BY <2>1 DEF GateRows
    <3> HIDE DEF row
    <3> QED
      BY <2>1, <2>2, <3>1, <3>2, NoNames DEF RowKept, RowOK, ActiveRow, RowFor, Claimed, Resolves
  <2>3. CASE gate[g].lease # r
    <3>1. gate'[g] = gate[g]
      BY <2>3 DEF resolverDies
    <3> QED
      BY <3>1, SameRow
  <2> QED
    BY <2>2, <2>3
<1>4. gate' \in [Gate -> GateRows] /\ NoNewResume
  <2>1. gate' = [g \in Gate |-> gate'[g]]
    BY DEF resolverDies
  <2> QED
    BY <1>3, <2>1 DEF NoNewResume
<1>5. \A q \in Resolver : \/ InFlightOf(q)'
                          \/ /\ res'[q] = res[q]
                             /\ \A g \in Gate : RowFor(gate[g], gate'[g], q)
  BY <1>1, <1>3
<1> QED
  BY <1>1, <1>2, <1>3, <1>4, <1>5, GatesStep

-----------------------------------------------------------------------------
(* The theorems *)

LEMMA InitInv == Init => IInv
<1> SUFFICES ASSUME Init PROVE IInv
  OBVIOUS
<1>1. /\ NoGate \in GateRows /\ NoGate.status = "none" /\ NoGate.state = "none"
      /\ NoGate.lease = "none" /\ NoGate.resume = "none"
  BY DEF NoGate, GateRows
<1>2. /\ gate = [g \in Gate |-> NoGate] /\ worker = "idle" /\ park = 0 /\ applied = "none"
      /\ res = [r \in Resolver |-> [pc |-> "idle", gate |-> 0, answer |-> "none"]]
      /\ sweep = [pc |-> "idle", gate |-> 0]
      /\ job = [status |-> "queued", lease |-> "none", recovered |-> FALSE]
  BY DEF Init
<1>3. \A g \in Gate : gate[g] = NoGate
  BY <1>2
<1>4. TypeOK
  BY <1>1, <1>2 DEF TypeOK, JobRows, ResolverStates
<1>5. GatesInOrder
  <2>1. Children = 1..0
    BY <1>1, <1>3 DEF Children
  <2>2. \A g \in Gate : RowOK(gate[g])
    BY <1>1, <1>3 DEF RowOK
  <2> QED
    BY <2>1, <2>2 DEF GatesInOrder
<1>6. InFlight
  BY <1>2 DEF InFlight, InFlightOf
<1>7. OneActive
  BY <1>1, <1>2, <1>3 DEF OneActive, Active, ACTIVE_GATE_STATES
<1>8. ResumesAnswered
  BY <1>1, <1>2, <1>3 DEF ResumesAnswered, Over, Pending
<1> QED
  BY <1>4, <1>5, <1>6, <1>7, <1>8 DEF IInv

\* What one step does to a parked job that has an active contract.
LeavesByAnswer == Parked /\ ~Parked' /\ (\E g \in Gate : Active(g)) => applied' # "none"

LEMMA ResolverSteps ==
  ASSUME IInv, NEW r \in Resolver, ResolverStep(r)
  PROVE  IInv' /\ LeavesByAnswer
<1>1. CASE beginHumanGateResolution(r)
  BY <1>1, BeginStep DEF LeavesByAnswer, beginHumanGateResolution, Parked
<1>2. CASE applyAnswer(r)
  BY <1>2, ApplyStep DEF LeavesByAnswer
<1>3. CASE applyThrows(r)
  <2>1. UNCHANGED <<job, worker, park, applied, sweep>> /\ GiveUp(r) /\ res[r].pc = "begun"
    BY <1>3 DEF applyThrows
  <2> QED
    BY <2>1, GiveUpStep DEF LeavesByAnswer, Parked
<1>4. CASE completeHumanGateResolution(r)
  BY <1>4, CompleteStep DEF LeavesByAnswer, completeHumanGateResolution, Parked
<1>5. CASE releaseHumanLease(r)
  BY <1>5, ReleaseStep DEF LeavesByAnswer, releaseHumanLease, Parked
<1> QED
  BY <1>1, <1>2, <1>3, <1>4, <1>5 DEF ResolverStep

LEMMA NextInv == IInv /\ [Next]_vars => IInv' /\ LeavesByAnswer
<1> SUFFICES ASSUME IInv, [Next]_vars PROVE IInv' /\ LeavesByAnswer
  OBVIOUS
<1>1. CASE WorkerStep
  <2>1. CASE LeaseJob \/ FinishJob \/ needsReview
    BY <2>1, WorkerSteps DEF LeavesByAnswer
  <2>2. CASE createGateJob
    BY <2>2, CreateStep DEF LeavesByAnswer, Parked
  <2>3. CASE releaseParked
    BY <2>3, ReleaseParkedStep DEF LeavesByAnswer
  <2> QED
    BY <1>1, <2>1, <2>2, <2>3 DEF WorkerStep
<1>2. ASSUME NEW g \in Gate, parkGate(g) PROVE IInv' /\ LeavesByAnswer
  BY <1>2, ParkStep DEF LeavesByAnswer, parkGate, Parked
<1>3. ASSUME NEW r \in Resolver, NEW g \in Gate, NEW a \in Answer, claimHumanInputJob(r, g, a)
      PROVE  IInv' /\ LeavesByAnswer
  BY <1>3, ClaimStep DEF LeavesByAnswer, claimHumanInputJob, Parked
<1>4. ASSUME NEW r \in Resolver, ResolverStep(r) PROVE IInv' /\ LeavesByAnswer
  BY <1>4, ResolverSteps
<1>5. ASSUME NEW g \in Gate, claimHeadlessHumanGateTimeout(g) PROVE IInv' /\ LeavesByAnswer
  BY <1>5, TimeoutClaimStep DEF LeavesByAnswer, Parked
<1>6. CASE timeoutFailsJob
  BY <1>6, TimeoutJobStep DEF LeavesByAnswer
<1>7. CASE timeoutFailsGate
  BY <1>7, TimeoutGateStep DEF LeavesByAnswer, Parked
<1>8. CASE RecoverOrphan
  BY <1>8, OrphanStep DEF LeavesByAnswer, RecoverOrphan
<1>9. CASE reconcileHumanGates
  BY <1>9, ReconcileStep DEF LeavesByAnswer, reconcileHumanGates, Parked
<1>10. CASE requeueExpiredJob
  BY <1>10, RequeueStep DEF LeavesByAnswer
<1>11. ASSUME NEW g \in Gate, clearExpiredGateLease(g) PROVE IInv' /\ LeavesByAnswer
  BY <1>11, ClearStep DEF LeavesByAnswer, clearExpiredGateLease, Parked
<1>12. ASSUME NEW g \in Gate, leaseRunsOut(g) PROVE IInv' /\ LeavesByAnswer
  BY <1>12, RunsOutStep DEF LeavesByAnswer, leaseRunsOut, Parked
<1>13. ASSUME NEW r \in Resolver, resolverDies(r) PROVE IInv' /\ LeavesByAnswer
  BY <1>13, DiesStep DEF LeavesByAnswer, resolverDies, Parked
<1>14. CASE runDies
  BY <1>14, RunDiesStep DEF LeavesByAnswer, Parked
<1>15. CASE UNCHANGED vars
  <2>1. UNCHANGED <<job, worker, park, applied, gate, res, sweep>>
    BY <1>15 DEF vars
  <2>2. OneActive' /\ ResumesAnswered'
    BY <2>1 DEF IInv, OneActive, Active, ResumesAnswered, Over, Parked, Pending
  <2> QED
    BY <2>1, <2>2, JobStep DEF IInv, TypeOK, LeavesByAnswer, Parked
<1> QED
  BY <1>1, <1>2, <1>3, <1>4, <1>5, <1>6, <1>7, <1>8, <1>9, <1>10, <1>11, <1>12, <1>13, <1>14,
     <1>15 DEF Next

LEMMA Invariance == Spec => []IInv
BY InitInv, NextInv, PTL DEF Spec

\* Every row keeps its type whatever the resolvers, the sweeps and the run's
\* deaths interleave to.
THEOREM TypeCorrect == Spec => []TypeOK
<1>1. IInv => TypeOK
  BY DEF IInv
<1> QED
  BY <1>1, Invariance, PTL

\* An answer in flight under a current lease finds its contract as it left it: the
\* guards on the lease in claimHeadlessHumanGateTimeout, in reconcileHumanGates and
\* in claimHumanInputJob keep every sweep and every other resolver away.
THEOREM AnswersLand == Spec => []InFlightAnswerLands
<1>1. IInv => InFlightAnswerLands
  <2> SUFFICES ASSUME IInv, NEW r \in Resolver, res[r].pc # "idle",
                      gate[res[r].gate].lease = r, LiveNow(res[r].gate)
               PROVE  gate[res[r].gate].state = CASE res[r].pc = "claimed" -> "open"
                                [] res[r].pc \in {"begun", "applied"} -> "resolving"
                                [] OTHER -> "resolved"
    BY DEF InFlightAnswerLands
  <2>1. InFlightOf(r) /\ res[r].pc \in {"claimed", "begun", "applied", "completed"}
    BY DEF IInv, InFlight, TypeOK, ResolverStates
  <2> QED
    BY <2>1 DEF InFlightOf, Claimed, Resolves, LiveNow
<1> QED
  BY <1>1, Invariance, PTL

\* While its question can be answered a parked job leaves its park only by an
\* answer: the timeout (recoverHeadlessHumanTimeouts) closes the contract before it
\* fails the job, the orphan recovery looks for active contracts, and a resume
\* that the lease's end settles was asked for by an answer.
THEOREM ParksHeld == Spec => GatedParkHeld
<1>1. IInv /\ [Next]_vars => [Parked /\ ~Parked' /\ (\E g \in Gate : Active(g))
                                => applied' # "none"]_vars
  BY NextInv DEF LeavesByAnswer
<1> QED
  BY <1>1, Invariance, PTL DEF Spec, GatedParkHeld

-----------------------------------------------------------------------------
(***************************************************************************)
(* LeaseClock: the clock the processes read (leaseNowMs), for every        *)
(* duration, grace and setting of the wall clock.                          *)
(***************************************************************************)
ClockTypes ==
    /\ wall \in Int /\ mono \in Nat /\ back \in Nat /\ forward \in Nat
    /\ last \in [Proc -> [set : BOOLEAN, wall : Int, mono : Nat]]
    /\ lease \in [held : BOOLEAN, owner : Proc, works : BOOLEAN,
                  expires : Int, since : Nat]
    /\ over \in BOOLEAN

(* What a clock is ahead of monotonic time.                                *)
Lead(p) == last[p].wall - last[p].mono

(* Clocks stay between what the wall clock was set back and forward; a     *)
(* lease is not granted for longer than its clock allows.                  *)
WallSet == wall = mono - back + forward
LeadBounded ==
    \A p \in Proc : last[p].set => last[p].mono <= mono /\ Lead(p) <= forward
GrantBounded ==
    lease.held => lease.since <= mono /\ lease.expires <= lease.since + Dur + forward

ClockInv == ClockTypes /\ WallSet /\ LeadBounded /\ GrantBounded

(* If the wall clock is only set back: a clock is never behind it, and the *)
(* lease lasts for its duration by the clock of its owner.                 *)
OnlyBack == forward = 0
LeadAhead == \A p \in Proc : last[p].set => Lead(p) >= wall - mono
GrantLasts ==
    lease.held => /\ last[lease.owner].set
                  /\ lease.expires >= lease.since + Dur + Lead(lease.owner)
Renewing == lease.held /\ lease.works => mono - lease.since <= Renew

BackInv == OnlyBack /\ LeadAhead /\ GrantLasts /\ Renewing

(* With one process: what was seen expired was so by its last reading.     *)
SeenExpired ==
    over => /\ lease.held
            /\ \A p \in Proc : last[p].set /\ lease.expires < last[p].wall - Grace

-----------------------------------------------------------------------------
LEMMA ClockConstantTypes ==
    /\ Dur \in Nat /\ Grace \in Nat /\ Renew \in Nat
    /\ MaxTime \in Nat /\ MaxBack \in Nat /\ MaxForward \in Nat
BY ClockConstants DEF ClockConstantsOK

LEMMA NoLeaseType ==
    /\ NoLease \in [held : BOOLEAN, owner : Proc, works : BOOLEAN, expires : Int, since : Nat]
    /\ ~NoLease.held
BY ClockConstants DEF ClockConstantsOK, NoLease

(* What a reading gives, and what it leaves in _lastLeaseClock.            *)
LEMMA NowFacts ==
    ASSUME ClockTypes, LeadBounded, NEW p \in Proc
    PROVE  /\ Now(p) \in Int
           /\ Now(p) >= wall
           /\ last[p].set => Now(p) >= last[p].wall
           /\ ~last[p].set => Now(p) = wall
           /\ last[p].set => Now(p) = wall \/ Now(p) - mono = Lead(p)
<1>1. /\ last[p].set \in BOOLEAN /\ last[p].wall \in Int /\ last[p].mono \in Nat
      /\ wall \in Int /\ mono \in Nat
  BY DEF ClockTypes
<1>2. last[p].set => last[p].mono <= mono
  BY DEF LeadBounded
<1> QED
  BY <1>1, <1>2 DEF Now, Synthesized, Lead

LEMMA ReadFacts ==
    ASSUME ClockTypes, LeadBounded, NEW p \in Proc, Read(p)
    PROVE  /\ last' \in [Proc -> [set : BOOLEAN, wall : Int, mono : Nat]]
           /\ last'[p].set /\ last'[p].wall = Now(p) /\ last'[p].mono = mono
           /\ \A q \in Proc \ {p} : last'[q] = last[q]
<1>1. Now(p) \in Int /\ mono \in Nat
  BY NowFacts DEF ClockTypes
<1> QED
  BY <1>1 DEF Read, ClockTypes

LEMMA ClockInvInit ==
    ClockInit => ClockInv
<1> SUFFICES ASSUME ClockInit PROVE ClockInv
  OBVIOUS
<1>1. NoClock \in [set : BOOLEAN, wall : Int, mono : Nat] /\ ~NoClock.set
  BY DEF NoClock
<1>2. ClockTypes
  <2>1. last \in [Proc -> [set : BOOLEAN, wall : Int, mono : Nat]]
    BY <1>1 DEF ClockInit
  <2>2. wall \in Int /\ mono \in Nat /\ back \in Nat /\ forward \in Nat
    BY DEF ClockInit
  <2>3. over \in BOOLEAN
    BY DEF ClockInit
  <2> QED
    BY <2>1, <2>2, <2>3, NoLeaseType DEF ClockInit, ClockTypes
<1>3. WallSet /\ LeadBounded /\ GrantBounded
  BY <1>1, NoLeaseType DEF ClockInit, WallSet, LeadBounded, GrantBounded
<1> QED
  BY <1>2, <1>3 DEF ClockInv

LEMMA ReadKeepsLead ==
    ASSUME ClockInv, NEW p \in Proc, Read(p), UNCHANGED <<wall, mono, back, forward>>
    PROVE  LeadBounded'
<1> USE DEF ClockInv
<1>1. SUFFICES ASSUME NEW q \in Proc, last'[q].set
               PROVE  last'[q].mono <= mono /\ last'[q].wall - last'[q].mono <= forward
  BY DEF LeadBounded, Lead
<1>2. CASE q # p
  BY <1>1, <1>2, ReadFacts DEF LeadBounded, Lead
<1>3. CASE q = p
  <2>1. last'[q].mono = mono /\ last'[q].wall = Now(p)
    BY <1>3, ReadFacts
  <2>2. Now(p) = wall \/ (last[p].set /\ Now(p) - mono = Lead(p) /\ Lead(p) <= forward)
    BY NowFacts DEF LeadBounded, ClockTypes
  <2>3. Now(p) \in Int /\ mono \in Nat /\ forward \in Nat /\ back \in Nat
    BY NowFacts DEF ClockTypes
  <2>4. wall - mono <= forward
    BY <2>3 DEF WallSet
  <2>5. Now(p) - mono <= forward
    BY <2>2, <2>4
  <2> QED
    BY <2>1, <2>3, <2>5
<1> QED
  BY <1>2, <1>3

LEMMA ClockInvStep ==
    ASSUME ClockInv, [ClockNext]_clockVars PROVE ClockInv'
<1> USE ClockConstantTypes, NoLeaseType
<1>1. CASE UNCHANGED clockVars
  BY <1>1 DEF clockVars, ClockInv, ClockTypes, WallSet, LeadBounded, Lead, GrantBounded
<1>2. CASE pass
  BY <1>2 DEF pass, ClockInv, ClockTypes, WallSet, LeadBounded, Lead, GrantBounded
<1>3. CASE setBack
  BY <1>3 DEF setBack, ClockInv, ClockTypes, WallSet, LeadBounded, Lead, GrantBounded
<1>4. CASE setForward
  BY <1>4 DEF setForward, ClockInv, ClockTypes, WallSet, LeadBounded, Lead, GrantBounded
<1>5. ASSUME NEW p \in Proc, Read(p), UNCHANGED <<wall, mono, back, forward>>
      PROVE  /\ last' \in [Proc -> [set : BOOLEAN, wall : Int, mono : Nat]]
             /\ WallSet' /\ LeadBounded'
             /\ Now(p) \in Int /\ Now(p) <= mono + forward
  <2>1. LeadBounded'
    BY <1>5, ReadKeepsLead
  <2>2. Now(p) \in Int /\ last'[p].set /\ last'[p].wall = Now(p) /\ last'[p].mono = mono
    BY <1>5, NowFacts, ReadFacts DEF ClockInv
  <2>3. Now(p) - mono <= forward
    BY <1>5, <2>1, <2>2 DEF LeadBounded, Lead
  <2> QED
    BY <1>5, <2>1, <2>2, <2>3, ReadFacts DEF ClockInv, WallSet, ClockTypes
<1>6. ASSUME NEW p \in Proc, acquireLease(p) PROVE ClockInv'
  <2>1. /\ Read(p) /\ UNCHANGED <<wall, mono, back, forward>> /\ over' = FALSE
        /\ lease' = [held |-> TRUE, owner |-> p, works |-> TRUE,
                     expires |-> Now(p) + Dur, since |-> mono]
    BY <1>6 DEF acquireLease
  <2>2. Now(p) \in Int /\ Now(p) <= mono + forward /\ mono \in Nat
    BY <1>5, <2>1 DEF ClockInv, ClockTypes
  <2>3. lease' \in [held : BOOLEAN, owner : Proc, works : BOOLEAN, expires : Int, since : Nat]
    BY <2>1, <2>2
  <2>4. ClockTypes'
    BY <1>5, <2>1, <2>3 DEF ClockTypes, ClockInv
  <2>5. GrantBounded'
    BY <2>1, <2>2 DEF GrantBounded, ClockInv, ClockTypes
  <2> QED
    BY <1>5, <2>1, <2>4, <2>5 DEF ClockInv
<1>7. ASSUME NEW p \in Proc, renewLease(p) PROVE ClockInv'
  <2>1. /\ Read(p) /\ UNCHANGED <<wall, mono, back, forward>> /\ over' = FALSE
        /\ lease.held
        /\ lease' = [lease EXCEPT !.since = mono,
                        !.expires = IF @ > Now(p) + Dur THEN @ ELSE Now(p) + Dur]
    BY <1>7 DEF renewLease
  <2>2. Now(p) \in Int /\ Now(p) <= mono + forward /\ mono \in Nat
    BY <1>5, <2>1 DEF ClockInv, ClockTypes
  <2>3. /\ lease.expires \in Int /\ lease.since \in Nat /\ lease.since <= mono
        /\ lease.expires <= lease.since + Dur + forward /\ forward \in Nat
    BY <2>1 DEF ClockInv, ClockTypes, GrantBounded
  <2>4. /\ lease'.held = lease.held /\ lease'.owner = lease.owner /\ lease'.works = lease.works
        /\ lease'.since = mono
        /\ lease'.expires = IF lease.expires > Now(p) + Dur THEN lease.expires ELSE Now(p) + Dur
    BY <2>1 DEF ClockInv, ClockTypes
  <2>5. lease' \in [held : BOOLEAN, owner : Proc, works : BOOLEAN, expires : Int, since : Nat]
    <3> DEFINE e == IF lease.expires > Now(p) + Dur THEN lease.expires ELSE Now(p) + Dur
    <3>1. e \in Int
      BY <2>2, <2>3
    <3>2. lease' = [lease EXCEPT !.since = mono, !.expires = e]
      BY <2>1
    <3> HIDE DEF e
    <3> QED
      BY <2>2, <3>1, <3>2 DEF ClockInv, ClockTypes
  <2>6. lease'.expires <= mono + Dur + forward
    BY <2>2, <2>3, <2>4
  <2>7. ClockTypes'
    BY <1>5, <2>1, <2>5 DEF ClockTypes, ClockInv
  <2>8. GrantBounded'
    BY <2>1, <2>2, <2>4, <2>6 DEF GrantBounded
  <2> QED
    BY <1>5, <2>1, <2>7, <2>8 DEF ClockInv
<1>8. ASSUME NEW p \in Proc, releaseLease(p) PROVE ClockInv'
  <2>1. /\ UNCHANGED <<wall, mono, back, forward, last>>
        /\ lease' = NoLease \/ lease' = [lease EXCEPT !.works = FALSE]
        /\ over' \in BOOLEAN
    BY <1>8 DEF releaseLease
  <2>2. ClockTypes' /\ GrantBounded'
    BY <2>1 DEF ClockInv, ClockTypes, GrantBounded
  <2> QED
    BY <2>1, <2>2 DEF ClockInv, WallSet, LeadBounded, Lead
<1>9. ASSUME NEW p \in Proc, isLeaseValid(p) PROVE ClockInv'
  BY <1>5, <1>9 DEF isLeaseValid, ClockInv, ClockTypes, GrantBounded, Expired
<1>10. ASSUME NEW p \in Proc, requeueExpiredLeases(p) PROVE ClockInv'
  BY <1>5, <1>10 DEF requeueExpiredLeases, ClockInv, ClockTypes, GrantBounded
<1> QED
  BY <1>1, <1>2, <1>3, <1>4, <1>6, <1>7, <1>8, <1>9, <1>10 DEF ClockNext

-----------------------------------------------------------------------------
(* THEOREM. A lease that nobody renews expires by its owner's clock after  *)
(* its duration, the grace and what the wall clock was ever set back: the  *)
(* synthesized clock of leaseNowMs never falls behind the wall clock.      *)
THEOREM LeaseDoesExpire ==
    ClockSpec => []LeftBehindExpires
<1>1. ClockInv => LeftBehindExpires
  <2>1. SUFFICES ASSUME ClockInv, lease.held, mono - lease.since > Dur + Grace + back
                 PROVE  Expired(lease.owner)
    BY DEF LeftBehindExpires
  <2>2. lease.owner \in Proc /\ lease.expires \in Int /\ lease.since \in Nat
    BY <2>1 DEF ClockInv, ClockTypes
  <2>3. Now(lease.owner) \in Int /\ Now(lease.owner) >= wall
    BY <2>1, <2>2, NowFacts DEF ClockInv
  <2>4. lease.expires <= lease.since + Dur + forward /\ wall = mono - back + forward
    BY <2>1 DEF ClockInv, GrantBounded, WallSet
  <2>5. mono \in Nat /\ back \in Nat /\ forward \in Nat
    BY <2>1 DEF ClockInv, ClockTypes
  <2> QED
    BY <2>1, <2>2, <2>3, <2>4, <2>5, ClockConstantTypes DEF Expired
<1> QED
  BY <1>1, ClockInvInit, ClockInvStep, PTL DEF ClockSpec

-----------------------------------------------------------------------------
(* The wall clock is only set back: a reading never raises the lead.       *)
LEMMA ReadLowersLead ==
    ASSUME ClockInv, BackInv, NEW p \in Proc, Read(p), UNCHANGED <<wall, mono, back, forward>>
    PROVE  /\ LeadAhead'
           /\ last'[p].set /\ Lead(p)' = Now(p) - mono
           /\ \A q \in Proc : last[q].set => last'[q].set /\ Lead(q)' <= Lead(q)
<1>1. /\ last'[p].set /\ last'[p].wall = Now(p) /\ last'[p].mono = mono
      /\ \A q \in Proc \ {p} : last'[q] = last[q]
  BY ReadFacts DEF ClockInv
<1>2. /\ Now(p) \in Int /\ Now(p) >= wall
      /\ last[p].set => Now(p) = wall \/ Now(p) - mono = Lead(p)
  BY NowFacts DEF ClockInv
<1>3. wall \in Int /\ mono \in Nat /\ \A q \in Proc : Lead(q) \in Int
  BY DEF ClockInv, ClockTypes, Lead
<1>4. last[p].set => Lead(p) >= wall - mono
  BY DEF BackInv, LeadAhead
<1>5. Lead(p)' = Now(p) - mono
  BY <1>1 DEF Lead
<1>6. Lead(p)' >= wall - mono /\ (last[p].set => Lead(p)' <= Lead(p))
  BY <1>2, <1>3, <1>4, <1>5
<1>7. \A q \in Proc \ {p} : Lead(q)' = Lead(q) /\ last'[q].set = last[q].set
  BY <1>1 DEF Lead
<1>8. LeadAhead'
  <2>1. SUFFICES ASSUME NEW q \in Proc, last'[q].set PROVE Lead(q)' >= wall - mono
    BY DEF LeadAhead
  <2> QED
    BY <1>6, <1>7, <2>1 DEF BackInv, LeadAhead
<1>9. \A q \in Proc : last[q].set => last'[q].set /\ Lead(q)' <= Lead(q)
  <2>1. SUFFICES ASSUME NEW q \in Proc, last[q].set PROVE last'[q].set /\ Lead(q)' <= Lead(q)
    OBVIOUS
  <2>2. CASE q = p
    BY <1>1, <1>6, <2>1, <2>2
  <2>3. CASE q # p
    BY <1>3, <1>7, <2>1, <2>3
  <2> QED
    BY <2>2, <2>3
<1> QED
  BY <1>1, <1>5, <1>8, <1>9

LEMMA BackInit ==
    ClockInit => BackInv
<1> SUFFICES ASSUME ClockInit PROVE BackInv
  OBVIOUS
<1>1. ~lease.held /\ \A p \in Proc : ~last[p].set
  BY NoLeaseType DEF ClockInit, NoClock
<1> QED
  BY <1>1 DEF ClockInit, BackInv, OnlyBack, LeadAhead, GrantLasts, Renewing

LEMMA BackStep ==
    ASSUME ClockInv, BackInv, [ClockNext]_clockVars, forward' = 0 PROVE BackInv'
<1> USE ClockConstantTypes, NoLeaseType
<1>1. CASE UNCHANGED clockVars
  BY <1>1 DEF clockVars, BackInv, OnlyBack, LeadAhead, Lead, GrantLasts, Renewing
<1>2. CASE pass
  BY <1>2 DEF pass, BackInv, OnlyBack, LeadAhead, Lead, GrantLasts, Renewing, ClockInv, ClockTypes
<1>3. CASE setBack
  BY <1>3 DEF setBack, BackInv, OnlyBack, LeadAhead, Lead, GrantLasts, Renewing, ClockInv, ClockTypes
<1>4. CASE setForward
  BY <1>4 DEF setForward, BackInv, OnlyBack, ClockInv, ClockTypes
<1>5. ASSUME NEW p \in Proc, acquireLease(p) PROVE BackInv'
  <2>1. /\ Read(p) /\ UNCHANGED <<wall, mono, back, forward>>
        /\ lease' = [held |-> TRUE, owner |-> p, works |-> TRUE,
                     expires |-> Now(p) + Dur, since |-> mono]
    BY <1>5 DEF acquireLease
  <2>2. LeadAhead' /\ last'[p].set /\ Lead(p)' = Now(p) - mono
    BY <2>1, ReadLowersLead
  <2>3. Now(p) \in Int /\ mono \in Nat
    BY NowFacts DEF ClockInv, ClockTypes
  <2>4. GrantLasts'
    BY <2>1, <2>2, <2>3 DEF GrantLasts, Lead
  <2>5. Renewing'
    BY <2>1, <2>3 DEF Renewing
  <2> QED
    BY <2>1, <2>2, <2>4, <2>5 DEF BackInv, OnlyBack
<1>6. ASSUME NEW p \in Proc, renewLease(p) PROVE BackInv'
  <2>1. /\ Read(p) /\ UNCHANGED <<wall, mono, back, forward>>
        /\ lease.held /\ lease.owner = p
        /\ lease' = [lease EXCEPT !.since = mono,
                        !.expires = IF @ > Now(p) + Dur THEN @ ELSE Now(p) + Dur]
    BY <1>6 DEF renewLease
  <2>2. LeadAhead' /\ last'[p].set /\ Lead(p)' = Now(p) - mono
    BY <2>1, ReadLowersLead
  <2>3. Now(p) \in Int /\ mono \in Nat /\ lease.expires \in Int
    BY NowFacts DEF ClockInv, ClockTypes
  <2>4. /\ lease'.owner = p /\ lease'.since = mono
        /\ lease'.expires = IF lease.expires > Now(p) + Dur THEN lease.expires ELSE Now(p) + Dur
    BY <2>1 DEF ClockInv, ClockTypes
  <2>5. lease'.expires >= mono + Dur + (Now(p) - mono)
    BY <2>3, <2>4
  <2>6. GrantLasts'
    BY <2>2, <2>1, <2>4, <2>5 DEF GrantLasts, Lead
  <2>7. Renewing'
    BY <2>1, <2>3, <2>4 DEF Renewing
  <2> QED
    BY <2>1, <2>2, <2>6, <2>7 DEF BackInv, OnlyBack
<1>7. ASSUME NEW p \in Proc, releaseLease(p) PROVE BackInv'
  <2>1. /\ UNCHANGED <<wall, mono, back, forward, last>>
        /\ lease' = NoLease \/ lease' = [lease EXCEPT !.works = FALSE]
    BY <1>7 DEF releaseLease
  <2>2. lease'.held => /\ lease.held /\ ~lease'.works /\ lease'.owner = lease.owner
                       /\ lease'.since = lease.since /\ lease'.expires = lease.expires
    BY <2>1 DEF ClockInv, ClockTypes
  <2> QED
    BY <2>1, <2>2 DEF BackInv, OnlyBack, LeadAhead, Lead, GrantLasts, Renewing
<1>8. ASSUME NEW p \in Proc, isLeaseValid(p) PROVE BackInv'
  <2>1. Read(p) /\ UNCHANGED <<wall, mono, back, forward, lease>>
    BY <1>8 DEF isLeaseValid
  <2>2. LeadAhead' /\ \A q \in Proc : last[q].set => last'[q].set /\ Lead(q)' <= Lead(q)
    BY <2>1, ReadLowersLead
  <2>3. GrantLasts'
    <3>1. SUFFICES ASSUME lease.held
                   PROVE  /\ last'[lease.owner].set
                          /\ lease.expires >= lease.since + Dur + Lead(lease.owner)'
      BY <2>1 DEF GrantLasts, Lead
    <3>2. lease.owner \in Proc /\ last[lease.owner].set
          /\ lease.expires >= lease.since + Dur + Lead(lease.owner)
      BY <3>1 DEF BackInv, GrantLasts, ClockInv, ClockTypes
    <3>3. lease.expires \in Int /\ lease.since \in Nat /\ Lead(lease.owner) \in Int
      BY <3>2 DEF ClockInv, ClockTypes, Lead
    <3>4. last' \in [Proc -> [set : BOOLEAN, wall : Int, mono : Nat]]
      BY <2>1, ReadFacts DEF ClockInv
    <3>5. last'[lease.owner].wall - last'[lease.owner].mono \in Int
      BY <3>2, <3>4
    <3>6. last'[lease.owner].wall - last'[lease.owner].mono <= Lead(lease.owner)
      BY <2>1, <2>2, <3>2 DEF Lead
    <3>7. last'[lease.owner].set
      BY <2>2, <3>2
    <3> QED
      BY <2>1, <3>2, <3>3, <3>5, <3>6, <3>7 DEF Lead
  <2> QED
    BY <2>1, <2>2, <2>3 DEF BackInv, OnlyBack, Renewing
<1>9. ASSUME NEW p \in Proc, requeueExpiredLeases(p) PROVE BackInv'
  BY <1>9, ReadLowersLead
  DEF requeueExpiredLeases, BackInv, OnlyBack, GrantLasts, Renewing
<1> QED
  BY <1>1, <1>2, <1>3, <1>4, <1>5, <1>6, <1>7, <1>8, <1>9 DEF ClockNext

(* What the clock was set forward is never taken back.                     *)
LEMMA ForwardGrows ==
    ASSUME ClockInv, [ClockNext]_clockVars, forward' = 0 PROVE forward = 0
<1>1. forward \in Nat
  BY DEF ClockInv, ClockTypes
<1>2. CASE setForward
  BY <1>1, <1>2, ClockConstantTypes DEF setForward
<1>3. CASE UNCHANGED clockVars \/ pass \/ setBack
  BY <1>3 DEF clockVars, pass, setBack
<1>4. ASSUME NEW p \in Proc,
             \/ acquireLease(p) \/ renewLease(p) \/ releaseLease(p)
             \/ isLeaseValid(p) \/ requeueExpiredLeases(p)
      PROVE  forward = 0
  BY <1>4 DEF acquireLease, renewLease, releaseLease, isLeaseValid, requeueExpiredLeases
<1> QED
  BY <1>2, <1>3, <1>4 DEF ClockNext

(* THEOREM. As long as the wall clock is only set back, a worker that      *)
(* renews its lease in time never finds it expired by the clock of its     *)
(* process (leaseNowMs, renewLease), however often and by however much the *)
(* clock is set.                                                           *)
THEOREM TimelyRenewalKeepsLease ==
    ASSUME Renew <= Dur + Grace
    PROVE  ClockSpec => []RenewedNotExpired
<1> DEFINE BackOnly == forward = 0 => BackInv
<1>1. ClockInv /\ BackOnly => RenewedNotExpired
  <2>1. SUFFICES ASSUME ClockInv, BackInv, lease.held, lease.works
                 PROVE  ~Expired(lease.owner)
    BY DEF RenewedNotExpired
  <2> DEFINE o == lease.owner
  <2>2. o \in Proc /\ lease.expires \in Int /\ lease.since \in Nat /\ mono \in Nat
    BY <2>1 DEF ClockInv, ClockTypes
  <2>3. /\ last[o].set /\ lease.expires >= lease.since + Dur + Lead(o)
        /\ Lead(o) >= wall - mono /\ mono - lease.since <= Renew
    BY <2>1, <2>2 DEF BackInv, GrantLasts, LeadAhead, Renewing
  <2>4. Now(o) \in Int /\ (Now(o) = wall \/ Now(o) - mono = Lead(o))
    BY <2>1, <2>2, <2>3, NowFacts DEF ClockInv
  <2>5. Lead(o) \in Int /\ wall \in Int
    BY <2>1, <2>2 DEF Lead, ClockInv, ClockTypes
  <2>6. Now(o) <= mono + Lead(o)
    BY <2>2, <2>3, <2>4, <2>5
  <2>7. ~(lease.expires < Now(o) - Grace)
    <3> HIDE DEF o
    <3> QED
      BY <2>2, <2>3, <2>4, <2>5, <2>6, ClockConstantTypes
  <2> QED
    BY <2>7 DEF Expired
<1>2. ClockInit => ClockInv /\ BackOnly
  BY ClockInvInit, BackInit
<1>3. (ClockInv /\ BackOnly) /\ [ClockNext]_clockVars => (ClockInv /\ BackOnly)'
  BY ClockInvStep, BackStep, ForwardGrows
<1> HIDE DEF BackOnly
<1> QED
  BY <1>1, <1>2, <1>3, PTL DEF ClockSpec

-----------------------------------------------------------------------------
(* One process: a lease seen expired was so by the last reading.           *)
LEMMA SeenStep ==
    ASSUME \A p, q \in Proc : p = q, ClockInv, SeenExpired, [ClockNext]_clockVars
    PROVE  SeenExpired' /\ (over /\ lease' = lease => over')
<1> USE ClockConstantTypes, NoLeaseType
<1>1. CASE UNCHANGED clockVars \/ pass \/ setBack \/ setForward
  BY <1>1 DEF clockVars, pass, setBack, setForward, SeenExpired
<1>2. ASSUME NEW p \in Proc, acquireLease(p) PROVE ~over' /\ ~over
  BY <1>2 DEF acquireLease, SeenExpired
<1>3. ASSUME NEW p \in Proc, over
      PROVE  Expired(p)
  <2>1. last[p].set /\ lease.expires < last[p].wall - Grace
    BY <1>3 DEF SeenExpired
  <2>2. Now(p) \in Int /\ Now(p) >= last[p].wall
    BY <2>1, NowFacts DEF ClockInv
  <2>3. last[p].wall \in Int /\ lease.expires \in Int
    BY DEF ClockInv, ClockTypes
  <2> QED
    BY <2>1, <2>2, <2>3 DEF Expired
<1>4. ASSUME NEW p \in Proc, renewLease(p) PROVE ~over' /\ ~over
  BY <1>3, <1>4 DEF renewLease
<1>5. ASSUME NEW p \in Proc, releaseLease(p)
      PROVE  SeenExpired' /\ (over /\ lease' = lease => over')
  <2>1. /\ UNCHANGED last /\ lease.held
        /\ lease' = NoLease \/ lease' = [lease EXCEPT !.works = FALSE]
        /\ over' = (over /\ lease'.held)
    BY <1>5 DEF releaseLease
  <2>2. lease'.held => lease'.expires = lease.expires
    BY <2>1 DEF ClockInv, ClockTypes
  <2> QED
    BY <2>1, <2>2 DEF SeenExpired
<1>6. ASSUME NEW p \in Proc, isLeaseValid(p)
      PROVE  SeenExpired' /\ (over => over')
  <2>1. lease.held /\ lease' = lease /\ Read(p) /\ over' = Expired(p)
    BY <1>6 DEF isLeaseValid
  <2>2. last'[p].set /\ last'[p].wall = Now(p)
    BY <2>1, ReadFacts DEF ClockInv
  <2>3. over' => lease'.expires < last'[p].wall - Grace
    BY <2>1, <2>2 DEF Expired
  <2>4. SeenExpired'
    BY <2>1, <2>2, <2>3 DEF SeenExpired
  <2> QED
    BY <1>3, <2>1, <2>4
<1>7. ASSUME NEW p \in Proc, requeueExpiredLeases(p)
      PROVE  ~over' /\ lease' # lease
  BY <1>7 DEF requeueExpiredLeases
<1> QED
  BY <1>1, <1>2, <1>4, <1>5, <1>6, <1>7 DEF ClockNext, SeenExpired

(* THEOREM. In one process a lease that was seen expired is not seen live  *)
(* again: the clock of leaseNowMs does not go back.                        *)
THEOREM OneClockNeverUnexpires ==
    ASSUME \A p, q \in Proc : p = q
    PROVE  ClockSpec => NeverUnexpires
<1>1. ClockInit => ClockInv /\ SeenExpired
  BY ClockInvInit DEF ClockInit, SeenExpired
<1>2. (ClockInv /\ SeenExpired) /\ [ClockNext]_clockVars => (ClockInv /\ SeenExpired)'
  BY ClockInvStep, SeenStep
<1>3. (ClockInv /\ SeenExpired) /\ [ClockNext]_clockVars => [over /\ lease' = lease => over']_clockVars
  BY SeenStep
<1> QED
  BY <1>1, <1>2, <1>3, PTL DEF ClockSpec, NeverUnexpires

=============================================================================
