----------------------------- MODULE MCJobLease -----------------------------
(* JobLease for TLC: one plan job, two processes, one gate.                *)
(*                                                                         *)
(* Three instances share the run: "long", with the bounds of the cfg, in   *)
(* which a lease can outlive its grace and be renewed; "twice", in which   *)
(* the job is leased a second time; and "live", whose progress is checked  *)
(* under fairness.  `part` is chosen at the start.                         *)
EXTENDS JobLease

VARIABLE part

Twice == INSTANCE JobLease WITH MaxClock <- 4, MaxToken <- 2
Live == INSTANCE JobLease WITH MaxClock <- 5, MaxToken <- 1

Lively(A) == part = "live" /\ A /\ UNCHANGED part

MCInit == part \in {"long", "twice", "live"} /\ Init

MCNext ==
  \/ part = "long" /\ Next /\ UNCHANGED part
  \/ part = "twice" /\ Twice!Next /\ UNCHANGED part
  \/ Lively(Live!Next)

allVars == <<part, vars>>

\* Fairness of JobLease, for the instance whose progress is checked.
MCFairness ==
  /\ WF_allVars(Lively(Live!tick))
  /\ \A p \in Procs :
       /\ WF_allVars(Lively(Live!sweepStep(p)))
       /\ WF_allVars(Lively(Live!bootStep(p)))
       /\ WF_allVars(Lively(\E g \in Gates : Live!spawnGate(p, g)))
       /\ SF_allVars(Lively(\E s \in PARKED_LEASE_STATUSES : Live!releaseLease(p, s)))

MCSpec == MCInit /\ [][MCNext]_allVars /\ MCFairness

\* DeadOwnerReclaimed under that fairness, for one of the two processes, which
\* are interchangeable.
LiveDeadOwnerReclaimed == part = "live" => DeadOwnerReclaimed("p1")

\* AnswerEventuallyApplied under that fairness.
LiveAnswerApplied == part = "live" => AnswerEventuallyApplied
=============================================================================
