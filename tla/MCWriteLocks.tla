---------------------------- MODULE MCWriteLocks ----------------------------
(* WriteLocks for TLC: a, b, c are dev jobs, fa is the repair of a.        *)
(*                                                                         *)
(* Two instances share the run: "ordered", a plan that serialises the      *)
(* writers of a file and workers that stop with their lease, and "race",   *)
(* jobs that meet in a file without an order, no repair, a job that asks   *)
(* for another file, and workers that outlive their lease.  `part` is      *)
(* chosen at the start.                                                    *)
EXTENDS WriteLocks

CONSTANTS a, b, c, fa, p, q

AllJobs == {a, b, c, fa}
ParentDef == [j \in AllJobs |-> IF j = fa THEN a ELSE Plan]

(* a and b are disjoint, c touches the files of both: in the race, by a    *)
(* create root above them, which the plan compiler does not serialise.     *)
ScopeApart == [j \in AllJobs |-> IF j \in {a, fa} THEN {p} ELSE IF j = b THEN {q} ELSE {p, q}]

AfterC == [j \in AllJobs |-> IF j = c THEN {a, b} ELSE {}]

VARIABLE part

Race == INSTANCE WriteLocks WITH
    After <- [j \in AllJobs |-> {}], MaxAssess <- 0, MaxParks <- 0, Zombies <- TRUE,
    MaxExpansions <- 1

MCInit ==
    \/ part = "ordered" /\ Init
    \/ part = "race" /\ Race!Init

Ordered(A) == part = "ordered" /\ A /\ UNCHANGED part

MCNext ==
    \/ Ordered(Next)
    \/ part = "race" /\ Race!Next /\ status'[fa] = "absent" /\ UNCHANGED part

allVars == <<part, vars>>

(* Fairness of WriteLocks, for the instance whose progress is checked.     *)
MCFairness ==
    /\ \A j \in Job :
         /\ WF_allVars(Ordered(acquireLeaseWithWriteLocks(j)))
         /\ WF_allVars(Ordered(Worker(j)))
         /\ WF_allVars(Ordered(resume(j)))
         /\ WF_allVars(Ordered(approveScope(j) \/ denyScope(j)))
         /\ WF_allVars(Ordered(cancelDeadlocked(j)))
    /\ WF_allVars(Ordered(refreshFromDb))

MCSpec == MCInit /\ [][MCNext]_allVars /\ MCFairness

(* EveryJobSettles of the ordered instance.                                *)
OrderedJobsSettle == part = "ordered" => EveryJobSettles
=============================================================================
