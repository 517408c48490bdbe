-------------------------- MODULE MCJobDependencies --------------------------
(***************************************************************************)
(* Instances of JobDependencies for TLC.                                   *)
(***************************************************************************)
EXTENDS JobDependencies

CONSTANTS a, b, c

ThreeJobs == {a, b, c}

\* cancelDeadlockedJobsAtomic over the whole queue and over one work item.
AllOrOne == {Jobs, Jobs \ {a}}
=============================================================================
