---------------------------- MODULE LeaseService ----------------------------
(***************************************************************************)
(* What the lease columns of the jobs table promise, with no clock, status *)
(* or process in sight: a job is granted to at most one holder, every      *)
(* grant carries a token nobody was given before, and a job changes hands  *)
(* only by way of a revocation.  A worker that compares tokens before it   *)
(* writes is therefore fenced off from the moment its grant is revoked.    *)
(***************************************************************************)
EXTENDS Naturals

CONSTANTS Jobs
VARIABLES
  grant,    \* the token of each job's grant, 0 when it is free
  issued    \* the number of tokens issued so far

Init ==
  /\ grant = [j \in Jobs |-> 0]
  /\ issued = 0

Grant(j) ==
  /\ grant[j] = 0
  /\ issued' = issued + 1
  /\ grant' = [grant EXCEPT ![j] = issued + 1]

Revoke(Rows) ==
  /\ grant' = [j \in Jobs |-> IF j \in Rows THEN 0 ELSE grant[j]]
  /\ UNCHANGED issued

Next ==
  \/ \E j \in Jobs : Grant(j)
  \/ \E Rows \in SUBSET Jobs : Revoke(Rows)

Spec == Init /\ [][Next]_<<grant, issued>>
=============================================================================
