-------------------------------- MODULE LeaseClock --------------------------------
(***************************************************************************)
(* The clock of the job leases (lease-clock.js). Every process makes its   *)
(* own clock from the wall clock, which may be set, and the monotonic      *)
(* clock; leases are granted, renewed and judged expired by it. What the   *)
(* other columns of a lease do is in JobLease.                             *)
(***************************************************************************)
EXTENDS Integers

CONSTANTS
    Proc,
    Dur,            \* leaseDurationSec
    Grace,          \* leaseRequeueGraceSec
    Renew,          \* a worker renews its lease after that long at the latest
    MaxTime,        \* bound: monotonic time
    MaxBack,        \* bound: by how much the wall clock is set back in all
    MaxForward      \* bound: ... and forward

ClockConstantsOK ==
    /\ Proc # {}
    /\ {Dur, Grace, Renew, MaxTime, MaxBack, MaxForward} \subseteq Nat

ASSUME ClockConstants == ClockConstantsOK

VARIABLES
    wall, mono,     \* Date.now and performance.now
    back, forward,  \* by how much the wall clock has been set
    last,           \* _lastLeaseClock of each process
    lease,          \* owner, lease_expires_at, and when it was last renewed
    over            \* whether it was last seen expired

clockVars == <<wall, mono, back, forward, last, lease, over>>

NoClock == [set |-> FALSE, wall |-> 0, mono |-> 0]
NoLease == [held |-> FALSE, owner |-> CHOOSE p \in Proc : TRUE, works |-> FALSE,
            expires |-> 0, since |-> 0]

ClockInit ==
    /\ wall = 0 /\ mono = 0 /\ back = 0 /\ forward = 0
    /\ last = [p \in Proc |-> NoClock]
    /\ lease = NoLease
    /\ over = FALSE

(* Mutant of Synthesized: time is counted from the first reading.          *)
SynthesizedTwice(p) == last[p].wall + mono

Synthesized(p) == last[p].wall + (mono - last[p].mono)

(* leaseNowMs: the wall clock, unless it went back.                        *)
Now(p) ==
    IF ~last[p].set \/ wall >= last[p].wall THEN wall ELSE Synthesized(p)

Read(p) == last' = [last EXCEPT ![p] = [set |-> TRUE, wall |-> Now(p), mono |-> mono]]

(* Mutant of Expired: the duration is added to the grace.                  *)
ExpiredLate(p) == lease.expires < Now(p) - Grace - Dur

(* lease_expires_at < graceCutoff()                                        *)
Expired(p) == lease.expires < Now(p) - Grace

-----------------------------------------------------------------------------
acquireLease(p) ==
    /\ ~lease.held
    /\ Read(p)
    /\ lease' = [held |-> TRUE, owner |-> p, works |-> TRUE,
                 expires |-> Now(p) + Dur, since |-> mono]
    /\ over' = FALSE
    /\ UNCHANGED <<wall, mono, back, forward>>

(* renewLease, by the worker's timer: never to an earlier time.            *)
renewLease(p) ==
    /\ lease.held /\ lease.owner = p /\ lease.works
    /\ Read(p)
    /\ ~Expired(p)
    /\ lease' = [lease EXCEPT !.since = mono,
                     !.expires = IF @ > Now(p) + Dur THEN @ ELSE Now(p) + Dur]
    /\ over' = FALSE
    /\ UNCHANGED <<wall, mono, back, forward>>

(* The job ends, or its worker does and the lease is left behind.          *)
releaseLease(p) ==
    /\ lease.held /\ lease.owner = p /\ lease.works
    /\ lease' \in {NoLease, [lease EXCEPT !.works = FALSE]}
    /\ over' = (over /\ lease'.held)
    /\ UNCHANGED <<wall, mono, back, forward, last>>

(* Somebody asks whether the lease is live (attempts.js, human-gates.js).  *)
isLeaseValid(p) ==
    /\ lease.held
    /\ Read(p)
    /\ over' = Expired(p)
    /\ UNCHANGED <<wall, mono, back, forward, lease>>

requeueExpiredLeases(p) ==
    /\ lease.held
    /\ Read(p)
    /\ Expired(p)
    /\ lease' = NoLease
    /\ over' = FALSE
    /\ UNCHANGED <<wall, mono, back, forward>>

-----------------------------------------------------------------------------
(* Time passes; a working owner renews in time.                            *)
pass ==
    /\ mono < MaxTime
    /\ lease.held /\ lease.works => mono - lease.since < Renew
    /\ mono' = mono + 1
    /\ wall' = wall + 1
    /\ UNCHANGED <<back, forward, last, lease, over>>

setBack ==
    /\ \E d \in 1..(MaxBack - back) : back' = back + d /\ wall' = wall - d
    /\ UNCHANGED <<mono, forward, last, lease, over>>

(* ... forward, or the machine wakes from sleep.                           *)
setForward ==
    /\ \E d \in 1..(MaxForward - forward) : forward' = forward + d /\ wall' = wall + d
    /\ UNCHANGED <<mono, back, last, lease, over>>

ClockNext ==
    \/ pass \/ setBack \/ setForward
    \/ \E p \in Proc :
         \/ acquireLease(p) \/ renewLease(p) \/ releaseLease(p)
         \/ isLeaseValid(p) \/ requeueExpiredLeases(p)

ClockSpec == ClockInit /\ [][ClockNext]_clockVars

-----------------------------------------------------------------------------
(* Once somebody has seen a lease expired nobody sees it live again unless *)
(* it was renewed: "leases never appear to expire-then-un-expire".         *)
NeverUnexpires == [][over /\ lease' = lease => over']_clockVars

(* However the wall clock is set back, and as long as it is never set      *)
(* forward, a worker that renews in time keeps its lease by the clock of   *)
(* its own process.                                                        *)
RenewedNotExpired ==
    forward = 0 /\ lease.held /\ lease.works => ~Expired(lease.owner)

(* A lease that nobody renews is expired by its owner's clock after its    *)
(* duration and the grace, and what the clock has been set back in all.    *)
LeftBehindExpires ==
    lease.held /\ mono - lease.since > Dur + Grace + back => Expired(lease.owner)

=============================================================================
