---------------------------- MODULE MCHumanGates ----------------------------
(* HumanGates for TLC.                                                       *)
(*                                                                           *)
(* Two instances share the run: resolvers that stall and die, in the         *)
(* variables of HumanGates, whose safety is checked; and, in a copy of them, *)
(* prompt resolvers with more reviews and more crashes of the run, under     *)
(* which the answers take effect.  `part` is chosen at the start and says    *)
(* which of the two moves.                                                   *)
EXTENDS HumanGates

CONSTANTS
    PromptParks,    \* bound of the reviews of the prompt instance
    PromptCrashes   \* bound of the deaths of its run

VARIABLES part, pJob, pWorker, pPark, pApplied, pGate, pRes, pSweep, pCrashes

promptVars == <<pJob, pWorker, pPark, pApplied, pGate, pRes, pSweep, pCrashes>>

Prompt == INSTANCE HumanGates WITH
    Stalls <- FALSE, MaxResolverCrashes <- 0, MaxParks <- PromptParks, MaxCrashes <- PromptCrashes,
    job <- pJob, worker <- pWorker, park <- pPark, applied <- pApplied,
    gate <- pGate, res <- pRes, sweep <- pSweep, crashes <- pCrashes

MCInit == part \in {"faulty", "prompt"} /\ Init /\ Prompt!Init

Prompted(A) == part = "prompt" /\ A /\ UNCHANGED <<part, vars>>

MCNext ==
    \/ part = "faulty" /\ Next /\ UNCHANGED <<part, promptVars>>
    \/ Prompted(Prompt!Next)

allVars == <<part, vars, promptVars>>

\* Fairness of HumanGates, for the instance whose progress is checked.
MCFairness ==
    /\ WF_allVars(Prompted(Prompt!WorkerStep))
    /\ \A r \in Resolver : WF_allVars(Prompted(Prompt!ResolverStep(r)))
    /\ \A g \in Prompt!Gate : /\ WF_allVars(Prompted(Prompt!parkGate(g)))
                              /\ WF_allVars(Prompted(Prompt!clearExpiredGateLease(g)))
                              /\ WF_allVars(Prompted(Prompt!leaseRunsOut(g)))
    /\ WF_allVars(Prompted(Prompt!timeoutFailsJob \/ Prompt!timeoutFailsGate))
    /\ WF_allVars(Prompted(Prompt!RecoverOrphan))
    /\ WF_allVars(Prompted(Prompt!reconcileHumanGates))
    /\ WF_allVars(Prompted(Prompt!requeueExpiredJob))

MCSpec == MCInit /\ [][MCNext]_allVars /\ MCFairness

\* ParkIsNoTrap with prompt resolvers: the park ends, or has a question that can
\* be answered.
PromptParkIsNoTrap == part = "prompt" => Prompt!ParkIsNoTrap
=============================================================================
