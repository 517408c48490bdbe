----------------------------- MODULE MCRelayBridge -----------------------------
(* RelayBridge for TLC. Three instances share the run; `part` is chosen at *)
(* the start and says which commands are sent and how much may fail: one   *)
(* id with two inputs, two ids whose results grow old, and one command     *)
(* over more failures, whose progress is checked.                          *)
EXTENDS RelayBridge

VARIABLE part

Sent ==
    [replay |-> {"c1"} \X {"a", "b"}, pruned |-> {"c1", "c2"} \X {"a"}, lossy |-> {<<"c1", "a">>}]
Failures == [replay |-> 2, pruned |-> 0, lossy |-> 3]

(* A step in which no command is sent that is not of the part.             *)
Limited(A) ==
    /\ A
    /\ UNCHANGED part
    /\ faults' <= Failures[part]
    /\ \A f \in wire' : f.kind = "command" => <<f.id, f.input>> \in Sent[part]
    /\ \A x \in calls' \cup answers' : <<x.id, x.input>> \in Sent[part]

allVars == <<part, vars>>

MCInit == part \in DOMAIN Sent /\ Init
MCNext == Limited(Next)

Lossy(A) == part = "lossy" /\ Limited(A)

(* Fairness of RelayBridge, for the part whose progress is checked.        *)
MCFairness ==
    /\ WF_allVars(Lossy(reconnectTimerFires))
    /\ WF_allVars(Lossy(\E s \in 1..Len(net) : TimerFires(s)))
    /\ WF_allVars(Lossy(\E s \in 1..Len(net) : handleOpen(s)))
    /\ WF_allVars(Lossy(\E s \in 1..Len(net) : answerHello(s)))
    /\ WF_allVars(Lossy(\E s \in 1..Len(net) : handleClose(s)))
    /\ WF_allVars(Lossy(\E f \in wire : handleHello(f)))
    /\ WF_allVars(Lossy(\E c \in calls : execute(c) \/ finish(c)))
    /\ WF_allVars(Lossy(\E s \in 1..Len(net) : handleCommand(s, "c1", "a")))
    /\ WF_allVars(Lossy(Unanswered("c1", "a") /\ \E s \in 1..Len(net) : sendCommand(s, "c1", "a")))

MCSpec == MCInit /\ [][MCNext]_allVars /\ MCFairness

(* EveryCommandAnswered, for the command of that part.                     *)
LossyCommandAnswered ==
    part = "lossy" => EveryCommandAnswered({<<"c1", "a">>})
=============================================================================
