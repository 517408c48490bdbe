------------------------------- MODULE RelayBridge -------------------------------
(***************************************************************************)
(* Commands from the phone (bridge/): the relay client keeps one websocket *)
(* to the relay and reconnects when it is lost; a mutating command claims  *)
(* its id in the database, runs, records its ack there and answers on the  *)
(* socket it came by, if that is still the client's. The local server      *)
(* dispatches the same commands. The relay, the network and the processes  *)
(* may fail, and a command may be sent again under its id.                 *)
(***************************************************************************)
EXTENDS Naturals, Sequences, FiniteSets

CONSTANTS
    Id,             \* command ids
    Input,          \* a command's name and canonical arguments
    MaxFaults       \* bound: failures of the relay, the network and the bridge

ASSUME BridgeAssumption ==
    /\ IsFiniteSet(Id) /\ IsFiniteSet(Input) /\ Id # {} /\ Input # {}
    /\ MaxFaults \in Nat

VARIABLES
    rows,           \* bridge_command_results
    effects,        \* how often the command of an id and an input took effect
    calls,          \* dispatches that hold a claim
    up,             \* posse serve runs
    stopped,        \* RelayClient.stopped
    socket,         \* RelayClient.socket; 0: null
    reconnectTimer, handshakeTimer, idleTimer,
    authenticated,  \* connectionStatus.authenticated
    net,            \* every websocket made so far, as the network has it
    wire,           \* frames on their way to the client
    answers,        \* acks that reached whoever sent the command
    aged,           \* ids whose result turned 30 days old; once each, a bound
    faults

store == <<rows, effects, aged>>
client == <<stopped, socket, reconnectTimer, handshakeTimer, idleTimer, authenticated>>
vars == <<store, client, calls, up, net, wire, answers, faults>>

(* What a dispatch ends with, and what a command is answered instead.      *)
Terminal == {"ok", "failed", "internal"}
Refusal == {"idempotency_conflict", "command_in_progress", "command_result_persist_failed"}

(* The dispatches of LocalServer have no websocket of the relay client.    *)
Local == 0

NoRow == [state |-> "none", input |-> CHOOSE a \in Input : TRUE, ack |-> "none", old |-> FALSE]
Answer(i, a, ack) == [id |-> i, input |-> a, ack |-> ack]

Hello(s, kind) == [sock |-> s, kind |-> kind]
Command(s, i, a) == [sock |-> s, kind |-> "command", id |-> i, input |-> a]
FramesOf(s) == {f \in wire : f.sock = s}

Init ==
    /\ rows = [i \in Id |-> NoRow]
    /\ effects = [i \in Id |-> [a \in Input |-> 0]]
    /\ calls = {}
    /\ up = FALSE
    /\ stopped = TRUE
    /\ socket = 0
    /\ reconnectTimer = FALSE
    /\ handshakeTimer = FALSE
    /\ idleTimer = FALSE
    /\ authenticated = FALSE
    /\ net = <<>>
    /\ wire = {}
    /\ answers = {}
    /\ aged = {}
    /\ faults = 0

Fault == faults < MaxFaults /\ faults' = faults + 1

-----------------------------------------------------------------------------
(* The relay client.                                                       *)

(* Mutant of ownsSocket: any socket will do.                               *)
ownsAnySocket(s) == socket # 0 /\ s # 0

ownsSocket(s) == socket # 0 /\ socket = s

scheduleReconnect == reconnectTimer' = ~stopped'

(* new WebSocket, which throws or leaves the client with a socket.         *)
connect ==
    /\ ~stopped' /\ socket = 0
    /\ authenticated' = FALSE
    /\ idleTimer' = idleTimer
    /\ \/ /\ socket' = Len(net) + 1
          /\ net' = Append(net, "connecting")
          /\ handshakeTimer' = TRUE
          /\ reconnectTimer' = FALSE
          /\ UNCHANGED faults
       \/ /\ Fault
          /\ scheduleReconnect
          /\ UNCHANGED <<socket, net, handshakeTimer>>

(* Bridge.startResources makes a new client, in a new process or after     *)
(* stopResources in the same one.                                          *)
start ==
    /\ stopped
    /\ up' = TRUE
    /\ stopped' = FALSE
    /\ connect
    /\ UNCHANGED <<store, calls, wire, answers>>

reconnectTimerFires ==
    /\ reconnectTimer
    /\ UNCHANGED stopped
    /\ connect
    /\ UNCHANGED <<store, calls, up, wire, answers>>

handleOpen(s) ==
    /\ net[s] = "connecting"
    /\ net' = [net EXCEPT ![s] = "open"]
    /\ idleTimer' = (idleTimer \/ ownsSocket(s))
    /\ authenticated' = (authenticated /\ ~ownsSocket(s))
    /\ UNCHANGED <<store, calls, up, stopped, socket, reconnectTimer, handshakeTimer,
                   wire, answers, faults>>

(* The client lets go of its socket s; the network has it as state.        *)
LetGo(s, state) ==
    /\ ownsSocket(s)
    /\ socket' = 0
    /\ net' = [net EXCEPT ![s] = state]
    /\ handshakeTimer' = FALSE
    /\ idleTimer' = FALSE
    /\ authenticated' = FALSE
    /\ UNCHANGED stopped
    /\ scheduleReconnect

(* An error event, a frame that is not text or of another version, a send  *)
(* buffer over its limit, or a timer that fires on a slow connection.      *)
failSocket(s) ==
    /\ Fault
    /\ LetGo(s, "closing")
    /\ UNCHANGED <<store, calls, up, wire, answers>>

(* The handshake timer and the idle watchdog on a half-open connection.    *)
TimerFires(s) ==
    /\ net[s] = "dead"
    /\ handshakeTimer \/ idleTimer
    /\ LetGo(s, "closing")
    /\ UNCHANGED <<store, calls, up, wire, answers, faults>>

(* The close event; that of a socket the client let go of is dropped.      *)
handleClose(s) ==
    /\ net[s] = "closing"
    /\ IF ownsSocket(s)
         THEN LetGo(s, "closed")
         ELSE net' = [net EXCEPT ![s] = "closed"] /\ UNCHANGED client
    /\ wire' = wire \ FramesOf(s)
    /\ UNCHANGED <<store, calls, up, answers, faults>>

(* A frame of the wire reaches the client while its socket is not closed.  *)
Arrives(f) ==
    /\ f \in wire
    /\ net[f.sock] \in {"open", "authed", "closing"}
    /\ wire' = wire \ {f}

(* handleMessage, for the answer to the client's hello; a ping does what   *)
(* the welcome does.                                                       *)
handleHello(f) ==
    /\ Arrives(f) /\ f.kind \in {"welcome", "denied"}
    /\ \/ ~ownsSocket(f.sock) /\ UNCHANGED <<client, net>>
       \/ /\ ownsSocket(f.sock) /\ f.kind = "welcome"
          /\ authenticated' = TRUE
          /\ handshakeTimer' = FALSE
          /\ UNCHANGED <<stopped, socket, reconnectTimer, idleTimer, net>>
       \/ f.kind = "denied" /\ LetGo(f.sock, "closing")
    /\ UNCHANGED <<store, calls, up, answers, faults>>

(* RelayClient.stop. The process goes on, with the dispatches that run.    *)
stop ==
    /\ up /\ ~stopped
    /\ Fault
    /\ stopped' = TRUE
    /\ socket' = 0
    /\ net' = IF socket = 0 THEN net ELSE [net EXCEPT ![socket] = "closing"]
    /\ reconnectTimer' = FALSE
    /\ handshakeTimer' = FALSE
    /\ idleTimer' = FALSE
    /\ authenticated' = FALSE
    /\ UNCHANGED <<store, calls, up, wire, answers>>

-----------------------------------------------------------------------------
(* Dispatching a command.                                                  *)

(* Mutant of claim: the input is not compared.                             *)
claimAnyInput(i, a) ==
    IF rows[i].state = "none" THEN "claimed"
    ELSE IF rows[i].state = "pending" THEN "command_in_progress"
    ELSE rows[i].ack

(* CommandResultStore.claim: an insert that gives way to a row, and a read *)
(* in the same turn of the event loop; what the caller is told.            *)
claim(i, a) ==
    IF rows[i].state = "none" THEN "claimed"
    ELSE IF rows[i].input # a THEN "idempotency_conflict"
    ELSE IF rows[i].state = "pending" THEN "command_in_progress"
    ELSE rows[i].ack

(* An ack for the command that came by o. The answer of the local server   *)
(* may be lost with its connection.                                        *)
Reply(o, answer) ==
    \/ /\ o = Local
       /\ answers' \in {answers, answers \cup {answer}}
    \/ /\ o # Local
       /\ answers' = IF ownsSocket(o) /\ net[o] = "authed"
                       THEN answers \cup {answer} ELSE answers

(* Mutant of dispatch: a command in progress is not acked.                 *)
dispatchSilent(o, i, a) ==
    /\ \/ /\ claim(i, a) = "claimed"
          /\ rows' = [rows EXCEPT ![i] = [NoRow EXCEPT !.state = "pending", !.input = a]]
          /\ calls' = calls \cup {[origin |-> o, id |-> i, input |-> a, ack |-> "none"]}
          /\ UNCHANGED answers
       \/ /\ claim(i, a) \notin {"claimed", "command_in_progress"}
          /\ Reply(o, Answer(i, a, claim(i, a)))
          /\ UNCHANGED <<rows, calls>>
       \/ claim(i, a) = "command_in_progress" /\ UNCHANGED <<rows, calls, answers>>
    /\ UNCHANGED <<effects, aged>>

(* dispatchBridgeCommandFrame up to its first await.                       *)
dispatch(o, i, a) ==
    /\ \/ /\ claim(i, a) = "claimed"
          /\ rows' = [rows EXCEPT ![i] = [NoRow EXCEPT !.state = "pending", !.input = a]]
          /\ calls' = calls \cup {[origin |-> o, id |-> i, input |-> a, ack |-> "none"]}
          /\ UNCHANGED answers
       \/ /\ claim(i, a) # "claimed"
          /\ Reply(o, Answer(i, a, claim(i, a)))
          /\ UNCHANGED <<rows, calls>>
    /\ UNCHANGED <<effects, aged>>

(* handleMessage, for a command: whoever sends one is authenticated.       *)
handleCommand(s, i, a) ==
    /\ Arrives(Command(s, i, a))
    /\ \/ /\ ownsSocket(s)
          /\ authenticated' = TRUE
          /\ handshakeTimer' = (handshakeTimer /\ authenticated)
          /\ dispatch(s, i, a)
       \/ /\ ~ownsSocket(s)
          /\ UNCHANGED <<store, calls, answers, authenticated, handshakeTimer>>
    /\ UNCHANGED <<up, stopped, socket, reconnectTimer, idleTimer, net, faults>>

(* POST /v1/command of the local server.                                   *)
localCommand(i, a) ==
    /\ up /\ ~stopped
    /\ dispatch(Local, i, a)
    /\ UNCHANGED <<client, up, net, wire, faults>>

(* executeAllowedCommand: it succeeds, is refused, or throws before or     *)
(* after it took effect.                                                   *)
execute(c) ==
    /\ c.ack = "none"
    /\ \E ack \in Terminal, took \in 0..1 :
         /\ ack = "ok" => took = 1
         /\ ack = "failed" => took = 0
         /\ effects' = [effects EXCEPT ![c.id][c.input] = @ + took]
         /\ calls' = (calls \ {c}) \cup {[c EXCEPT !.ack = ack]}
    /\ UNCHANGED <<rows, aged, client, up, net, wire, answers, faults>>

(* Mutant of Expired: the age is not compared.                             *)
ExpiredAtOnce == {i \in Id : rows[i].state = "completed"}

(* CommandResultStore.complete writes the ack where the claim is pending,  *)
(* and deletes the completed rows that are 30 days old.                    *)
Expired == {i \in Id : rows[i].state = "completed" /\ rows[i].old}
complete(i, ack) ==
    rows' = [j \in Id |->
         IF j = i THEN [rows[i] EXCEPT !.state = "completed", !.ack = ack]
         ELSE IF j \in Expired THEN NoRow ELSE rows[j]]

(* The rest of the dispatch, and the ack the client sends if the socket is *)
(* still its own. A completion that is not recorded leaves the claim.      *)
finish(c) ==
    /\ c.ack # "none"
    /\ calls' = calls \ {c}
    /\ \/ /\ rows[c.id].state = "pending"
          /\ complete(c.id, c.ack)
          /\ Reply(c.origin, Answer(c.id, c.input, c.ack))
          /\ UNCHANGED faults
       \/ /\ Fault
          /\ Reply(c.origin, Answer(c.id, c.input, "command_result_persist_failed"))
          /\ UNCHANGED rows
    /\ UNCHANGED <<effects, aged, client, up, net, wire>>

-----------------------------------------------------------------------------
(* The relay, the network, the process and the calendar.                   *)

answerHello(s) ==
    /\ net[s] = "open" /\ FramesOf(s) = {}
    /\ \/ /\ net' = [net EXCEPT ![s] = "authed"]
          /\ wire' = wire \cup {Hello(s, "welcome")}
          /\ UNCHANGED faults
       \/ /\ Fault
          /\ wire' = wire \cup {Hello(s, "denied")}
          /\ UNCHANGED net
    /\ UNCHANGED <<store, client, calls, up, answers>>

sendCommand(s, i, a) ==
    /\ net[s] = "authed" /\ Hello(s, "welcome") \notin wire
    /\ Command(s, i, a) \notin wire
    /\ wire' = wire \cup {Command(s, i, a)}
    /\ UNCHANGED <<store, client, calls, up, net, answers, faults>>

(* The connection is closed by the other end, or goes silent.              *)
lose(s) ==
    /\ net[s] \in {"connecting", "open", "authed"}
    /\ Fault
    /\ \/ net' = [net EXCEPT ![s] = "closing"] /\ UNCHANGED wire
       \/ net' = [net EXCEPT ![s] = "dead"] /\ wire' = wire \ FramesOf(s)
    /\ UNCHANGED <<store, client, calls, up, answers>>

(* posse serve dies, or exits after stop.                                  *)
exit ==
    /\ up
    /\ (stopped /\ UNCHANGED faults) \/ (~stopped /\ Fault)
    /\ up' = FALSE
    /\ calls' = {}
    /\ stopped' = TRUE
    /\ socket' = 0
    /\ reconnectTimer' = FALSE
    /\ handshakeTimer' = FALSE
    /\ idleTimer' = FALSE
    /\ authenticated' = FALSE
    /\ net' = [s \in 1..Len(net) |-> "closed"]
    /\ wire' = {}
    /\ UNCHANGED <<store, answers>>

passMonth(i) ==
    /\ rows[i].state = "completed" /\ i \notin aged
    /\ aged' = aged \cup {i}
    /\ rows' = [rows EXCEPT ![i].old = TRUE]
    /\ UNCHANGED <<effects, client, calls, up, net, wire, answers, faults>>

Next ==
    \/ start \/ reconnectTimerFires \/ stop \/ exit
    \/ \E s \in 1..Len(net) :
         \/ handleOpen(s) \/ failSocket(s) \/ TimerFires(s) \/ handleClose(s)
         \/ answerHello(s) \/ lose(s)
         \/ \E i \in Id, a \in Input : sendCommand(s, i, a) \/ handleCommand(s, i, a)
    \/ \E f \in wire : handleHello(f)
    \/ \E i \in Id, a \in Input : localCommand(i, a)
    \/ \E c \in calls : execute(c) \/ finish(c)
    \/ \E i \in Id : passMonth(i)

Spec == Init /\ [][Next]_vars

(* Timers fire, sockets deliver, dispatches end. The relay accepts what it *)
(* is asked, and whoever sent a command sends it again until it is         *)
(* answered, as the protocol lets it.                                      *)
Unanswered(i, a) == \A r \in answers : r.id # i \/ r.input # a
Fairness ==
    /\ WF_vars(reconnectTimerFires)
    /\ WF_vars(\E s \in 1..Len(net) : TimerFires(s))
    /\ WF_vars(\E s \in 1..Len(net) : handleOpen(s))
    /\ WF_vars(\E s \in 1..Len(net) : answerHello(s))
    /\ WF_vars(\E s \in 1..Len(net) : handleClose(s))
    /\ WF_vars(\E f \in wire : handleHello(f))
    /\ WF_vars(\E c \in calls : execute(c) \/ finish(c))
    /\ \A i \in Id, a \in Input :
         /\ WF_vars(\E s \in 1..Len(net) : handleCommand(s, i, a))
         /\ WF_vars(Unanswered(i, a) /\ \E s \in 1..Len(net) : sendCommand(s, i, a))
LiveSpec == Spec /\ Fairness

-----------------------------------------------------------------------------
(* Properties.                                                             *)

TypeOK ==
    /\ rows \in [Id -> [state : {"none", "pending", "completed"}, input : Input,
                        ack : Terminal \cup {"none"}, old : BOOLEAN]]
    /\ effects \in [Id -> [Input -> Nat]]
    /\ calls \subseteq [origin : Nat, id : Id, input : Input, ack : Terminal \cup {"none"}]
    /\ {up, stopped, reconnectTimer, handshakeTimer, idleTimer, authenticated} \subseteq BOOLEAN
    /\ net \in Seq({"connecting", "open", "authed", "dead", "closing", "closed"})
    /\ socket \in 0..Len(net)
    /\ answers \subseteq [id : Id, input : Input, ack : Terminal \cup Refusal]
    /\ aged \subseteq Id
    /\ faults \in 0..MaxFaults

(* For 30 days after it completed, a command id has at most one effect,    *)
(* whatever input it is sent with, by either way and across restarts, lost *)
(* acks and results that could not be recorded (claim, complete).          *)
AtMostOneEffect ==
    \A i \in Id \ aged, a, b \in Input :
        /\ effects[i][a] <= 1
        /\ effects[i][a] = 1 /\ effects[i][b] = 1 => a = b

(* A replay is told what the first call was told: the terminal acks of an  *)
(* id agree, on input and outcome, and one that says ok is of a command    *)
(* that took effect.                                                       *)
ReplayGetsOriginalAck ==
    \A r \in answers : r.id \notin aged /\ r.ack \in Terminal =>
        /\ r.ack = "ok" => effects[r.id][r.input] = 1
        /\ \A q \in answers : q.id = r.id /\ q.ack \in Terminal => q = r

(* A started client has a socket or a reconnect timer and never both, and  *)
(* every socket it let go of is being closed: no event of an old socket    *)
(* makes it forget the one it has (ownsSocket, scheduleReconnect).         *)
OneConnection ==
    /\ ~stopped => (socket = 0 <=> reconnectTimer)
    /\ stopped => socket = 0 /\ ~reconnectTimer
    /\ \A s \in 1..Len(net) : s # socket => net[s] \in {"closing", "closed"}

(* A command that is sent until it is answered is answered, its claim left *)
(* pending by a crash or not.                                              *)
EveryCommandAnswered(commands) ==
    <>[](up /\ ~stopped) => \A c \in commands : <>(~Unanswered(c[1], c[2]))

=============================================================================
