--------------------------- MODULE RelayBridge_proofs ---------------------------
(***************************************************************************)
(* Proofs about RelayBridge, for any ids, inputs and number of failures,   *)
(* and, in a second part, about MergeLock, with which it shares no state.  *)
(***************************************************************************)
EXTENDS RelayBridge, MergeLock, TLAPS

(***************************************************************************)
(* The store. Terminal acks are only sent from a completed row, an effect  *)
(* only belongs to the input of the row, and a call only runs while its    *)
(* row is pending. Ids whose result is 30 days old are left out.           *)
(***************************************************************************)
AckOrNone == Terminal \cup {"none"}
Row == [state : {"none", "pending", "completed"}, input : Input, ack : AckOrNone, old : BOOLEAN]
Call == [origin : Nat, id : Id, input : Input, ack : AckOrNone]

StoreType ==
    /\ rows \in [Id -> Row]
    /\ effects \in [Id -> [Input -> Nat]]
    /\ calls \subseteq Call
    /\ answers \subseteq [id : Id, input : Input, ack : Terminal \cup Refusal]
    /\ aged \subseteq Id

CallsHoldTheRow ==
    /\ \A c \in calls : rows[c.id].state = "pending" /\ rows[c.id].input = c.input
    /\ \A c, d \in calls : c.id = d.id => c = d

OldIsAged == \A i \in Id : rows[i].old => i \in aged

EffectsOfTheRow ==
    \A i \in Id \ aged : \A a \in Input :
        /\ effects[i][a] \in {0, 1}
        /\ effects[i][a] = 1 => rows[i].state # "none" /\ rows[i].input = a

EffectsOfTheCall ==
    \A c \in calls : c.id \notin aged =>
        /\ c.ack = "none" => \A a \in Input : effects[c.id][a] = 0
        /\ c.ack = "ok" => effects[c.id][c.input] = 1

CompletedIsTrue ==
    \A i \in Id : rows[i].state = "completed" =>
        /\ rows[i].ack \in Terminal
        /\ rows[i].ack = "ok" /\ i \notin aged => effects[i][rows[i].input] = 1

AnswersOfTheRow ==
    \A r \in answers : r.id \notin aged /\ r.ack \in Terminal =>
        rows[r.id].state = "completed" /\ rows[r.id].input = r.input /\ rows[r.id].ack = r.ack

StoreInv ==
    /\ StoreType /\ CallsHoldTheRow /\ OldIsAged /\ EffectsOfTheRow /\ EffectsOfTheCall
    /\ CompletedIsTrue /\ AnswersOfTheRow

(* What Reply may do to the answers.                                       *)
LEMMA ReplyAdds ==
    ASSUME NEW o, NEW r, Reply(o, r)
    PROVE  answers' = answers \/ answers' = answers \cup {r}
BY DEF Reply

LEMMA NoRowType == NoRow \in Row /\ NoRow.state = "none" /\ ~NoRow.old
BY BridgeAssumption DEF NoRow, Row, AckOrNone

LEMMA StoreInit == Init => StoreInv
<1>1. Init => StoreType
  BY NoRowType DEF Init, StoreType
<1>2. Init => CallsHoldTheRow /\ EffectsOfTheCall /\ AnswersOfTheRow
  BY DEF Init, CallsHoldTheRow, EffectsOfTheCall, AnswersOfTheRow
<1>3. Init => OldIsAged /\ EffectsOfTheRow /\ CompletedIsTrue
  BY NoRowType DEF Init, OldIsAged, EffectsOfTheRow, CompletedIsTrue
<1>. QED  BY <1>1, <1>2, <1>3 DEF StoreInv

(* A command that finds no row claims the id: nothing of it took effect or *)
(* was answered before, as long as its result is young.                    *)
LEMMA ClaimPreserves ==
    ASSUME StoreInv, NEW o \in Nat, NEW i \in Id, NEW a \in Input,
           claim(i, a) = "claimed",
           rows' = [rows EXCEPT ![i] = [NoRow EXCEPT !.state = "pending", !.input = a]],
           calls' = calls \cup {[origin |-> o, id |-> i, input |-> a, ack |-> "none"]},
           UNCHANGED <<effects, answers, aged>>
    PROVE  StoreInv'
<1>. DEFINE newRow == [NoRow EXCEPT !.state = "pending", !.input = a]
            call == [origin |-> o, id |-> i, input |-> a, ack |-> "none"]
<1>1. newRow \in Row /\ newRow.state = "pending" /\ newRow.input = a /\ ~newRow.old
  BY NoRowType DEF Row
<1>2. call \in Call /\ call.id = i /\ call.input = a /\ call.ack = "none"
  BY DEF Call, AckOrNone
<1>3. /\ rows' = [rows EXCEPT ![i] = newRow] /\ calls' = calls \cup {call}
      /\ effects' = effects /\ answers' = answers /\ aged' = aged
  OBVIOUS
<1>. HIDE DEF newRow, call
<1>4. rows[i].state = "none"
  <2>1. rows[i] \in Row
    BY DEF StoreInv, StoreType
  <2>. QED
    BY <2>1 DEF claim, StoreInv, CompletedIsTrue, Row, Terminal
<1>5. /\ rows \in [Id -> Row] /\ calls \subseteq Call /\ rows'[i] = newRow
      /\ \A j \in Id : j # i => rows'[j] = rows[j]
  BY <1>3 DEF StoreInv, StoreType
<1>6. StoreType'
  BY <1>1, <1>2, <1>3 DEF StoreInv, StoreType
<1>7. \A c \in calls : c.id \in Id /\ c.id # i
  BY <1>4, <1>5 DEF StoreInv, CallsHoldTheRow, Call
<1>8. CallsHoldTheRow'
  BY <1>1, <1>2, <1>3, <1>5, <1>7 DEF StoreInv, CallsHoldTheRow
<1>9. OldIsAged'
  BY <1>1, <1>3, <1>5 DEF StoreInv, OldIsAged
<1>10. i \notin aged => \A b \in Input : effects[i][b] = 0
  BY <1>4 DEF StoreInv, EffectsOfTheRow
<1>11. EffectsOfTheRow'
  BY <1>3, <1>5, <1>10 DEF StoreInv, EffectsOfTheRow
<1>12. EffectsOfTheCall'
  BY <1>2, <1>3, <1>7, <1>10 DEF StoreInv, EffectsOfTheCall
<1>13. CompletedIsTrue'
  BY <1>1, <1>3, <1>5 DEF StoreInv, CompletedIsTrue
<1>14. AnswersOfTheRow'
  BY <1>3, <1>4, <1>5 DEF StoreInv, StoreType, AnswersOfTheRow
<1>. QED  BY <1>6, <1>8, <1>9, <1>11, <1>12, <1>13, <1>14 DEF StoreInv

(* A dispatch that is refused, or answered from the completed row.         *)
LEMMA DispatchPreserves ==
    ASSUME StoreInv, NEW o \in Nat, NEW i \in Id, NEW a \in Input, dispatch(o, i, a)
    PROVE  StoreInv'
<1>1. CASE claim(i, a) = "claimed"
  BY <1>1, ClaimPreserves DEF dispatch
<1>2. CASE claim(i, a) # "claimed"
  <2>. DEFINE r == Answer(i, a, claim(i, a))
  <2>1. Reply(o, r) /\ rows' = rows /\ calls' = calls /\ effects' = effects /\ aged' = aged
    BY <1>2 DEF dispatch
  <2>2. r.id = i /\ r.input = a /\ r.ack = claim(i, a)
    BY DEF Answer
  <2>3. answers' = answers \/ answers' = answers \cup {r}
    BY <2>1, ReplyAdds
  <2>4. rows[i] \in Row
    BY DEF StoreInv, StoreType
  <2>5. claim(i, a) \in Terminal \cup Refusal
    BY <1>2, <2>4 DEF claim, StoreInv, CompletedIsTrue, Row, Refusal
  <2>6. claim(i, a) \in Terminal =>
          rows[i].state = "completed" /\ rows[i].input = a /\ rows[i].ack = claim(i, a)
    BY <1>2, <2>4 DEF claim, Row, Terminal
  <2>7. r \in [id : Id, input : Input, ack : Terminal \cup Refusal]
    BY <2>5 DEF Answer
  <2>. HIDE DEF r
  <2>8. StoreType'
    BY <2>1, <2>3, <2>7 DEF StoreInv, StoreType
  <2>9. AnswersOfTheRow'
    BY <2>1, <2>2, <2>3, <2>6 DEF StoreInv, AnswersOfTheRow
  <2>10. (CallsHoldTheRow /\ OldIsAged /\ EffectsOfTheRow /\ EffectsOfTheCall /\ CompletedIsTrue)'
    BY <2>1 DEF StoreInv, CallsHoldTheRow, OldIsAged, EffectsOfTheRow, EffectsOfTheCall,
                CompletedIsTrue
  <2>. QED  BY <2>8, <2>9, <2>10 DEF StoreInv
<1>. QED  BY <1>1, <1>2

(* The one call of the id takes effect, once.                              *)
LEMMA ExecutePreserves ==
    ASSUME StoreInv, NEW c \in calls, execute(c)
    PROVE  StoreInv'
<1>1. PICK ack \in Terminal, took \in 0..1 :
        /\ ack = "ok" => took = 1
        /\ ack = "failed" => took = 0
        /\ effects' = [effects EXCEPT ![c.id][c.input] = @ + took]
        /\ calls' = (calls \ {c}) \cup {[c EXCEPT !.ack = ack]}
  BY DEF execute
<1>. DEFINE d == [c EXCEPT !.ack = ack]
<1>2. c \in Call /\ c.id \in Id /\ c.input \in Input /\ c.ack = "none"
  BY DEF StoreInv, StoreType, Call, execute
<1>3. d \in Call /\ d.id = c.id /\ d.input = c.input /\ d.ack = ack
  BY <1>2 DEF Call, AckOrNone
<1>4. calls' = (calls \ {c}) \cup {d} /\ rows' = rows /\ answers' = answers /\ aged' = aged
  BY <1>1 DEF execute
<1>. HIDE DEF d
<1>5. effects \in [Id -> [Input -> Nat]]
  BY DEF StoreInv, StoreType
<1>6. effects' \in [Id -> [Input -> Nat]]
  BY <1>1, <1>2, <1>5
<1>7. /\ effects'[c.id][c.input] = effects[c.id][c.input] + took
      /\ \A a \in Input : a # c.input => effects'[c.id][a] = effects[c.id][a]
      /\ \A i \in Id : i # c.id => effects'[i] = effects[i]
  BY <1>1, <1>2, <1>5
<1>8. StoreType'
  BY <1>3, <1>4, <1>6 DEF StoreInv, StoreType
<1>9. rows[c.id].state = "pending" /\ rows[c.id].input = c.input
  BY DEF StoreInv, CallsHoldTheRow
<1>10. CallsHoldTheRow'
  BY <1>3, <1>4, <1>9 DEF StoreInv, CallsHoldTheRow
<1>11. \A e \in calls : e # c => e.id # c.id /\ e.id \in Id
  BY DEF StoreInv, CallsHoldTheRow, StoreType, Call
<1>12. c.id \notin aged => \A a \in Input : effects[c.id][a] = 0
  BY <1>2 DEF StoreInv, EffectsOfTheCall
<1>13. c.id \notin aged =>
         /\ \A a \in Input : a # c.input => effects'[c.id][a] = 0
         /\ effects'[c.id][c.input] = took
  BY <1>2, <1>7, <1>12
<1>14. EffectsOfTheRow'
  <2>. SUFFICES ASSUME NEW i \in Id \ aged', NEW a \in Input
                PROVE  /\ effects'[i][a] \in {0, 1}
                       /\ effects'[i][a] = 1 => rows'[i].state # "none" /\ rows'[i].input = a
    BY DEF EffectsOfTheRow
  <2>1. CASE i = c.id
    BY <2>1, <1>1, <1>4, <1>9, <1>13
  <2>2. CASE i # c.id
    BY <2>2, <1>4, <1>7 DEF StoreInv, EffectsOfTheRow
  <2>. QED  BY <2>1, <2>2
<1>15. EffectsOfTheCall'
  <2>. SUFFICES ASSUME NEW e \in calls', e.id \notin aged'
                PROVE  /\ e.ack = "none" => \A a \in Input : effects'[e.id][a] = 0
                       /\ e.ack = "ok" => effects'[e.id][e.input] = 1
    BY DEF EffectsOfTheCall
  <2>1. CASE e = d
    BY <2>1, <1>1, <1>3, <1>4, <1>13 DEF Terminal
  <2>2. CASE e \in calls /\ e # c
    BY <2>2, <1>4, <1>7, <1>11 DEF StoreInv, EffectsOfTheCall
  <2>. QED  BY <2>1, <2>2, <1>4
<1>16. CompletedIsTrue'
  BY <1>4, <1>7, <1>9 DEF StoreInv, CompletedIsTrue
<1>17. (OldIsAged /\ AnswersOfTheRow)'
  BY <1>4 DEF StoreInv, OldIsAged, AnswersOfTheRow
<1>. QED  BY <1>8, <1>10, <1>14, <1>15, <1>16, <1>17 DEF StoreInv

(* A call ends: its row is completed and old rows go, or it stays pending. *)
LEMMA FinishPreserves ==
    ASSUME StoreInv, NEW c \in calls, finish(c)
    PROVE  StoreInv'
<1>1. /\ c \in Call /\ c.id \in Id /\ c.input \in Input /\ c.ack \in Terminal
      /\ calls' = calls \ {c} /\ effects' = effects /\ aged' = aged
  BY DEF StoreInv, StoreType, Call, AckOrNone, finish
<1>2. rows[c.id].state = "pending" /\ rows[c.id].input = c.input /\ rows[c.id] \in Row
  BY <1>1 DEF StoreInv, StoreType, CallsHoldTheRow
<1>3. \A e \in calls' : e \in calls /\ e.id # c.id /\ e.id \in Id
  BY <1>1 DEF StoreInv, CallsHoldTheRow, StoreType, Call
<1>4. (EffectsOfTheCall)'
  BY <1>1 DEF StoreInv, EffectsOfTheCall
<1>5. CASE complete(c.id, c.ack) /\ Reply(c.origin, Answer(c.id, c.input, c.ack))
  <2>. DEFINE newRow == [rows[c.id] EXCEPT !.state = "completed", !.ack = c.ack]
              r == Answer(c.id, c.input, c.ack)
  <2>1. /\ newRow \in Row /\ newRow.state = "completed" /\ newRow.input = c.input /\ newRow.ack = c.ack
        /\ newRow.old = rows[c.id].old
    BY <1>1, <1>2 DEF Row, AckOrNone
  <2>2. rows' = [j \in Id |-> IF j = c.id THEN newRow ELSE IF j \in Expired THEN NoRow ELSE rows[j]]
    BY <1>5 DEF complete
  <2>3. /\ r \in [id : Id, input : Input, ack : Terminal \cup Refusal]
        /\ r.id = c.id /\ r.input = c.input /\ r.ack = c.ack
    BY <1>1 DEF Answer
  <2>4. answers' = answers \/ answers' = answers \cup {r}
    BY <1>5, ReplyAdds
  <2>. HIDE DEF newRow, r
  <2>5. rows \in [Id -> Row]
    BY DEF StoreInv, StoreType
  <2>6. /\ rows'[c.id] = newRow
        /\ \A j \in Id : j # c.id => rows'[j] = rows[j] \/ (j \in aged /\ rows'[j] = NoRow)
        /\ \A j \in Id : rows[j].state = "pending" /\ j # c.id => rows'[j] = rows[j]
    BY <1>1, <2>2 DEF Expired, StoreInv, OldIsAged
  <2>7. rows' \in [Id -> Row]
    BY <2>1, <2>2, <2>5, NoRowType
  <2>8. StoreType'
    BY <1>1, <2>3, <2>4, <2>7 DEF StoreInv, StoreType
  <2>9. CallsHoldTheRow'
    BY <1>3, <2>6 DEF StoreInv, CallsHoldTheRow
  <2>10. OldIsAged'
    BY <1>1, <2>1, <2>6, NoRowType DEF StoreInv, OldIsAged
  <2>11. EffectsOfTheRow'
    BY <1>1, <1>2, <2>1, <2>6 DEF StoreInv, EffectsOfTheRow
  <2>12. c.ack = "ok" /\ c.id \notin aged => effects[c.id][c.input] = 1
    BY DEF StoreInv, EffectsOfTheCall
  <2>13. CompletedIsTrue'
    BY <1>1, <2>1, <2>6, <2>12, NoRowType DEF StoreInv, CompletedIsTrue
  <2>14. AnswersOfTheRow'
    <3>. SUFFICES ASSUME NEW q \in answers', q.id \notin aged', q.ack \in Terminal
                  PROVE  /\ rows'[q.id].state = "completed" /\ rows'[q.id].input = q.input
                         /\ rows'[q.id].ack = q.ack
      BY DEF AnswersOfTheRow
    <3>1. CASE q = r
      BY <3>1, <2>1, <2>3, <2>6
    <3>2. CASE q \in answers
      <4>1. q.id \in Id /\ rows[q.id].state = "completed" /\ rows[q.id].input = q.input
            /\ rows[q.id].ack = q.ack
        BY <3>2, <1>1 DEF StoreInv, StoreType, AnswersOfTheRow
      <4>2. rows'[q.id] = rows[q.id]
        BY <4>1, <1>1, <1>2, <2>6
      <4>. QED  BY <4>1, <4>2
    <3>. QED  BY <2>4, <3>1, <3>2
  <2>. QED  BY <1>4, <2>8, <2>9, <2>10, <2>11, <2>13, <2>14 DEF StoreInv
<1>6. CASE /\ rows' = rows
           /\ Reply(c.origin, Answer(c.id, c.input, "command_result_persist_failed"))
  <2>. DEFINE r == Answer(c.id, c.input, "command_result_persist_failed")
  <2>1. /\ r \in [id : Id, input : Input, ack : Terminal \cup Refusal]
        /\ r.ack \notin Terminal
    BY <1>1 DEF Answer, Refusal, Terminal
  <2>2. answers' = answers \/ answers' = answers \cup {r}
    BY <1>6, ReplyAdds
  <2>. HIDE DEF r
  <2>3. StoreType'
    BY <1>1, <1>6, <2>1, <2>2 DEF StoreInv, StoreType
  <2>4. AnswersOfTheRow'
    BY <1>1, <1>6, <2>1, <2>2 DEF StoreInv, AnswersOfTheRow
  <2>5. (CallsHoldTheRow /\ OldIsAged /\ EffectsOfTheRow /\ CompletedIsTrue)'
    BY <1>1, <1>6 DEF StoreInv, CallsHoldTheRow, OldIsAged, EffectsOfTheRow, CompletedIsTrue
  <2>. QED  BY <1>4, <2>3, <2>4, <2>5 DEF StoreInv
<1>. QED  BY <1>5, <1>6 DEF finish

(* A result turns old, and nothing is said of its id any more.             *)
LEMMA AgePreserves ==
    ASSUME StoreInv, NEW i \in Id, passMonth(i)
    PROVE  StoreInv'
<1>. DEFINE newRow == [rows[i] EXCEPT !.old = TRUE]
<1>1. /\ aged' = aged \cup {i} /\ rows' = [rows EXCEPT ![i] = newRow]
      /\ effects' = effects /\ calls' = calls /\ answers' = answers
      /\ rows \in [Id -> Row]
  BY DEF passMonth, StoreInv, StoreType
<1>2. /\ newRow \in Row /\ newRow.state = rows[i].state /\ newRow.input = rows[i].input
      /\ newRow.ack = rows[i].ack
  BY <1>1 DEF Row
<1>. HIDE DEF newRow
<1>3. rows'[i] = newRow /\ \A j \in Id : j # i => rows'[j] = rows[j]
  BY <1>1
<1>4. StoreType'
  BY <1>1, <1>2 DEF StoreInv, StoreType
<1>5. CallsHoldTheRow'
  BY <1>1, <1>2, <1>3 DEF StoreInv, StoreType, Call, CallsHoldTheRow
<1>6. (OldIsAged /\ EffectsOfTheRow /\ EffectsOfTheCall)'
  BY <1>1, <1>2, <1>3 DEF StoreInv, StoreType, OldIsAged, EffectsOfTheRow, EffectsOfTheCall
<1>7. (CompletedIsTrue /\ AnswersOfTheRow)'
  BY <1>1, <1>2, <1>3 DEF StoreInv, StoreType, CompletedIsTrue, AnswersOfTheRow
<1>. QED  BY <1>4, <1>5, <1>6, <1>7 DEF StoreInv

(* The other steps leave the store, or end every call.                     *)
LEMMA ElsewherePreserves ==
    ASSUME StoreInv, UNCHANGED <<rows, effects, aged, answers>>, calls' \subseteq calls
    PROVE  StoreInv'
BY DEF StoreInv, StoreType, CallsHoldTheRow, OldIsAged, EffectsOfTheRow, EffectsOfTheCall,
       CompletedIsTrue, AnswersOfTheRow

(***************************************************************************)
(* The connection. OneConnection is inductive with the type of net.        *)
(***************************************************************************)
NetState == {"connecting", "open", "authed", "dead", "closing", "closed"}
ConnInv ==
    /\ net \in Seq(NetState)
    /\ socket \in 0..Len(net)
    /\ stopped \in BOOLEAN /\ reconnectTimer \in BOOLEAN
    /\ OneConnection

LEMMA ConnInit == Init => ConnInv
<1>. SUFFICES ASSUME Init PROVE ConnInv
  OBVIOUS
<1>1. net = <<>> /\ Len(net) = 0 /\ socket = 0
  BY DEF Init
<1>2. stopped = TRUE /\ reconnectTimer = FALSE
  BY DEF Init
<1>3. net \in Seq(NetState) /\ socket \in 0..Len(net) /\ 1..Len(net) = {}
  BY <1>1
<1>4. OneConnection
  BY <1>1, <1>2, <1>3 DEF OneConnection
<1>. QED  BY <1>2, <1>3, <1>4 DEF ConnInv

(* A socket that is neither closed nor closing is the client's own.        *)
LEMMA LiveIsOwned ==
    ASSUME ConnInv, NEW s \in 1..Len(net), net[s] \notin {"closing", "closed"}
    PROVE  s = socket
BY DEF ConnInv, OneConnection

(* The network changes the state of one socket: of the client's own to     *)
(* anything, of another to one of the last two.                            *)
LEMMA NetPreserves ==
    ASSUME ConnInv, NEW s \in 1..Len(net), NEW state \in NetState,
           s = socket \/ state \in {"closing", "closed"},
           net' = [net EXCEPT ![s] = state],
           UNCHANGED <<stopped, socket, reconnectTimer>>
    PROVE  ConnInv'
<1>1. net' \in Seq(NetState) /\ Len(net') = Len(net)
  BY DEF ConnInv
<1>2. \A t \in 1..Len(net) : net'[t] = IF t = s THEN state ELSE net[t]
  BY DEF ConnInv
<1>3. OneConnection'
  BY <1>1, <1>2 DEF ConnInv, OneConnection
<1>. QED  BY <1>1, <1>3 DEF ConnInv

LEMMA LetGoPreserves ==
    ASSUME ConnInv, NEW s \in 1..Len(net), NEW state \in {"closing", "closed"}, LetGo(s, state)
    PROVE  ConnInv'
<1>1. /\ s = socket /\ socket' = 0 /\ net' = [net EXCEPT ![s] = state]
      /\ stopped' = stopped /\ reconnectTimer' = ~stopped'
  BY DEF LetGo, ownsSocket, scheduleReconnect
<1>2. net' \in Seq(NetState) /\ Len(net') = Len(net) /\ Len(net) \in Nat
  BY <1>1 DEF ConnInv, NetState
<1>3. \A t \in 1..Len(net) : net'[t] = IF t = s THEN state ELSE net[t]
  BY <1>1 DEF ConnInv
<1>4. socket # 0 /\ stopped \in BOOLEAN
  BY <1>1, <1>2 DEF ConnInv
<1>5. ~stopped
  BY <1>4 DEF ConnInv, OneConnection
<1>6. \A t \in 1..Len(net') : t # socket' => net'[t] \in {"closing", "closed"}
  BY <1>1, <1>2, <1>3 DEF ConnInv, OneConnection
<1>7. stopped' \in BOOLEAN /\ reconnectTimer' \in BOOLEAN
  BY <1>1, <1>4, Zenon
<1>8. OneConnection'
  BY <1>1, <1>5, <1>6 DEF OneConnection
<1>9. socket' \in 0..Len(net')
  BY <1>1, <1>2
<1>. QED  BY <1>2, <1>7, <1>8, <1>9 DEF ConnInv

LEMMA ConnectPreserves ==
    ASSUME ConnInv, connect, stopped' = FALSE
    PROVE  ConnInv'
<1>1. Len(net) \in Nat /\ net \in Seq(NetState) /\ socket = 0
  BY DEF ConnInv, connect
<1>2. \A t \in 1..Len(net) : net[t] \in {"closing", "closed"}
  BY <1>1 DEF ConnInv, OneConnection
<1>3. CASE socket' = Len(net) + 1 /\ net' = Append(net, "connecting") /\ reconnectTimer' = FALSE
  <2>1. net' \in Seq(NetState) /\ Len(net') = Len(net) + 1
    BY <1>1, <1>3 DEF NetState
  <2>2. \A t \in 1..Len(net) : net'[t] = net[t]
    BY <1>1, <1>3
  <2>3. socket' \in 0..Len(net') /\ socket' # 0
    BY <1>1, <1>3, <2>1
  <2>4. \A t \in 1..Len(net') : t # socket' => net'[t] \in {"closing", "closed"}
    BY <1>1, <1>2, <1>3, <2>1, <2>2
  <2>5. OneConnection'
    BY <1>3, <2>3, <2>4 DEF OneConnection
  <2>. QED  BY <1>3, <2>1, <2>3, <2>5 DEF ConnInv
<1>4. CASE UNCHANGED <<socket, net>> /\ reconnectTimer' = ~stopped'
  <2>1. reconnectTimer' = TRUE
    BY <1>4
  <2>2. OneConnection'
    BY <1>1, <1>2, <1>4, <2>1 DEF OneConnection
  <2>. QED  BY <1>1, <1>4, <2>1, <2>2 DEF ConnInv
<1>. QED  BY <1>3, <1>4 DEF connect, scheduleReconnect

LEMMA StopPreserves ==
    ASSUME ConnInv, stopped' = TRUE, socket' = 0, reconnectTimer' = FALSE,
           \/ net' = [s \in 1..Len(net) |-> "closed"]
           \/ socket = 0 /\ net' = net
           \/ socket # 0 /\ net' = [net EXCEPT ![socket] = "closing"]
    PROVE  ConnInv'
<1>1. Len(net) \in Nat /\ net \in Seq(NetState) /\ socket \in 0..Len(net)
  BY DEF ConnInv
<1>2. /\ net' \in Seq(NetState) /\ Len(net') = Len(net)
      /\ \A t \in 1..Len(net) : net'[t] \in {"closing", "closed"}
  <2>1. CASE net' = [s \in 1..Len(net) |-> "closed"]
    BY <1>1, <2>1 DEF NetState
  <2>2. CASE socket = 0 /\ net' = net
    BY <1>1, <2>2 DEF ConnInv, OneConnection
  <2>3. CASE socket # 0 /\ net' = [net EXCEPT ![socket] = "closing"]
    BY <1>1, <2>3 DEF ConnInv, OneConnection, NetState
  <2>. QED  BY <2>1, <2>2, <2>3
<1>3. OneConnection'
  BY <1>2 DEF OneConnection
<1>4. socket' \in 0..Len(net')
  BY <1>1, <1>2
<1>. QED  BY <1>2, <1>3, <1>4 DEF ConnInv

LEMMA ConnUnchanged ==
    ASSUME ConnInv, UNCHANGED <<stopped, socket, reconnectTimer, net>>
    PROVE  ConnInv'
BY DEF ConnInv, OneConnection

(* The step: which of the lemmas above each action is.                     *)
LEMMA StepPreserves ==
    ASSUME StoreInv, ConnInv, [Next]_vars
    PROVE  StoreInv' /\ ConnInv'
<1>. USE DEF store, client
<1>0. Len(net) \in Nat
  BY DEF ConnInv
<1>1. CASE start
  <2>1. ConnInv'
    BY <1>1, ConnectPreserves DEF start
  <2>2. StoreInv'
    BY <1>1, ElsewherePreserves DEF start
  <2>. QED  BY <2>1, <2>2
<1>2. CASE reconnectTimerFires
  <2>1. stopped' = FALSE
    BY <1>2 DEF reconnectTimerFires, ConnInv, connect
  <2>2. ConnInv'
    BY <1>2, <2>1, ConnectPreserves DEF reconnectTimerFires
  <2>3. StoreInv'
    BY <1>2, ElsewherePreserves DEF reconnectTimerFires
  <2>. QED  BY <2>2, <2>3
<1>3. CASE stop
  <2>1. StoreInv'
    BY <1>3, ElsewherePreserves DEF stop
  <2>2. ConnInv'
    BY <1>3, StopPreserves DEF stop
  <2>. QED  BY <2>1, <2>2
<1>4. CASE exit
  <2>1. StoreInv'
    BY <1>4, ElsewherePreserves DEF exit
  <2>2. ConnInv'
    BY <1>4, StopPreserves DEF exit
  <2>. QED  BY <2>1, <2>2
<1>5. ASSUME NEW s \in 1..Len(net), handleOpen(s)
      PROVE  StoreInv' /\ ConnInv'
  <2>1. s = socket
    BY <1>5, LiveIsOwned DEF handleOpen
  <2>2. ConnInv'
    BY <1>5, <2>1, NetPreserves DEF handleOpen, NetState
  <2>. QED  BY <1>5, <2>2, ElsewherePreserves DEF handleOpen
<1>6. ASSUME NEW s \in 1..Len(net), failSocket(s) \/ TimerFires(s)
      PROVE  StoreInv' /\ ConnInv'
  <2>1. LetGo(s, "closing") /\ UNCHANGED <<rows, effects, aged, answers, calls>>
    BY <1>6 DEF failSocket, TimerFires
  <2>. QED  BY <2>1, LetGoPreserves, ElsewherePreserves
<1>7. ASSUME NEW s \in 1..Len(net), handleClose(s)
      PROVE  StoreInv' /\ ConnInv'
  <2>1. StoreInv'
    BY <1>7, ElsewherePreserves DEF handleClose
  <2>2. CASE LetGo(s, "closed")
    BY <2>1, <2>2, LetGoPreserves
  <2>3. CASE net' = [net EXCEPT ![s] = "closed"] /\ UNCHANGED <<stopped, socket, reconnectTimer>>
    BY <2>1, <2>3, NetPreserves DEF NetState
  <2>. QED  BY <1>7, <2>2, <2>3 DEF handleClose
<1>8. ASSUME NEW s \in 1..Len(net), answerHello(s)
      PROVE  StoreInv' /\ ConnInv'
  <2>1. s = socket
    BY <1>8, LiveIsOwned DEF answerHello
  <2>2. UNCHANGED <<stopped, socket, reconnectTimer, rows, effects, aged, answers, calls>>
    BY <1>8 DEF answerHello
  <2>3. net' = net \/ net' = [net EXCEPT ![s] = "authed"]
    BY <1>8 DEF answerHello
  <2>4. ConnInv'
    BY <2>1, <2>2, <2>3, NetPreserves, ConnUnchanged DEF NetState
  <2>. QED  BY <2>2, <2>4, ElsewherePreserves
<1>9. ASSUME NEW s \in 1..Len(net), lose(s)
      PROVE  StoreInv' /\ ConnInv'
  <2>1. s = socket
    BY <1>9, LiveIsOwned DEF lose
  <2>2. UNCHANGED <<stopped, socket, reconnectTimer, rows, effects, aged, answers, calls>>
    BY <1>9 DEF lose
  <2>3. net' = [net EXCEPT ![s] = "dead"] \/ net' = [net EXCEPT ![s] = "closing"]
    BY <1>9 DEF lose
  <2>4. ConnInv'
    BY <2>1, <2>2, <2>3, NetPreserves DEF NetState
  <2>. QED  BY <2>2, <2>4, ElsewherePreserves
<1>10. ASSUME NEW s \in 1..Len(net), NEW i \in Id, NEW a \in Input, sendCommand(s, i, a)
       PROVE  StoreInv' /\ ConnInv'
  BY <1>10, ConnUnchanged, ElsewherePreserves DEF sendCommand
<1>11. ASSUME NEW s \in 1..Len(net), NEW i \in Id, NEW a \in Input, handleCommand(s, i, a)
       PROVE  StoreInv' /\ ConnInv'
  <2>1. ConnInv'
    BY <1>11, ConnUnchanged DEF handleCommand
  <2>2. s \in Nat
    BY <1>0
  <2>3. CASE dispatch(s, i, a)
    BY <2>1, <2>2, <2>3, DispatchPreserves
  <2>4. CASE UNCHANGED <<rows, effects, aged, calls, answers>>
    BY <2>1, <2>4, ElsewherePreserves
  <2>. QED  BY <1>11, <2>1, <2>3, <2>4 DEF handleCommand
<1>12. ASSUME NEW f \in wire, handleHello(f)
       PROVE  StoreInv' /\ ConnInv'
  <2>1. UNCHANGED <<rows, effects, aged, answers, calls>>
    BY <1>12 DEF handleHello
  <2>2. CASE LetGo(f.sock, "closing")
    <3>1. f.sock \in 1..Len(net)
      BY <2>2, <1>0 DEF LetGo, ownsSocket, ConnInv
    <3>. QED  BY <2>1, <2>2, <3>1, LetGoPreserves, ElsewherePreserves
  <2>3. CASE UNCHANGED <<stopped, socket, reconnectTimer, net>>
    BY <2>1, <2>3, ConnUnchanged, ElsewherePreserves
  <2>. QED  BY <1>12, <2>2, <2>3 DEF handleHello
<1>13. ASSUME NEW i \in Id, NEW a \in Input, localCommand(i, a)
       PROVE  StoreInv' /\ ConnInv'
  <2>1. ConnInv'
    BY <1>13, ConnUnchanged DEF localCommand
  <2>. QED  BY <1>13, <2>1, DispatchPreserves DEF localCommand, Local
<1>14. ASSUME NEW c \in calls, execute(c)
       PROVE  StoreInv' /\ ConnInv'
  BY <1>14, ConnUnchanged, ExecutePreserves DEF execute
<1>15. ASSUME NEW c \in calls, finish(c)
       PROVE  StoreInv' /\ ConnInv'
  BY <1>15, ConnUnchanged, FinishPreserves DEF finish
<1>16. ASSUME NEW i \in Id, passMonth(i)
       PROVE  StoreInv' /\ ConnInv'
  BY <1>16, ConnUnchanged, AgePreserves DEF passMonth
<1>17. CASE UNCHANGED vars
  BY <1>17, ConnUnchanged, ElsewherePreserves DEF vars
<1>. QED
  BY <1>1, <1>2, <1>3, <1>4, <1>5, <1>6, <1>7, <1>8, <1>9, <1>10, <1>11, <1>12, <1>13,
     <1>14, <1>15, <1>16, <1>17 DEF Next

LEMMA Inductive == Spec => [](StoreInv /\ ConnInv)
<1>1. Init => StoreInv /\ ConnInv
  BY StoreInit, ConnInit
<1>2. StoreInv /\ ConnInv /\ [Next]_vars => (StoreInv /\ ConnInv)'
  BY StepPreserves
<1>. QED  BY <1>1, <1>2, PTL DEF Spec

(* A command id has at most one effect while its result is younger than 30 *)
(* days, for any number of ids, inputs, replays and failures.              *)
THEOREM CommandTakesEffectOnce == Spec => []AtMostOneEffect
<1>1. StoreInv => AtMostOneEffect
  BY DEF StoreInv, EffectsOfTheRow, AtMostOneEffect
<1>. QED  BY <1>1, Inductive, PTL

(* Every terminal ack of an id is the first one, and ok means done.        *)
THEOREM ReplayIsTruthful == Spec => []ReplayGetsOriginalAck
<1>1. StoreInv => ReplayGetsOriginalAck
  <2>. SUFFICES ASSUME StoreInv, NEW r \in answers, r.id \notin aged, r.ack \in Terminal
                PROVE  /\ r.ack = "ok" => effects[r.id][r.input] = 1
                       /\ \A q \in answers : q.id = r.id /\ q.ack \in Terminal => q = r
    BY DEF ReplayGetsOriginalAck
  <2>1. r.id \in Id /\ rows[r.id].state = "completed" /\ rows[r.id].input = r.input
        /\ rows[r.id].ack = r.ack
    BY DEF StoreInv, StoreType, AnswersOfTheRow
  <2>2. r.ack = "ok" => effects[r.id][r.input] = 1
    BY <2>1 DEF StoreInv, CompletedIsTrue
  <2>3. ASSUME NEW q \in answers, q.id = r.id, q.ack \in Terminal
        PROVE  q = r
    <3>1. q.input = r.input /\ q.ack = r.ack
      BY <2>1, <2>3 DEF StoreInv, AnswersOfTheRow
    <3>. QED  BY <2>3, <3>1 DEF StoreInv, StoreType
  <2>. QED  BY <2>2, <2>3
<1>. QED  BY <1>1, Inductive, PTL

(* The client has one socket or one timer and leaks no socket, whatever    *)
(* events of old sockets come late.                                        *)
THEOREM ClientKeepsOneConnection == Spec => []OneConnection
<1>1. ConnInv => OneConnection
  BY DEF ConnInv
<1>. QED  BY <1>1, Inductive, PTL

-----------------------------------------------------------------------------
(***************************************************************************)
(* MergeLock, for any calls, owner strings, processes and timing.          *)
(***************************************************************************)
LEMMA MergeConstantTypes ==
  /\ SyncCalls \subseteq Calls
  /\ OwnerOf \in [Calls -> Owners] /\ PidOf \in [Owners -> Procs]
  /\ NoOwner \notin Owners
  /\ Duration \in Nat /\ RenewEvery \in Nat /\ MaxLate \in Nat /\ MaxClock \in Nat
  /\ 0 < RenewEvery /\ RenewEvery < Duration
  /\ RenewErrors \in BOOLEAN
BY MergeConstants DEF MergeConstantsOK

\* Every variable of the merge lock keeps its type.
THEOREM MergeTypeCorrect ==
  MergeSpec => []MergeTypeOK
<1>1. MergeInit => MergeTypeOK
  BY MergeConstantTypes DEF MergeInit, MergeTypeOK, NoMergeRow, Rows, States
<1>2. ASSUME MergeTypeOK, [MergeNext]_mergeVars PROVE MergeTypeOK'
  <2> USE <1>2, MergeConstantTypes DEF MergeTypeOK, Goto, States
  <2>1. ASSUME NEW c \in Calls PROVE RowOf(c) \in Rows /\ NoMergeRow \in Rows
    <3>1. OwnerOf[c] \in Owners /\ clock \in 0..MaxClock
      OBVIOUS
    <3>2. clock + Duration \in 0..(MaxClock + Duration)
      BY <3>1
    <3>3. 0 \in 0..MaxClock /\ 0 \in 0..(MaxClock + Duration)
      OBVIOUS
    <3> HIDE DEF MergeTypeOK
    <3> QED
      BY <3>1, <3>2, <3>3 DEF RowOf, NoMergeRow, Rows
  <2>2. ASSUME NEW c \in Calls, enter(c) PROVE MergeTypeOK'
    <3>1. clock + RenewEvery \in 0..(MaxClock + RenewEvery)
      OBVIOUS
    <3>2. due' \in [Calls -> 0..(MaxClock + RenewEvery)]
      BY <2>2, <3>1 DEF enter
    <3>3. overtaken' \in [Calls -> BOOLEAN]
      BY <2>2, Zenon DEF enter
    <3>4. st' \in [Calls -> States] /\ lockLost' \in [Calls -> BOOLEAN]
      BY <2>2 DEF enter
    <3> QED
      BY <2>1, <2>2, <3>2, <3>3, <3>4 DEF enter
  <2>3. CASE UNCHANGED mergeVars
    BY <2>3 DEF mergeVars
  <2>4. CASE tick
    BY <2>4 DEF tick, Rows
  <2>5. ASSUME NEW c \in Calls, callStep(c) PROVE MergeTypeOK'
    <3>1. CASE acquireMergeLock(c) \/ reacquire(c)
      BY <2>2, <3>1 DEF acquireMergeLock, reacquire
    <3>2. CASE probe(c)
      BY <3>2 DEF probe
    <3>3. CASE reclaim(c) \/ release(c)
      <4>1. row' \in Rows
        BY <2>1, <3>3 DEF reclaim, release
      <4>2. st' \in [Calls -> States]
        BY <3>3 DEF reclaim, release
      <4> QED
        BY <3>3, <4>1, <4>2 DEF reclaim, release
    <3>4. CASE renew(c)
      <4>1. clock + RenewEvery \in 0..(MaxClock + RenewEvery)
        OBVIOUS
      <4>2. due' \in [Calls -> 0..(MaxClock + RenewEvery)]
        BY <3>4, <4>1 DEF renew
      <4>3. row' \in Rows /\ lockLost' \in [Calls -> BOOLEAN]
        BY <2>1, <3>4 DEF renew, Renewed
      <4> QED
        BY <3>4, <4>2, <4>3 DEF renew
    <3>5. CASE finishMerge(c)
      BY <3>5 DEF finishMerge
    <3> QED
      BY <2>5, <3>1, <3>2, <3>3, <3>4, <3>5 DEF callStep
  <2>6. ASSUME NEW p \in Procs, crash(p) PROVE MergeTypeOK'
    BY <2>6 DEF crash
  <2> QED
    BY <2>3, <2>4, <2>5, <2>6 DEF MergeNext
<1> QED
  BY <1>1, <1>2, PTL DEF MergeSpec

-----------------------------------------------------------------------------
\* Renewals do not fail, and neither a renewal nor the end of a callback comes
\* later than the row's life allows.
Served == ~RenewErrors /\ RenewEvery + MaxLate <= Duration

\* The strengthening: there is one active call at most; it lives, the row carries
\* its owner string, and the row outlives the call's next deadline.
ActiveOwnsRow ==
  /\ \A c, d \in Calls : Active(c) /\ Active(d) => c = d
  /\ \A c \in Calls : Active(c) =>
       /\ alive[Pid(c)]
       /\ row.owner = OwnerOf[c]
       /\ clock <= due[c] + MaxLate
       /\ due[c] + MaxLate <= row.exp

\* A lease remembered for reclaim names a process that is gone for good.
SeenIsDead ==
  \A c \in Calls : st[c] = "reclaim" =>
    seen[c].owner # NoOwner /\ ~alive[PidOf[seen[c].owner]]

\* The facts about numbers that the timing argument needs.
LEMMA MergeNumbers ==
  ASSUME MergeTypeOK, NEW c \in Calls
  PROVE  /\ clock \in Int /\ row.exp \in Int /\ due[c] \in Int
         /\ Duration \in Int /\ RenewEvery \in Int /\ MaxLate \in Nat
BY MergeConstantTypes DEF MergeTypeOK, Rows

\* The lock can be acquired only when no call is active.
LEMMA NobodyActive ==
  ASSUME MergeTypeOK, ActiveOwnsRow, CanAcquire, NEW d \in Calls
  PROVE  ~Active(d)
<1> SUFFICES ASSUME Active(d) PROVE FALSE
  OBVIOUS
<1>1. row.owner = OwnerOf[d] /\ clock <= due[d] + MaxLate /\ due[d] + MaxLate <= row.exp
  BY DEF ActiveOwnsRow
<1>2. row.owner # NoOwner
  BY <1>1, MergeConstantTypes
<1> QED
  BY <1>1, <1>2, MergeNumbers DEF CanAcquire

LEMMA EntersAlone ==
  ASSUME Served, MergeTypeOK, ActiveOwnsRow, NEW c \in Calls, enter(c), alive[Pid(c)]
  PROVE  ActiveOwnsRow'
<1>1. \A d \in Calls : ~Active(d)
  BY NobodyActive DEF enter
<1>2. \A d \in Calls : Active(d)' => d = c
  BY <1>1 DEF enter, Active, MergeTypeOK
<1>3. /\ alive' = alive /\ clock' = clock
      /\ row'.owner = OwnerOf[c] /\ row'.exp = clock + Duration
      /\ due'[c] = clock + RenewEvery
  BY DEF enter, RowOf, MergeTypeOK
<1>4. /\ clock <= clock + RenewEvery + MaxLate
      /\ clock + RenewEvery + MaxLate <= clock + Duration
  BY MergeNumbers, MergeConstantTypes DEF Served
<1> QED
  BY <1>2, <1>3, <1>4 DEF ActiveOwnsRow, Pid

\* A step that leaves the row, the clock and the deadlines alone, kills nobody
\* and makes no call active.
LEMMA Quiet ==
  ASSUME ActiveOwnsRow, row' = row, clock' = clock, due' = due, alive' = alive,
         \A d \in Calls : Active(d)' => Active(d)
  PROVE  ActiveOwnsRow'
BY DEF ActiveOwnsRow, Pid

LEMMA ExclusionStep ==
  ASSUME Served, MergeTypeOK, ActiveOwnsRow, SeenIsDead, [MergeNext]_mergeVars
  PROVE  ActiveOwnsRow' /\ SeenIsDead'
<1>1. CASE UNCHANGED mergeVars
  BY <1>1 DEF mergeVars, ActiveOwnsRow, SeenIsDead, Active, Pid
<1>2. CASE tick
  <2>1. SeenIsDead'
    BY <1>2 DEF tick, SeenIsDead
  <2>2. ASSUME NEW c \in Calls, Active(c)' PROVE clock' <= due'[c] + MaxLate
    BY <1>2, <2>2, MergeNumbers DEF tick, Active
  <2> QED
    BY <1>2, <2>1, <2>2 DEF tick, ActiveOwnsRow, Active, Pid
<1>3. ASSUME NEW c \in Calls, callStep(c) PROVE ActiveOwnsRow' /\ SeenIsDead'
  <2>0. CASE enter(c) /\ Runs(c)
    <3>1. ActiveOwnsRow'
      BY <2>0, EntersAlone DEF Runs
    <3>2. SeenIsDead'
      BY <2>0 DEF enter, SeenIsDead, MergeTypeOK
    <3> QED
      BY <3>1, <3>2
  <2>1. CASE acquireMergeLock(c) \/ reacquire(c)
    <3>1. CASE ~enter(c)
      <4>1. ActiveOwnsRow'
        BY <2>1, <3>1, Quiet DEF acquireMergeLock, reacquire, Goto, Active, MergeTypeOK
      <4>2. SeenIsDead'
        BY <2>1, <3>1 DEF acquireMergeLock, reacquire, Goto, SeenIsDead, MergeTypeOK
      <4> QED
        BY <4>1, <4>2
    <3> QED
      BY <2>0, <2>1, <3>1 DEF acquireMergeLock, reacquire
  <2>2. CASE probe(c)
    <3>1. ActiveOwnsRow'
      BY <2>2, Quiet DEF probe, Goto, Active, MergeTypeOK
    <3>2. SeenIsDead'
      BY <2>2 DEF probe, Goto, Reclaimable, SeenIsDead, MergeTypeOK
    <3> QED
      BY <3>1, <3>2
  <2>3. CASE reclaim(c)
    <3>1. SeenIsDead'
      BY <2>3 DEF reclaim, SeenIsDead, MergeTypeOK
    <3>2. CASE ~SameLease(c)
      BY <2>3, <3>1, <3>2, Quiet DEF reclaim, Active, MergeTypeOK
    <3>3. CASE SameLease(c)
      <4>1. \A d \in Calls : ~Active(d)
        BY <2>3, <3>3 DEF reclaim, SameLease, SeenIsDead, ActiveOwnsRow, Pid
      <4> QED
        BY <2>3, <3>1, <4>1 DEF reclaim, Active, ActiveOwnsRow, MergeTypeOK
    <3> QED
      BY <3>2, <3>3
  <2>4. CASE renew(c)
    <3>1. SeenIsDead'
      BY <2>4 DEF renew, SeenIsDead
    <3>2. Active(c) /\ row.owner = OwnerOf[c]
      BY <2>4 DEF renew, Active, ActiveOwnsRow
    <3>3. row' = RowOf(c) /\ due' = [due EXCEPT ![c] = clock + RenewEvery]
      BY <2>4, <3>2 DEF renew, Renewed, Served
    <3>4. \A d \in Calls : Active(d)' => d = c
      BY <2>4, <3>2 DEF renew, Active, ActiveOwnsRow
    <3>5. /\ row'.owner = OwnerOf[c] /\ row'.exp = clock + Duration
          /\ due'[c] = clock + RenewEvery /\ clock' = clock /\ alive' = alive
      BY <2>4, <3>3 DEF renew, RowOf, MergeTypeOK
    <3>6. /\ clock <= clock + RenewEvery + MaxLate
          /\ clock + RenewEvery + MaxLate <= clock + Duration
      BY MergeNumbers, MergeConstantTypes DEF Served
    <3>7. alive[Pid(c)]
      BY <3>2 DEF ActiveOwnsRow
    <3> QED
      BY <3>1, <3>4, <3>5, <3>6, <3>7 DEF ActiveOwnsRow, Pid
  <2>5. CASE finishMerge(c)
    <3>1. ActiveOwnsRow'
      BY <2>5, Quiet DEF finishMerge, Goto, Active, MergeTypeOK
    <3>2. SeenIsDead'
      BY <2>5 DEF finishMerge, Goto, SeenIsDead, MergeTypeOK
    <3> QED
      BY <3>1, <3>2
  <2>6. CASE release(c)
    <3>1. SeenIsDead'
      BY <2>6 DEF release, SeenIsDead, MergeTypeOK
    <3>2. \A d \in Calls : ~Active(d)'
      BY <2>6 DEF release, Active, ActiveOwnsRow, MergeTypeOK
    <3> QED
      BY <3>1, <3>2 DEF ActiveOwnsRow
  <2> QED
    BY <1>3, <2>1, <2>2, <2>3, <2>4, <2>5, <2>6 DEF callStep
<1>4. ASSUME NEW p \in Procs, crash(p) PROVE ActiveOwnsRow' /\ SeenIsDead'
  <2>1. SeenIsDead'
    BY <1>4 DEF crash, SeenIsDead, MergeTypeOK
  <2>2. ASSUME NEW c \in Calls, Active(c)' PROVE Active(c) /\ Pid(c) # p
    BY <1>4, <2>2 DEF crash, Active
  <2> QED
    BY <1>4, <2>1, <2>2 DEF crash, ActiveOwnsRow, Pid, MergeTypeOK
<1> QED
  BY <1>1, <1>2, <1>3, <1>4 DEF MergeNext

\* As long as renewals are served in time, two callbacks never run under the
\* merge lock at once: not across the reclaim of a dead owner's row, nor
\* between calls of one process that share an owner string.
THEOREM ServedMergesExclusive ==
  ASSUME Served
  PROVE  MergeSpec => []MergeExclusive
<1>1. MergeInit => ActiveOwnsRow /\ SeenIsDead
  BY DEF MergeInit, ActiveOwnsRow, SeenIsDead, Active
<1>2. MergeTypeOK /\ ActiveOwnsRow /\ SeenIsDead /\ [MergeNext]_mergeVars
        => ActiveOwnsRow' /\ SeenIsDead'
  BY ExclusionStep
<1>3. ActiveOwnsRow => MergeExclusive
  BY DEF ActiveOwnsRow, Active, MergeExclusive
<1> QED
  BY <1>1, <1>2, <1>3, MergeTypeCorrect, PTL DEF MergeSpec

-----------------------------------------------------------------------------
\* Every call passes an owner string of its own.
DistinctOwners == \A c, d \in Calls : OwnerOf[c] = OwnerOf[d] => c = d

\* The strengthening: an overtaken callback has lost the row, and cannot get it
\* back; a call past its final check was not overtaken.
OvertakenLostRow ==
  \A c \in Calls : overtaken[c] =>
    /\ st[c] = "held" => row.owner # OwnerOf[c]
    /\ st[c] \notin {"ok", "success"}

LEMMA OvertakenStep ==
  ASSUME DistinctOwners, MergeTypeOK, OvertakenLostRow, [MergeNext]_mergeVars
  PROVE  OvertakenLostRow'
<1> USE DEF OvertakenLostRow
<1>1. CASE UNCHANGED mergeVars \/ tick
  BY <1>1 DEF mergeVars, tick
<1>2. ASSUME NEW c \in Calls, callStep(c) PROVE OvertakenLostRow'
  <2>1. CASE enter(c)
    <3> SUFFICES ASSUME NEW d \in Calls, overtaken'[d]
                 PROVE  /\ st'[d] = "held" => row'.owner # OwnerOf[d]
                        /\ st'[d] \notin {"ok", "success"}
      OBVIOUS
    <3>1. d # c /\ (overtaken[d] \/ st[d] = "held") /\ st'[d] = st[d]
      BY <2>1 DEF enter, MergeTypeOK
    <3>2. row'.owner = OwnerOf[c]
      BY <2>1 DEF enter, RowOf
    <3> QED
      BY <3>1, <3>2 DEF DistinctOwners
  <2>2. CASE (acquireMergeLock(c) \/ reacquire(c)) /\ ~enter(c)
    BY <2>2 DEF acquireMergeLock, reacquire, Goto, MergeTypeOK
  <2>3. CASE probe(c)
    BY <2>3 DEF probe, Goto, MergeTypeOK
  <2>4. CASE reclaim(c) \/ release(c)
    <3>1. row'.owner \in {row.owner, NoOwner}
      BY <2>4 DEF reclaim, release, NoMergeRow
    <3>2. \A d \in Calls : OwnerOf[d] # NoOwner
      BY MergeConstantTypes
    <3> QED
      BY <2>4, <3>1, <3>2 DEF reclaim, release, MergeTypeOK
  <2>5. CASE renew(c)
    <3>1. row'.owner = row.owner
      BY <2>5 DEF renew, Renewed, RowOf
    <3> QED
      BY <2>5, <3>1 DEF renew
  <2>6. CASE finishMerge(c)
    BY <2>6 DEF finishMerge, Goto, mergeLockStillOwned, MergeTypeOK
  <2> QED
    BY <1>2, <2>1, <2>2, <2>3, <2>4, <2>5, <2>6 DEF callStep
<1>3. ASSUME NEW p \in Procs, crash(p) PROVE OvertakenLostRow'
  BY <1>3 DEF crash
<1> QED
  BY <1>1, <1>2, <1>3 DEF MergeNext

\* If no two calls share an owner string, the final check is a proof of
\* exclusion whatever the timing: however late its renewals came and however
\* many of them failed, a call that reports success was not overtaken.
THEOREM DistinctOwnersProveSuccess ==
  ASSUME DistinctOwners
  PROVE  MergeSpec => []SuccessNotOvertaken
<1>1. MergeInit => OvertakenLostRow
  BY DEF MergeInit, OvertakenLostRow
<1>2. MergeTypeOK /\ OvertakenLostRow /\ [MergeNext]_mergeVars => OvertakenLostRow'
  BY OvertakenStep
<1>3. OvertakenLostRow => SuccessNotOvertaken
  BY DEF OvertakenLostRow, SuccessNotOvertaken
<1> QED
  BY <1>1, <1>2, <1>3, MergeTypeCorrect, PTL DEF MergeSpec

=============================================================================
