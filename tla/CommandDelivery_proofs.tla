------------------------ MODULE CommandDelivery_proofs ------------------------
(***************************************************************************)
(* Proofs about CommandDelivery, for any number of masters, agents and     *)
(* requests.                                                               *)
(***************************************************************************)
EXTENDS CommandDelivery, TLAPS

Sent(t) == id[t] # NoId
Queued == pending \cup wire \cup response

(* No command is in two queues, and none that is in a queue has been       *)
(* executed.                                                               *)
QueuesDisjoint ==
  /\ pending \cap wire = {} /\ pending \cap response = {} /\ wire \cap response = {}
  /\ \A t \in Queued : execs[t] = 0

(* A command that is anywhere has been sent.                               *)
OnlySent ==
  \A t \in Tokens : t \in Queued \/ t \in running \/ execs[t] # 0 => Sent(t)

(* An execution is started before it runs, ends or has a result.           *)
ExecutedOnce ==
  \A t \in Tokens :
    /\ execs[t] <= 1
    /\ t \in running \/ outcome[t] # "none" => execs[t] = 1

(* A command is sent by the step that takes its request out of "idle" or   *)
(* "sending", or by the one forward to its master.                         *)
SentByRequest ==
  \A r \in Requests, m \in Masters :
    Sent(<<r, m>>) =>
      pc[r] \notin {"idle", "sending"} /\ (m = Origin[r] \/ m \in tried[r])

IdsGiven == \A t \in Tokens : id[t] \in {NoId, NsId[t], MsId[t]}

IndInv == TypeOK /\ QueuesDisjoint /\ OnlySent /\ ExecutedOnce /\ SentByRequest /\ IdsGiven

(* A stored result is that of an executed command with that ID; a          *)
(* requester waits for the ID of its own command.                          *)
ResultsMatch ==
  \A m \in Masters, i \in Ids :
    results[m][i] # NoToken =>
      /\ id[results[m][i]] = i
      /\ outcome[results[m][i]] # "none"

WaitsForOwn ==
  \A r \in Requests : wait[r].id # NoId => id[<<r, wait[r].at>>] = wait[r].id

(* A returned output is that of a finished command with the ID waited for. *)
SourceHasId ==
  \A r \in Requests :
    /\ source[r] # NoToken <=> pc[r] = "output"
    /\ source[r] # NoToken =>
         /\ outcome[source[r]] # "none"
         /\ wait[r].id # NoId
         /\ id[source[r]] = wait[r].id

ResultInv == ResultsMatch /\ WaitsForOwn /\ SourceHasId

-----------------------------------------------------------------------------
(* What the three outcomes of sending a command change: nothing, or only   *)
(* the command's ID and the queue it enters.                               *)
SendEffect(t) ==
  /\ pending' \subseteq Tokens /\ wire' \subseteq Tokens
  /\ id' \in [Tokens -> Ids \cup {NoId}]
  /\ \A u \in Tokens \ {t} :
       id'[u] = id[u] /\ (u \in pending' <=> u \in pending) /\ (u \in wire' <=> u \in wire)
  /\ \/ pending' = pending /\ wire' = wire /\ id' = id
     \/ pending' = pending /\ wire' = wire \cup {t} /\ id'[t] = MsId[t]
     \/ pending' = pending \cup {t} /\ wire' = wire /\ id'[t] = NsId[t]

LEMMA SendHasEffect ==
  ASSUME TypeOK, NEW t \in Tokens,
         SendByWebSocket(t) \/ SendByQueue(t) \/ SendNothing
  PROVE  SendEffect(t)
<1>1. CASE SendByWebSocket(t)
  BY <1>1, DeliveryAssumption DEF TypeOK, SendEffect, SendByWebSocket
<1>2. CASE SendByQueue(t)
  BY <1>2, DeliveryAssumption DEF TypeOK, SendEffect, SendByQueue
<1>3. CASE SendNothing
  BY <1>3 DEF TypeOK, SendEffect, SendNothing
<1> QED
  BY <1>1, <1>2, <1>3

LEMMA WaitForTyped ==
  ASSUME TypeOK, NEW r \in Requests, NEW m \in Masters, NEW i \in Ids \cup {NoId},
         WaitFor(r, m, i)
  PROVE  wait' \in [Requests -> [at : Masters, id : Ids \cup {NoId}]]
BY DEF TypeOK, WaitFor

(* A step keeps the types, for any values of the constants.                *)
LEMMA TypeStep == TypeOK /\ [Next]_deliveryVars => TypeOK'
<1> SUFFICES ASSUME TypeOK, [Next]_deliveryVars PROVE TypeOK'
  OBVIOUS
<1> USE DeliveryAssumption DEF TypeOK, Returned, agentSide, commands, requests, places
<1>1. ASSUME NEW r \in Requests, ExecuteLocally(r) PROVE TypeOK'
  <2>1. <<r, Origin[r]>> \in Tokens /\ SendEffect(<<r, Origin[r]>>)
    BY <1>1, SendHasEffect DEF ExecuteLocally, Tokens
  <2>2. MsId[<<r, Origin[r]>>] \in Ids
    BY <2>1
  <2>3. wait' \in [Requests -> [at : Masters, id : Ids \cup {NoId}]]
    BY <1>1, <2>2, WaitForTyped DEF ExecuteLocally
  <2>4. QED
    BY <1>1, <2>1, <2>3 DEF ExecuteLocally, Moves, SendEffect
<1>2. ASSUME NEW r \in Requests, ExecuteByPeer(r) PROVE TypeOK'
  BY <1>2 DEF ExecuteByPeer, Moves
<1>3. ASSUME NEW r \in Requests, NEW p \in Masters, ForwardCommand(r, p) PROVE TypeOK'
  <2>1. <<r, p>> \in Tokens /\ SendEffect(<<r, p>>)
    BY <1>3, SendHasEffect DEF ForwardCommand, HandleForwardCommand, Tokens
  <2>2. id'[<<r, p>>] \in Ids \cup {NoId}
    BY <2>1 DEF SendEffect
  <2>3. wait' \in [Requests -> [at : Masters, id : Ids \cup {NoId}]]
    BY <1>3, <2>2, WaitForTyped DEF ForwardCommand, HandleForwardCommand
  <2>4. QED
    BY <1>3, <2>1, <2>3 DEF ForwardCommand, HandleForwardCommand, SendEffect
<1>4. ASSUME NEW r \in Requests, ForwardFails(r) PROVE TypeOK'
  BY <1>4 DEF ForwardFails, Moves
<1>5. ASSUME NEW r \in Requests, ExecuteFromWeb(r) PROVE TypeOK'
  <2>1. <<r, Origin[r]>> \in Tokens /\ SendEffect(<<r, Origin[r]>>)
    BY <1>5, SendHasEffect DEF ExecuteFromWeb, Tokens
  <2>2. NsId[<<r, Origin[r]>>] \in Ids
    BY <2>1
  <2>3. QED
    BY <1>5, <2>1, <2>2 DEF ExecuteFromWeb, Moves, WaitFor, SendEffect
<1>6. ASSUME NEW r \in Requests, Reject(r) PROVE TypeOK'
  BY <1>6 DEF Reject, Moves
<1>7. ASSUME NEW r \in Requests, SendFromAPI(r) PROVE TypeOK'
  <2>1. <<r, Origin[r]>> \in Tokens /\ SendEffect(<<r, Origin[r]>>)
    BY <1>7, SendHasEffect DEF SendFromAPI, Tokens
  <2>2. QED
    BY <1>7, <2>1 DEF SendFromAPI, Moves, SendEffect
<1>8. ASSUME NEW r \in Requests, TakeResult(r) PROVE TypeOK'
  <2>1. results[wait[r].at][wait[r].id] \in Tokens
    BY <1>8 DEF TakeResult, HasResult
  <2>2. QED
    BY <1>8, <2>1 DEF TakeResult
<1>9. ASSUME NEW r \in Requests, TimeOut(r) PROVE TypeOK'
  BY <1>9 DEF TimeOut
<1>10. ASSUME NEW r \in Requests, FallBackToSSH(r) PROVE TypeOK'
  BY <1>10 DEF FallBackToSSH, Moves
<1>11. ASSUME NEW a \in Agents, Connect(a) PROVE TypeOK'
  BY <1>11 DEF Connect, TokensFor, TokensAt
<1>12. ASSUME NEW a \in Agents, Disconnect(a) PROVE TypeOK'
  BY <1>12 DEF Disconnect, TokensFor
<1>13. ASSUME NEW a \in Agents, HubDrop(a) PROVE TypeOK'
  BY <1>13 DEF HubDrop, TokensFor
<1>14. ASSUME NEW a \in Agents, HTTPHeartbeat(a) PROVE TypeOK'
  BY <1>14 DEF HTTPHeartbeat, TokensFor
<1>15. ASSUME NEW a \in Agents, HeartbeatAnswered(a) PROVE TypeOK'
  BY <1>15 DEF HeartbeatAnswered, TokensFor, Execute
<1>16. ASSUME NEW a \in Agents, HeartbeatFails(a) PROVE TypeOK'
  BY <1>16 DEF HeartbeatFails, TokensFor
<1>17. ASSUME NEW a \in Agents, AgentRestart(a) PROVE TypeOK'
  BY <1>17 DEF AgentRestart, TokensFor
<1>18. ASSUME NEW t \in Tokens, ReceiveCommand(t) PROVE TypeOK'
  BY <1>18 DEF ReceiveCommand, Execute
<1>19. ASSUME NEW t \in Tokens, FinishCommand(t) PROVE TypeOK'
  <2>1. outcome' \in [Tokens -> {"none", "ok", "failed"}] /\ running' \subseteq Tokens
    BY <1>19 DEF FinishCommand
  <2>2. results' \in [Masters -> [Ids -> Tokens \cup {NoToken}]]
    <3>1. home[Target[t[1]]] \in Masters /\ id[t] \in Ids \cup {NoId}
      BY DEF Tokens
    <3>2. CASE results' = [results EXCEPT ![home[Target[t[1]]]][id[t]] = t]
      BY <3>1, <3>2
    <3> QED
      BY <1>19, <3>2 DEF FinishCommand
  <2>3. QED
    BY <1>19, <2>1, <2>2 DEF FinishCommand
<1>20. ASSUME NEW m \in Masters, NEW S \in SUBSET pending, NEW I \in SUBSET Stored(m),
             CleanUp(m, S, I)
      PROVE  TypeOK'
  BY <1>20 DEF CleanUp
<1>21. ASSUME NEW m \in Masters, NEW p \in Masters, LearnFromPeer(m, p) PROVE TypeOK'
  BY <1>21 DEF LearnFromPeer
<1>22. ASSUME NEW m \in Masters, NEW a \in Agents, RemoveAgent(m, a) PROVE TypeOK'
  BY <1>22 DEF RemoveAgent
<1>23. ASSUME NEW m \in Masters, MasterRestart(m) PROVE TypeOK'
  BY <1>23 DEF MasterRestart, TokensAt
<1>25. ASSUME NEW S \in SUBSET Requests, ListAgents(S) PROVE TypeOK'
  BY <1>25 DEF ListAgents
<1>24. CASE UNCHANGED deliveryVars
  BY <1>24 DEF deliveryVars
<1> QED
  BY <1>1, <1>2, <1>3, <1>4, <1>5, <1>6, <1>7, <1>8, <1>9, <1>10, <1>11, <1>12,
     <1>13, <1>14, <1>15, <1>16, <1>17, <1>18, <1>19, <1>20, <1>21, <1>22, <1>23, <1>24, <1>25
  DEF Next, RequestStep, AgentStep, CommandStep, MasterStep

(* Types, for every value of the constants.                                *)
THEOREM TypeCorrect == Spec => []TypeOK
<1>1. Init => TypeOK
  BY DeliveryAssumption DEF Init, TypeOK
<1>2. TypeOK /\ [Next]_deliveryVars => TypeOK'
  BY TypeStep
<1> QED
  BY <1>1, <1>2, PTL DEF Spec

-----------------------------------------------------------------------------
(* A command enters a queue once, leaves it before it is executed, and is  *)
(* executed once.                                                          *)
Travels == QueuesDisjoint /\ OnlySent /\ ExecutedOnce

LEMMA SendKeepsTravels ==
  ASSUME IndInv, NEW t \in Tokens, SendEffect(t), ~Sent(t),
         UNCHANGED <<response, running, execs, outcome>>
  PROVE  Travels'
<1> USE DeliveryAssumption DEF IndInv, Travels, SendEffect, Sent, Queued, TypeOK
<1>1. /\ t \notin Queued \cup running /\ execs[t] = 0 /\ outcome[t] = "none"
      /\ MsId[t] # NoId /\ NsId[t] # NoId
  BY DEF OnlySent, ExecutedOnce
<1>2. CASE pending' = pending /\ wire' = wire /\ id' = id
  BY <1>1, <1>2 DEF QueuesDisjoint, OnlySent, ExecutedOnce
<1>3. CASE pending' = pending /\ wire' = wire \cup {t} /\ id'[t] = MsId[t]
  BY <1>1, <1>3 DEF QueuesDisjoint, OnlySent, ExecutedOnce
<1>4. CASE pending' = pending \cup {t} /\ wire' = wire /\ id'[t] = NsId[t]
  BY <1>1, <1>4 DEF QueuesDisjoint, OnlySent, ExecutedOnce
<1> QED
  BY <1>2, <1>3, <1>4

LEMMA TravelsStep == IndInv /\ [Next]_deliveryVars => Travels'
<1> SUFFICES ASSUME IndInv, [Next]_deliveryVars PROVE Travels'
  OBVIOUS
<1> USE DeliveryAssumption
    DEF IndInv, Travels, QueuesDisjoint, OnlySent, ExecutedOnce, Sent, Queued,
        TypeOK, agentSide, commands, requests, places
<1>1. ASSUME NEW r \in Requests, ExecuteLocally(r) PROVE Travels'
  <2>1. <<r, Origin[r]>> \in Tokens /\ SendEffect(<<r, Origin[r]>>)
    BY <1>1, SendHasEffect DEF ExecuteLocally, Tokens
  <2>2. ~Sent(<<r, Origin[r]>>)
    BY <1>1 DEF ExecuteLocally, Moves, SentByRequest
  <2>3. UNCHANGED <<response, running, execs, outcome>>
    BY <1>1 DEF ExecuteLocally
  <2>4. QED
    BY <2>1, <2>2, <2>3, SendKeepsTravels
<1>2. ASSUME NEW r \in Requests, ExecuteByPeer(r) PROVE Travels'
  BY <1>2 DEF ExecuteByPeer, Moves
<1>3. ASSUME NEW r \in Requests, NEW p \in Masters, ForwardCommand(r, p) PROVE Travels'
  <2>1. <<r, p>> \in Tokens /\ SendEffect(<<r, p>>)
    BY <1>3, SendHasEffect DEF ForwardCommand, HandleForwardCommand, Tokens
  <2>2. ~Sent(<<r, p>>)
    BY <1>3 DEF ForwardCommand, HandleForwardCommand, SentByRequest
  <2>3. UNCHANGED <<response, running, execs, outcome>>
    BY <1>3 DEF ForwardCommand, HandleForwardCommand
  <2>4. QED
    BY <2>1, <2>2, <2>3, SendKeepsTravels
<1>4. ASSUME NEW r \in Requests, ForwardFails(r) PROVE Travels'
  BY <1>4 DEF ForwardFails, Moves
<1>5. ASSUME NEW r \in Requests, ExecuteFromWeb(r) PROVE Travels'
  <2>1. <<r, Origin[r]>> \in Tokens /\ SendEffect(<<r, Origin[r]>>)
    BY <1>5, SendHasEffect DEF ExecuteFromWeb, Tokens
  <2>2. ~Sent(<<r, Origin[r]>>)
    BY <1>5 DEF ExecuteFromWeb, Moves, SentByRequest
  <2>3. UNCHANGED <<response, running, execs, outcome>>
    BY <1>5 DEF ExecuteFromWeb
  <2>4. QED
    BY <2>1, <2>2, <2>3, SendKeepsTravels
<1>6. ASSUME NEW r \in Requests, Reject(r) PROVE Travels'
  BY <1>6 DEF Reject, Moves
<1>7. ASSUME NEW r \in Requests, SendFromAPI(r) PROVE Travels'
  <2>1. <<r, Origin[r]>> \in Tokens /\ SendEffect(<<r, Origin[r]>>)
    BY <1>7, SendHasEffect DEF SendFromAPI, Tokens
  <2>2. ~Sent(<<r, Origin[r]>>)
    BY <1>7 DEF SendFromAPI, Moves, SentByRequest
  <2>3. UNCHANGED <<response, running, execs, outcome>>
    BY <1>7 DEF SendFromAPI
  <2>4. QED
    BY <2>1, <2>2, <2>3, SendKeepsTravels
<1>8. ASSUME NEW r \in Requests, TakeResult(r) PROVE Travels'
  BY <1>8 DEF TakeResult, HasResult
<1>9. ASSUME NEW r \in Requests, TimeOut(r) PROVE Travels'
  BY <1>9 DEF TimeOut
<1>10. ASSUME NEW r \in Requests, FallBackToSSH(r) PROVE Travels'
  BY <1>10 DEF FallBackToSSH, Moves
<1>11. ASSUME NEW a \in Agents, Connect(a) PROVE Travels'
  BY <1>11 DEF Connect, TokensFor, TokensAt
<1>12. ASSUME NEW a \in Agents, Disconnect(a) PROVE Travels'
  BY <1>12 DEF Disconnect, TokensFor
<1>13. ASSUME NEW a \in Agents, HubDrop(a) PROVE Travels'
  BY <1>13 DEF HubDrop, TokensFor
<1>14. ASSUME NEW a \in Agents, HTTPHeartbeat(a) PROVE Travels'
  BY <1>14 DEF HTTPHeartbeat, TokensFor
<1>15. ASSUME NEW a \in Agents, HeartbeatAnswered(a) PROVE Travels'
  BY <1>15 DEF HeartbeatAnswered, TokensFor, Execute
<1>16. ASSUME NEW a \in Agents, HeartbeatFails(a) PROVE Travels'
  BY <1>16 DEF HeartbeatFails, TokensFor
<1>17. ASSUME NEW a \in Agents, AgentRestart(a) PROVE Travels'
  BY <1>17 DEF AgentRestart, TokensFor
<1>18. ASSUME NEW t \in Tokens, ReceiveCommand(t) PROVE Travels'
  BY <1>18 DEF ReceiveCommand, Execute
<1>19. ASSUME NEW t \in Tokens, FinishCommand(t) PROVE Travels'
  BY <1>19 DEF FinishCommand
<1>20. ASSUME NEW m \in Masters, NEW S \in SUBSET pending, NEW I \in SUBSET Stored(m),
             CleanUp(m, S, I)
      PROVE  Travels'
  BY <1>20 DEF CleanUp
<1>21. ASSUME NEW m \in Masters, NEW p \in Masters, LearnFromPeer(m, p) PROVE Travels'
  BY <1>21 DEF LearnFromPeer
<1>22. ASSUME NEW m \in Masters, NEW a \in Agents, RemoveAgent(m, a) PROVE Travels'
  BY <1>22 DEF RemoveAgent
<1>23. ASSUME NEW m \in Masters, MasterRestart(m) PROVE Travels'
  BY <1>23 DEF MasterRestart, TokensAt
<1>25. ASSUME NEW S \in SUBSET Requests, ListAgents(S) PROVE Travels'
  BY <1>25 DEF ListAgents
<1>24. CASE UNCHANGED deliveryVars
  BY <1>24 DEF deliveryVars
<1> QED
  BY <1>1, <1>2, <1>3, <1>4, <1>5, <1>6, <1>7, <1>8, <1>9, <1>10, <1>11, <1>12,
     <1>13, <1>14, <1>15, <1>16, <1>17, <1>18, <1>19, <1>20, <1>21, <1>22, <1>23, <1>24, <1>25
  DEF Next, RequestStep, AgentStep, CommandStep, MasterStep

-----------------------------------------------------------------------------
(* Who sent a command, and with which ID.                                  *)
Senders == SentByRequest /\ IdsGiven

LEMMA SendersStep == IndInv /\ [Next]_deliveryVars => Senders'
<1> SUFFICES ASSUME IndInv, [Next]_deliveryVars PROVE Senders'
  OBVIOUS
<1> USE DeliveryAssumption
    DEF IndInv, Senders, SentByRequest, IdsGiven, Sent, TypeOK, Tokens,
        Returned, agentSide, commands, requests, places
<1>1. ASSUME NEW r \in Requests, ExecuteLocally(r) PROVE Senders'
  <2>1. <<r, Origin[r]>> \in Tokens /\ SendEffect(<<r, Origin[r]>>)
    BY <1>1, SendHasEffect DEF ExecuteLocally, Tokens
  <2>2. \A u \in Tokens : u # <<r, Origin[r]>> => id'[u] = id[u]
    BY <2>1 DEF SendEffect
  <2>3. id'[<<r, Origin[r]>>] \in {NoId, NsId[<<r, Origin[r]>>], MsId[<<r, Origin[r]>>]}
    BY <2>1 DEF SendEffect
  <2>4. pc'[r] \notin {"idle", "sending"} /\ (Origin[r] = Origin[r] \/ Origin[r] \in tried'[r])
    BY <1>1 DEF ExecuteLocally, Moves
  <2>5. \A s \in Requests : s # r => pc'[s] = pc[s] /\ tried'[s] = tried[s]
    BY <1>1 DEF ExecuteLocally, Moves
  <2>6. tried[r] \subseteq tried'[r]
    BY <1>1 DEF ExecuteLocally
  <2>7. QED
    BY <2>2, <2>3, <2>4, <2>5, <2>6
<1>2. ASSUME NEW r \in Requests, ExecuteByPeer(r) PROVE Senders'
  BY <1>2 DEF ExecuteByPeer, Moves
<1>3. ASSUME NEW r \in Requests, NEW p \in Masters, ForwardCommand(r, p) PROVE Senders'
  <2>1. <<r, p>> \in Tokens /\ SendEffect(<<r, p>>)
    BY <1>3, SendHasEffect DEF ForwardCommand, HandleForwardCommand, Tokens
  <2>2. \A u \in Tokens : u # <<r, p>> => id'[u] = id[u]
    BY <2>1 DEF SendEffect
  <2>3. id'[<<r, p>>] \in {NoId, NsId[<<r, p>>], MsId[<<r, p>>]}
    BY <2>1 DEF SendEffect
  <2>4. pc'[r] \notin {"idle", "sending"} /\ (p = Origin[r] \/ p \in tried'[r])
    BY <1>3 DEF ForwardCommand, HandleForwardCommand
  <2>5. \A s \in Requests : s # r => pc'[s] = pc[s] /\ tried'[s] = tried[s]
    BY <1>3 DEF ForwardCommand, HandleForwardCommand
  <2>6. tried[r] \subseteq tried'[r]
    BY <1>3 DEF ForwardCommand, HandleForwardCommand
  <2>7. QED
    BY <2>2, <2>3, <2>4, <2>5, <2>6
<1>4. ASSUME NEW r \in Requests, ForwardFails(r) PROVE Senders'
  BY <1>4 DEF ForwardFails, Moves
<1>5. ASSUME NEW r \in Requests, ExecuteFromWeb(r) PROVE Senders'
  <2>1. <<r, Origin[r]>> \in Tokens /\ SendEffect(<<r, Origin[r]>>)
    BY <1>5, SendHasEffect DEF ExecuteFromWeb, Tokens
  <2>2. \A u \in Tokens : u # <<r, Origin[r]>> => id'[u] = id[u]
    BY <2>1 DEF SendEffect
  <2>3. id'[<<r, Origin[r]>>] \in {NoId, NsId[<<r, Origin[r]>>], MsId[<<r, Origin[r]>>]}
    BY <2>1 DEF SendEffect
  <2>4. pc'[r] \notin {"idle", "sending"} /\ (Origin[r] = Origin[r] \/ Origin[r] \in tried'[r])
    BY <1>5 DEF ExecuteFromWeb, Moves
  <2>5. \A s \in Requests : s # r => pc'[s] = pc[s] /\ tried'[s] = tried[s]
    BY <1>5 DEF ExecuteFromWeb, Moves
  <2>6. tried[r] \subseteq tried'[r]
    BY <1>5 DEF ExecuteFromWeb
  <2>7. QED
    BY <2>2, <2>3, <2>4, <2>5, <2>6
<1>6. ASSUME NEW r \in Requests, Reject(r) PROVE Senders'
  BY <1>6 DEF Reject, Moves
<1>7. ASSUME NEW r \in Requests, SendFromAPI(r) PROVE Senders'
  <2>1. <<r, Origin[r]>> \in Tokens /\ SendEffect(<<r, Origin[r]>>)
    BY <1>7, SendHasEffect DEF SendFromAPI, Tokens
  <2>2. \A u \in Tokens : u # <<r, Origin[r]>> => id'[u] = id[u]
    BY <2>1 DEF SendEffect
  <2>3. id'[<<r, Origin[r]>>] \in {NoId, NsId[<<r, Origin[r]>>], MsId[<<r, Origin[r]>>]}
    BY <2>1 DEF SendEffect
  <2>4. pc'[r] \notin {"idle", "sending"} /\ (Origin[r] = Origin[r] \/ Origin[r] \in tried'[r])
    BY <1>7 DEF SendFromAPI, Moves
  <2>5. \A s \in Requests : s # r => pc'[s] = pc[s] /\ tried'[s] = tried[s]
    BY <1>7 DEF SendFromAPI, Moves
  <2>6. tried[r] \subseteq tried'[r]
    BY <1>7 DEF SendFromAPI
  <2>7. QED
    BY <2>2, <2>3, <2>4, <2>5, <2>6
<1>8. ASSUME NEW r \in Requests, TakeResult(r) PROVE Senders'
  BY <1>8 DEF TakeResult, HasResult
<1>9. ASSUME NEW r \in Requests, TimeOut(r) PROVE Senders'
  BY <1>9 DEF TimeOut
<1>10. ASSUME NEW r \in Requests, FallBackToSSH(r) PROVE Senders'
  BY <1>10 DEF FallBackToSSH, Moves
<1>11. ASSUME NEW a \in Agents, Connect(a) PROVE Senders'
  BY <1>11 DEF Connect, TokensFor, TokensAt
<1>12. ASSUME NEW a \in Agents, Disconnect(a) PROVE Senders'
  BY <1>12 DEF Disconnect, TokensFor
<1>13. ASSUME NEW a \in Agents, HubDrop(a) PROVE Senders'
  BY <1>13 DEF HubDrop, TokensFor
<1>14. ASSUME NEW a \in Agents, HTTPHeartbeat(a) PROVE Senders'
  BY <1>14 DEF HTTPHeartbeat, TokensFor
<1>15. ASSUME NEW a \in Agents, HeartbeatAnswered(a) PROVE Senders'
  BY <1>15 DEF HeartbeatAnswered, TokensFor, Execute
<1>16. ASSUME NEW a \in Agents, HeartbeatFails(a) PROVE Senders'
  BY <1>16 DEF HeartbeatFails, TokensFor
<1>17. ASSUME NEW a \in Agents, AgentRestart(a) PROVE Senders'
  BY <1>17 DEF AgentRestart, TokensFor
<1>18. ASSUME NEW t \in Tokens, ReceiveCommand(t) PROVE Senders'
  BY <1>18 DEF ReceiveCommand, Execute
<1>19. ASSUME NEW t \in Tokens, FinishCommand(t) PROVE Senders'
  BY <1>19 DEF FinishCommand
<1>20. ASSUME NEW m \in Masters, NEW S \in SUBSET pending, NEW I \in SUBSET Stored(m),
             CleanUp(m, S, I)
      PROVE  Senders'
  BY <1>20 DEF CleanUp
<1>21. ASSUME NEW m \in Masters, NEW p \in Masters, LearnFromPeer(m, p) PROVE Senders'
  BY <1>21 DEF LearnFromPeer
<1>22. ASSUME NEW m \in Masters, NEW a \in Agents, RemoveAgent(m, a) PROVE Senders'
  BY <1>22 DEF RemoveAgent
<1>23. ASSUME NEW m \in Masters, MasterRestart(m) PROVE Senders'
  BY <1>23 DEF MasterRestart, TokensAt
<1>25. ASSUME NEW S \in SUBSET Requests, ListAgents(S) PROVE Senders'
  BY <1>25 DEF ListAgents
<1>24. CASE UNCHANGED deliveryVars
  BY <1>24 DEF deliveryVars
<1> QED
  BY <1>1, <1>2, <1>3, <1>4, <1>5, <1>6, <1>7, <1>8, <1>9, <1>10, <1>11, <1>12,
     <1>13, <1>14, <1>15, <1>16, <1>17, <1>18, <1>19, <1>20, <1>21, <1>22, <1>23, <1>24, <1>25
  DEF Next, RequestStep, AgentStep, CommandStep, MasterStep

LEMMA IndInvStep == IndInv /\ [Next]_deliveryVars => IndInv'
BY TypeStep, TravelsStep, SendersStep DEF IndInv, Travels, Senders

LEMMA InitIndInv == Init => IndInv
BY DeliveryAssumption
DEF Init, IndInv, TypeOK, QueuesDisjoint, OnlySent, ExecutedOnce, SentByRequest,
    IdsGiven, Sent, Queued, Tokens

LEMMA IndInvHolds == Spec => []IndInv
<1>1. Init => IndInv
  BY InitIndInv
<1>2. IndInv /\ [Next]_deliveryVars => IndInv'
  BY IndInvStep
<1> QED
  BY <1>1, <1>2, PTL DEF Spec

(* No command is executed twice, on any path.                              *)
THEOREM ExecutedAtMostOnce == Spec => []AtMostOnce
<1>1. IndInv => AtMostOnce
  BY DEF IndInv, ExecutedOnce, AtMostOnce
<1> QED
  BY <1>1, IndInvHolds, PTL

-----------------------------------------------------------------------------
(* The results under which masters store them.  An ID, once given, stays.  *)
LEMMA IdsStay ==
  ASSUME IndInv, [Next]_deliveryVars
  PROVE  \A u \in Tokens : Sent(u) => id'[u] = id[u]
<1> USE DeliveryAssumption DEF IndInv, SentByRequest, Sent, TypeOK, Tokens
<1>1. ASSUME NEW r \in Requests, ExecuteLocally(r)
      PROVE  \A u \in Tokens : Sent(u) => id'[u] = id[u]
  <2>1. <<r, Origin[r]>> \in Tokens /\ SendEffect(<<r, Origin[r]>>)
    BY <1>1, SendHasEffect DEF ExecuteLocally
  <2>2. ~Sent(<<r, Origin[r]>>)
    BY <1>1 DEF ExecuteLocally, Moves
  <2>3. QED
    BY <2>1, <2>2 DEF SendEffect
<1>2. ASSUME NEW r \in Requests, NEW p \in Masters, ForwardCommand(r, p)
      PROVE  \A u \in Tokens : Sent(u) => id'[u] = id[u]
  <2>1. <<r, p>> \in Tokens /\ SendEffect(<<r, p>>)
    BY <1>2, SendHasEffect DEF ForwardCommand, HandleForwardCommand
  <2>2. ~Sent(<<r, p>>)
    BY <1>2 DEF ForwardCommand, HandleForwardCommand
  <2>3. QED
    BY <2>1, <2>2 DEF SendEffect
<1>3. ASSUME NEW r \in Requests, ExecuteFromWeb(r)
      PROVE  \A u \in Tokens : Sent(u) => id'[u] = id[u]
  <2>1. <<r, Origin[r]>> \in Tokens /\ SendEffect(<<r, Origin[r]>>)
    BY <1>3, SendHasEffect DEF ExecuteFromWeb
  <2>2. ~Sent(<<r, Origin[r]>>)
    BY <1>3 DEF ExecuteFromWeb, Moves
  <2>3. QED
    BY <2>1, <2>2 DEF SendEffect
<1>4. ASSUME NEW r \in Requests, SendFromAPI(r)
      PROVE  \A u \in Tokens : Sent(u) => id'[u] = id[u]
  <2>1. <<r, Origin[r]>> \in Tokens /\ SendEffect(<<r, Origin[r]>>)
    BY <1>4, SendHasEffect DEF SendFromAPI
  <2>2. ~Sent(<<r, Origin[r]>>)
    BY <1>4 DEF SendFromAPI, Moves
  <2>3. QED
    BY <2>1, <2>2 DEF SendEffect
<1>5. CASE UNCHANGED id
  BY <1>5
<1> QED
  BY <1>1, <1>2, <1>3, <1>4, <1>5
  DEF Next, RequestStep, AgentStep, CommandStep, MasterStep, deliveryVars,
      agentSide, commands, requests, places, ExecuteByPeer, ForwardFails,
      Reject, TakeResult, TimeOut, FallBackToSSH, Connect, Disconnect, HubDrop,
      HTTPHeartbeat, HeartbeatAnswered, HeartbeatFails, AgentRestart,
      ReceiveCommand, FinishCommand, CleanUp, ListAgents, LearnFromPeer, RemoveAgent,
      MasterRestart

(* ResultInv is inductive next to IndInv, whatever IDs the clock gives.    *)
LEMMA ResultsStep == IndInv /\ ResultInv /\ [Next]_deliveryVars => ResultInv'
<1> SUFFICES ASSUME IndInv, ResultInv, [Next]_deliveryVars PROVE ResultInv'
  OBVIOUS
<1>a. \A u \in Tokens : Sent(u) => id'[u] = id[u]
  BY IdsStay
<1>b. \A m \in Masters, i \in Ids :
        results[m][i] # NoToken => results[m][i] \in Tokens /\ Sent(results[m][i])
  BY DeliveryAssumption DEF IndInv, TypeOK, ResultInv, ResultsMatch, Sent
<1>c. \A s \in Requests :
        source[s] # NoToken => source[s] \in Tokens /\ Sent(source[s])
  BY DeliveryAssumption DEF IndInv, TypeOK, ResultInv, SourceHasId, Sent
<1> USE <1>a, <1>b, <1>c, DeliveryAssumption
    DEF IndInv, ResultInv, ResultsMatch, WaitsForOwn, SourceHasId, Sent,
        TypeOK, Tokens, Returned, agentSide, commands, requests, places
<1>1. ASSUME NEW r \in Requests, ExecuteLocally(r) PROVE ResultInv'
  <2>1. <<r, Origin[r]>> \in Tokens /\ UNCHANGED <<results, outcome, source>>
    BY <1>1 DEF ExecuteLocally
  <2>2. pc'[r] # "output" /\ pc[r] # "output"
    BY <1>1 DEF ExecuteLocally, Moves
  <2>3. \A s \in Requests : s # r => wait'[s] = wait[s] /\ pc'[s] = pc[s]
    BY <1>1 DEF ExecuteLocally, Moves, WaitFor
  <2>4. wait'[r].id # NoId => id'[<<r, wait'[r].at>>] = wait'[r].id
    <3>1. CASE SendByWebSocket(<<r, Origin[r]>>) /\ WaitFor(r, Origin[r],
    MsId[<<r, Origin[r]>>])
      BY <2>1, <3>1 DEF SendByWebSocket, WaitFor
    <3>2. CASE SendNothing /\ WaitFor(r, Origin[r], NoId)
      BY <3>2 DEF WaitFor
    <3> QED
      BY <1>1, <3>1, <3>2 DEF ExecuteLocally
  <2>5. ResultsMatch'
    BY <2>1
  <2>6. WaitsForOwn'
    <3> SUFFICES ASSUME NEW s \in Requests, wait'[s].id # NoId
                 PROVE  id'[<<s, wait'[s].at>>] = wait'[s].id
      OBVIOUS
    <3>1. CASE s = r
      BY <2>4, <3>1
    <3>2. CASE s # r
      <4>1. wait'[s] = wait[s] /\ <<s, wait[s].at>> \in Tokens
        BY <2>3, <3>2
      <4>2. id[<<s, wait[s].at>>] = wait[s].id
        BY <4>1
      <4>3. QED
        BY <4>1, <4>2
    <3> QED
      BY <3>1, <3>2
  <2>7. SourceHasId'
    BY <2>1, <2>2, <2>3
  <2>8. QED
    BY <2>5, <2>6, <2>7
<1>2. ASSUME NEW r \in Requests, ExecuteByPeer(r) PROVE ResultInv'
  BY <1>2 DEF ExecuteByPeer, Moves
<1>3. ASSUME NEW r \in Requests, NEW p \in Masters, ForwardCommand(r, p) PROVE ResultInv'
  <2>1. <<r, p>> \in Tokens /\ UNCHANGED <<results, outcome, source>>
    BY <1>3 DEF ForwardCommand, HandleForwardCommand
  <2>2. pc'[r] # "output" /\ pc[r] # "output"
    BY <1>3 DEF ForwardCommand, HandleForwardCommand
  <2>3. \A s \in Requests : s # r => wait'[s] = wait[s] /\ pc'[s] = pc[s]
    BY <1>3 DEF ForwardCommand, HandleForwardCommand, WaitFor
  <2>4. wait'[r].id # NoId => id'[<<r, wait'[r].at>>] = wait'[r].id
    <3>1. CASE WaitFor(r, p, id'[<<r, p>>])
      BY <3>1 DEF WaitFor
    <3>2. CASE UNCHANGED wait
      BY <3>2
    <3> QED
      BY <1>3, <3>1, <3>2 DEF ForwardCommand, HandleForwardCommand
  <2>5. ResultsMatch'
    BY <2>1
  <2>6. WaitsForOwn'
    <3> SUFFICES ASSUME NEW s \in Requests, wait'[s].id # NoId
                 PROVE  id'[<<s, wait'[s].at>>] = wait'[s].id
      OBVIOUS
    <3>1. CASE s = r
      BY <2>4, <3>1
    <3>2. CASE s # r
      <4>1. wait'[s] = wait[s] /\ <<s, wait[s].at>> \in Tokens
        BY <2>3, <3>2
      <4>2. id[<<s, wait[s].at>>] = wait[s].id
        BY <4>1
      <4>3. QED
        BY <4>1, <4>2
    <3> QED
      BY <3>1, <3>2
  <2>7. SourceHasId'
    BY <2>1, <2>2, <2>3
  <2>8. QED
    BY <2>5, <2>6, <2>7
<1>4. ASSUME NEW r \in Requests, ForwardFails(r) PROVE ResultInv'
  BY <1>4 DEF ForwardFails, Moves
<1>5. ASSUME NEW r \in Requests, ExecuteFromWeb(r) PROVE ResultInv'
  <2>1. <<r, Origin[r]>> \in Tokens /\ UNCHANGED <<results, outcome, source>>
    BY <1>5 DEF ExecuteFromWeb
  <2>2. pc'[r] # "output" /\ pc[r] # "output"
    BY <1>5 DEF ExecuteFromWeb, Moves
  <2>3. \A s \in Requests : s # r => wait'[s] = wait[s] /\ pc'[s] = pc[s]
    BY <1>5 DEF ExecuteFromWeb, Moves, WaitFor
  <2>4. wait'[r].id # NoId => id'[<<r, wait'[r].at>>] = wait'[r].id
    BY <1>5, <2>1 DEF ExecuteFromWeb, SendByQueue, WaitFor
  <2>5. ResultsMatch'
    BY <2>1
  <2>6. WaitsForOwn'
    <3> SUFFICES ASSUME NEW s \in Requests, wait'[s].id # NoId
                 PROVE  id'[<<s, wait'[s].at>>] = wait'[s].id
      OBVIOUS
    <3>1. CASE s = r
      BY <2>4, <3>1
    <3>2. CASE s # r
      <4>1. wait'[s] = wait[s] /\ <<s, wait[s].at>> \in Tokens
        BY <2>3, <3>2
      <4>2. id[<<s, wait[s].at>>] = wait[s].id
        BY <4>1
      <4>3. QED
        BY <4>1, <4>2
    <3> QED
      BY <3>1, <3>2
  <2>7. SourceHasId'
    BY <2>1, <2>2, <2>3
  <2>8. QED
    BY <2>5, <2>6, <2>7
<1>6. ASSUME NEW r \in Requests, Reject(r) PROVE ResultInv'
  BY <1>6 DEF Reject, Moves
<1>7. ASSUME NEW r \in Requests, SendFromAPI(r) PROVE ResultInv'
  BY <1>7 DEF SendFromAPI, Moves
<1>8. ASSUME NEW r \in Requests, TakeResult(r) PROVE ResultInv'
  <2> DEFINE u == results[wait[r].at][wait[r].id]
  <2>1. UNCHANGED <<results, outcome, wait, id>>
    BY <1>8 DEF TakeResult
  <2>2. wait[r].at \in Masters /\ wait[r].id \in Ids /\ u \in Tokens
    BY <1>8 DEF TakeResult, HasResult
  <2>3. id[u] = wait[r].id /\ wait[r].id # NoId /\ outcome[u] # "none"
    BY <1>8, <2>2 DEF HasResult, TakeResult
  <2>4. SourceHasId'
    <3>1. CASE pc' = [pc EXCEPT ![r] = "fallback"] /\ UNCHANGED source
      BY <1>8, <3>1, <2>1 DEF TakeResult
    <3>2. CASE pc' = [pc EXCEPT ![r] = "output"] /\ source' = [source EXCEPT ![r] = u]
      BY <3>2, <2>1, <2>2, <2>3
    <3> QED
      BY <1>8, <3>1, <3>2 DEF TakeResult
  <2>5. ResultsMatch' /\ WaitsForOwn'
    BY <2>1
  <2>6. QED
    BY <2>4, <2>5
<1>9. ASSUME NEW r \in Requests, TimeOut(r) PROVE ResultInv'
  BY <1>9 DEF TimeOut
<1>10. ASSUME NEW r \in Requests, FallBackToSSH(r) PROVE ResultInv'
  BY <1>10 DEF FallBackToSSH, Moves
<1>11. ASSUME NEW a \in Agents, Connect(a) PROVE ResultInv'
  BY <1>11 DEF Connect, TokensFor, TokensAt
<1>12. ASSUME NEW a \in Agents, Disconnect(a) PROVE ResultInv'
  BY <1>12 DEF Disconnect, TokensFor
<1>13. ASSUME NEW a \in Agents, HubDrop(a) PROVE ResultInv'
  BY <1>13 DEF HubDrop, TokensFor
<1>14. ASSUME NEW a \in Agents, HTTPHeartbeat(a) PROVE ResultInv'
  BY <1>14 DEF HTTPHeartbeat, TokensFor
<1>15. ASSUME NEW a \in Agents, HeartbeatAnswered(a) PROVE ResultInv'
  BY <1>15 DEF HeartbeatAnswered, TokensFor, Execute
<1>16. ASSUME NEW a \in Agents, HeartbeatFails(a) PROVE ResultInv'
  BY <1>16 DEF HeartbeatFails, TokensFor
<1>17. ASSUME NEW a \in Agents, AgentRestart(a) PROVE ResultInv'
  BY <1>17 DEF AgentRestart, TokensFor
<1>18. ASSUME NEW t \in Tokens, ReceiveCommand(t) PROVE ResultInv'
  BY <1>18 DEF ReceiveCommand, Execute
<1>19. ASSUME NEW t \in Tokens, FinishCommand(t) PROVE ResultInv'
  <2>1. UNCHANGED <<id, wait, source, pc>>
    BY <1>19 DEF FinishCommand
  <2>2. \A u \in Tokens : outcome[u] # "none" => outcome'[u] # "none"
    BY <1>19 DEF FinishCommand
  <2>3. outcome'[t] # "none" /\ Sent(t)
    BY <1>19 DEF FinishCommand, OnlySent
  <2>4. \A m \in Masters, i \in Ids :
          results'[m][i] = results[m][i] \/ (results'[m][i] = t /\ i = id[t])
    <3>1. home[Target[t[1]]] \in Masters /\ id[t] \in Ids
      BY <2>3
    <3>2. CASE results' = [results EXCEPT ![home[Target[t[1]]]][id[t]] = t]
      BY <3>1, <3>2
    <3> QED
      BY <1>19, <3>2 DEF FinishCommand
  <2>5. ResultsMatch'
    <3> SUFFICES ASSUME NEW m \in Masters, NEW i \in Ids, results'[m][i] # NoToken
                 PROVE  id[results'[m][i]] = i /\ outcome'[results'[m][i]] # "none"
      BY <2>1
    <3>1. CASE results'[m][i] = results[m][i]
      BY <2>2, <3>1
    <3>2. CASE results'[m][i] = t /\ i = id[t]
      BY <2>3, <3>2
    <3> QED
      BY <2>4, <3>1, <3>2
  <2>6. WaitsForOwn' /\ SourceHasId'
    BY <2>1, <2>2
  <2>7. QED
    BY <2>5, <2>6
<1>20. ASSUME NEW m \in Masters, NEW S \in SUBSET pending, NEW I \in SUBSET Stored(m),
             CleanUp(m, S, I)
      PROVE  ResultInv'
  <2>1. UNCHANGED <<id, outcome, wait, source, pc>>
    BY <1>20 DEF CleanUp
  <2>2. \A n \in Masters, i \in Ids : results'[n][i] \in {results[n][i], NoToken}
    BY <1>20 DEF CleanUp
  <2>3. ResultsMatch'
    BY <2>1, <2>2
  <2>4. QED
    BY <2>1, <2>3
<1>21. ASSUME NEW m \in Masters, NEW p \in Masters, LearnFromPeer(m, p) PROVE ResultInv'
  BY <1>21 DEF LearnFromPeer
<1>22. ASSUME NEW m \in Masters, NEW a \in Agents, RemoveAgent(m, a) PROVE ResultInv'
  BY <1>22 DEF RemoveAgent
<1>23. ASSUME NEW m \in Masters, MasterRestart(m) PROVE ResultInv'
  BY <1>23 DEF MasterRestart, TokensAt
<1>25. ASSUME NEW S \in SUBSET Requests, ListAgents(S) PROVE ResultInv'
  BY <1>25 DEF ListAgents
<1>24. CASE UNCHANGED deliveryVars
  BY <1>24 DEF deliveryVars
<1> QED
  BY <1>1, <1>2, <1>3, <1>4, <1>5, <1>6, <1>7, <1>8, <1>9, <1>10, <1>11, <1>12,
     <1>13, <1>14, <1>15, <1>16, <1>17, <1>18, <1>19, <1>20, <1>21, <1>22, <1>23, <1>24, <1>25
  DEF Next, RequestStep, AgentStep, CommandStep, MasterStep

LEMMA ResultInvHolds == Spec => []ResultInv
<1>1. Init => ResultInv
  BY DeliveryAssumption
  DEF Init, ResultInv, ResultsMatch, WaitsForOwn, SourceHasId, Tokens
<1>2. IndInv /\ ResultInv /\ [Next]_deliveryVars => ResultInv'
  BY ResultsStep
<1> QED
  BY <1>1, <1>2, IndInvHolds, PTL DEF Spec

(* For any IDs, given twice or not: the output a request returns is that   *)
(* of a finished command with the ID its own command was given.            *)
THEOREM OutputOfTheSameId == Spec => []OutputHasItsId
<1>1. IndInv /\ ResultInv => OutputHasItsId
  BY DeliveryAssumption
  DEF IndInv, TypeOK, ExecutedOnce, ResultInv, SourceHasId, WaitsForOwn, OutputHasItsId
<1> QED
  BY <1>1, IndInvHolds, ResultInvHolds, PTL

-----------------------------------------------------------------------------
(* The refinement: what a step is in RemoteExecution.                      *)
LEMMA DropIsLose ==
  ASSUME IndInv, Queued' \subseteq Queued, UNCHANGED <<id, execs, source>>
  PROVE  Contract!Lose(Queued \ Queued')
<1>1. \A t \in Queued : t \in Tokens /\ id[t] # NoId /\ execs[t] = 0
  BY DEF IndInv, TypeOK, QueuesDisjoint, OnlySent, Sent, Queued
<1> QED
  BY <1>1 DEF Contract!Lose, Contract!Move, Stage, Queued

LEMMA HandOverIsExecute ==
  ASSUME IndInv, NEW S \in SUBSET Queued, Queued' = Queued \ S, Execute(S),
         UNCHANGED <<id, source>>
  PROVE  Contract!Execute(S)
<1>1. \A t \in Queued : t \in Tokens /\ id[t] # NoId /\ execs[t] = 0
  BY DEF IndInv, TypeOK, QueuesDisjoint, OnlySent, Sent, Queued
<1>2. \A t \in Tokens : execs'[t] = IF t \in S THEN execs[t] + 1 ELSE execs[t]
  BY DEF Execute
<1>3. \A t \in S : execs'[t] > 0
  BY <1>1, <1>2
<1> QED
  BY <1>1, <1>2, <1>3 DEF Contract!Execute, Contract!Move, Stage, Queued

LEMMA SendIsSend ==
  ASSUME IndInv, NEW t \in Tokens, ~Sent(t), SendEffect(t),
         UNCHANGED <<response, execs, source>>
  PROVE  Contract!Send(t) \/ UNCHANGED <<Stage, id, source>>
<1>1. execs[t] = 0 /\ MsId[t] # NoId /\ NsId[t] # NoId
  BY DeliveryAssumption DEF IndInv, TypeOK, OnlySent
<1>2. CASE pending' = pending /\ wire' = wire /\ id' = id
  BY <1>2 DEF Stage
<1>3. CASE id'[t] # NoId /\ t \in pending' \cup wire'
  <2>1. Stage[t] = "unsent" /\ Stage'[t] = "queued"
    BY <1>1, <1>3 DEF Stage, Sent, IndInv, TypeOK
  <2>5. id' = [id EXCEPT ![t] = id'[t]] /\ id'[t] \in Ids
    BY <1>3 DEF SendEffect, IndInv, TypeOK
  <2>2. \A u \in Tokens : u # t => Stage'[u] = Stage[u]
    BY DEF Stage, SendEffect
  <2>3. Stage' = [u \in Tokens |-> IF u \in {t} THEN "queued" ELSE Stage[u]]
    BY <2>1, <2>2 DEF Stage
  <2>4. QED
    BY <2>1, <2>3, <2>5 DEF Contract!Send, Contract!Move
<1> QED
  BY <1>1, <1>2, <1>3 DEF SendEffect

LEMMA ContractStep ==
  ASSUME IndInv, ResultInv, [Next]_deliveryVars
  PROVE  Contract!Next \/ UNCHANGED <<Stage, id, source>>
<1> DEFINE Goal == Contract!Next \/ UNCHANGED <<Stage, id, source>>
<1>a. ASSUME Queued' \subseteq Queued, UNCHANGED <<id, execs, source>> PROVE Goal
  <2>1. Queued \ Queued' \in SUBSET Tokens
    BY DEF IndInv, TypeOK, Queued
  <2>2. QED
    BY <1>a, <2>1, DropIsLose DEF Contract!Next
<1>b. ASSUME NEW t \in Tokens, ~Sent(t), SendEffect(t), UNCHANGED <<response, execs, source>>
      PROVE  Goal
  BY <1>b, SendIsSend DEF Contract!Next
<1>c. ASSUME NEW S \in SUBSET Queued, Queued' = Queued \ S, Execute(S), UNCHANGED <<id, source>>
      PROVE  Goal
  <2>1. S \in SUBSET Tokens
    BY DEF IndInv, TypeOK, Queued
  <2>2. QED
    BY <1>c, <2>1, HandOverIsExecute DEF Contract!Next
<1> HIDE DEF Goal
<1> USE DEF agentSide, commands, requests, places
<1>1. ASSUME NEW r \in Requests, ExecuteLocally(r) PROVE Goal
  <2>1. <<r, Origin[r]>> \in Tokens /\ SendEffect(<<r, Origin[r]>>)
    BY <1>1, SendHasEffect, DeliveryAssumption DEF ExecuteLocally, Tokens, IndInv
  <2>2. ~Sent(<<r, Origin[r]>>)
    BY <1>1, DeliveryAssumption DEF ExecuteLocally, Moves, IndInv, SentByRequest
  <2>3. UNCHANGED <<response, execs, source>>
    BY <1>1 DEF ExecuteLocally
  <2>4. QED
    BY <2>1, <2>2, <2>3, <1>b
<1>2. ASSUME NEW r \in Requests, ExecuteByPeer(r) PROVE Goal
  BY <1>2, <1>a DEF ExecuteByPeer, Moves, Queued
<1>3. ASSUME NEW r \in Requests, NEW p \in Masters, ForwardCommand(r, p) PROVE Goal
  <2>1. <<r, p>> \in Tokens /\ SendEffect(<<r, p>>)
    BY <1>3, SendHasEffect, DeliveryAssumption DEF ForwardCommand,
       HandleForwardCommand, Tokens, IndInv
  <2>2. ~Sent(<<r, p>>)
    BY <1>3, DeliveryAssumption DEF ForwardCommand, HandleForwardCommand,
       IndInv, SentByRequest
  <2>3. UNCHANGED <<response, execs, source>>
    BY <1>3 DEF ForwardCommand, HandleForwardCommand
  <2>4. QED
    BY <2>1, <2>2, <2>3, <1>b
<1>4. ASSUME NEW r \in Requests, ForwardFails(r) PROVE Goal
  BY <1>4, <1>a DEF ForwardFails, Moves, Queued
<1>5. ASSUME NEW r \in Requests, ExecuteFromWeb(r) PROVE Goal
  <2>1. <<r, Origin[r]>> \in Tokens /\ SendEffect(<<r, Origin[r]>>)
    BY <1>5, SendHasEffect, DeliveryAssumption DEF ExecuteFromWeb, Tokens, IndInv
  <2>2. ~Sent(<<r, Origin[r]>>)
    BY <1>5, DeliveryAssumption DEF ExecuteFromWeb, Moves, IndInv, SentByRequest
  <2>3. UNCHANGED <<response, execs, source>>
    BY <1>5 DEF ExecuteFromWeb
  <2>4. QED
    BY <2>1, <2>2, <2>3, <1>b
<1>6. ASSUME NEW r \in Requests, Reject(r) PROVE Goal
  BY <1>6, <1>a DEF Reject, Moves, Queued
<1>7. ASSUME NEW r \in Requests, SendFromAPI(r) PROVE Goal
  <2>1. <<r, Origin[r]>> \in Tokens /\ SendEffect(<<r, Origin[r]>>)
    BY <1>7, SendHasEffect, DeliveryAssumption DEF SendFromAPI, Tokens, IndInv
  <2>2. ~Sent(<<r, Origin[r]>>)
    BY <1>7, DeliveryAssumption DEF SendFromAPI, Moves, IndInv, SentByRequest
  <2>3. UNCHANGED <<response, execs, source>>
    BY <1>7 DEF SendFromAPI
  <2>4. QED
    BY <2>1, <2>2, <2>3, <1>b
<1>8. ASSUME NEW r \in Requests, TakeResult(r) PROVE Goal
  <2> DEFINE u == results[wait[r].at][wait[r].id]
  <2>1. UNCHANGED <<Stage, id>>
    BY <1>8 DEF TakeResult, Stage
  <2>2. CASE UNCHANGED source
    BY <2>1, <2>2 DEF Goal
  <2>3. CASE source' = [source EXCEPT ![r] = u]
    <3>1. u \in Tokens /\ outcome[u] # "none"
      BY <1>8, DeliveryAssumption DEF TakeResult, HasResult, IndInv, TypeOK,
         ResultInv, ResultsMatch
    <3>2. Stage[u] = "executed"
      BY <3>1 DEF Stage, IndInv, TypeOK, ExecutedOnce, OnlySent, Sent
    <3>3. wait[r].id # NoId /\ id[u] = wait[r].id
      BY <1>8, DeliveryAssumption DEF TakeResult, HasResult, IndInv, TypeOK,
         ResultInv, ResultsMatch
    <3>4. source[r] = NoToken
      BY <1>8 DEF TakeResult, ResultInv, SourceHasId
    <3>5. /\ <<r, wait[r].at>> \in Tokens /\ <<r, wait[r].at>>[1] = r
          /\ id[<<r, wait[r].at>>] = id[u]
      BY <3>3 DEF IndInv, TypeOK, Tokens, ResultInv, WaitsForOwn
    <3>8. \E d \in Tokens : [v \in Tokens |-> v[1]][d] = r /\ id[d] = id[u]
      BY <3>5
    <3>6. Contract!Return(r, u)
      BY <2>1, <2>3, <3>1, <3>2, <3>4, <3>8 DEF Contract!Return
    <3>7. QED
      BY <3>1, <3>6 DEF Goal, Contract!Next
  <2> QED
    BY <1>8, <2>2, <2>3 DEF TakeResult
<1>9. ASSUME NEW r \in Requests, TimeOut(r) PROVE Goal
  BY <1>9, <1>a DEF TimeOut, Queued
<1>10. ASSUME NEW r \in Requests, FallBackToSSH(r) PROVE Goal
  BY <1>10, <1>a DEF FallBackToSSH, Moves, Queued
<1>11. ASSUME NEW a \in Agents, Connect(a) PROVE Goal
  BY <1>11, <1>a DEF Connect, TokensFor, TokensAt, Queued
<1>12. ASSUME NEW a \in Agents, Disconnect(a) PROVE Goal
  BY <1>12, <1>a DEF Disconnect, TokensFor, Queued
<1>13. ASSUME NEW a \in Agents, HubDrop(a) PROVE Goal
  BY <1>13, <1>a DEF HubDrop, TokensFor, Queued
<1>14. ASSUME NEW a \in Agents, HTTPHeartbeat(a) PROVE Goal
  BY <1>14, <1>a DEF HTTPHeartbeat, TokensFor, Queued
<1>15. ASSUME NEW a \in Agents, HeartbeatAnswered(a) PROVE Goal
  <2>1. /\ response \cap TokensFor(a) \in SUBSET Queued
        /\ Queued' = Queued \ (response \cap TokensFor(a))
    BY <1>15 DEF HeartbeatAnswered, Queued, IndInv, QueuesDisjoint
  <2>2. QED
    BY <1>15, <2>1, <1>c DEF HeartbeatAnswered
<1>16. ASSUME NEW a \in Agents, HeartbeatFails(a) PROVE Goal
  BY <1>16, <1>a DEF HeartbeatFails, TokensFor, Queued
<1>17. ASSUME NEW a \in Agents, AgentRestart(a) PROVE Goal
  BY <1>17, <1>a DEF AgentRestart, TokensFor, Queued
<1>18. ASSUME NEW t \in Tokens, ReceiveCommand(t) PROVE Goal
  <2>1. {t} \in SUBSET Queued /\ Queued' = Queued \ {t}
    BY <1>18 DEF ReceiveCommand, Queued, IndInv, QueuesDisjoint
  <2>2. QED
    BY <1>18, <2>1, <1>c DEF ReceiveCommand
<1>19. ASSUME NEW t \in Tokens, FinishCommand(t) PROVE Goal
  BY <1>19, <1>a DEF FinishCommand, Queued
<1>20. ASSUME NEW m \in Masters, NEW S \in SUBSET pending, NEW I \in SUBSET Stored(m),
             CleanUp(m, S, I)
      PROVE  Goal
  BY <1>20, <1>a DEF CleanUp, Queued
<1>21. ASSUME NEW m \in Masters, NEW p \in Masters, LearnFromPeer(m, p) PROVE Goal
  BY <1>21, <1>a DEF LearnFromPeer, Queued
<1>22. ASSUME NEW m \in Masters, NEW a \in Agents, RemoveAgent(m, a) PROVE Goal
  BY <1>22, <1>a DEF RemoveAgent, Queued
<1>23. ASSUME NEW m \in Masters, MasterRestart(m) PROVE Goal
  BY <1>23, <1>a DEF MasterRestart, TokensAt, Queued
<1>25. ASSUME NEW S \in SUBSET Requests, ListAgents(S) PROVE Goal
  BY <1>25, <1>a DEF ListAgents, Queued
<1>24. CASE UNCHANGED deliveryVars
  <2>1. Queued' \subseteq Queued /\ UNCHANGED <<id, execs, source>>
    BY <1>24 DEF deliveryVars, Queued
  <2>2. QED
    BY <2>1, <1>a DEF Goal
<1> QED
  BY <1>1, <1>2, <1>3, <1>4, <1>5, <1>6, <1>7, <1>8, <1>9, <1>10, <1>11, <1>12,
     <1>13, <1>14, <1>15, <1>16, <1>17, <1>18, <1>19, <1>20, <1>21, <1>22, <1>23, <1>24, <1>25
  DEF Next, RequestStep, AgentStep, CommandStep, MasterStep, Goal

(* The channel implements its contract, for any IDs.                       *)
THEOREM ContractIsKept == Spec => ContractHolds
<1>1. Init => Contract!Init
  BY DEF Init, Contract!Init, Stage
<1>2. IndInv /\ ResultInv /\ [Next]_deliveryVars => [Contract!Next]_(Contract!vars)
  BY ContractStep DEF Contract!vars
<1> QED
  BY <1>1, <1>2, IndInvHolds, ResultInvHolds, PTL DEF Spec,
     ContractHolds, Contract!Spec
===============================================================================
