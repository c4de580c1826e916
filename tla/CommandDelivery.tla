--------------------------- MODULE CommandDelivery ---------------------------
(***************************************************************************)
(* How a shell command travels from a request on one master to an agent    *)
(* and its result back: the senders (web/server.go, cluster/agent_api.go,  *)
(* ExecuteOnAgent of cmd/serverowl/main.go and the SSH fallback of         *)
(* agent/tools.go), the queues of MasterCluster, the WebSocket and HTTP    *)
(* paths to the agent, executeCommand of agent-node/agent.go.              *)
(*                                                                         *)
(* A request puts at most one command on each master, so <<r, m>> names    *)
(* the command of request r on master m; a call of the agent API for a tag *)
(* is a request for each agent that has it.  A command is in a queue while *)
(* its token is in `pending` (pendingCommands), `wire` (SendCh and the     *)
(* socket) or `response` (the body of a heartbeat response).               *)
(*                                                                         *)
(* Abstracted: command text and output; whether an agent's record says     *)
(* "online" (a free choice, AgentRegistry has it); the hub's goroutines    *)
(* (WSHub has them); which peers answered the last sync (a free choice).   *)
(* Time is kept as order only: a requester waits 30 s and a queued command *)
(* lives 5 minutes, so it does not expire while its requester waits.  IDs  *)
(* are times: NsId and MsId say which commands get the same one.           *)
(***************************************************************************)
EXTENDS Naturals

CONSTANTS
  Masters, Agents, Requests,
  Entry,     \* where a request comes in: the tool "remote_shell", or "http",
             \* a handler of the web console or of the agent API
  Origin,    \* the master it comes in at
  Target,    \* the agent it is for
  WSMaster,  \* the master an agent's WebSocket goes to, fixed when it starts
  Ids,       \* command IDs
  NsId,      \* "cmd-<UnixNano>", the ID MasterCluster.SendCommand gives
  MsId,      \* "cmd-<time in ms>", the ID WSServer.SendCommand gives
  NoId,      \* ""
  NoToken    \* nil

Tokens == Requests \X Masters

ASSUME DeliveryAssumption ==
  /\ Entry \in [Requests -> {"remote_shell", "http"}]
  /\ Origin \in [Requests -> Masters]
  /\ Target \in [Requests -> Agents]
  /\ WSMaster \in [Agents -> Masters]
  /\ NsId \in [Tokens -> Ids]
  /\ MsId \in [Tokens -> Ids]
  /\ NoId \notin Ids
  /\ NoToken \notin Tokens

VARIABLES
  known,     \* known[m]: agents in MasterCluster.agents of master m
  hub,       \* agents their WebSocket master's hub maps to a connection
  link,      \* agents that hold a working WebSocket connection
  home,      \* home[a]: what Agent.getActiveMaster returns
  pending,   \* commands in pendingCommands of their master
  wire,      \* commands on their way over a WebSocket
  response,  \* commands in a heartbeat response on its way
  running,   \* commands an agent's executeCommand is running
  execs,     \* how often a command has been executed
  outcome,   \* how its execution ended
  id,        \* its ID, NoId before it is sent
  results,   \* results[m][i]: the command whose result m stores under ID i
  pc,        \* where a request is
  tried,     \* peers a request has been forwarded to
  wait,      \* the master and ID whose result a request waits for
  source     \* the command whose output a request returned

places == <<pending, wire, response>>
agentSide == <<known, hub, link, home>>
commands == <<pending, wire, response, running, execs, outcome, id, results>>
requests == <<pc, tried, wait, source>>
deliveryVars == <<known, hub, link, home, pending, wire, response, running,
                  execs, outcome, id, results, pc, tried, wait, source>>

Returned == {"output", "ssh", "failed", "accepted", "aborted"}

TypeOK ==
  /\ known \in [Masters -> SUBSET Agents]
  /\ hub \subseteq Agents
  /\ link \subseteq Agents
  /\ home \in [Agents -> Masters]
  /\ pending \subseteq Tokens
  /\ wire \subseteq Tokens
  /\ response \subseteq Tokens
  /\ running \subseteq Tokens
  /\ execs \in [Tokens -> Nat]
  /\ outcome \in [Tokens -> {"none", "ok", "failed"}]
  /\ id \in [Tokens -> Ids \cup {NoId}]
  /\ results \in [Masters -> [Ids -> Tokens \cup {NoToken}]]
  /\ pc \in [Requests -> {"idle", "forwarding", "sending", "waiting", "fallback"}
                           \cup Returned]
  /\ tried \in [Requests -> SUBSET Masters]
  /\ wait \in [Requests -> [at : Masters, id : Ids \cup {NoId}]]
  /\ source \in [Requests -> Tokens \cup {NoToken}]

Init ==
  /\ known = [m \in Masters |-> {}]
  /\ hub = {}
  /\ link = {}
  /\ home \in [Agents -> Masters]
  /\ pending = {} /\ wire = {} /\ response = {} /\ running = {}
  /\ execs = [t \in Tokens |-> 0]
  /\ outcome = [t \in Tokens |-> "none"]
  /\ id = [t \in Tokens |-> NoId]
  /\ results = [m \in Masters |-> [i \in Ids |-> NoToken]]
  /\ pc = [r \in Requests |-> "idle"]
  /\ tried = [r \in Requests |-> {}]
  /\ wait = [r \in Requests |-> [at |-> Origin[r], id |-> NoId]]
  /\ source = [r \in Requests |-> NoToken]

-----------------------------------------------------------------------------
TokensFor(a) == {t \in Tokens : Target[t[1]] = a}
TokensAt(m) == {t \in Tokens : t[2] = m}

(* IsConnected(agent) on master m.                                         *)
Connected(m, a) == a \in hub /\ WSMaster[a] = m

(* WSServer.SendCommand when the put on SendCh succeeds.                   *)
SendByWebSocket(t) ==
  /\ Connected(t[2], Target[t[1]])
  /\ wire' = wire \cup {t}
  /\ id' = [id EXCEPT ![t] = MsId[t]]
  /\ UNCHANGED pending

(* MasterCluster.SendCommand for an agent the master knows.                *)
SendByQueue(t) ==
  /\ Target[t[1]] \in known[t[2]]
  /\ pending' = pending \cup {t}
  /\ id' = [id EXCEPT ![t] = NsId[t]]
  /\ UNCHANGED wire

(* Nothing is sent: the put on a full SendCh, or to an entry just removed. *)
SendNothing == UNCHANGED <<pending, wire, id>>

Moves(r, from, to) == pc[r] = from /\ pc' = [pc EXCEPT ![r] = to]

WaitFor(r, m, i) == wait' = [wait EXCEPT ![r] = [at |-> m, id |-> i]]

-----------------------------------------------------------------------------
(* ExecuteOnAgent, the record is "online" and the hub has a connection.  A *)
(* failed put is not an error: the caller waits for the result of ID "".   *)
ExecuteLocally(r) ==
  LET t == <<r, Origin[r]>> IN
  /\ Entry[r] = "remote_shell"
  /\ Moves(r, "idle", "waiting")
  /\ Target[r] \in known[Origin[r]]
  /\ Connected(Origin[r], Target[r])
  /\ \/ SendByWebSocket(t) /\ WaitFor(r, Origin[r], MsId[t])
     \/ SendNothing /\ WaitFor(r, Origin[r], NoId)
  /\ UNCHANGED <<agentSide, response, running, execs, outcome, results,
                 tried, source>>

(* ExecuteOnAgent in every other case: no record, a record that is not     *)
(* "online" (possible with a connection too), or no connection here.       *)
ExecuteByPeer(r) ==
  /\ Entry[r] = "remote_shell"
  /\ Moves(r, "idle", "forwarding")
  /\ UNCHANGED <<agentSide, commands, tried, wait, source>>

(* handleForwardCommand on the peer, when it answers with success: the     *)
(* WebSocket if the agent is connected (a failed put is answered with      *)
(* success too, and an empty ID), else the queue.                          *)
HandleForwardCommand(t) ==
  LET connected == Connected(t[2], Target[t[1]]) IN
  \/ SendByWebSocket(t)
  \/ connected /\ SendNothing
  \/ ~connected /\ SendByQueue(t)

(* One round of the loop of ForwardCommandToPeers: POST forward-command to *)
(* peer p.  The peer may be out of reach or not know the agent, and its    *)
(* answer may be lost after it has acted: the loop then goes on with the   *)
(* next peer.                                                              *)
ForwardCommand(r, p) ==
  LET t == <<r, p>>
      answered == /\ pc' = [pc EXCEPT ![r] = "waiting"]
                  /\ WaitFor(r, p, id'[t])
      goOn == UNCHANGED <<pc, wait>>
  IN
  /\ pc[r] = "forwarding"
  /\ p # Origin[r] /\ p \notin tried[r]
  /\ tried' = [tried EXCEPT ![r] = @ \cup {p}]
  /\ \/ HandleForwardCommand(t) /\ answered
     \/ HandleForwardCommand(t) /\ goOn
     \/ SendNothing /\ goOn
  /\ UNCHANGED <<agentSide, response, running, execs, outcome, results, source>>

(* No peer is left (or none of the rest answered the last sync).           *)
ForwardFails(r) ==
  /\ Moves(r, "forwarding", "fallback")
  /\ UNCHANGED <<agentSide, commands, tried, wait, source>>

-----------------------------------------------------------------------------
(* handleClusterExecute of the web console: only ever the queue.           *)
ExecuteFromWeb(r) ==
  LET t == <<r, Origin[r]>> IN
  /\ Entry[r] = "http"
  /\ Moves(r, "idle", "waiting")
  /\ SendByQueue(t)
  /\ WaitFor(r, Origin[r], NsId[t])
  /\ UNCHANGED <<agentSide, response, running, execs, outcome, results,
                 tried, source>>

(* Both refuse an agent the master has no record of.                       *)
Reject(r) ==
  /\ Entry[r] = "http"
  /\ Moves(r, "idle", "failed")
  /\ Target[r] \notin known[Origin[r]]
  /\ UNCHANGED <<agentSide, commands, tried, wait, source>>

(* handleSendCommand of the agent API: the agent that is asked for, or all *)
(* that have a tag, as far as the master has records of them ...           *)
ListAgents(S) ==
  /\ S # {}
  /\ \A r \in S :
       /\ Entry[r] = "http" /\ pc[r] = "idle"
       /\ Target[r] \in known[Origin[r]]
       /\ \A s \in S : Origin[s] = Origin[r] /\ (Target[s] = Target[r] => s = r)
  /\ pc' = [r \in Requests |-> IF r \in S THEN "sending" ELSE pc[r]]
  /\ UNCHANGED <<agentSide, commands, tried, wait, source>>

(* ... and a round of its loop over them: the WebSocket if the put         *)
(* succeeds, else the queue, else the agent is passed over.  The IDs are   *)
(* returned without waiting.                                               *)
SendFromAPI(r) ==
  LET t == <<r, Origin[r]>> IN
  /\ \/ (SendByWebSocket(t) \/ SendByQueue(t)) /\ Moves(r, "sending", "accepted")
     \/ /\ Target[r] \notin known[Origin[r]]
        /\ SendNothing /\ Moves(r, "sending", "failed")
  /\ UNCHANGED <<agentSide, response, running, execs, outcome, results,
                 tried, wait, source>>

-----------------------------------------------------------------------------
(* WaitCommandResult, PollPeerCommandResult: the stored result of the ID.  *)
HasResult(r) ==
  /\ wait[r].id # NoId
  /\ results[wait[r].at][wait[r].id] # NoToken

(* The requester finds a result.  handleClusterExecute returns it as it    *)
(* is; ExecuteOnAgent turns a failed command into an error.                *)
TakeResult(r) ==
  /\ pc[r] = "waiting"
  /\ HasResult(r)
  /\ LET t == results[wait[r].at][wait[r].id] IN
       IF Entry[r] = "remote_shell" /\ outcome[t] = "failed"
         THEN pc' = [pc EXCEPT ![r] = "fallback"] /\ UNCHANGED source
         ELSE /\ pc' = [pc EXCEPT ![r] = "output"]
              /\ source' = [source EXCEPT ![r] = t]
  /\ UNCHANGED <<agentSide, commands, tried, wait>>

(* Mutants of TimeOut: a requester whose command got no ID waits for ever; *)
(* the end of the context is taken for a command without output.           *)
TimeOutIfSent(r) ==
  /\ pc[r] = "waiting" /\ wait[r].id # NoId
  /\ pc' = [pc EXCEPT ![r] = IF Entry[r] = "remote_shell" THEN "fallback"
                                                          ELSE "failed"]
  /\ UNCHANGED <<agentSide, commands, tried, wait, source>>

TimeOutAsOutput(r) ==
  /\ pc[r] = "waiting"
  /\ pc' = [pc EXCEPT ![r] = "output"]
  /\ source' = [source EXCEPT ![r] = <<r, wait[r].at>>]
  /\ UNCHANGED <<agentSide, commands, tried, wait>>

(* The requester's context ends (30 s) without a result.                   *)
TimeOut(r) ==
  /\ pc[r] = "waiting"
  /\ pc' = [pc EXCEPT ![r] = IF Entry[r] = "remote_shell" THEN "fallback"
                                                          ELSE "failed"]
  /\ UNCHANGED <<agentSide, commands, tried, wait, source>>

(* createRemoteShellHandler runs the command over SSH on any error, here   *)
(* while pc is "fallback".  The ssh process has no time limit: this is the *)
(* step in which it ends, if it does.                                      *)
FallBackToSSH(r) ==
  /\ Moves(r, "fallback", "ssh")
  /\ UNCHANGED <<agentSide, commands, tried, wait, source>>

-----------------------------------------------------------------------------
(* The agent's WebSocket registers: HandleConnection maps it and calls     *)
(* HandleHeartbeat, which empties the queue; the commands it returns are   *)
(* dropped.  What was on an old connection is lost.                        *)
Connect(a) ==
  /\ a \notin link
  /\ link' = link \cup {a}
  /\ hub' = hub \cup {a}
  /\ known' = [known EXCEPT ![WSMaster[a]] = @ \cup {a}]
  /\ wire' = wire \ TokensFor(a)
  /\ pending' = pending \ (TokensFor(a) \cap TokensAt(WSMaster[a]))
  /\ UNCHANGED <<home, response, running, execs, outcome, id, results, requests>>

(* The connection breaks and the agent notices; the hub does not yet.      *)
Disconnect(a) ==
  /\ a \in link
  /\ link' = link \ {a}
  /\ wire' = wire \ TokensFor(a)
  /\ UNCHANGED <<known, hub, home, pending, response, running, execs, outcome,
                 id, results, requests>>

(* The hub unregisters the dead connection.                                *)
HubDrop(a) ==
  /\ a \in hub \ link
  /\ hub' = hub \ {a}
  /\ wire' = wire \ TokensFor(a)
  /\ UNCHANGED <<known, link, home, pending, response, running, execs, outcome,
                 id, results, requests>>

(* The tokens are handed to executeCommand, each in a goroutine.           *)
Execute(S) ==
  /\ running' = running \cup S
  /\ execs' = [t \in Tokens |-> IF t \in S THEN execs[t] + 1 ELSE execs[t]]

(* handleWSCommand.                                                        *)
ReceiveCommand(t) ==
  /\ t \in wire
  /\ Target[t[1]] \in link
  /\ wire' = wire \ {t}
  /\ Execute({t})
  /\ UNCHANGED <<agentSide, pending, response, outcome, id, results, requests>>

(* Mutant of HTTPHeartbeat: the queue is handed out but not emptied.       *)
HTTPHeartbeatKeepsQueue(a) ==
  LET S == {t \in pending : Target[t[1]] = a /\ t[2] = home[a]} IN
  /\ a \notin link
  /\ response \cap TokensFor(a) = {}
  /\ known' = [known EXCEPT ![home[a]] = @ \cup {a}]
  /\ response' = response \cup S
  /\ UNCHANGED <<pending, hub, link, home, wire, running, execs, outcome, id,
                 results, requests>>

(* An HTTP heartbeat reaches the agent's active master, which puts all     *)
(* queued commands of the agent in the response.  The agent sends one when *)
(* it has no WebSocket connection.                                         *)
HTTPHeartbeat(a) ==
  LET S == {t \in pending : Target[t[1]] = a /\ t[2] = home[a]} IN
  /\ a \notin link
  /\ response \cap TokensFor(a) = {}
  /\ known' = [known EXCEPT ![home[a]] = @ \cup {a}]
  /\ pending' = pending \ S
  /\ response' = response \cup S
  /\ UNCHANGED <<hub, link, home, wire, running, execs, outcome, id, results,
                 requests>>

(* The response arrives: sendHeartbeat starts every command in it.         *)
HeartbeatAnswered(a) ==
  LET S == response \cap TokensFor(a) IN
  /\ S # {}
  /\ response' = response \ S
  /\ Execute(S)
  /\ UNCHANGED <<agentSide, pending, wire, outcome, id, results, requests>>

(* Mutant of HeartbeatFails: when no master answers, activeMaster is nil.  *)
HeartbeatFailsToNil(a) ==
  /\ a \notin link \/ response \cap TokensFor(a) # {}
  /\ response' = response \ TokensFor(a)
  /\ \E m \in Masters \cup {NoToken} : home' = [home EXCEPT ![a] = m]
  /\ UNCHANGED <<known, hub, link, pending, wire, running, execs, outcome, id,
                 results, requests>>

(* The heartbeat fails, before or after the master handled it, and the     *)
(* agent turns to another master (tryFailover).  If none answers it has no *)
(* active master, and getActiveMaster returns the configured one.          *)
HeartbeatFails(a) ==
  /\ a \notin link \/ response \cap TokensFor(a) # {}
  /\ response' = response \ TokensFor(a)
  /\ \E m \in Masters :
       home' = [home EXCEPT ![a] = m]
  /\ UNCHANGED <<known, hub, link, pending, wire, running, execs, outcome, id,
                 results, requests>>

-----------------------------------------------------------------------------
(* Mutant of FinishCommand: results are kept per agent, the last one for   *)
(* all of its command IDs.                                                 *)
FinishCommandPerAgent(t) ==
  LET m == home[Target[t[1]]]
      own == {id[u] : u \in TokensFor(Target[t[1]])}
  IN
  /\ t \in running
  /\ running' = running \ {t}
  /\ \E o \in {"ok", "failed"} : outcome' = [outcome EXCEPT ![t] = o]
  /\ \/ results' = [results EXCEPT ![m] =
                      [i \in Ids |-> IF i \in own THEN t ELSE @[i]]]
     \/ UNCHANGED results
  /\ UNCHANGED <<agentSide, places, execs, id, requests>>

(* executeCommand ends and reportCommandResult posts the result to the     *)
(* agent's active master now, whichever master the command came from.  If  *)
(* the post fails, the result is dropped.                                  *)
FinishCommand(t) ==
  LET m == home[Target[t[1]]] IN
  /\ t \in running
  /\ running' = running \ {t}
  /\ \E o \in {"ok", "failed"} : outcome' = [outcome EXCEPT ![t] = o]
  /\ \/ results' = [results EXCEPT ![m][id[t]] = t]
     \/ UNCHANGED results
  /\ UNCHANGED <<agentSide, places, execs, id, requests>>

(* A request that has returned, or has left the cluster's path for SSH.    *)
HasLeft(r) == pc[r] \in Returned \cup {"fallback"}

(* Mutant of CleanUp: only the queues of agents in the table.              *)
CleanUpKnown(m, S, I) ==
  /\ S \subseteq pending \cap TokensAt(m)
  /\ \A t \in S : HasLeft(t[1]) /\ Target[t[1]] \in known[m]
  /\ \A i \in I : results[m][i] # NoToken
  /\ S # {} \/ I # {}
  /\ pending' = pending \ S
  /\ results' = [results EXCEPT ![m] = [i \in Ids |-> IF i \in I THEN NoToken ELSE @[i]]]
  /\ UNCHANGED <<agentSide, wire, response, running, execs, outcome, id, requests>>

(* cleanupExpiredCommands: the queued commands S that are older than       *)
(* 5 minutes, the results, of the IDs I, that are older than an hour by    *)
(* the agent's clock, which stamps them.                                   *)
CleanUp(m, S, I) ==
  /\ S \subseteq pending \cap TokensAt(m)
  /\ \A t \in S : HasLeft(t[1])
  /\ \A i \in I : results[m][i] # NoToken
  /\ S # {} \/ I # {}
  /\ pending' = pending \ S
  /\ results' = [results EXCEPT ![m] = [i \in Ids |-> IF i \in I THEN NoToken ELSE @[i]]]
  /\ UNCHANGED <<agentSide, wire, response, running, execs, outcome, id, requests>>

Stored(m) == {i \in Ids : results[m][i] # NoToken}

(* syncAgentsFromPeer: a record master m did not have.                     *)
LearnFromPeer(m, p) ==
  /\ known[p] \ known[m] # {}
  /\ known' = [known EXCEPT ![m] = @ \cup known[p]]
  /\ UNCHANGED <<hub, link, home, commands, requests>>

(* RemoveOfflineAgents: an agent whose record says "offline".              *)
RemoveAgent(m, a) ==
  /\ a \in known[m]
  /\ known' = [known EXCEPT ![m] = @ \ {a}]
  /\ UNCHANGED <<hub, link, home, commands, requests>>

(* A master's process ends and starts again: all it held is in memory.     *)
MasterRestart(m) ==
  LET own == {a \in Agents : WSMaster[a] = m} IN
  /\ known' = [known EXCEPT ![m] = {}]
  /\ hub' = hub \ own
  /\ link' = link \ own
  /\ pending' = pending \ TokensAt(m)
  /\ wire' = wire \ TokensAt(m)
  /\ response' = response \ TokensAt(m)
  /\ results' = [results EXCEPT ![m] = [i \in Ids |-> NoToken]]
  /\ pc' = [r \in Requests |->
              IF Origin[r] = m /\ pc[r] \notin {"idle"} \cup Returned
                THEN "aborted" ELSE pc[r]]
  /\ UNCHANGED <<home, running, execs, outcome, id, tried, wait, source>>

(* An agent's process ends and starts again.                               *)
AgentRestart(a) ==
  /\ link' = link \ {a}
  /\ wire' = wire \ TokensFor(a)
  /\ response' = response \ TokensFor(a)
  /\ running' = running \ TokensFor(a)
  /\ \E m \in Masters : home' = [home EXCEPT ![a] = m]
  /\ UNCHANGED <<known, hub, pending, execs, outcome, id, results, requests>>

-----------------------------------------------------------------------------
RequestStep(r) ==
  \/ ExecuteLocally(r)
  \/ ExecuteByPeer(r)
  \/ \E p \in Masters : ForwardCommand(r, p)
  \/ ForwardFails(r)
  \/ ExecuteFromWeb(r)
  \/ Reject(r)
  \/ SendFromAPI(r)
  \/ TakeResult(r)
  \/ TimeOut(r)
  \/ FallBackToSSH(r)

AgentStep(a) ==
  \/ Connect(a)
  \/ Disconnect(a)
  \/ HubDrop(a)
  \/ HTTPHeartbeat(a)
  \/ HeartbeatAnswered(a)
  \/ HeartbeatFails(a)
  \/ AgentRestart(a)

CommandStep(t) ==
  \/ ReceiveCommand(t)
  \/ FinishCommand(t)

MasterStep(m) ==
  \/ \E p \in Masters : LearnFromPeer(m, p)
  \/ \E a \in Agents : RemoveAgent(m, a)
  \/ \E S \in SUBSET pending, I \in SUBSET Stored(m) : CleanUp(m, S, I)
  \/ MasterRestart(m)

Next ==
  \/ \E r \in Requests : RequestStep(r)
  \/ \E S \in SUBSET Requests : ListAgents(S)
  \/ \E a \in Agents : AgentStep(a)
  \/ \E t \in Tokens : CommandStep(t)
  \/ \E m \in Masters : MasterStep(m)

Spec == Init /\ [][Next]_deliveryVars

(* A requester's goroutine goes on: its loop over the peers ends (the HTTP *)
(* client gives up after 10 s), its wait ends with the result or the       *)
(* context, the handler's loop ends.  The cleanup loop runs every minute.  *)
(* Networks, agents and ssh owe nothing.                                   *)
Fairness ==
  /\ \A r \in Requests :
       /\ WF_deliveryVars(ForwardFails(r) \/ \E p \in Masters : ForwardCommand(r, p))
       /\ WF_deliveryVars(TakeResult(r) \/ TimeOut(r))
       /\ WF_deliveryVars(SendFromAPI(r))
  /\ \A t \in Tokens :
       WF_deliveryVars(\E S \in SUBSET pending : t \in S /\ CleanUp(t[2], S, {}))

FairSpec == Spec /\ Fairness

-----------------------------------------------------------------------------
(* A command is executed at most once, over whichever mix of WebSocket,    *)
(* queue, heartbeat and reconnect it travels (HandleHeartbeat empties the  *)
(* queue in the step that hands it out; nothing puts a command back).      *)
AtMostOnce == \A t \in Tokens : execs[t] <= 1

(* The output a request returns is that of a command that has run to its   *)
(* end and bears the ID the request's own command was given on the master  *)
(* it waited at, whatever was stored, cleaned up, lost or sent again under *)
(* that ID.  The output is a foreign one only if the ID was given twice,   *)
(* as WSServer.SendCommand does within a millisecond (WaitCommandResult,   *)
(* PollPeerCommandResult, commandResults: commandID -> result).            *)
OutputHasItsId ==
  \A r \in Requests :
    pc[r] = "output" =>
      /\ execs[source[r]] > 0 /\ outcome[source[r]] # "none"
      /\ id[source[r]] # NoId /\ id[source[r]] = id[<<r, wait[r].at>>]

(* The channel as RemoteExecution promises it: a command is queued while   *)
(* it is on its way to the agent, lost if it left without being executed.  *)
Stage ==
  [t \in Tokens |->
     IF id[t] = NoId THEN "unsent"
     ELSE IF execs[t] > 0 THEN "executed"
     ELSE IF t \in pending \cup wire \cup response THEN "queued" ELSE "lost"]

Contract == INSTANCE RemoteExecution
  WITH Commands <- Tokens, Sender <- [t \in Tokens |-> t[1]], Labels <- Ids,
       NoLabel <- NoId, NoCommand <- NoToken, stage <- Stage, label <- id,
       output <- source

ContractHolds == Contract!Spec

(* The cluster's path ends: a request returns, with an output or an error, *)
(* or goes on to SSH, whatever the network, agents and masters do.  (There *)
(* it can stay, if ssh hangs.)                                             *)
EveryRequestLeaves ==
  \A r \in Requests : pc[r] # "idle" ~> HasLeft(r)

(* No command waits in a queue for ever, even if its agent is never heard  *)
(* from again (cleanupExpiredCommands).                                    *)
QueueIsEmptied == \A t \in Tokens : t \in pending ~> t \notin pending
=============================================================================
