------------------------------- MODULE WSServer -------------------------------
(***************************************************************************)
(* A master's WebSocket server with its agent table: the hub (WSHub) and   *)
(* the records (AgentRegistry), joined the way internal/cluster/           *)
(* ws_server.go joins them, and the part of an agent that decides what its *)
(* heartbeats say (Agent.status in internal/agent-node/agent.go).          *)
(*                                                                         *)
(* The hub's callbacks run in goroutines of their own, in any order, after *)
(* the step of Run that started them.  A heartbeat is read in the step     *)
(* that sends it.  The callers of SendToAgent are left to WSHub.           *)
(***************************************************************************)
EXTENDS WSHub

CONSTANT NoRecord

VARIABLES
  agents,  \* the registry's
  mood     \* Agent.status of the agent's process

INSTANCE AgentRegistry

serverVars == <<hubVars, agents, mood>>

ServerTypeOK ==
  /\ HubTypeOK
  /\ RegistryTypeOK
  /\ mood \in [Agents -> Statuses]

ServerInit ==
  /\ HubInit
  /\ RegistryInit
  /\ mood = [a \in Agents |-> "offline"]

-----------------------------------------------------------------------------
(* The agent's messages reach the master: its connection is mapped, it is  *)
(* read, and the link works.                                               *)
Readable(c) == reader[c] = "reading" /\ link[c] /\ ~closed[c]
Connected(a) == \E c \in Conns : Owner[c] = a /\ Readable(c) /\ Mapped(c)

(* The agent's process sees no working connection.                         *)
LinkDown(a) ==
  \A c \in Conns : Owner[c] = a /\ handler[c] # "none" => ~link[c] \/ closed[c]

Quiet == UNCHANGED <<agents, mood>>

(* The steps of the hub that say nothing about the agents' records.        *)
HubAlone ==
  /\ \/ \E c \in Conns :
          \/ Accept(c) /\ LinkDown(Owner[c])
          \/ TakeAck(c) \/ PutAck(c) \/ PutReply(c) \/ ReadError(c)
          \/ WriteMessage(c) \/ WriteError(c) \/ LinkBreak(c)
     \/ HubRegister
     \/ HubUnregister
     \/ HubBroadcast
  /\ Quiet

(* HandleConnection after hub.Register.                                    *)
Register(c) ==
  /\ Announce(c)
  /\ HandleHeartbeat(Owner[c], "online")
  /\ UNCHANGED mood

(* Agent.sendHeartbeat over the WebSocket: the status of the process       *)
(* before this heartbeat, which then becomes "online".                     *)
Heartbeat(c) ==
  /\ ReadHeartbeat(c)
  /\ WSHeartbeat(Owner[c], mood[Owner[c]])
  /\ mood' = [mood EXCEPT ![Owner[c]] = "online"]

Metrics(c) ==
  /\ ~panicked /\ Readable(c) /\ sending[c] = NoConn
  /\ WSMetrics(Owner[c])
  /\ UNCHANGED <<hubVars, mood>>

(* Agent.reportEnvironment, on its own after a start or when asked to.     *)
Environment(c) ==
  /\ ~panicked /\ Readable(c) /\ sending[c] = NoConn
  /\ HandleAgentEnvironment(Owner[c])
  /\ UNCHANGED <<hubVars, mood>>

(* The onConnect and onDisconnect goroutines.                              *)
OnConnect(c) ==
  /\ RunCallback("connect", c)
  /\ SetStatus(Owner[c], "online")
  /\ UNCHANGED mood

OnDisconnect(c) ==
  /\ RunCallback("disconnect", c)
  /\ SetStatus(Owner[c], "offline")
  /\ UNCHANGED mood

-----------------------------------------------------------------------------
(* Agent.sendHeartbeat over HTTP, when the process has no connection.      *)
HTTPHeartbeat(a) ==
  /\ ~panicked /\ LinkDown(a)
  /\ HandleHeartbeat(a, mood[a])
  /\ mood' = [mood EXCEPT ![a] = "online"]
  /\ UNCHANGED hubVars

(* The heartbeat fails and no master answers (tryFailover).                *)
GoAutonomous(a) ==
  /\ LinkDown(a) /\ mood[a] # "autonomous"
  /\ mood' = [mood EXCEPT ![a] = "autonomous"]
  /\ UNCHANGED <<hubVars, agents>>

AgentRestart(a) ==
  /\ LinkDown(a) /\ mood[a] # "offline"
  /\ mood' = [mood EXCEPT ![a] = "offline"]
  /\ UNCHANGED <<hubVars, agents>>

(* Heartbeats come every 10 s over a connection that is read.              *)
Silence(a) ==
  /\ ~panicked
  /\ \A c \in Conns : Owner[c] = a => ~Readable(c)
  /\ HeartbeatLapses(a)
  /\ UNCHANGED <<hubVars, mood>>

HealthCheck == ~panicked /\ CheckAgentHealth /\ UNCHANGED <<hubVars, mood>>

Cleanup == ~panicked /\ RemoveOfflineAgents /\ UNCHANGED <<hubVars, mood>>

ServerRestart == Restart /\ RegistryLost /\ UNCHANGED mood

ServerNext ==
  \/ HubAlone
  \/ \E c \in Conns :
       \/ Register(c)
       \/ Heartbeat(c)
       \/ Metrics(c)
       \/ Environment(c)
       \/ OnConnect(c)
       \/ OnDisconnect(c)
  \/ \E a \in Agents :
       \/ HTTPHeartbeat(a)
       \/ GoAutonomous(a)
       \/ AgentRestart(a)
       \/ Silence(a)
  \/ HealthCheck
  \/ Cleanup
  \/ ServerRestart

ServerSpec == ServerInit /\ [][ServerNext]_serverVars

(* The hub's fairness, the health check's ticker, the heartbeats of an     *)
(* agent that stays connected (the acknowledgement of one is written       *)
(* before the next) and the passing of time without them.                  *)
ServerFairness ==
  /\ WF_serverVars(HubRegister /\ Quiet)
  /\ WF_serverVars(HubUnregister /\ Quiet)
  /\ WF_serverVars(HealthCheck)
  /\ WF_serverVars(ServerRestart)
  /\ \A a \in Agents : WF_serverVars(Silence(a))
  /\ \A c \in Conns :
       /\ WF_serverVars(Register(c))
       /\ WF_serverVars((TakeAck(c) \/ PutAck(c)) /\ Quiet)
       /\ WF_serverVars(PutReply(c) /\ Quiet)
       /\ WF_serverVars(ReadError(c) /\ Quiet)
       /\ WF_serverVars(WriteError(c) /\ Quiet)
       /\ SF_serverVars(Heartbeat(c))
       /\ WF_serverVars(OnConnect(c))
       /\ WF_serverVars(OnDisconnect(c))

ServerFairSpec == ServerSpec /\ ServerFairness

-----------------------------------------------------------------------------
(* An agent that is shown "online" again and again is really there again   *)
(* and again: it is connected or it heartbeats over HTTP.  A dead agent    *)
(* does not stay "online", whichever stale callback of the hub runs last   *)
(* (checkAgentHealth, and the callbacks NewWSServer sets).                 *)
OnlineIsAlive ==
  \A a \in Agents :
    []<>Shows(a, "online") =>
      \/ []<>(\E c \in Conns : Owner[c] = a /\ handler[c] # "none" /\ link[c] /\ ~closed[c])
      \/ []<><<HTTPHeartbeat(a)>>_serverVars

(* A connection that holds makes the agent's record right in the end: no   *)
(* late disconnect of an earlier connection and no heartbeat that says     *)
(* "offline" keeps a connected agent from being shown "online", if it has  *)
(* a record at all and the operator stops cleaning up.                     *)
ConnectedHeals ==
  \A a \in Agents : \A c \in Conns :
    <>[](Readable(c) /\ Mapped(c) /\ Owner[c] = a)
      => []<><<Cleanup>>_serverVars \/ <>[](Exists(a) => Shows(a, "online"))
=============================================================================
