---------------------------- MODULE AgentRegistry ----------------------------
(***************************************************************************)
(* The agent table of a master (MasterCluster.agents,                      *)
(* internal/cluster/master_cluster.go): what each operation does to an     *)
(* agent's record.                                                         *)
(*                                                                         *)
(* A record is its status and whether its LastHeartbeat is less than the   *)
(* 60 s of checkAgentHealth old; names, tags, metrics, the environment and *)
(* the message to the operator when a status changes are left out.         *)
(***************************************************************************)
EXTENDS Naturals

CONSTANTS
  Agents,
  NoRecord   \* no entry in the map

VARIABLE agents   \* MasterCluster.agents

Statuses == {"online", "offline", "autonomous"}
Records == [status : Statuses, fresh : BOOLEAN]

RegistryTypeOK == agents \in [Agents -> Records \cup {NoRecord}]

RegistryInit == agents = [a \in Agents |-> NoRecord]

-----------------------------------------------------------------------------
Exists(a) == agents[a] # NoRecord
Shows(a, s) == Exists(a) /\ agents[a].status = s

(* MasterCluster.HandleHeartbeat.                                          *)
HandleHeartbeat(a, s) ==
  agents' = [agents EXCEPT ![a] = [status |-> s, fresh |-> TRUE]]

(* Mutant of WSHeartbeat: the time is refreshed, the status is not.        *)
WSHeartbeatTimeOnly(a, s) ==
  agents' = IF Exists(a) THEN [agents EXCEPT ![a].fresh = TRUE] ELSE agents

(* WSServer.handleHeartbeat: an agent without a record stays without one.  *)
WSHeartbeat(a, s) ==
  agents' = IF Exists(a)
              THEN [agents EXCEPT ![a] = [status |-> s, fresh |-> TRUE]]
              ELSE agents

(* WSServer.handleMetrics.                                                 *)
WSMetrics(a) ==
  agents' = IF Exists(a) THEN [agents EXCEPT ![a].fresh = TRUE] ELSE agents

(* Mutant of HandleAgentEnvironment: the new record has no Status.         *)
EnvironmentWithoutStatus(a) ==
  agents' = IF Exists(a)
              THEN agents
              ELSE [agents EXCEPT ![a] = [status |-> "", fresh |-> FALSE]]

(* MasterCluster.HandleAgentEnvironment: a record it has to create has no  *)
(* heartbeat yet.                                                          *)
HandleAgentEnvironment(a) ==
  agents' = IF Exists(a)
              THEN agents
              ELSE [agents EXCEPT ![a] = [status |-> "online", fresh |-> FALSE]]

(* The hub callbacks NewWSServer sets: "online" on connect, "offline" on   *)
(* disconnect.  They do not touch LastHeartbeat.                           *)
SetStatus(a, s) ==
  agents' = IF Exists(a) THEN [agents EXCEPT ![a].status = s] ELSE agents

(* MasterCluster.checkAgentHealth: only "online" records time out.         *)
TimedOut == {a \in Agents : Shows(a, "online") /\ ~agents[a].fresh}

(* Mutant of CheckAgentHealth: it looks and changes nothing.               *)
CheckAgentHealthIdle == TimedOut # {} /\ UNCHANGED agents

CheckAgentHealth ==
  /\ TimedOut # {}
  /\ agents' = [a \in Agents |->
                  IF a \in TimedOut THEN [agents[a] EXCEPT !.status = "offline"]
                                    ELSE agents[a]]

(* MasterCluster.RemoveOfflineAgents.                                      *)
RemoveOfflineAgents ==
  /\ \E a \in Agents : Shows(a, "offline")
  /\ agents' = [a \in Agents |-> IF Shows(a, "offline") THEN NoRecord ELSE agents[a]]

(* 60 s pass without a heartbeat of the agent.                             *)
HeartbeatLapses(a) ==
  /\ Exists(a) /\ agents[a].fresh
  /\ agents' = [agents EXCEPT ![a].fresh = FALSE]

RegistryLost == agents' = [a \in Agents |-> NoRecord]
=============================================================================
