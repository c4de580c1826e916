------------------------------- MODULE PeerSync -------------------------------
(***************************************************************************)
(* The agent tables of several masters and the goroutines that bring them  *)
(* together (internal/cluster/master_cluster.go): heartbeats of agents at  *)
(* whichever master they talk to, the WebSocket handlers that write to a   *)
(* record they looked up before, the health check, the operator's cleanup, *)
(* and the loop that fetches each peer's table and merges it.              *)
(*                                                                         *)
(* Time is the number of heartbeats so far: LastHeartbeat is that number   *)
(* when it was set (0, the zero time, for a record without one), and beats *)
(* up to `expired` are more than 60 s old.  The masters' clocks agree.     *)
(***************************************************************************)
EXTENDS Naturals

CONSTANTS
  Masters, Agents,
  Peers,      \* cfg.MasterCluster.Peers of each master
  NoRecord,   \* no entry in the map
  Nobody,     \* no peer, no agent
  Reported,   \* the statuses heartbeats carry
  MaxBeats    \* bounds the number of heartbeats

ASSUME PeerAssumption ==
  /\ Peers \in [Masters -> SUBSET Masters]
  /\ \A m \in Masters : m \notin Peers[m]
  /\ Reported \subseteq {"online", "offline", "autonomous"}
  /\ MaxBeats \in Nat
  /\ NoRecord \notin [status : {"online", "offline", "autonomous"}, beat : 0..MaxBeats]
  /\ Nobody \notin Masters /\ Nobody \notin Agents

VARIABLES
  agents,    \* MasterCluster.agents of each master
  seen,      \* the peers whose LastSeen is not the zero time
  sync,      \* where peerSyncLoop is: peers to go, the present one, its table
  writer,    \* a WebSocket handler between GetAgent and its writes
  clock,     \* number of heartbeats so far
  expired,   \* heartbeats more than 60 s old
  up         \* the masters whose process runs

peerVars == <<agents, seen, sync, writer, clock, expired, up>>

Statuses == {"online", "offline", "autonomous"}
Records == [status : Statuses, beat : 0..MaxBeats]
Tables == [Agents -> Records \cup {NoRecord}]
NoTable == [a \in Agents |-> NoRecord]

NoWriter == [agent |-> Nobody, mapped |-> FALSE]

(* The types of the masters' state.  A handler holds a record of an agent. *)
PeerTypeOK ==
  /\ agents \in [Masters -> Tables]
  /\ seen \in [Masters -> SUBSET Masters]
  /\ sync \in [Masters -> [at : {"post", "get", "merge"}, todo : SUBSET Masters,
                           peer : Masters \cup {Nobody}, table : Tables]]
  /\ writer \in [Masters -> [agent : Agents \cup {Nobody}, mapped : BOOLEAN]]
  /\ clock \in 0..MaxBeats /\ expired \in 0..MaxBeats
  /\ up \subseteq Masters

(* The loop of syncWithPeers goes on with the peers that are left; after   *)
(* them the next tick of peerSyncLoop copies the list of peers anew.       *)
NextPeer(m, todo) ==
  [at |-> "post", todo |-> IF todo = {} THEN Peers[m] ELSE todo,
   peer |-> Nobody, table |-> NoTable]

PeerInit ==
  /\ agents = [m \in Masters |-> NoTable]
  /\ seen = [m \in Masters |-> {}]
  /\ sync = [m \in Masters |-> NextPeer(m, {})]
  /\ writer = [m \in Masters |-> NoWriter]
  /\ clock = 0 /\ expired = 0
  /\ up = Masters

-----------------------------------------------------------------------------
Has(m, a) == agents[m][a] # NoRecord
Shows(m, a, s) == Has(m, a) /\ agents[m][a].status = s

(* The records of agents in as are taken out of m's map or replaced there: *)
(* a handler that has looked one up keeps the old one.                     *)
Unmap(m, as) ==
  writer' = [writer EXCEPT ![m].mapped = @ /\ writer[m].agent \notin as]

Beat == clock < MaxBeats /\ clock' = clock + 1

(* MasterCluster.HandleHeartbeat, called by handleHeartbeat of the agent   *)
(* API and by the WebSocket registration (with "online"): under the lock,  *)
(* in place if there is a record.                                          *)
HandleHeartbeat(m, a, s) ==
  /\ m \in up
  /\ Beat
  /\ agents' = [agents EXCEPT ![m][a] = [status |-> s, beat |-> clock']]
  /\ UNCHANGED <<seen, sync, writer, expired, up>>

(* handleEnvironment of the WebSocket server, of interest where            *)
(* MasterCluster.HandleAgentEnvironment has to make a record: "online",    *)
(* without a heartbeat.                                                    *)
HandleAgentEnvironment(m, a) ==
  /\ m \in up /\ ~Has(m, a)
  /\ agents' = [agents EXCEPT ![m][a] = [status |-> "online", beat |-> 0]]
  /\ UNCHANGED <<seen, sync, writer, clock, expired, up>>

(* handleHeartbeat and handleMetrics of the WebSocket server and the two   *)
(* hub callbacks: GetAgent returns the record, the lock is released (a     *)
(* bound: one handler at a time) ...                                       *)
LookUp(m, a) ==
  /\ m \in up /\ Has(m, a)
  /\ \A p \in Masters : writer[p] = NoWriter
  /\ writer' = [writer EXCEPT ![m] = [agent |-> a, mapped |-> TRUE]]
  /\ UNCHANGED <<agents, seen, sync, clock, expired, up>>

(* ... and then the record is written to, whether or not it is still the   *)
(* one in the map: heartbeat, metrics, connected, disconnected.            *)
Write(m) ==
  LET a == writer[m].agent
      Put(r) == agents' = IF writer[m].mapped THEN [agents EXCEPT ![m][a] = r] ELSE agents
  IN
  /\ m \in up /\ writer[m] # NoWriter
  /\ \/ \E s \in Reported : Beat /\ Put([status |-> s, beat |-> clock'])
     \/ Beat /\ Put([agents[m][a] EXCEPT !.beat = clock'])
     \/ \E s \in {"online", "offline"} :
          Put([agents[m][a] EXCEPT !.status = s]) /\ UNCHANGED clock
  /\ writer' = [writer EXCEPT ![m] = NoWriter]
  /\ UNCHANGED <<seen, sync, expired, up>>

-----------------------------------------------------------------------------
(* checkAgentHealth: what says "online" and has not been heard of for 60 s *)
(* is offline, whichever master it talked to.                              *)
TimedOut(m) == {a \in Agents : Shows(m, a, "online") /\ agents[m][a].beat <= expired}

(* Mutant of CheckAgentHealth: records of agents that were never heard of  *)
(* here or at a peer are passed over.                                      *)
CheckAgentHealthHeard(m) ==
  LET late == {a \in TimedOut(m) : agents[m][a].beat > 0} IN
  /\ m \in up /\ late # {}
  /\ agents' = [agents EXCEPT ![m] = [a \in Agents |->
                  IF a \in late THEN [@[a] EXCEPT !.status = "offline"] ELSE @[a]]]
  /\ UNCHANGED <<seen, sync, writer, clock, expired, up>>

CheckAgentHealth(m) ==
  /\ m \in up /\ TimedOut(m) # {}
  /\ agents' = [agents EXCEPT ![m] = [a \in Agents |->
                  IF a \in TimedOut(m) THEN [@[a] EXCEPT !.status = "offline"] ELSE @[a]]]
  /\ UNCHANGED <<seen, sync, writer, clock, expired, up>>

(* RemoveOfflineAgents, by handleCleanupOffline.                           *)
RemoveOfflineAgents(m) ==
  LET off == {a \in Agents : Shows(m, a, "offline")} IN
  /\ m \in up /\ off # {}
  /\ agents' = [agents EXCEPT ![m] = [a \in Agents |->
                  IF a \in off THEN NoRecord ELSE @[a]]]
  /\ Unmap(m, off)
  /\ UNCHANGED <<seen, sync, clock, expired, up>>

(* 60 s pass since the heartbeats up to the present.                       *)
TimePasses ==
  /\ expired < clock /\ expired' = clock
  /\ UNCHANGED <<agents, seen, sync, writer, clock, up>>

-----------------------------------------------------------------------------
(* syncWithPeer posts a heartbeat.  Any HTTP answer makes the peer seen:   *)
(* the 400 that handleMasterHeartbeat gives, as the request has no body,   *)
(* does, and so a peer is never added by it.                               *)
PostAnswered(m, p) ==
  /\ m \in up /\ sync[m].at = "post" /\ p \in sync[m].todo /\ p \in up
  /\ seen' = [seen EXCEPT ![m] = @ \cup {p}]
  /\ sync' = [sync EXCEPT ![m].at = "get", ![m].peer = p, ![m].todo = @ \ {p}]
  /\ UNCHANGED <<agents, writer, clock, expired, up>>

(* No answer: LastSeen becomes the zero time, the table is not fetched.    *)
PostFails(m, p) ==
  /\ m \in up /\ sync[m].at = "post" /\ p \in sync[m].todo
  /\ seen' = [seen EXCEPT ![m] = @ \ {p}]
  /\ sync' = [sync EXCEPT ![m] = NextPeer(m, sync[m].todo \ {p})]
  /\ UNCHANGED <<agents, writer, clock, expired, up>>

(* syncAgentsFromPeer: handleMasterAgents answers with ListAgents ...      *)
GetAnswered(m) ==
  /\ m \in up /\ sync[m].at = "get" /\ sync[m].peer \in up
  /\ sync' = [sync EXCEPT ![m].at = "merge", ![m].table = agents[sync[m].peer]]
  /\ UNCHANGED <<agents, seen, writer, clock, expired, up>>

GetFails(m) ==
  /\ m \in up /\ sync[m].at = "get"
  /\ sync' = [sync EXCEPT ![m] = NextPeer(m, sync[m].todo)]
  /\ UNCHANGED <<agents, seen, writer, clock, expired, up>>

(* Mutants of Newer: the peer's record always wins; records the master has *)
(* already are left alone.                                                 *)
NewerAlways(m, a) == sync[m].table[a] # NoRecord
NewerIfUnknown(m, a) == sync[m].table[a] # NoRecord /\ ~Has(m, a)

(* ... and the records that are new here, or newer, replace the map's.     *)
Newer(m, a) ==
  LET r == sync[m].table[a] IN
  r # NoRecord /\ (~Has(m, a) \/ r.beat > agents[m][a].beat)

Merge(m) ==
  LET new == {a \in Agents : Newer(m, a)} IN
  /\ m \in up /\ sync[m].at = "merge"
  /\ agents' = [agents EXCEPT ![m] = [a \in Agents |->
                  IF a \in new THEN sync[m].table[a] ELSE @[a]]]
  /\ Unmap(m, new)
  /\ sync' = [sync EXCEPT ![m] = NextPeer(m, sync[m].todo)]
  /\ UNCHANGED <<seen, clock, expired, up>>

-----------------------------------------------------------------------------
(* The process ends; everything is in memory.  Masters do not fail at the  *)
(* same time (a bound).                                                    *)
MasterStops(m) ==
  /\ up = Masters /\ up' = up \ {m}
  /\ agents' = [agents EXCEPT ![m] = NoTable]
  /\ seen' = [seen EXCEPT ![m] = {}]
  /\ sync' = [sync EXCEPT ![m] = NextPeer(m, {})]
  /\ writer' = [writer EXCEPT ![m] = NoWriter]
  /\ UNCHANGED <<clock, expired>>

(* systemd starts it again: NewMasterCluster, AddPeer for each configured  *)
(* peer, Start.                                                            *)
MasterStarts(m) ==
  /\ m \notin up /\ up' = up \cup {m}
  /\ UNCHANGED <<agents, seen, sync, writer, clock, expired>>

(* Something is heard of the agent at m.                                   *)
Contact(m, a) ==
  \/ \E s \in Reported : HandleHeartbeat(m, a, s)
  \/ HandleAgentEnvironment(m, a)
  \/ LookUp(m, a)

SyncStep(m) ==
  \/ GetAnswered(m) \/ GetFails(m) \/ Merge(m)
  \/ \E p \in Masters : PostAnswered(m, p) \/ PostFails(m, p)

PeerNext ==
  \/ TimePasses
  \/ \E m \in Masters :
       \/ \E a \in Agents : Contact(m, a)
       \/ Write(m) \/ CheckAgentHealth(m) \/ RemoveOfflineAgents(m)
       \/ SyncStep(m)
       \/ MasterStops(m) \/ MasterStarts(m)

PeerSpec == PeerInit /\ [][PeerNext]_peerVars

(* Tickers tick, goroutines go on, 60 s pass, systemd restarts.  A request *)
(* that can be answered again and again is answered at last.               *)
PeerFairness ==
  /\ WF_peerVars(TimePasses)
  /\ \A m \in Masters :
       /\ WF_peerVars(SyncStep(m))
       /\ WF_peerVars(CheckAgentHealth(m))
       /\ WF_peerVars(Write(m))
       /\ WF_peerVars(MasterStarts(m))
       /\ SF_peerVars(GetAnswered(m))
       /\ \A p \in Peers[m] : SF_peerVars(PostAnswered(m, p))

PeerFairSpec == PeerSpec /\ PeerFairness

-----------------------------------------------------------------------------
(* A record a master has is never replaced by one with an older heartbeat, *)
(* though the table of a peer is merged after it was fetched and handlers  *)
(* hold records that are no longer in the map (syncAgentsFromPeer).        *)
NewestHeartbeatKept ==
  [][\A m \in Masters, a \in Agents :
       Has(m, a) /\ agents'[m][a] # NoRecord => agents'[m][a].beat >= agents[m][a].beat]_peerVars

KnowsOf(m, p, a) == Has(p, a) => Has(m, a) /\ agents[m][a].beat >= agents[p][a].beat

(* What one master knows of an agent comes to be known at each master that *)
(* has it as a peer and counts as reachable for forwarded commands there,  *)
(* when both keep running: no lost request, no table that was fetched      *)
(* before and no cleanup keeps a record back for ever.                     *)
PeersCatchUp ==
  \A m \in Masters, p \in Masters, a \in Agents :
    p \in Peers[m] /\ <>[]({m, p} \subseteq up /\ Has(p, a)) =>
      []<>(p \in seen[m] /\ KnowsOf(m, p, a))

(* An agent that is not heard of at any master any more does not stay      *)
(* "online" at one: masters that give each other its record do not keep it *)
(* alive.  (A record that is cleaned up again and again, or lost with its  *)
(* master, may come back "online" from a table fetched before for ever.)   *)
GoneIsNotOnline ==
  <>[](up = Masters) /\ <>[][\A m \in Masters : ~RemoveOfflineAgents(m)]_peerVars =>
    \A m \in Masters, a \in Agents :
      []<>Shows(m, a, "online") => []<><<\E p \in Masters : Contact(p, a)>>_peerVars
=============================================================================
