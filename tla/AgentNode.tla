------------------------------- MODULE AgentNode -------------------------------
(***************************************************************************)
(* The process on a managed server (internal/agent-node/agent.go): its     *)
(* heartbeats with the failover between masters, its rule engine           *)
(* (RuleEngine), and the events of fired rules on their way to a master.   *)
(*                                                                         *)
(* Goroutines: heartbeatLoop, ruleEngineLoop, eventCollectorLoop, one      *)
(* reportEvents for every event collected, and whoever applies a           *)
(* configuration update.  They share Agent.mu, which tryFailover holds     *)
(* while it probes the masters one by one; as it runs in the goroutine of  *)
(* the heartbeat only, "the heartbeat is probing" says the lock is taken.  *)
(* Every other critical section is one action.                             *)
(*                                                                         *)
(* Commands of a heartbeat's answer are in CommandDelivery; what           *)
(* wsClient.IsConnected() answers is a free choice.  A request to a master *)
(* that does not answer fails (Client.Timeout is 30 s); the master may     *)
(* have handled it before the answer was lost.                             *)
(***************************************************************************)
EXTENDS RuleEngine

CONSTANTS
  NumMasters,    \* length of AgentConfig.Masters
  Priority,      \* MasterNode.Priority
  ConfigActive,  \* the masters with is_active in the configuration file
  Keep,          \* events pendingEvents is cut down to, 1000 in the code
  Reporters      \* names of reportEvents goroutines

Masters == 1..NumMasters
NoMaster == 0

ASSUME AgentAssumption ==
  /\ NumMasters \in Nat \ {0}
  /\ Priority \in [Masters -> Nat]
  /\ ConfigActive \subseteq Masters
  /\ Keep \in Nat \ {0}

VARIABLES
  up,             \* masters that answer requests
  activeMaster,   \* Agent.activeMaster
  isActive,       \* MasterNode.IsActive of config.Masters
  status,         \* Agent.status
  beat,           \* where heartbeatLoop is: the master it posts to, or the
                  \* masters tryFailover has still to probe
  pendingEvents,  \* Agent.pendingEvents
  report          \* each reportEvents: its master and the events it took

masterVars == <<activeMaster, isActive, status, beat>>
eventVars == <<pendingEvents, report>>
agentVars == <<engineVars, up, masterVars, eventVars>>

Waiting == [at |-> "waiting", master |-> NoMaster, left |-> {}]
NoReport == [at |-> "none", master |-> NoMaster, batch |-> <<>>]

AgentTypeOK ==
  /\ EngineTypeOK
  /\ up \subseteq Masters
  /\ activeMaster \in Masters \cup {NoMaster}
  /\ isActive \in [Masters -> BOOLEAN]
  /\ status \in {"online", "offline", "autonomous"}
  /\ beat \in [at : {"waiting", "posting", "probing"},
               master : Masters \cup {NoMaster}, left : SUBSET Masters]
  /\ pendingEvents \in Seq(Events)
  /\ report \in [Reporters -> [at : {"none", "started", "addressed", "posting"},
                               master : Masters \cup {NoMaster}, batch : Seq(Events)]]

AgentInit ==
  /\ EngineInit
  /\ up = Masters
  /\ activeMaster = NoMaster
  /\ isActive = [m \in Masters |-> m \in ConfigActive]
  /\ status = "offline"
  /\ beat = Waiting
  /\ pendingEvents = <<>>
  /\ report = [g \in Reporters |-> NoReport]

-----------------------------------------------------------------------------
First(S) == CHOOSE m \in S : \A n \in S : m <= n

(* AgentConfig.GetActiveMaster: the first one marked active, or else the   *)
(* first of the highest priority.                                          *)
ConfigMaster ==
  LET active == {m \in Masters : isActive[m]}
      best == {m \in Masters : \A n \in Masters : Priority[n] <= Priority[m]}
  IN  IF active # {} THEN First(active) ELSE First(best)

(* Agent.getActiveMaster; never nil, as at least one master is configured. *)
ActiveMaster == IF activeMaster # NoMaster THEN activeMaster ELSE ConfigMaster

LockFree == beat.at # "probing"

InSeq(e, s) == \E i \in 1..Len(s) : s[i] = e

Distinct(s) == \A i, j \in 1..Len(s) : s[i] = s[j] => i = j

Apart(s, t) == \A i \in 1..Len(s) : ~InSeq(s[i], t)

(* The agent has taken e from the channel and still has it.                *)
Held(e) ==
  \/ InSeq(e, pendingEvents)
  \/ \E g \in Reporters : InSeq(e, report[g].batch)

(* The last Keep elements of s.                                            *)
Newest(s) ==
  IF Len(s) > Keep THEN SubSeq(s, Len(s) - Keep + 1, Len(s)) ELSE s

-----------------------------------------------------------------------------
(* sendHeartbeat over the WebSocket: Send puts the message on a channel    *)
(* and reports no error while the process runs, full channel or not.       *)
WSHeartbeat ==
  /\ beat.at = "waiting"
  /\ status' = "online"
  /\ UNCHANGED <<engineVars, up, activeMaster, isActive, beat, eventVars>>

(* sendHeartbeat without WebSocket: a POST to the active master.           *)
PostHeartbeat ==
  /\ beat.at = "waiting"
  /\ beat' = [beat EXCEPT !.at = "posting", !.master = ActiveMaster]
  /\ UNCHANGED <<engineVars, up, activeMaster, isActive, status, eventVars>>

HeartbeatAnswered ==
  /\ beat.at = "posting" /\ beat.master \in up
  /\ status' = "online"
  /\ beat' = Waiting
  /\ UNCHANGED <<engineVars, up, activeMaster, isActive, eventVars>>

(* Mutant of HeartbeatFails: the failed master is probed like the others.  *)
HeartbeatFailsToAny ==
  /\ beat.at = "posting" /\ beat.master \notin up
  /\ isActive' = [m \in Masters |-> isActive[m] /\ m # activeMaster]
  /\ beat' = [at |-> "probing", master |-> NoMaster, left |-> Masters]
  /\ UNCHANGED <<engineVars, up, activeMaster, status, eventVars>>

(* doHeartbeat fails; tryFailover takes the lock, marks the active master  *)
(* and will probe all masters but that one.                                *)
HeartbeatFails ==
  /\ beat.at = "posting" /\ beat.master \notin up
  /\ isActive' = [m \in Masters |-> isActive[m] /\ m # activeMaster]
  /\ beat' = [at |-> "probing", master |-> NoMaster, left |-> Masters \ {activeMaster}]
  /\ UNCHANGED <<engineVars, up, activeMaster, status, eventVars>>

(* The next probe, GET /api/health, succeeds: that master is the active    *)
(* one; the status stays what it was until the next heartbeat.             *)
ProbeAnswered ==
  /\ beat.at = "probing" /\ beat.left # {}
  /\ LET m == First(beat.left)
     IN  /\ m \in up
         /\ activeMaster' = m
         /\ isActive' = [isActive EXCEPT ![m] = TRUE]
  /\ beat' = Waiting
  /\ UNCHANGED <<engineVars, up, status, eventVars>>

ProbeFails ==
  /\ beat.at = "probing" /\ beat.left # {}
  /\ First(beat.left) \notin up
  /\ beat' = [beat EXCEPT !.left = @ \ {First(beat.left)}]
  /\ UNCHANGED <<engineVars, up, activeMaster, isActive, status, eventVars>>

(* No master is left to probe: the agent is on its own.                    *)
GoAutonomous ==
  /\ beat.at = "probing" /\ beat.left = {}
  /\ activeMaster' = NoMaster
  /\ status' = "autonomous"
  /\ beat' = Waiting
  /\ UNCHANGED <<engineVars, up, isActive, eventVars>>

HeartbeatStep ==
  \/ WSHeartbeat \/ PostHeartbeat \/ HeartbeatAnswered \/ HeartbeatFails
  \/ ProbeAnswered \/ ProbeFails \/ GoAutonomous

-----------------------------------------------------------------------------
(* The rule engine at work; its steps need Agent.mu for nothing.           *)
Evaluate ==
  /\ EngineStep
  /\ UNCHANGED <<up, masterVars, eventVars>>

(* An action of a rule ends and makes an event, a new object.              *)
MakeEvent(e) ==
  /\ ~Held(e) /\ ~InSeq(e, eventChan)
  /\ EndAction(e)
  /\ UNCHANGED <<up, masterVars, pendingEvents, report>>

(* applyConfigUpdate, with at least one rule in the update; R are the      *)
(* enabled ones.                                                           *)
ApplyConfigUpdate(R) ==
  /\ SetRules(R)
  /\ UNCHANGED <<up, masterVars, eventVars>>

-----------------------------------------------------------------------------
(* eventCollectorLoop: the event joins pendingEvents, which is cut to its  *)
(* newest Keep, and a reportEvents is started.                             *)
CollectEvent(g) ==
  /\ eventChan # <<>> /\ LockFree
  /\ report[g].at = "none"
  /\ eventChan' = Tail(eventChan)
  /\ pendingEvents' = Newest(Append(pendingEvents, Head(eventChan)))
  /\ report' = [report EXCEPT ![g].at = "started"]
  /\ UNCHANGED <<installed, cooling, engine, up,
                 masterVars>>

(* Mutant of AddressReport: Agent.activeMaster instead of getActiveMaster. *)
AddressReportToField(g) ==
  /\ report[g].at = "started" /\ LockFree
  /\ report' = [report EXCEPT ![g] =
       IF activeMaster = NoMaster THEN NoReport
       ELSE [@ EXCEPT !.at = "addressed", !.master = activeMaster]]
  /\ UNCHANGED <<engineVars, up, masterVars, pendingEvents>>

(* reportEvents reads the active master under the lock...                  *)
AddressReport(g) ==
  /\ report[g].at = "started" /\ LockFree
  /\ report' = [report EXCEPT ![g].at = "addressed", ![g].master = ActiveMaster]
  /\ UNCHANGED <<engineVars, up, masterVars, pendingEvents>>

(* Mutant of TakeBatch: pendingEvents is not emptied.                      *)
TakeBatchCopy(g) ==
  /\ report[g].at = "addressed" /\ LockFree
  /\ report' = [report EXCEPT ![g] =
       IF pendingEvents = <<>> THEN NoReport
       ELSE [@ EXCEPT !.at = "posting", !.batch = pendingEvents]]
  /\ UNCHANGED <<engineVars, up, masterVars, pendingEvents>>

(* ... and, under it again, takes all pending events, or returns if there  *)
(* are none.                                                               *)
TakeBatch(g) ==
  /\ report[g].at = "addressed" /\ LockFree
  /\ report' = [report EXCEPT ![g] =
       IF pendingEvents = <<>> THEN NoReport
       ELSE [@ EXCEPT !.at = "posting", !.batch = pendingEvents]]
  /\ pendingEvents' = <<>>
  /\ UNCHANGED <<engineVars, up, masterVars>>

(* The POST is answered, whatever the HTTP status.                         *)
ReportAnswered(g) ==
  /\ report[g].at = "posting" /\ report[g].master \in up
  /\ report' = [report EXCEPT ![g] = NoReport]
  /\ UNCHANGED <<engineVars, up, masterVars, pendingEvents>>

(* Mutant of ReportFails: what was collected meanwhile is overwritten.     *)
ReportFailsOverwrites(g) ==
  /\ report[g].at = "posting" /\ report[g].master \notin up /\ LockFree
  /\ pendingEvents' = report[g].batch
  /\ report' = [report EXCEPT ![g] = NoReport]
  /\ UNCHANGED <<engineVars, up, masterVars>>

(* The POST fails, before or after the master handled it: the batch goes   *)
(* back in front of what was collected meanwhile.  (An address no request  *)
(* can be made for, with which the batch would be dropped, is left out.)   *)
ReportFails(g) ==
  /\ report[g].at = "posting" /\ report[g].master \notin up /\ LockFree
  /\ pendingEvents' = report[g].batch \o pendingEvents
  /\ report' = [report EXCEPT ![g] = NoReport]
  /\ UNCHANGED <<engineVars, up, masterVars>>

ReportStep(g) ==
  AddressReport(g) \/ TakeBatch(g) \/ ReportAnswered(g) \/ ReportFails(g)

-----------------------------------------------------------------------------
(* A master goes or comes back.                                            *)
Network ==
  /\ \E m \in Masters : up' \in {up \cup {m}, up \ {m}}
  /\ UNCHANGED <<engineVars, masterVars, eventVars>>

TimePasses(r) ==
  /\ CooldownEnds(r)
  /\ UNCHANGED <<up, masterVars, eventVars>>

(* The process stops or crashes, and systemd starts it again; everything   *)
(* it kept is gone.                                                        *)
Restart ==
  /\ EngineRestart
  /\ activeMaster' = NoMaster
  /\ isActive' = [m \in Masters |-> m \in ConfigActive]
  /\ status' = "offline"
  /\ beat' = Waiting
  /\ pendingEvents' = <<>>
  /\ report' = [g \in Reporters |-> NoReport]
  /\ UNCHANGED <<up>>

AgentNext ==
  \/ HeartbeatStep
  \/ Evaluate
  \/ \E e \in Events : MakeEvent(e)
  \/ \E R \in SUBSET Rules : ApplyConfigUpdate(R)
  \/ \E g \in Reporters : CollectEvent(g) \/ ReportStep(g)
  \/ \E r \in Rules : TimePasses(r)
  \/ Network
  \/ Restart

AgentSpec == AgentInit /\ [][AgentNext]_agentVars

(* Goroutines that can go on do; requests to a master that does not answer *)
(* end with their timeout.  Rules, the network and updates owe nothing.    *)
AgentFairness ==
  /\ WF_agentVars(HeartbeatStep)
  /\ WF_agentVars(\E g \in Reporters : CollectEvent(g))
  /\ \A g \in Reporters : WF_agentVars(ReportStep(g))

AgentFairSpec == AgentSpec /\ AgentFairness

-----------------------------------------------------------------------------
(* e is in a report that can be answered, or an event is taken from the    *)
(* channel while Keep are waiting.                                         *)
MayLeave(e) ==
  \/ \E g \in Reporters : /\ report[g].at = "posting" /\ InSeq(e, report[g].batch)
                          /\ report[g].master \in up
  \/ Len(pendingEvents) >= Keep /\ eventChan' # eventChan

(* An event the agent has taken from the channel is not lost while the     *)
(* process lives, however reports, failures and new events interleave: it  *)
(* leaves only in a report that is answered, or when a new one comes and   *)
(* Keep are waiting (reportEvents' put-back, agent.go:527).                *)
EventsKept ==
  [][Restart \/ \A e \in Events : Held(e) => Held(e)' \/ MayLeave(e)]_agentVars

(* No two goroutines hold the same event, and none is queued twice: a      *)
(* master gets an event again only after a lost answer.                    *)
EventInOnePlace ==
  /\ Distinct(eventChan) /\ Distinct(pendingEvents) /\ Apart(eventChan, pendingEvents)
  /\ \A g \in Reporters :
       /\ Distinct(report[g].batch)
       /\ Apart(eventChan, report[g].batch) /\ Apart(pendingEvents, report[g].batch)
       /\ \A h \in Reporters \ {g} : Apart(report[g].batch, report[h].batch)

(* The agent finds the master that works: as long as one stays reachable   *)
(* it is online again and again, whatever the others do, unless its        *)
(* process is restarted for ever (tryFailover).                            *)
FailsOver ==
  (\E m \in Masters : <>[](m \in up)) /\ <>[][~Restart]_agentVars =>
    []<>(status = "online")

(* With all masters reachable and further events coming, reports get       *)
(* through: the backlog is emptied again and again, and no batch stays     *)
(* with its reportEvents.                                                  *)
EventsReported ==
  <>[](up = Masters) /\ []<>(\E g \in Reporters : report[g].at = "started") =>
    /\ []<>(pendingEvents = <<>>)
    /\ \A g \in Reporters : []<>(report[g].batch = <<>>)
=============================================================================
