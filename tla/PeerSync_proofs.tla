---------------------------- MODULE PeerSync_proofs ----------------------------
(***************************************************************************)
(* Proofs about the agent tables of the masters, for any number of masters *)
(* and agents and any configuration of peers.                              *)
(*                                                                         *)
(* A record that is written gets the time of the write, which is the       *)
(* newest there is only if no master has a time from the future: neither   *)
(* in its table nor in one it has fetched (Past).  And a handler that      *)
(* takes its record for the one in the map must find one there             *)
(* (MappedIsThere), or its write would make a record without a status.     *)
(***************************************************************************)
EXTENDS PeerSync, TLAPS

(* No heartbeat of table t is newer than c.                                *)
Past(t, c) == \A a \in Agents : t[a] # NoRecord => t[a].beat <= c

BeatsArePast ==
  \A m \in Masters : Past(agents[m], clock) /\ Past(sync[m].table, clock)

MappedIsThere ==
  \A m \in Masters : writer[m].mapped => writer[m].agent \in Agents /\ Has(m, writer[m].agent)

PeerInv == PeerTypeOK /\ BeatsArePast /\ MappedIsThere

(* What NewestHeartbeatKept says of a step.                                *)
KeepsNewest ==
  \A m \in Masters, a \in Agents :
    Has(m, a) /\ agents'[m][a] # NoRecord => agents'[m][a].beat >= agents[m][a].beat

Place == [at : {"post", "get", "merge"}, todo : SUBSET Masters,
          peer : Masters \cup {Nobody}, table : Tables]

-----------------------------------------------------------------------------
LEMMA RecordIsRecord ==
  ASSUME NEW r \in Records
  PROVE  r # NoRecord /\ r.beat \in Nat /\ r.status \in Statuses
BY PeerAssumption DEF Records, Statuses

LEMMA NoTableTyped == NoTable \in Tables /\ \A c \in Nat : Past(NoTable, c)
BY DEF NoTable, Tables, Past

LEMMA NextPeerTyped ==
  ASSUME NEW m \in Masters, NEW todo \in SUBSET Masters
  PROVE  NextPeer(m, todo) \in Place /\ NextPeer(m, todo).table = NoTable
BY PeerAssumption, NoTableTyped DEF NextPeer, Place

(* One master's table becomes t.                                           *)
LEMMA TableStep ==
  ASSUME PeerInv, NEW m \in Masters, NEW t \in Tables,
         agents' = [agents EXCEPT ![m] = t],
         clock' \in 0..MaxBeats, clock' >= clock, Past(t, clock'),
         \A a \in Agents : Has(m, a) /\ t[a] # NoRecord => t[a].beat >= agents[m][a].beat
  PROVE  /\ agents' \in [Masters -> Tables]
         /\ \A n \in Masters : Past(agents'[n], clock')
         /\ KeepsNewest
<1>1. /\ agents \in [Masters -> Tables] /\ clock \in Nat /\ clock' \in Nat
      /\ \A n \in Masters : Past(agents[n], clock)
  BY PeerAssumption DEF PeerInv, PeerTypeOK, BeatsArePast
<1>2. agents' \in [Masters -> Tables]
  BY <1>1
<1>3. agents'[m] = t /\ \A n \in Masters \ {m} : agents'[n] = agents[n]
  BY <1>1
<1>4. ASSUME NEW n \in Masters, NEW a \in Agents, agents[n][a] # NoRecord
      PROVE  agents[n][a].beat \in Nat
  BY <1>1, <1>4, RecordIsRecord DEF Tables
<1>5. \A n \in Masters : Past(agents[n], clock')
  BY <1>1, <1>4 DEF Past
<1>6. \A n \in Masters : Past(agents'[n], clock')
  BY <1>3, <1>5
<1>7. KeepsNewest
  BY <1>3, <1>4 DEF KeepsNewest, Has
<1> QED
  BY <1>2, <1>6, <1>7

(* The tables stay as they are.                                            *)
LEMMA TablesStay ==
  ASSUME PeerInv, UNCHANGED agents, clock' \in 0..MaxBeats, clock' >= clock
  PROVE  /\ agents' \in [Masters -> Tables]
         /\ \A n \in Masters : Past(agents'[n], clock')
         /\ KeepsNewest
<1>1. /\ agents \in [Masters -> Tables] /\ clock \in Nat /\ clock' \in Nat
      /\ \A n \in Masters : Past(agents[n], clock)
  BY PeerAssumption DEF PeerInv, PeerTypeOK, BeatsArePast
<1>2. ASSUME NEW n \in Masters, NEW a \in Agents, agents[n][a] # NoRecord
      PROVE  agents[n][a].beat \in Nat
  BY <1>1, <1>2, RecordIsRecord DEF Tables
<1> QED
  BY <1>1, <1>2 DEF Past, KeepsNewest, Has

(* The loop of master m is elsewhere, with a table that is not newer.      *)
LEMMA SyncTyped ==
  ASSUME PeerInv, NEW m \in Masters, NEW p \in Place,
         sync' = [sync EXCEPT ![m] = p], UNCHANGED clock, Past(p.table, clock)
  PROVE  /\ sync' \in [Masters -> Place]
         /\ \A n \in Masters : Past(sync'[n].table, clock')
<1>1. sync \in [Masters -> Place] /\ \A n \in Masters : Past(sync[n].table, clock)
  BY DEF PeerInv, PeerTypeOK, BeatsArePast, Place
<1> QED
  BY <1>1

(* The loops stay where they are while time goes on.                       *)
LEMMA SyncStays ==
  ASSUME PeerInv, UNCHANGED sync, clock' \in 0..MaxBeats, clock' >= clock
  PROVE  /\ sync' \in [Masters -> Place]
         /\ \A n \in Masters : Past(sync'[n].table, clock')
<1>1. /\ sync \in [Masters -> Place] /\ clock \in Nat /\ clock' \in Nat
      /\ \A n \in Masters : Past(sync[n].table, clock)
  BY PeerAssumption DEF PeerInv, PeerTypeOK, BeatsArePast, Place
<1>2. ASSUME NEW n \in Masters, NEW a \in Agents, sync[n].table[a] # NoRecord
      PROVE  sync[n].table[a].beat \in Nat
  <2>1. sync[n].table \in Tables
    BY <1>1 DEF Place
  <2> QED
    BY <2>1, <1>2, RecordIsRecord DEF Tables
<1> QED
  BY <1>1, <1>2 DEF Past

LEMMA Together ==
  ASSUME agents' \in [Masters -> Tables], sync' \in [Masters -> Place],
         \A n \in Masters : Past(agents'[n], clock'),
         \A n \in Masters : Past(sync'[n].table, clock'),
         seen' \in [Masters -> SUBSET Masters],
         writer' \in [Masters -> [agent : Agents \cup {Nobody}, mapped : BOOLEAN]],
         clock' \in 0..MaxBeats, expired' \in 0..MaxBeats, up' \subseteq Masters,
         MappedIsThere'
  PROVE  PeerInv'
BY DEF PeerInv, PeerTypeOK, BeatsArePast, Past, Place

Handlers == [Masters -> [agent : Agents \cup {Nobody}, mapped : BOOLEAN]]

(* Handlers go on with their records, none of which leaves its map.        *)
LEMMA HandlersStay ==
  ASSUME PeerInv, UNCHANGED writer,
         \A n \in Masters, a \in Agents : Has(n, a) => Has(n, a)'
  PROVE  writer' \in Handlers /\ MappedIsThere'
BY DEF PeerInv, PeerTypeOK, MappedIsThere, Handlers

(* The records that leave the map, or are replaced there, are unmapped.    *)
LEMMA HandlersLose ==
  ASSUME PeerInv, NEW m \in Masters, NEW as, Unmap(m, as),
         \A n \in Masters, a \in Agents :
           Has(n, a) /\ ~(n = m /\ a \in as) => Has(n, a)'
  PROVE  writer' \in Handlers /\ MappedIsThere'
<1>1. writer \in Handlers /\ MappedIsThere
  BY DEF PeerInv, PeerTypeOK, Handlers
<1>2. writer' \in Handlers
  BY <1>1 DEF Unmap, Handlers
<1>3. ASSUME NEW n \in Masters, writer'[n].mapped
      PROVE  writer'[n].agent \in Agents /\ agents'[n][writer'[n].agent] # NoRecord
  <2>1. writer'[n].agent = writer[n].agent /\ writer[n].mapped
    BY <1>1, <1>3 DEF Unmap, Handlers
  <2>2. n = m => writer[n].agent \notin as
    BY <1>1, <1>3 DEF Unmap, Handlers
  <2>3. writer[n].agent \in Agents /\ Has(n, writer[n].agent)
    BY <1>1, <2>1 DEF MappedIsThere
  <2> QED
    BY <2>1, <2>2, <2>3 DEF Has
<1> QED
  BY <1>2, <1>3 DEF MappedIsThere, Has

(* One handler starts or ends.                                             *)
LEMMA HandlerBecomes ==
  ASSUME PeerInv, NEW m \in Masters,
         NEW w \in [agent : Agents \cup {Nobody}, mapped : BOOLEAN],
         writer' = [writer EXCEPT ![m] = w],
         w.mapped => w.agent \in Agents /\ Has(m, w.agent)',
         \A n \in Masters, a \in Agents : n # m /\ Has(n, a) => Has(n, a)'
  PROVE  writer' \in Handlers /\ MappedIsThere'
<1>1. writer \in Handlers /\ MappedIsThere
  BY DEF PeerInv, PeerTypeOK, Handlers
<1>2. writer' \in Handlers
  BY <1>1 DEF Handlers
<1>3. writer'[m] = w /\ \A n \in Masters \ {m} : writer'[n] = writer[n]
  BY <1>1 DEF Handlers
<1> QED
  BY <1>1, <1>2, <1>3 DEF MappedIsThere

-----------------------------------------------------------------------------
LEMMA InvTyped ==
  ASSUME PeerInv
  PROVE  /\ agents \in [Masters -> Tables] /\ sync \in [Masters -> Place]
         /\ seen \in [Masters -> SUBSET Masters] /\ writer \in Handlers
         /\ clock \in 0..MaxBeats /\ expired \in 0..MaxBeats /\ up \subseteq Masters
         /\ MaxBeats \in Nat
         /\ \A m \in Masters, a \in Agents :
              Has(m, a) => agents[m][a] \in Records /\ agents[m][a].beat <= clock
BY PeerAssumption DEF PeerInv, PeerTypeOK, BeatsArePast, Past, Place, Handlers, Tables, Has

(* A record of m is written to, with the present time or the one it had.   *)
LEMMA PutKeeps ==
  ASSUME PeerInv, NEW m \in Masters, NEW b \in Agents, NEW r \in Records,
         agents' = [agents EXCEPT ![m][b] = r],
         clock' \in 0..MaxBeats, clock' >= clock, r.beat <= clock',
         Has(m, b) => r.beat >= agents[m][b].beat
  PROVE  /\ agents' \in [Masters -> Tables]
         /\ \A n \in Masters : Past(agents'[n], clock')
         /\ KeepsNewest
         /\ \A n \in Masters, a \in Agents : Has(n, a) => Has(n, a)'
<1> DEFINE t == [agents[m] EXCEPT ![b] = r]
<1>1. agents \in [Masters -> Tables] /\ clock \in Nat /\ clock' \in Nat
  BY InvTyped
<1>2. t \in Tables /\ agents' = [agents EXCEPT ![m] = t]
  BY <1>1 DEF Tables
<1>3. t[b] = r /\ \A a \in Agents \ {b} : t[a] = agents[m][a]
  BY <1>1 DEF Tables
<1>4. \A a \in Agents : Has(m, a) => agents[m][a].beat \in Nat /\ agents[m][a].beat <= clock
  BY InvTyped, RecordIsRecord
<1>5. Past(t, clock')
  BY <1>1, <1>3, <1>4 DEF Past, Has
<1>6. \A a \in Agents : Has(m, a) /\ t[a] # NoRecord => t[a].beat >= agents[m][a].beat
  BY <1>3, <1>4
<1>7. \A n \in Masters, a \in Agents : Has(n, a) => Has(n, a)'
  BY <1>1, <1>2, <1>3, RecordIsRecord DEF Has
<1> HIDE DEF t
<1> QED
  BY <1>2, <1>5, <1>6, <1>7, TableStep

(* A heartbeat makes or changes a record.                                  *)
LEMMA HandleHeartbeatKeeps ==
  ASSUME PeerInv, NEW m \in Masters, NEW a \in Agents, NEW s \in Reported,
         HandleHeartbeat(m, a, s)
  PROVE  PeerInv' /\ KeepsNewest
<1> DEFINE r == [status |-> s, beat |-> clock']
<1>1. clock' \in 0..MaxBeats /\ clock' >= clock
  BY InvTyped DEF HandleHeartbeat, Beat
<1>2. r \in Records /\ r.beat = clock'
  BY <1>1, PeerAssumption DEF Records, Statuses
<1>3. Has(m, a) => r.beat >= agents[m][a].beat
  BY <1>1, <1>2, InvTyped, RecordIsRecord
<1>4. agents' = [agents EXCEPT ![m][a] = r]
  BY DEF HandleHeartbeat
<1>5. r.beat <= clock'
  BY <1>1, <1>2, InvTyped
<1> HIDE DEF r
<1>6. /\ agents' \in [Masters -> Tables] /\ \A n \in Masters : Past(agents'[n], clock')
      /\ KeepsNewest /\ \A n \in Masters, b \in Agents : Has(n, b) => Has(n, b)'
  BY <1>1, <1>2, <1>3, <1>4, <1>5, PutKeeps
<1>7. writer' \in Handlers /\ MappedIsThere'
  BY <1>6, HandlersStay DEF HandleHeartbeat
<1>8. sync' \in [Masters -> Place] /\ \A n \in Masters : Past(sync'[n].table, clock')
  BY <1>1, SyncStays DEF HandleHeartbeat
<1>9. seen' \in [Masters -> SUBSET Masters] /\ expired' \in 0..MaxBeats /\ up' \subseteq Masters
  BY InvTyped DEF HandleHeartbeat
<1> QED
  BY <1>1, <1>6, <1>7, <1>8, <1>9, Together DEF Handlers

LEMMA HandleAgentEnvironmentKeeps ==
  ASSUME PeerInv, NEW m \in Masters, NEW a \in Agents, HandleAgentEnvironment(m, a)
  PROVE  PeerInv' /\ KeepsNewest
<1> DEFINE r == [status |-> "online", beat |-> 0]
<1>1. clock' \in 0..MaxBeats /\ clock' >= clock /\ clock' = clock
  BY InvTyped DEF HandleAgentEnvironment
<1>2. r \in Records /\ r.beat <= clock'
  BY <1>1, InvTyped DEF Records, Statuses
<1>3. agents' = [agents EXCEPT ![m][a] = r] /\ ~Has(m, a)
  BY DEF HandleAgentEnvironment
<1> HIDE DEF r
<1>6. /\ agents' \in [Masters -> Tables] /\ \A n \in Masters : Past(agents'[n], clock')
      /\ KeepsNewest /\ \A n \in Masters, b \in Agents : Has(n, b) => Has(n, b)'
  BY <1>1, <1>2, <1>3, PutKeeps
<1>7. writer' \in Handlers /\ MappedIsThere'
  BY <1>6, HandlersStay DEF HandleAgentEnvironment
<1>8. sync' \in [Masters -> Place] /\ \A n \in Masters : Past(sync'[n].table, clock')
  BY <1>1, SyncStays DEF HandleAgentEnvironment
<1>9. seen' \in [Masters -> SUBSET Masters] /\ expired' \in 0..MaxBeats /\ up' \subseteq Masters
  BY InvTyped DEF HandleAgentEnvironment
<1> QED
  BY <1>1, <1>6, <1>7, <1>8, <1>9, Together DEF Handlers

LEMMA LookUpKeeps ==
  ASSUME PeerInv, NEW m \in Masters, NEW a \in Agents, LookUp(m, a)
  PROVE  PeerInv' /\ KeepsNewest
<1>1. clock' \in 0..MaxBeats /\ clock' >= clock
  BY InvTyped DEF LookUp
<1>2. /\ agents' \in [Masters -> Tables] /\ \A n \in Masters : Past(agents'[n], clock')
      /\ KeepsNewest
  BY <1>1, TablesStay DEF LookUp
<1>3. /\ Has(m, a)' /\ \A n \in Masters, b \in Agents : Has(n, b) => Has(n, b)'
      /\ writer' = [writer EXCEPT ![m] = [agent |-> a, mapped |-> TRUE]]
  BY DEF LookUp, Has
<1>4. writer' \in Handlers /\ MappedIsThere'
  BY <1>3, HandlerBecomes
<1>5. sync' \in [Masters -> Place] /\ \A n \in Masters : Past(sync'[n].table, clock')
  BY <1>1, SyncStays DEF LookUp
<1>6. seen' \in [Masters -> SUBSET Masters] /\ expired' \in 0..MaxBeats /\ up' \subseteq Masters
  BY InvTyped DEF LookUp
<1> QED
  BY <1>1, <1>2, <1>4, <1>5, <1>6, Together DEF Handlers

(* The map's record of agent a at m becomes r.                             *)
Put(m, a, r) == agents' = [agents EXCEPT ![m][a] = r]

(* What Write puts in the map, if its record is still there.               *)
LEMMA WritePuts ==
  ASSUME PeerInv, NEW m \in Masters, Write(m)
  PROVE  /\ clock' \in 0..MaxBeats /\ clock' >= clock
         /\ \/ UNCHANGED agents
            \/ \E a \in Agents, r \in Records :
                 /\ Put(m, a, r)
                 /\ r.beat <= clock' /\ (Has(m, a) => r.beat >= agents[m][a].beat)
<1> DEFINE b == writer[m].agent
           old == agents[m][b]
<1>1. clock \in 0..MaxBeats /\ MaxBeats \in Nat
  BY InvTyped
<1>2. CASE ~writer[m].mapped
  BY <1>1, <1>2 DEF Write, Beat
<1>3. CASE writer[m].mapped
  <2>1. b \in Agents /\ Has(m, b)
    BY <1>3 DEF PeerInv, MappedIsThere
  <2>2. old \in Records /\ old.beat <= clock /\ old.beat \in Nat
    BY <2>1, InvTyped, RecordIsRecord
  <2> HIDE DEF old
  <2>3. ASSUME NEW s \in Reported, Beat,
               Put(m, b, [status |-> s, beat |-> clock'])
        PROVE  /\ clock' \in 0..MaxBeats /\ clock' >= clock
               /\ \E r \in Records : /\ Put(m, b, r)
                                     /\ r.beat <= clock' /\ r.beat >= old.beat
    <3>1. clock' \in 0..MaxBeats /\ clock' >= clock
      BY <1>1, <2>3 DEF Beat
    <3>2. [status |-> s, beat |-> clock'] \in Records
      BY <3>1, PeerAssumption DEF Records, Statuses
    <3> QED
      BY <1>1, <2>2, <2>3, <3>1, <3>2
  <2>4. ASSUME Beat, Put(m, b, [old EXCEPT !.beat = clock'])
        PROVE  /\ clock' \in 0..MaxBeats /\ clock' >= clock
               /\ \E r \in Records : /\ Put(m, b, r)
                                     /\ r.beat <= clock' /\ r.beat >= old.beat
    <3>1. clock' \in 0..MaxBeats /\ clock' >= clock
      BY <1>1, <2>4 DEF Beat
    <3> DEFINE q == [old EXCEPT !.beat = clock']
    <3>2. q \in Records /\ q.beat = clock' /\ Put(m, b, q)
      BY <2>2, <2>4, <3>1 DEF Records
    <3> HIDE DEF q
    <3> QED
      BY <1>1, <2>2, <2>4, <3>1, <3>2
  <2>5. ASSUME NEW s \in {"online", "offline"}, UNCHANGED clock,
               Put(m, b, [old EXCEPT !.status = s])
        PROVE  /\ clock' \in 0..MaxBeats /\ clock' >= clock
               /\ \E r \in Records : /\ Put(m, b, r)
                                     /\ r.beat <= clock' /\ r.beat >= old.beat
    <3> DEFINE q == [old EXCEPT !.status = s]
    <3>1. q \in Records /\ q.beat = old.beat /\ Put(m, b, q)
      BY <2>2, <2>5 DEF Records, Statuses
    <3> HIDE DEF q
    <3> QED
      BY <1>1, <2>2, <2>5, <3>1
  <2>6. \/ \E s \in Reported :
             Beat /\ Put(m, b, [status |-> s, beat |-> clock'])
        \/ Beat /\ Put(m, b, [old EXCEPT !.beat = clock'])
        \/ \E s \in {"online", "offline"} :
             /\ Put(m, b, [old EXCEPT !.status = s])
             /\ UNCHANGED clock
    BY <1>3 DEF Write, Put, old
  <2> QED
    BY <2>1, <2>3, <2>4, <2>5, <2>6 DEF old
<1> QED
  BY <1>2, <1>3

LEMMA WriteKeeps ==
  ASSUME PeerInv, NEW m \in Masters, Write(m)
  PROVE  PeerInv' /\ KeepsNewest
<1>1. clock' \in 0..MaxBeats /\ clock' >= clock
  BY WritePuts
<1>2. /\ agents' \in [Masters -> Tables] /\ \A n \in Masters : Past(agents'[n], clock')
      /\ KeepsNewest /\ \A n \in Masters, b \in Agents : Has(n, b) => Has(n, b)'
  <2>1. CASE UNCHANGED agents
    BY <1>1, <2>1, TablesStay DEF Has
  <2>2. ASSUME NEW a \in Agents, NEW r \in Records,
               Put(m, a, r), r.beat <= clock', Has(m, a) => r.beat >= agents[m][a].beat
        PROVE  /\ agents' \in [Masters -> Tables] /\ \A n \in Masters : Past(agents'[n], clock')
               /\ KeepsNewest /\ \A n \in Masters, b \in Agents : Has(n, b) => Has(n, b)'
    BY <1>1, <2>2, PutKeeps DEF Put
  <2> QED
    BY <2>1, <2>2, WritePuts
<1>3. NoWriter \in [agent : Agents \cup {Nobody}, mapped : BOOLEAN] /\ ~NoWriter.mapped
  BY DEF NoWriter
<1>4. writer' = [writer EXCEPT ![m] = NoWriter]
  BY DEF Write
<1>5. writer' \in Handlers /\ MappedIsThere'
  BY <1>2, <1>3, <1>4, HandlerBecomes
<1>6. sync' \in [Masters -> Place] /\ \A n \in Masters : Past(sync'[n].table, clock')
  BY <1>1, SyncStays DEF Write
<1>7. seen' \in [Masters -> SUBSET Masters] /\ expired' \in 0..MaxBeats /\ up' \subseteq Masters
  BY InvTyped DEF Write
<1> QED
  BY <1>1, <1>2, <1>5, <1>6, <1>7, Together DEF Handlers

-----------------------------------------------------------------------------
LEMMA CheckAgentHealthKeeps ==
  ASSUME PeerInv, NEW m \in Masters, CheckAgentHealth(m)
  PROVE  PeerInv' /\ KeepsNewest
<1> DEFINE t == [a \in Agents |-> IF a \in TimedOut(m)
                                   THEN [agents[m][a] EXCEPT !.status = "offline"]
                                   ELSE agents[m][a]]
<1>1. clock' \in 0..MaxBeats /\ clock' >= clock /\ clock' = clock
  BY InvTyped DEF CheckAgentHealth
<1>2. agents' = [agents EXCEPT ![m] = t]
  BY DEF CheckAgentHealth
<1>3. ASSUME NEW a \in Agents
      PROVE  /\ t[a] \in Records \cup {NoRecord}
             /\ t[a] # NoRecord <=> Has(m, a)
             /\ Has(m, a) => t[a].beat = agents[m][a].beat
  <2>1. CASE a \in TimedOut(m)
    <3>1. Has(m, a) /\ agents[m][a] \in Records
      BY <2>1, InvTyped DEF TimedOut, Shows
    <3>2. /\ [agents[m][a] EXCEPT !.status = "offline"] \in Records
          /\ [agents[m][a] EXCEPT !.status = "offline"].beat = agents[m][a].beat
      BY <3>1 DEF Records, Statuses
    <3> QED
      BY <2>1, <3>1, <3>2, RecordIsRecord
  <2>2. CASE a \notin TimedOut(m)
    BY <2>2, InvTyped DEF Tables, Has
  <2> QED
    BY <2>1, <2>2
<1>4. t \in Tables
  BY <1>3 DEF Tables
<1>5. Past(t, clock')
  BY <1>1, <1>3, InvTyped DEF Past
<1>6. \A a \in Agents : Has(m, a) => t[a] # NoRecord /\ t[a].beat >= agents[m][a].beat
  BY <1>3, InvTyped, RecordIsRecord
<1> HIDE DEF t
<1>7. /\ agents' \in [Masters -> Tables] /\ \A n \in Masters : Past(agents'[n], clock')
      /\ KeepsNewest
  BY <1>1, <1>2, <1>4, <1>5, <1>6, TableStep
<1>8. \A n \in Masters, b \in Agents : Has(n, b) => Has(n, b)'
  BY <1>2, <1>6, InvTyped DEF Has
<1>9. writer' \in Handlers /\ MappedIsThere'
  BY <1>8, HandlersStay DEF CheckAgentHealth
<1>10. sync' \in [Masters -> Place] /\ \A n \in Masters : Past(sync'[n].table, clock')
  BY <1>1, SyncStays DEF CheckAgentHealth
<1>11. seen' \in [Masters -> SUBSET Masters] /\ expired' \in 0..MaxBeats /\ up' \subseteq Masters
  BY InvTyped DEF CheckAgentHealth
<1> QED
  BY <1>1, <1>7, <1>9, <1>10, <1>11, Together DEF Handlers

LEMMA RemoveOfflineAgentsKeeps ==
  ASSUME PeerInv, NEW m \in Masters, RemoveOfflineAgents(m)
  PROVE  PeerInv' /\ KeepsNewest
<1> DEFINE off == {a \in Agents : Shows(m, a, "offline")}
           t == [a \in Agents |-> IF a \in off THEN NoRecord ELSE agents[m][a]]
<1>1. clock' \in 0..MaxBeats /\ clock' >= clock /\ clock' = clock
  BY InvTyped DEF RemoveOfflineAgents
<1>2. agents' = [agents EXCEPT ![m] = t] /\ Unmap(m, off)
  BY DEF RemoveOfflineAgents
<1>3. \A a \in Agents : t[a] = IF a \in off THEN NoRecord ELSE agents[m][a]
  OBVIOUS
<1> HIDE DEF off
<1>4. t \in Tables
  BY InvTyped DEF Tables
<1> HIDE DEF t
<1>5. Past(t, clock')
  BY <1>1, <1>3, InvTyped DEF Past, Has
<1>6. \A a \in Agents : Has(m, a) /\ t[a] # NoRecord => t[a].beat >= agents[m][a].beat
  BY <1>3, InvTyped, RecordIsRecord
<1>7. /\ agents' \in [Masters -> Tables] /\ \A n \in Masters : Past(agents'[n], clock')
      /\ KeepsNewest
  BY <1>1, <1>2, <1>4, <1>5, <1>6, TableStep
<1>8. \A n \in Masters, b \in Agents : Has(n, b) /\ ~(n = m /\ b \in off) => Has(n, b)'
  BY <1>2, <1>3, InvTyped DEF Has
<1>9. writer' \in Handlers /\ MappedIsThere'
  BY <1>2, <1>8, HandlersLose
<1>10. sync' \in [Masters -> Place] /\ \A n \in Masters : Past(sync'[n].table, clock')
  BY <1>1, SyncStays DEF RemoveOfflineAgents
<1>11. seen' \in [Masters -> SUBSET Masters] /\ expired' \in 0..MaxBeats /\ up' \subseteq Masters
  BY InvTyped DEF RemoveOfflineAgents
<1> QED
  BY <1>1, <1>7, <1>9, <1>10, <1>11, Together DEF Handlers

-----------------------------------------------------------------------------
(* A step of peerSyncLoop up to the merge: only the loop's place changes,  *)
(* and what is seen of the peers.                                          *)
LEMMA LoopMoves ==
  ASSUME PeerInv, NEW m \in Masters, NEW p \in Place,
         sync' = [sync EXCEPT ![m] = p], Past(p.table, clock),
         seen' \in [Masters -> SUBSET Masters],
         UNCHANGED <<agents, writer, clock, expired, up>>
  PROVE  PeerInv' /\ KeepsNewest
<1>1. clock' \in 0..MaxBeats /\ clock' >= clock
  BY InvTyped
<1>2. /\ agents' \in [Masters -> Tables] /\ \A n \in Masters : Past(agents'[n], clock')
      /\ KeepsNewest
  BY <1>1, TablesStay
<1>3. writer' \in Handlers /\ MappedIsThere'
  BY HandlersStay DEF Has
<1>4. sync' \in [Masters -> Place] /\ \A n \in Masters : Past(sync'[n].table, clock')
  BY SyncTyped
<1>5. expired' \in 0..MaxBeats /\ up' \subseteq Masters
  BY InvTyped
<1> QED
  BY <1>1, <1>2, <1>3, <1>4, <1>5, Together DEF Handlers

LEMMA PostAnsweredKeeps ==
  ASSUME PeerInv, NEW m \in Masters, NEW p \in Masters, PostAnswered(m, p)
  PROVE  PeerInv' /\ KeepsNewest
<1> DEFINE q == [sync[m] EXCEPT !.at = "get", !.peer = p, !.todo = @ \ {p}]
<1>1. sync[m] \in Place /\ Past(sync[m].table, clock)
  BY InvTyped DEF PeerInv, BeatsArePast
<1>2. q \in Place /\ q.table = sync[m].table
  BY <1>1 DEF Place
<1>3. sync' = [sync EXCEPT ![m] = q]
  BY DEF PostAnswered
<1>4. seen' \in [Masters -> SUBSET Masters]
  BY InvTyped DEF PostAnswered
<1> HIDE DEF q
<1> QED
  BY <1>1, <1>2, <1>3, <1>4, LoopMoves DEF PostAnswered

LEMMA LoopGoesOn ==
  ASSUME PeerInv, NEW m \in Masters, NEW todo \in SUBSET Masters,
         sync' = [sync EXCEPT ![m] = NextPeer(m, todo)],
         seen' \in [Masters -> SUBSET Masters],
         UNCHANGED <<agents, writer, clock, expired, up>>
  PROVE  PeerInv' /\ KeepsNewest
<1>1. NextPeer(m, todo) \in Place /\ Past(NextPeer(m, todo).table, clock)
  BY NextPeerTyped, NoTableTyped, InvTyped
<1> QED
  BY <1>1, LoopMoves

LEMMA PostFailsKeeps ==
  ASSUME PeerInv, NEW m \in Masters, NEW p \in Masters, PostFails(m, p)
  PROVE  PeerInv' /\ KeepsNewest
<1>1. sync[m].todo \ {p} \in SUBSET Masters
  BY InvTyped DEF Place
<1>2. seen' \in [Masters -> SUBSET Masters]
  BY InvTyped DEF PostFails
<1> QED
  BY <1>1, <1>2, LoopGoesOn DEF PostFails

LEMMA GetFailsKeeps ==
  ASSUME PeerInv, NEW m \in Masters, GetFails(m)
  PROVE  PeerInv' /\ KeepsNewest
<1>1. sync[m].todo \in SUBSET Masters
  BY InvTyped DEF Place
<1> QED
  BY <1>1, LoopGoesOn, InvTyped DEF GetFails

(* What a peer has sent is as old as its table.                            *)
LEMMA GetAnsweredKeeps ==
  ASSUME PeerInv, NEW m \in Masters, GetAnswered(m)
  PROVE  PeerInv' /\ KeepsNewest
<1> DEFINE t == agents[sync[m].peer]
           q == [sync[m] EXCEPT !.at = "merge", !.table = t]
<1>1. sync[m].peer \in Masters
  BY InvTyped DEF GetAnswered
<1>2. t \in Tables /\ Past(t, clock) /\ sync[m] \in Place
  BY <1>1, InvTyped DEF PeerInv, BeatsArePast
<1>3. sync' = [sync EXCEPT ![m] = q]
  BY DEF GetAnswered
<1> HIDE DEF t
<1>4. q \in Place /\ q.table = t
  BY <1>2 DEF Place
<1> HIDE DEF q
<1> QED
  BY <1>2, <1>3, <1>4, LoopMoves, InvTyped DEF GetAnswered

(* What is merged is newer than what it replaces.                          *)
LEMMA MergeKeeps ==
  ASSUME PeerInv, NEW m \in Masters, Merge(m)
  PROVE  PeerInv' /\ KeepsNewest
<1> DEFINE new == {a \in Agents : Newer(m, a)}
           t == [a \in Agents |-> IF a \in new THEN sync[m].table[a] ELSE agents[m][a]]
<1>1. clock' \in 0..MaxBeats /\ clock' >= clock /\ clock' = clock
  BY InvTyped DEF Merge
<1>2. agents' = [agents EXCEPT ![m] = t] /\ Unmap(m, new)
  BY DEF Merge
<1>3. sync[m] \in Place /\ sync[m].table \in Tables /\ Past(sync[m].table, clock)
  BY InvTyped DEF PeerInv, BeatsArePast, Place
<1>4. ASSUME NEW a \in Agents
      PROVE  /\ t[a] = IF a \in new THEN sync[m].table[a] ELSE agents[m][a]
             /\ t[a] \in Records \cup {NoRecord}
             /\ t[a] # NoRecord => t[a].beat <= clock
             /\ Has(m, a) => t[a] # NoRecord /\ t[a].beat >= agents[m][a].beat
  <2>1. CASE a \in new
    <3>1. t[a] = sync[m].table[a] /\ t[a] \in Records
      BY <1>3, <2>1 DEF Newer, Tables
    <3>2. t[a].beat <= clock /\ t[a] # NoRecord /\ t[a].beat \in Nat
      BY <1>3, <3>1, RecordIsRecord DEF Past
    <3>3. Has(m, a) => agents[m][a].beat \in Nat /\ t[a].beat > agents[m][a].beat
      BY <2>1, <3>1, InvTyped, RecordIsRecord DEF Newer
    <3> QED
      BY <2>1, <3>1, <3>2, <3>3
  <2>2. CASE a \notin new
    <3>1. t[a] = agents[m][a]
      BY <2>2
    <3> QED
      BY <2>2, <3>1, InvTyped, RecordIsRecord DEF Tables, Has
  <2> QED
    BY <2>1, <2>2
<1>5. t \in Tables
  BY <1>4 DEF Tables
<1> HIDE DEF new, t
<1>6. Past(t, clock')
  BY <1>1, <1>4 DEF Past
<1>7. /\ agents' \in [Masters -> Tables] /\ \A n \in Masters : Past(agents'[n], clock')
      /\ KeepsNewest
  BY <1>1, <1>2, <1>4, <1>5, <1>6, TableStep
<1>8. \A n \in Masters, b \in Agents : Has(n, b) => Has(n, b)'
  BY <1>2, <1>4, InvTyped DEF Has
<1>9. writer' \in Handlers /\ MappedIsThere'
  BY <1>2, <1>8, HandlersLose
<1>10. sync' \in [Masters -> Place] /\ \A n \in Masters : Past(sync'[n].table, clock')
  <2>1. NextPeer(m, sync[m].todo) \in Place /\ Past(NextPeer(m, sync[m].todo).table, clock)
    BY <1>3, NextPeerTyped, NoTableTyped, InvTyped DEF Place
  <2> QED
    BY <2>1, SyncTyped DEF Merge
<1>11. seen' \in [Masters -> SUBSET Masters] /\ expired' \in 0..MaxBeats /\ up' \subseteq Masters
  BY InvTyped DEF Merge
<1> QED
  BY <1>1, <1>7, <1>9, <1>10, <1>11, Together DEF Handlers

-----------------------------------------------------------------------------
LEMMA MasterStopsKeeps ==
  ASSUME PeerInv, NEW m \in Masters, MasterStops(m)
  PROVE  PeerInv' /\ KeepsNewest
<1>1. clock' \in 0..MaxBeats /\ clock' >= clock /\ clock' = clock /\ clock \in Nat
  BY InvTyped DEF MasterStops
<1>2. agents' = [agents EXCEPT ![m] = NoTable] /\ Past(NoTable, clock') /\ NoTable \in Tables
  BY <1>1, NoTableTyped DEF MasterStops
<1>3. \A a \in Agents : NoTable[a] = NoRecord
  BY DEF NoTable
<1>4. /\ agents' \in [Masters -> Tables] /\ \A n \in Masters : Past(agents'[n], clock')
      /\ KeepsNewest
  BY <1>1, <1>2, <1>3, TableStep
<1>5. \A n \in Masters, b \in Agents : n # m /\ Has(n, b) => Has(n, b)'
  BY <1>2, InvTyped DEF Has
<1>6. /\ NoWriter \in [agent : Agents \cup {Nobody}, mapped : BOOLEAN] /\ ~NoWriter.mapped
      /\ writer' = [writer EXCEPT ![m] = NoWriter]
  BY DEF NoWriter, MasterStops
<1>7. writer' \in Handlers /\ MappedIsThere'
  BY <1>5, <1>6, HandlerBecomes
<1>8. sync' \in [Masters -> Place] /\ \A n \in Masters : Past(sync'[n].table, clock')
  <2>1. NextPeer(m, {}) \in Place /\ Past(NextPeer(m, {}).table, clock)
    BY <1>1, NextPeerTyped, NoTableTyped
  <2> QED
    BY <2>1, SyncTyped DEF MasterStops
<1>9. seen' \in [Masters -> SUBSET Masters] /\ expired' \in 0..MaxBeats /\ up' \subseteq Masters
  BY InvTyped DEF MasterStops
<1> QED
  BY <1>1, <1>4, <1>7, <1>8, <1>9, Together DEF Handlers

(* Steps that leave the tables, loops and handlers alone.                  *)
LEMMA QuietKeeps ==
  ASSUME PeerInv, UNCHANGED <<agents, sync, seen, writer, clock>>,
         expired' \in 0..MaxBeats, up' \subseteq Masters
  PROVE  PeerInv' /\ KeepsNewest
<1>1. clock' \in 0..MaxBeats /\ clock' >= clock
  BY InvTyped
<1>2. /\ agents' \in [Masters -> Tables] /\ \A n \in Masters : Past(agents'[n], clock')
      /\ KeepsNewest
  BY <1>1, TablesStay
<1>3. writer' \in Handlers /\ MappedIsThere'
  BY HandlersStay DEF Has
<1>4. sync' \in [Masters -> Place] /\ \A n \in Masters : Past(sync'[n].table, clock')
  BY <1>1, SyncStays
<1>5. seen' \in [Masters -> SUBSET Masters]
  BY InvTyped
<1> QED
  BY <1>1, <1>2, <1>3, <1>4, <1>5, Together DEF Handlers

LEMMA PeerStep ==
  ASSUME PeerInv, [PeerNext]_peerVars
  PROVE  PeerInv' /\ KeepsNewest
<1>1. CASE TimePasses
  BY <1>1, InvTyped, QuietKeeps DEF TimePasses
<1>2. ASSUME NEW m \in Masters, NEW a \in Agents, Contact(m, a)
      PROVE  PeerInv' /\ KeepsNewest
  BY <1>2, HandleHeartbeatKeeps, HandleAgentEnvironmentKeeps, LookUpKeeps DEF Contact
<1>3. ASSUME NEW m \in Masters, SyncStep(m)
      PROVE  PeerInv' /\ KeepsNewest
  BY <1>3, GetAnsweredKeeps, GetFailsKeeps, MergeKeeps, PostAnsweredKeeps, PostFailsKeeps
  DEF SyncStep
<1>4. ASSUME NEW m \in Masters, MasterStarts(m)
      PROVE  PeerInv' /\ KeepsNewest
  BY <1>4, InvTyped, QuietKeeps DEF MasterStarts
<1>5. CASE UNCHANGED peerVars
  BY <1>5, InvTyped, QuietKeeps DEF peerVars
<1> QED
  BY <1>1, <1>2, <1>3, <1>4, <1>5, WriteKeeps, CheckAgentHealthKeeps,
     RemoveOfflineAgentsKeeps, MasterStopsKeeps DEF PeerNext

LEMMA PeerStart ==
  ASSUME PeerInit
  PROVE  PeerInv
<1>1. \A m \in Masters : NextPeer(m, {}) \in Place /\ NextPeer(m, {}).table = NoTable
  BY NextPeerTyped
<1>2. sync \in [Masters -> Place] /\ \A m \in Masters : Past(sync[m].table, clock)
  BY <1>1, NoTableTyped DEF PeerInit
<1>3. agents \in [Masters -> Tables] /\ \A m \in Masters : Past(agents[m], clock)
  BY NoTableTyped DEF PeerInit
<1>4. writer \in Handlers /\ MappedIsThere
  BY DEF PeerInit, Handlers, NoWriter, MappedIsThere
<1>5. clock \in 0..MaxBeats /\ expired \in 0..MaxBeats
  BY PeerAssumption DEF PeerInit
<1> QED
  BY <1>2, <1>3, <1>4, <1>5 DEF PeerInit, PeerInv, PeerTypeOK, BeatsArePast, Place, Handlers

-----------------------------------------------------------------------------
(* The masters' state has its types, no time is from the future, and a     *)
(* handler that takes its record for the map's finds one there.            *)
THEOREM PeerInvariant == PeerSpec => []PeerInv
<1>1. PeerInit => PeerInv
  BY PeerStart
<1>2. PeerInv /\ [PeerNext]_peerVars => PeerInv'
  BY PeerStep
<1> QED
  BY <1>1, <1>2, PTL DEF PeerSpec

(* No master ever replaces a record by one with an older heartbeat,        *)
(* whichever masters the agents talk to, however old the fetched tables    *)
(* are that are merged, and whatever handlers still hold.                  *)
THEOREM NewestIsKept == PeerSpec => NewestHeartbeatKept
<1>1. PeerInv /\ [PeerNext]_peerVars =>
        [\A m \in Masters, a \in Agents :
           Has(m, a) /\ agents'[m][a] # NoRecord =>
             agents'[m][a].beat >= agents[m][a].beat]_peerVars
  BY PeerStep DEF KeepsNewest
<1> QED
  BY <1>1, PeerInvariant, PTL DEF PeerSpec, NewestHeartbeatKept
=============================================================================
