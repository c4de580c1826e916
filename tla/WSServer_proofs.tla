---------------------------- MODULE WSServer_proofs ----------------------------
(***************************************************************************)
(* Proofs about WSHub and about WSServer, for any number of agents,        *)
(* connections and callers and any channel capacities.  The server is the  *)
(* hub with more to say about every step (ServerImplementsHub), so what is *)
(* proved of the hub alone holds of it.                                    *)
(***************************************************************************)
EXTENDS WSServer, SequenceTheorems, TLAPS

(* The map never holds a connection under another agent's name.            *)
EntryIsOwn ==
  \A a \in Agents : clients[a] # NoConn => Owner[clients[a]] = a

(* A name that stands for no connection is not with the hub, and its       *)
(* readPump starts last.                                                   *)
UnusedIsNowhere ==
  \A c \in Conns :
    /\ handler[c] = "none" => ~Mapped(c) /\ ~InChannel(c, register)
    /\ handler[c] # "done" => reader[c] # "reading" /\ ~InChannel(c, unregister)

(* Only a readPump that has ended asks for its connection's removal.       *)
OnlyEndedUnregister ==
  \A c \in Conns : InChannel(c, unregister) => reader[c] = "ended"

HubInv ==
  HubTypeOK /\ NoOrphanConnection /\ EntryIsOwn /\ UnusedIsNowhere /\ OnlyEndedUnregister

-----------------------------------------------------------------------------
LEMMA InAppended ==
  ASSUME NEW s \in Seq(Conns), NEW d \in Conns, NEW c
  PROVE  InChannel(c, Append(s, d)) <=> InChannel(c, s) \/ c = d
BY DEF InChannel

LEMMA InTail ==
  ASSUME NEW s \in Seq(Conns), s # <<>>, NEW c
  PROVE  /\ Head(s) \in Conns /\ Tail(s) \in Seq(Conns)
         /\ InChannel(c, s) <=> c = Head(s) \/ InChannel(c, Tail(s))
<1>1. Head(s) = s[1] /\ Head(s) \in Conns /\ Tail(s) \in Seq(Conns)
  BY HeadTailProperties
<1>2. Len(s) \in Nat \ {0} /\ Len(Tail(s)) = Len(s) - 1
  BY EmptySeq, HeadTailProperties
<1>3. \A i \in 1..Len(Tail(s)) : Tail(s)[i] = s[i + 1]
  BY HeadTailProperties
<1>4. ASSUME InChannel(c, s) PROVE c = Head(s) \/ InChannel(c, Tail(s))
  <2>1. PICK i \in 1..Len(s) : s[i] = c
    BY <1>4 DEF InChannel
  <2>2. CASE i = 1
    BY <1>1, <2>1, <2>2
  <2>3. CASE i # 1
    <3>1. i - 1 \in 1..Len(Tail(s)) /\ Tail(s)[i - 1] = s[i]
      BY <1>2, <1>3, <2>3
    <3>2. QED
      BY <2>1, <3>1 DEF InChannel
  <2> QED
    BY <2>2, <2>3
<1>5. ASSUME InChannel(c, Tail(s)) PROVE InChannel(c, s)
  <2>1. PICK i \in 1..Len(Tail(s)) : Tail(s)[i] = c
    BY <1>5 DEF InChannel
  <2>2. i + 1 \in 1..Len(s) /\ s[i + 1] = c
    BY <1>2, <1>3, <2>1
  <2>3. QED
    BY <2>2 DEF InChannel
<1>6. c = Head(s) => InChannel(c, s)
  BY <1>1, <1>2 DEF InChannel
<1> QED
  BY <1>1, <1>4, <1>5, <1>6

LEMMA PutTyped ==
  ASSUME HubTypeOK, NEW p \in Conns \cup Callers, NEW kind \in Kinds, Put(p, kind)
  PROVE  /\ sending' \in [Conns \cup Callers -> Conns \cup {NoConn}]
         /\ sendCh' \in [Conns -> Seq(Kinds)]
         /\ sending[p] # NoConn => PutPanics(p) \in BOOLEAN
<1> USE HubAssumption DEF HubTypeOK
<1>1. sending' \in [Conns \cup Callers -> Conns \cup {NoConn}]
  BY DEF Put
<1>2. CASE sending[p] = NoConn
  <2>1. sendCh' = sendCh
    BY <1>2 DEF Put
  <2>2. QED
    BY <1>1, <1>2, <2>1
<1>3. CASE sending[p] \in Conns
  <2>1. Append(sendCh[sending[p]], kind) \in Seq(Kinds)
    BY <1>3
  <2>2. sendCh' \in [Conns -> Seq(Kinds)]
    BY <1>3, <2>1 DEF Put
  <2>3. QED
    BY <1>1, <1>3, <2>2 DEF PutPanics
<1> QED
  BY <1>2, <1>3

-----------------------------------------------------------------------------
LEMMA HubTypeStep == HubTypeOK /\ [HubNext]_hubVars => HubTypeOK'
<1> SUFFICES ASSUME HubTypeOK, [HubNext]_hubVars PROVE HubTypeOK'
  OBVIOUS
<1> USE HubAssumption DEF HubTypeOK, Callback, Kinds
<1>1. ASSUME NEW c \in Conns, Accept(c) PROVE HubTypeOK'
  BY <1>1 DEF Accept
<1>2. ASSUME NEW c \in Conns, Announce(c) PROVE HubTypeOK'
  BY <1>2 DEF Announce
<1>3. ASSUME NEW c \in Conns, TakeAck(c) PROVE HubTypeOK'
  <2>1. CASE closed[c]
    BY <1>3, <2>1 DEF TakeAck, StartPumps
  <2>2. CASE ~closed[c]
    <3>1. sending' = [sending EXCEPT ![c] = c] /\ handler' = [handler EXCEPT ![c] = "acking"]
      BY <1>3, <2>2 DEF TakeAck
    <3>2. sending' \in [Conns \cup Callers -> Conns \cup {NoConn}]
      BY <3>1
    <3>3. handler' \in [Conns -> {"none", "registered", "announced", "acking", "done"}]
      BY <3>1
    <3>4. UNCHANGED <<clients, register, unregister, callbacks, closed, sendCh, reader, writer,
                      link, panicked>>
      BY <1>3, <2>2 DEF TakeAck
    <3>5. QED
      BY <3>2, <3>3, <3>4
  <2> QED
    BY <2>1, <2>2
<1>4. ASSUME NEW c \in Conns, PutAck(c) PROVE HubTypeOK'
  <2>1. sending' \in [Conns \cup Callers -> Conns \cup {NoConn}] /\ sendCh' \in [Conns -> Seq(Kinds)]
    BY <1>4, PutTyped DEF PutAck
  <2>2. QED
    BY <1>4, <2>1 DEF PutAck, StartPumps
<1>5. ASSUME NEW c \in Conns, ReadHeartbeat(c) PROVE HubTypeOK'
  BY <1>5 DEF ReadHeartbeat
<1>6. ASSUME NEW c \in Conns, PutReply(c) PROVE HubTypeOK'
  <2>1. /\ sending' \in [Conns \cup Callers -> Conns \cup {NoConn}]
        /\ sendCh' \in [Conns -> Seq(Kinds)] /\ PutPanics(c) \in BOOLEAN
    BY <1>6, PutTyped DEF PutReply
  <2>2. QED
    BY <1>6, <2>1 DEF PutReply
<1>7. ASSUME NEW c \in Conns, ReadError(c) PROVE HubTypeOK'
  BY <1>7 DEF ReadError
<1>8. ASSUME NEW c \in Conns, WriteMessage(c) PROVE HubTypeOK'
  BY <1>8 DEF WriteMessage
<1>9. ASSUME NEW c \in Conns, WriteError(c) PROVE HubTypeOK'
  BY <1>9 DEF WriteError
<1>10. ASSUME NEW c \in Conns, LinkBreak(c) PROVE HubTypeOK'
  BY <1>10 DEF LinkBreak
<1>11. ASSUME HubRegister PROVE HubTypeOK'
  <2>1. Head(register) \in Conns /\ register' \in Seq(Conns)
    BY <1>11, InTail DEF HubRegister
  <2>2. QED
    BY <1>11, <2>1 DEF HubRegister
<1>12. ASSUME HubUnregister PROVE HubTypeOK'
  <2>1. Head(unregister) \in Conns /\ unregister' \in Seq(Conns)
    BY <1>12, InTail DEF HubUnregister
  <2>2. <<"disconnect", Head(unregister)>> \in Callback
    BY <2>1
  <2> DEFINE c == Head(unregister)
  <2>3. /\ clients' \in [Agents -> Conns \cup {NoConn}]
        /\ closed' \in [Conns -> BOOLEAN]
        /\ callbacks' \subseteq Callback
    <3>1. callbacks' = callbacks \cup {<<"disconnect", c>>}
      BY <1>12 DEF HubUnregister
    <3>2. CASE Mapped(c)
      <4>1. /\ clients' = [clients EXCEPT ![Owner[c]] = NoConn]
            /\ closed' = [closed EXCEPT ![c] = TRUE]
        BY <1>12, <3>2 DEF HubUnregister
      <4> QED
        BY <2>2, <3>1, <4>1
    <3>3. CASE ~Mapped(c)
      <4>1. UNCHANGED <<clients, closed>>
        BY <1>12, <3>3 DEF HubUnregister
      <4> QED
        BY <2>2, <3>1, <4>1
    <3> QED
      BY <3>2, <3>3
  <2>4. QED
    BY <1>12, <2>1, <2>3 DEF HubUnregister
<1>13. ASSUME HubBroadcast PROVE HubTypeOK'
  BY <1>13 DEF HubBroadcast, Mapped
<1>14. ASSUME NEW k \in {"connect", "disconnect"}, NEW c \in Conns, RunCallback(k, c) PROVE HubTypeOK'
  BY <1>14 DEF RunCallback
<1>15. ASSUME NEW s \in Callers, NEW a \in Agents, TakeClient(s, a) PROVE HubTypeOK'
  BY <1>15 DEF TakeClient
<1>16. ASSUME NEW s \in Callers, PutCommand(s) PROVE HubTypeOK'
  <2>1. /\ sending' \in [Conns \cup Callers -> Conns \cup {NoConn}]
        /\ sendCh' \in [Conns -> Seq(Kinds)] /\ PutPanics(s) \in BOOLEAN
    BY <1>16, PutTyped DEF PutCommand
  <2>2. QED
    BY <1>16, <2>1 DEF PutCommand
<1>17. ASSUME Restart PROVE HubTypeOK'
  <2>1. <<>> \in Seq(Conns) /\ <<>> \in Seq(Kinds)
    OBVIOUS
  <2>2. sendCh' \in [Conns -> Seq(Kinds)]
    BY <1>17, <2>1 DEF Restart
  <2>3. QED
    BY <1>17, <2>1, <2>2 DEF Restart
<1>18. CASE UNCHANGED hubVars
  BY <1>18 DEF hubVars
<1> QED
  BY <1>1, <1>2, <1>3, <1>4, <1>5, <1>6, <1>7, <1>8, <1>9, <1>10, <1>11, <1>12,
     <1>13, <1>14, <1>15, <1>16, <1>17, <1>18
  DEF HubNext, ConnStep, HubLoopStep, CallerStep

LEMMA InitTyped == HubInit => HubTypeOK
<1> SUFFICES ASSUME HubInit PROVE HubTypeOK
  OBVIOUS
<1>1. <<>> \in Seq(Conns) /\ <<>> \in Seq(Kinds)
  OBVIOUS
<1>2. sendCh \in [Conns -> Seq(Kinds)]
  BY <1>1 DEF HubInit
<1>3. QED
  BY <1>1, <1>2, HubAssumption DEF HubInit, HubTypeOK

(* Types, for every value of the constants.                                *)
THEOREM HubTypeCorrect == HubSpec => []HubTypeOK
<1>1. HubInit => HubTypeOK
  BY InitTyped
<1>2. HubTypeOK /\ [HubNext]_hubVars => HubTypeOK'
  BY HubTypeStep
<1> QED
  BY <1>1, <1>2, PTL DEF HubSpec

-----------------------------------------------------------------------------
LEMMA HubInvStep == HubInv /\ [HubNext]_hubVars => HubInv'
<1> SUFFICES ASSUME HubInv, [HubNext]_hubVars PROVE HubInv'
  OBVIOUS
<1>a. HubTypeOK'
  BY HubTypeStep DEF HubInv
<1> DEFINE Rest == NoOrphanConnection /\ EntryIsOwn /\ UnusedIsNowhere /\ OnlyEndedUnregister
<1> SUFFICES Rest'
  BY <1>a DEF HubInv
<1> USE HubAssumption
    DEF HubInv, HubTypeOK, NoOrphanConnection, EntryIsOwn, UnusedIsNowhere,
        OnlyEndedUnregister, Mapped, Taken
<1>1. ASSUME NEW c \in Conns, Accept(c) PROVE Rest'
  <2>1. \A d \in Conns : InChannel(d, register') <=> InChannel(d, register) \/ d = c
    BY <1>1, InAppended DEF Accept
  <2>2. ~Mapped(c) /\ ~InChannel(c, unregister)
    BY <1>1 DEF Accept, Collected
  <2>3. QED
    BY <1>1, <2>1, <2>2 DEF Accept
<1>2. ASSUME NEW c \in Conns, Announce(c) PROVE Rest'
  BY <1>2 DEF Announce
<1>3. ASSUME NEW c \in Conns, TakeAck(c) PROVE Rest'
  BY <1>3 DEF TakeAck, StartPumps
<1>4. ASSUME NEW c \in Conns, PutAck(c) PROVE Rest'
  BY <1>4 DEF PutAck, StartPumps, Put, PutPanics
<1>5. ASSUME NEW c \in Conns, ReadHeartbeat(c) PROVE Rest'
  BY <1>5 DEF ReadHeartbeat
<1>6. ASSUME NEW c \in Conns, PutReply(c) PROVE Rest'
  BY <1>6 DEF PutReply, Put, PutPanics
<1>7. ASSUME NEW c \in Conns, ReadError(c) PROVE Rest'
  <2>1. \A d \in Conns : InChannel(d, unregister') <=> InChannel(d, unregister) \/ d = c
    BY <1>7, InAppended DEF ReadError
  <2>2. handler[c] = "done"
    BY <1>7 DEF ReadError
  <2>3. QED
    BY <1>7, <2>1, <2>2 DEF ReadError
<1>8. ASSUME NEW c \in Conns, WriteMessage(c) PROVE Rest'
  BY <1>8 DEF WriteMessage
<1>9. ASSUME NEW c \in Conns, WriteError(c) PROVE Rest'
  BY <1>9 DEF WriteError
<1>10. ASSUME NEW c \in Conns, LinkBreak(c) PROVE Rest'
  BY <1>10 DEF LinkBreak
<1>11. ASSUME HubRegister PROVE Rest'
  <2> DEFINE c == Head(register)
  <2>1. c \in Conns /\ \A d \in Conns : InChannel(d,
  register) <=> d = c \/ InChannel(d, register')
    BY <1>11, InTail DEF HubRegister
  <2>2. handler[c] # "none"
    BY <2>1
  <2>3. /\ clients' = [clients EXCEPT ![Owner[c]] = c]
        /\ closed' = [d \in Conns |-> closed[d] \/ d = clients[Owner[c]]]
        /\ UNCHANGED <<unregister, handler, reader>>
    BY <1>11 DEF HubRegister
  <2>4. EntryIsOwn'
    BY <2>1, <2>3
  <2>5. NoOrphanConnection'
    BY <2>1, <2>3
  <2>6. UnusedIsNowhere' /\ OnlyEndedUnregister'
    BY <2>1, <2>2, <2>3
  <2>7. QED
    BY <2>4, <2>5, <2>6
<1>12. ASSUME HubUnregister PROVE Rest'
  <2> DEFINE c == Head(unregister)
  <2>1. c \in Conns /\ \A d \in Conns : InChannel(d,
  unregister) <=> d = c \/ InChannel(d, unregister')
    BY <1>12, InTail DEF HubUnregister
  <2>2. UNCHANGED <<register, handler, reader>>
    BY <1>12 DEF HubUnregister
  <2>3. CASE Mapped(c)
    <3>1. /\ clients' = [clients EXCEPT ![Owner[c]] = NoConn]
          /\ closed' = [closed EXCEPT ![c] = TRUE]
      BY <1>12, <2>3 DEF HubUnregister
    <3>2. QED
      BY <2>1, <2>2, <2>3, <3>1
  <2>4. CASE ~Mapped(c)
    BY <1>12, <2>1, <2>2, <2>4 DEF HubUnregister
  <2> QED
    BY <2>3, <2>4
<1>13. ASSUME HubBroadcast PROVE Rest'
  BY <1>13 DEF HubBroadcast, Mapped
<1>14. ASSUME NEW k \in {"connect", "disconnect"}, NEW c \in Conns, RunCallback(k, c) PROVE Rest'
  BY <1>14 DEF RunCallback
<1>15. ASSUME NEW s \in Callers, NEW a \in Agents, TakeClient(s, a) PROVE Rest'
  BY <1>15 DEF TakeClient
<1>16. ASSUME NEW s \in Callers, PutCommand(s) PROVE Rest'
  BY <1>16 DEF PutCommand, Put, PutPanics
<1>17. ASSUME Restart PROVE Rest'
  <2>1. \A d \in Conns : ~InChannel(d, register') /\ ~InChannel(d, unregister')
    BY <1>17 DEF Restart, InChannel
  <2>2. QED
    BY <1>17, <2>1 DEF Restart
<1>18. CASE UNCHANGED hubVars
  BY <1>18 DEF hubVars
<1> QED
  BY <1>1, <1>2, <1>3, <1>4, <1>5, <1>6, <1>7, <1>8, <1>9, <1>10, <1>11, <1>12,
     <1>13, <1>14, <1>15, <1>16, <1>17, <1>18
  DEF HubNext, ConnStep, HubLoopStep, CallerStep

LEMMA HubInvHolds == HubSpec => []HubInv
<1>1. HubInit => HubInv
  <2> SUFFICES ASSUME HubInit PROVE HubInv
    OBVIOUS
  <2>1. HubTypeOK
    BY InitTyped
  <2>2. \A c \in Conns : ~InChannel(c, register) /\ ~InChannel(c, unregister)
    BY DEF HubInit, InChannel
  <2>3. QED
    BY <2>1, <2>2, HubAssumption
    DEF HubInit, HubInv, NoOrphanConnection, EntryIsOwn, UnusedIsNowhere,
        OnlyEndedUnregister, Mapped, Taken
<1>2. HubInv /\ [HubNext]_hubVars => HubInv'
  BY HubInvStep
<1> QED
  BY <1>1, <1>2, PTL DEF HubSpec

(* No live connection is left outside the map once the hub has taken it.   *)
THEOREM NoOrphanEver == HubSpec => []NoOrphanConnection
<1>1. HubInv => NoOrphanConnection
  BY DEF HubInv
<1> QED
  BY <1>1, HubInvHolds, PTL

(* A late unregister never removes the connection that replaced its own.   *)
THEOREM OnlyOwnEndRemovesEntry == HubSpec => EntryRemovedByItself
<1> DEFINE A == \A a \in Agents :
                  clients[a] # NoConn /\ clients'[a] = NoConn
                    => panicked \/ reader[clients[a]] = "ended"
<1>1. ASSUME HubInv, HubNext, NEW a \in Agents, clients[a] # NoConn, clients'[a] = NoConn
      PROVE  panicked \/ reader[clients[a]] = "ended"
  <2>1. CASE HubUnregister
    <3>1. Head(unregister) \in Conns /\ InChannel(Head(unregister), unregister)
      BY <1>1, <2>1, InTail DEF HubUnregister, HubInv, HubTypeOK
    <3>2. clients[a] = Head(unregister)
      BY <1>1, <2>1, <3>1, HubAssumption DEF HubUnregister, HubInv, HubTypeOK, Mapped
    <3>3. QED
      BY <1>1, <3>1, <3>2 DEF HubInv, OnlyEndedUnregister
  <2>2. CASE HubRegister
    <3>1. Head(register) \in Conns
      BY <1>1, <2>2, InTail DEF HubRegister, HubInv, HubTypeOK
    <3>2. QED
      BY <1>1, <2>2, <3>1, HubAssumption DEF HubRegister, HubInv, HubTypeOK
  <2>3. CASE Restart
    BY <2>3 DEF Restart
  <2>4. CASE UNCHANGED clients
    BY <1>1, <2>4
  <2> QED
    BY <1>1, <2>1, <2>2, <2>3, <2>4
    DEF HubNext, ConnStep, HubLoopStep, CallerStep, Accept, Announce, TakeAck, PutAck,
        ReadHeartbeat, PutReply, ReadError, WriteMessage, WriteError, LinkBreak,
        HubBroadcast, RunCallback, TakeClient, PutCommand
<1>2. HubInv /\ [HubNext]_hubVars => [A]_hubVars
  BY <1>1
<1> QED
  BY <1>2, HubInvHolds, PTL DEF HubSpec, EntryRemovedByItself

-----------------------------------------------------------------------------
(* Every step of the server is a step of the hub or none of its business.  *)
LEMMA ServerStepIsHubStep == [ServerNext]_serverVars => [HubNext]_hubVars
<1> SUFFICES ASSUME [ServerNext]_serverVars PROVE [HubNext]_hubVars
  OBVIOUS
<1>1. CASE HubAlone
  BY <1>1 DEF HubAlone, HubNext, ConnStep, HubLoopStep
<1>2. ASSUME NEW c \in Conns, Register(c) PROVE HubNext
  BY <1>2 DEF Register, HubNext, ConnStep
<1>3. ASSUME NEW c \in Conns, Heartbeat(c) PROVE HubNext
  BY <1>3 DEF Heartbeat, HubNext, ConnStep
<1>4. ASSUME NEW c \in Conns, OnConnect(c) \/ OnDisconnect(c) PROVE HubNext
  BY <1>4 DEF OnConnect, OnDisconnect, HubNext, HubLoopStep
<1>5. ASSUME NEW c \in Conns, Metrics(c) \/ Environment(c) PROVE UNCHANGED hubVars
  BY <1>5 DEF Metrics, Environment
<1>6. ASSUME NEW a \in Agents,
             HTTPHeartbeat(a) \/ GoAutonomous(a) \/ AgentRestart(a) \/ Silence(a)
      PROVE  UNCHANGED hubVars
  BY <1>6 DEF HTTPHeartbeat, GoAutonomous, AgentRestart, Silence
<1>7. CASE HealthCheck \/ Cleanup
  BY <1>7 DEF HealthCheck, Cleanup
<1>8. CASE ServerRestart
  BY <1>8 DEF ServerRestart, HubNext
<1>9. CASE UNCHANGED serverVars
  BY <1>9 DEF serverVars
<1> QED
  BY <1>1, <1>2, <1>3, <1>4, <1>5, <1>6, <1>7, <1>8, <1>9 DEF ServerNext

(* The server implements the hub: joining the agent table to it changes    *)
(* nothing in what the hub does.                                           *)
THEOREM ServerImplementsHub == ServerSpec => HubSpec
<1>1. ServerInit => HubInit
  BY DEF ServerInit
<1> QED
  BY <1>1, ServerStepIsHubStep, PTL DEF ServerSpec, HubSpec

-----------------------------------------------------------------------------
(* What each operation of the registry leaves is a table of records.       *)
LEMMA RegistryStepTyped ==
  ASSUME RegistryTypeOK, NEW a \in Agents, NEW s \in Statuses,
         \/ HandleHeartbeat(a, s)
         \/ WSHeartbeat(a, s)
         \/ WSMetrics(a)
         \/ HandleAgentEnvironment(a)
         \/ SetStatus(a, s)
         \/ CheckAgentHealth
         \/ RemoveOfflineAgents
         \/ HeartbeatLapses(a)
         \/ RegistryLost
         \/ UNCHANGED agents
  PROVE  RegistryTypeOK'
<1> USE DEF RegistryTypeOK, Records
<1> TRUE \in BOOLEAN /\ FALSE \in BOOLEAN /\ "online" \in Statuses /\ "offline" \in Statuses
  BY DEF Statuses
<1>1. CASE HandleHeartbeat(a, s)
  BY <1>1 DEF HandleHeartbeat
<1>2. CASE WSHeartbeat(a, s)
  BY <1>2 DEF WSHeartbeat
<1>3. CASE WSMetrics(a)
  BY <1>3 DEF WSMetrics, Exists
<1>4. CASE HandleAgentEnvironment(a)
  BY <1>4 DEF HandleAgentEnvironment
<1>5. CASE SetStatus(a, s)
  BY <1>5 DEF SetStatus, Exists
<1>6. CASE CheckAgentHealth
  BY <1>6 DEF CheckAgentHealth, TimedOut, Shows, Exists
<1>7. CASE RemoveOfflineAgents
  BY <1>7 DEF RemoveOfflineAgents
<1>8. CASE HeartbeatLapses(a)
  BY <1>8 DEF HeartbeatLapses, Exists
<1>9. CASE RegistryLost \/ UNCHANGED agents
  BY <1>9 DEF RegistryLost
<1> QED
  BY <1>1, <1>2, <1>3, <1>4, <1>5, <1>6, <1>7, <1>8, <1>9

LEMMA TableTypeStep ==
  ASSUME RegistryTypeOK, mood \in [Agents -> Statuses], [ServerNext]_serverVars
  PROVE  RegistryTypeOK' /\ mood' \in [Agents -> Statuses]
<1> "online" \in Statuses /\ "offline" \in Statuses /\ "autonomous" \in Statuses
  BY DEF Statuses
<1>1. CASE HubAlone \/ UNCHANGED serverVars
  BY <1>1 DEF HubAlone, Quiet, serverVars, RegistryTypeOK
<1>2. ASSUME NEW c \in Conns,
             Register(c) \/ Heartbeat(c) \/ Metrics(c) \/ Environment(c)
               \/ OnConnect(c) \/ OnDisconnect(c)
      PROVE  RegistryTypeOK' /\ mood' \in [Agents -> Statuses]
  <2>1. Owner[c] \in Agents /\ mood[Owner[c]] \in Statuses
    BY HubAssumption
  <2>2. mood' \in [Agents -> Statuses]
    BY <1>2, <2>1 DEF Register, Heartbeat, Metrics, Environment, OnConnect, OnDisconnect
  <2>3. RegistryTypeOK'
    BY <1>2, <2>1, RegistryStepTyped
    DEF Register, Heartbeat, Metrics, Environment, OnConnect, OnDisconnect
  <2> QED
    BY <2>2, <2>3
<1>3. ASSUME NEW a \in Agents,
             HTTPHeartbeat(a) \/ GoAutonomous(a) \/ AgentRestart(a) \/ Silence(a)
      PROVE  RegistryTypeOK' /\ mood' \in [Agents -> Statuses]
  <2>1. mood' \in [Agents -> Statuses]
    BY <1>3 DEF HTTPHeartbeat, GoAutonomous, AgentRestart, Silence
  <2>2. RegistryTypeOK'
    BY <1>3, RegistryStepTyped DEF HTTPHeartbeat, GoAutonomous, AgentRestart, Silence
  <2> QED
    BY <2>1, <2>2
<1>4. CASE HealthCheck
  BY <1>4 DEF HealthCheck, CheckAgentHealth, TimedOut, Shows, Exists, RegistryTypeOK, Records
<1>5. CASE Cleanup \/ ServerRestart
  BY <1>5 DEF Cleanup, RemoveOfflineAgents, ServerRestart, RegistryLost, RegistryTypeOK
<1> QED
  BY <1>1, <1>2, <1>3, <1>4, <1>5 DEF ServerNext

(* The hub, the table and the agents' statuses keep their types.           *)
THEOREM ServerTypeCorrect == ServerSpec => []ServerTypeOK
<1> DEFINE Table == RegistryTypeOK /\ mood \in [Agents -> Statuses]
<1>1. ServerInit => Table
  BY DEF ServerInit, RegistryInit, RegistryTypeOK, Statuses
<1>2. Table /\ [ServerNext]_serverVars => Table'
  BY TableTypeStep
<1>3. ServerSpec => []Table
  BY <1>1, <1>2, PTL DEF ServerSpec
<1>4. HubTypeOK /\ Table <=> ServerTypeOK
  BY DEF ServerTypeOK
<1> QED
  BY <1>3, <1>4, ServerImplementsHub, HubTypeCorrect, PTL

(* Joined to the agent table, the hub still leaves no live connection      *)
(* outside its map.                                                        *)
THEOREM ServerHasNoOrphan == ServerSpec => []NoOrphanConnection
BY ServerImplementsHub, NoOrphanEver, PTL

(* Joined to the agent table, the map still loses an agent only to the end *)
(* of the connection it holds for it.                                      *)
THEOREM ServerKeepsEntries == ServerSpec => EntryRemovedByItself
BY ServerImplementsHub, OnlyOwnEndRemovesEntry, PTL
=============================================================================
