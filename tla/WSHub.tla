-------------------------------- MODULE WSHub --------------------------------
(***************************************************************************)
(* The WebSocket hub of a master (internal/cluster/ws_hub.go) and the      *)
(* goroutines around it (internal/cluster/ws_server.go): for every         *)
(* connection the HTTP handler that registers it and its readPump and      *)
(* writePump, for every caller of SendToAgent the goroutine of that        *)
(* caller, and the hub's own loop, Run.                                    *)
(*                                                                         *)
(* The goroutines share the map `clients`, the two channels `register` and *)
(* `unregister`, and per connection the outgoing channel SendCh and the    *)
(* flag `closed`.  WSHub.mu makes a change of the map atomic; nothing      *)
(* covers a send on SendCh, so a send is two steps here: the goroutine     *)
(* takes the connection, then puts the message.  Putting a message on a    *)
(* closed channel is a Go panic: net/http recovers it in a handler; in the *)
(* hub's loop, a readPump or a chat's goroutine nothing does, and it ends  *)
(* the process, which systemd starts again.                                *)
(*                                                                         *)
(* Abstracted: a message is its kind, a frame that leaves the writePump is *)
(* gone, and all deadlines (readWait, writeWait, pingPeriod) are the       *)
(* possibility of noticing a broken link at any moment.                    *)
(***************************************************************************)
EXTENDS Naturals, Sequences

CONSTANTS
  Agents,    \* agent IDs
  Conns,     \* connection objects (WSClientConn); reused once collected
  Callers,   \* goroutines that call WSHub.SendToAgent
  Owner,     \* the agent that registers on a connection
  SendCap,   \* capacity of SendCh, 256 in the code
  ChanCap,   \* capacity of register and of unregister, 100 in the code
  NoConn     \* nil

ASSUME HubAssumption ==
  /\ Owner \in [Conns -> Agents]
  /\ NoConn \notin Conns
  /\ Conns \cap Callers = {}
  /\ SendCap \in Nat \ {0}
  /\ ChanCap \in Nat \ {0}

VARIABLES
  clients,     \* WSHub.clients: agent -> connection, NoConn if absent
  register,    \* the channel WSHub.register
  unregister,  \* the channel WSHub.unregister
  callbacks,   \* callback goroutines started by Run and not yet run
  closed,      \* WSClientConn.closed: SendCh and the socket are closed
  sendCh,      \* WSClientConn.SendCh
  handler,     \* where HandleConnection is for this connection
  reader,      \* the connection's readPump
  writer,      \* the connection's writePump
  link,        \* TRUE while the TCP connection to the agent works
  sending,     \* the connection a goroutine holds between taking and putting
  panicked     \* TRUE once a goroutine has sent on a closed channel

hubVars == <<clients, register, unregister, callbacks, closed, sendCh,
             handler, reader, writer, link, sending, panicked>>

Kinds == {"ack", "command"}
Callback == {"connect", "disconnect"} \X Conns

HubTypeOK ==
  /\ clients \in [Agents -> Conns \cup {NoConn}]
  /\ register \in Seq(Conns)
  /\ unregister \in Seq(Conns)
  /\ callbacks \subseteq Callback
  /\ closed \in [Conns -> BOOLEAN]
  /\ sendCh \in [Conns -> Seq(Kinds)]
  /\ handler \in [Conns -> {"none", "registered", "announced", "acking", "done"}]
  /\ reader \in [Conns -> {"none", "reading", "ended"}]
  /\ writer \in [Conns -> {"none", "writing", "ended"}]
  /\ link \in [Conns -> BOOLEAN]
  /\ sending \in [Conns \cup Callers -> Conns \cup {NoConn}]
  /\ panicked \in BOOLEAN

HubInit ==
  /\ clients = [a \in Agents |-> NoConn]
  /\ register = <<>>
  /\ unregister = <<>>
  /\ callbacks = {}
  /\ closed = [c \in Conns |-> FALSE]
  /\ sendCh = [c \in Conns |-> <<>>]
  /\ handler = [c \in Conns |-> "none"]
  /\ reader = [c \in Conns |-> "none"]
  /\ writer = [c \in Conns |-> "none"]
  /\ link = [c \in Conns |-> FALSE]
  /\ sending = [p \in Conns \cup Callers |-> NoConn]
  /\ panicked = FALSE

-----------------------------------------------------------------------------
InChannel(c, channel) == \E i \in 1..Len(channel) : channel[i] = c

(* The hub has received the connection from its register channel.          *)
Taken(c) == handler[c] # "none" /\ ~InChannel(c, register)

Mapped(c) == clients[Owner[c]] = c

(* No goroutine, channel, map entry or callback refers to the connection:  *)
(* the object is garbage and its name stands for the next one.             *)
Collected(c) ==
  \/ handler[c] = "none"
  \/ /\ handler[c] = "done" /\ reader[c] = "ended" /\ writer[c] = "ended"
     /\ ~Mapped(c)
     /\ ~InChannel(c, register) /\ ~InChannel(c, unregister)
     /\ \A k \in {"connect", "disconnect"} : <<k, c>> \notin callbacks
     /\ \A p \in Conns \cup Callers : sending[p] # c

-----------------------------------------------------------------------------
(* HandleConnection up to hub.Register: the upgrade succeeds, the first    *)
(* message is a well-formed register, the connection object is created and *)
(* put on the register channel.  (On any error before that the socket is   *)
(* closed and nothing here changes.)                                       *)
Accept(c) ==
  /\ ~panicked
  /\ Collected(c)
  /\ Len(register) < ChanCap
  /\ register' = Append(register, c)
  /\ closed' = [closed EXCEPT ![c] = FALSE]
  /\ sendCh' = [sendCh EXCEPT ![c] = <<>>]
  /\ link' = [link EXCEPT ![c] = TRUE]
  /\ handler' = [handler EXCEPT ![c] = "registered"]
  /\ reader' = [reader EXCEPT ![c] = "none"]
  /\ writer' = [writer EXCEPT ![c] = "none"]
  /\ UNCHANGED <<clients, unregister, callbacks, sending, panicked>>

(* HandleConnection calls cluster.HandleHeartbeat(..., "online", nil).     *)
Announce(c) ==
  /\ ~panicked
  /\ handler[c] = "registered"
  /\ handler' = [handler EXCEPT ![c] = "announced"]
  /\ UNCHANGED <<clients, register, unregister, callbacks, closed, sendCh,
                 reader, writer, link, sending, panicked>>

(* HandleConnection ends: it starts the two pumps.                         *)
StartPumps(c) ==
  /\ handler' = [handler EXCEPT ![c] = "done"]
  /\ reader' = [reader EXCEPT ![c] = "reading"]
  /\ writer' = [writer EXCEPT ![c] = "writing"]

(* WSClientConn.Send(ack), first half: the closed flag under the mutex.    *)
TakeAck(c) ==
  /\ ~panicked
  /\ handler[c] = "announced"
  /\ IF closed[c]
       THEN StartPumps(c) /\ UNCHANGED sending
       ELSE /\ sending' = [sending EXCEPT ![c] = c]
            /\ handler' = [handler EXCEPT ![c] = "acking"]
            /\ UNCHANGED <<reader, writer>>
  /\ UNCHANGED <<clients, register, unregister, callbacks, closed, sendCh,
                 link, panicked>>

(* The second half of a send by goroutine p, outside every lock: put the   *)
(* message, or drop it if the channel is full.  If it is closed, p panics. *)
Put(p, kind) ==
  LET t == sending[p] IN
  /\ sending' = [sending EXCEPT ![p] = NoConn]
  /\ IF ~closed[t] /\ Len(sendCh[t]) < SendCap
       THEN sendCh' = [sendCh EXCEPT ![t] = Append(@, kind)]
       ELSE UNCHANGED sendCh

PutPanics(p) == closed[sending[p]]

(* In HandleConnection a panic is recovered: the pumps are never started.  *)
PutAck(c) ==
  /\ ~panicked
  /\ handler[c] = "acking"
  /\ Put(c, "ack")
  /\ IF PutPanics(c)
       THEN /\ handler' = [handler EXCEPT ![c] = "done"]
            /\ reader' = [reader EXCEPT ![c] = "ended"]
            /\ writer' = [writer EXCEPT ![c] = "ended"]
       ELSE StartPumps(c)
  /\ UNCHANGED <<clients, register, unregister, callbacks, closed, link, panicked>>

-----------------------------------------------------------------------------
(* readPump receives a heartbeat; handleHeartbeat acknowledges it on the   *)
(* connection the map holds now (GetClient), which need not be the one the *)
(* heartbeat came in on.                                                   *)
ReadHeartbeat(c) ==
  /\ ~panicked
  /\ reader[c] = "reading" /\ sending[c] = NoConn
  /\ link[c] /\ ~closed[c]
  /\ LET t == clients[Owner[c]] IN
       IF t = NoConn \/ (t # NoConn /\ closed[t])
         THEN UNCHANGED sending
         ELSE sending' = [sending EXCEPT ![c] = t]
  /\ UNCHANGED <<clients, register, unregister, callbacks, closed, sendCh,
                 handler, reader, writer, link, panicked>>

PutReply(c) ==
  /\ ~panicked
  /\ reader[c] = "reading" /\ sending[c] # NoConn
  /\ Put(c, "ack")
  /\ panicked' = PutPanics(c)
  /\ UNCHANGED <<clients, register, unregister, callbacks, closed, handler,
                 reader, writer, link>>

(* Mutant of ReadError: the defer of readPump closes but unregisters not.  *)
ReadErrorSilent(c) ==
  /\ ~panicked
  /\ reader[c] = "reading" /\ sending[c] = NoConn
  /\ closed[c] \/ ~link[c]
  /\ reader' = [reader EXCEPT ![c] = "ended"]
  /\ closed' = [closed EXCEPT ![c] = TRUE]
  /\ UNCHANGED <<clients, register, unregister, callbacks, sendCh, handler,
                 writer, link, sending, panicked>>

(* ReadMessage fails, readPump returns and its defer calls Unregister.     *)
ReadError(c) ==
  /\ ~panicked
  /\ reader[c] = "reading" /\ sending[c] = NoConn
  /\ closed[c] \/ ~link[c]
  /\ Len(unregister) < ChanCap
  /\ reader' = [reader EXCEPT ![c] = "ended"]
  /\ unregister' = Append(unregister, c)
  /\ UNCHANGED <<clients, register, callbacks, closed, sendCh, handler,
                 writer, link, sending, panicked>>

(* writePump takes a message and writes it: to the agent, or into the      *)
(* socket buffer of a link that is already broken.                         *)
WriteMessage(c) ==
  /\ ~panicked
  /\ writer[c] = "writing"
  /\ sendCh[c] # <<>>
  /\ ~closed[c]
  /\ sendCh' = [sendCh EXCEPT ![c] = Tail(@)]
  /\ UNCHANGED <<clients, register, unregister, callbacks, closed, handler,
                 reader, writer, link, sending, panicked>>

(* writePump returns: a write or a ping failed, or SendCh is closed.  Its  *)
(* defer calls Close.  Nobody reads SendCh any more, so what is left in it *)
(* is dropped.                                                             *)
WriteError(c) ==
  /\ ~panicked
  /\ writer[c] = "writing"
  /\ closed[c] \/ ~link[c]
  /\ writer' = [writer EXCEPT ![c] = "ended"]
  /\ closed' = [closed EXCEPT ![c] = TRUE]
  /\ sendCh' = [sendCh EXCEPT ![c] = <<>>]
  /\ UNCHANGED <<clients, register, unregister, callbacks, handler, reader,
                 link, sending, panicked>>

(* The connection breaks, or the agent closes it.                          *)
LinkBreak(c) ==
  /\ ~panicked
  /\ handler[c] # "none" /\ link[c] /\ ~closed[c]
  /\ link' = [link EXCEPT ![c] = FALSE]
  /\ UNCHANGED <<clients, register, unregister, callbacks, closed, sendCh,
                 handler, reader, writer, sending, panicked>>

-----------------------------------------------------------------------------
(* Mutant of HubRegister: without the old.Close() of ws_hub.go:65.         *)
HubRegisterKeepsOld ==
  /\ ~panicked
  /\ register # <<>>
  /\ LET c == Head(register) IN
        /\ clients' = [clients EXCEPT ![Owner[c]] = c]
        /\ callbacks' = callbacks \cup {<<"connect", c>>}
  /\ register' = Tail(register)
  /\ UNCHANGED <<closed, unregister, sendCh, handler, reader, writer, link,
                 sending, panicked>>

(* The cases of the select in WSHub.Run.  Run chooses among the ready      *)
(* channels at random: register and unregister are not ordered.            *)
HubRegister ==
  /\ ~panicked
  /\ register # <<>>
  /\ LET c == Head(register)
         old == clients[Owner[c]]
     IN /\ closed' = [d \in Conns |-> closed[d] \/ d = old]
        /\ clients' = [clients EXCEPT ![Owner[c]] = c]
        /\ callbacks' = callbacks \cup {<<"connect", c>>}
  /\ register' = Tail(register)
  /\ UNCHANGED <<unregister, sendCh, handler, reader, writer, link, sending,
                 panicked>>

(* Mutants of HubUnregister: without the test `existing == client`, and    *)
(* with the callback told what the map holds after the delete.             *)
HubUnregisterAnyone ==
  /\ ~panicked
  /\ unregister # <<>>
  /\ LET c == Head(unregister) IN
       /\ clients' = [clients EXCEPT ![Owner[c]] = NoConn]
       /\ closed' = [closed EXCEPT ![c] = TRUE]
       /\ callbacks' = callbacks \cup {<<"disconnect", c>>}
  /\ unregister' = Tail(unregister)
  /\ UNCHANGED <<register, sendCh, handler, reader, writer, link, sending,
                 panicked>>

HubUnregisterLooksUp ==
  /\ ~panicked
  /\ unregister # <<>>
  /\ LET c == Head(unregister) IN
       /\ clients' = [clients EXCEPT ![Owner[c]] = IF Mapped(c) THEN NoConn ELSE @]
       /\ closed' = [closed EXCEPT ![c] = closed[c] \/ Mapped(c)]
       /\ callbacks' = callbacks \cup {<<"disconnect", clients'[Owner[c]]>>}
  /\ unregister' = Tail(unregister)
  /\ UNCHANGED <<register, sendCh, handler, reader, writer, link, sending,
                 panicked>>

HubUnregister ==
  /\ ~panicked
  /\ unregister # <<>>
  /\ LET c == Head(unregister) IN
       /\ IF Mapped(c)
            THEN /\ clients' = [clients EXCEPT ![Owner[c]] = NoConn]
                 /\ closed' = [closed EXCEPT ![c] = TRUE]
            ELSE UNCHANGED <<clients, closed>>
       /\ callbacks' = callbacks \cup {<<"disconnect", c>>}
  /\ unregister' = Tail(unregister)
  /\ UNCHANGED <<register, sendCh, handler, reader, writer, link, sending,
                 panicked>>

(* A broadcast (BroadcastRefreshEnv): put it on every SendCh that has      *)
(* room; one closed SendCh in the map is enough for the panic.             *)
HubBroadcast ==
  /\ ~panicked
  /\ LET live == {c \in Conns : Mapped(c)} IN
       /\ live # {}
       /\ panicked' = (\E c \in live : closed[c])
       /\ sendCh' = [c \in Conns |->
                       IF c \in live /\ ~closed[c] /\ Len(sendCh[c]) < SendCap
                         THEN Append(sendCh[c], "command") ELSE sendCh[c]]
  /\ UNCHANGED <<clients, register, unregister, callbacks, closed, handler,
                 reader, writer, link, sending>>

(* Run started `go h.onConnect(id)` or `go h.onDisconnect(id)`; the        *)
(* goroutine runs some time later, in any order.                           *)
RunCallback(k, c) ==
  /\ ~panicked
  /\ <<k, c>> \in callbacks
  /\ callbacks' = callbacks \ {<<k, c>>}
  /\ UNCHANGED <<clients, register, unregister, closed, sendCh, handler,
                 reader, writer, link, sending, panicked>>

-----------------------------------------------------------------------------
(* SendToAgent, first half: the map lookup under RLock.  It does not look  *)
(* at the closed flag.  (No entry: it returns false and changes nothing.)  *)
TakeClient(s, a) ==
  /\ ~panicked
  /\ sending[s] = NoConn
  /\ clients[a] # NoConn
  /\ sending' = [sending EXCEPT ![s] = clients[a]]
  /\ UNCHANGED <<clients, register, unregister, callbacks, closed, sendCh,
                 handler, reader, writer, link, panicked>>

(* SendToAgent, second half, in an HTTP handler or in a chat's goroutine.  *)
PutCommand(s) ==
  /\ ~panicked
  /\ sending[s] # NoConn
  /\ Put(s, "command")
  /\ panicked' \in {FALSE, PutPanics(s)}
  /\ UNCHANGED <<clients, register, unregister, callbacks, closed, handler,
                 reader, writer, link>>

(* The process died of the panic; systemd starts it again (Restart=always) *)
(* with empty memory, and every socket of the old process is gone.         *)
Restart ==
  /\ panicked
  /\ clients' = [a \in Agents |-> NoConn]
  /\ register' = <<>>
  /\ unregister' = <<>>
  /\ callbacks' = {}
  /\ closed' = [c \in Conns |-> FALSE]
  /\ sendCh' = [c \in Conns |-> <<>>]
  /\ handler' = [c \in Conns |-> "none"]
  /\ reader' = [c \in Conns |-> "none"]
  /\ writer' = [c \in Conns |-> "none"]
  /\ link' = [c \in Conns |-> FALSE]
  /\ sending' = [p \in Conns \cup Callers |-> NoConn]
  /\ panicked' = FALSE

-----------------------------------------------------------------------------
ConnStep(c) ==
  \/ Accept(c)
  \/ Announce(c)
  \/ TakeAck(c)
  \/ PutAck(c)
  \/ ReadHeartbeat(c)
  \/ PutReply(c)
  \/ ReadError(c)
  \/ WriteMessage(c)
  \/ WriteError(c)
  \/ LinkBreak(c)

HubLoopStep ==
  \/ HubRegister
  \/ HubUnregister
  \/ HubBroadcast
  \/ \E k \in {"connect", "disconnect"}, c \in Conns : RunCallback(k, c)

CallerStep(s) ==
  \/ \E a \in Agents : TakeClient(s, a)
  \/ PutCommand(s)

HubNext ==
  \/ \E c \in Conns : ConnStep(c)
  \/ HubLoopStep
  \/ \E s \in Callers : CallerStep(s)
  \/ Restart

HubSpec == HubInit /\ [][HubNext]_hubVars

(* Every goroutine that can take a step takes one eventually; the select   *)
(* of Run does not pass over a ready channel for ever; a broken link is    *)
(* noticed by the read deadline and by the ping; systemd restarts.  The    *)
(* environment (new connections, broken links, senders) owes nothing.      *)
HubFairness ==
  /\ \A c \in Conns :
       /\ WF_hubVars(Announce(c))
       /\ WF_hubVars(TakeAck(c))
       /\ WF_hubVars(PutAck(c))
       /\ WF_hubVars(PutReply(c))
       /\ WF_hubVars(ReadError(c))
       /\ WF_hubVars(WriteError(c))
       /\ \A k \in {"connect", "disconnect"} : WF_hubVars(RunCallback(k, c))
  /\ WF_hubVars(HubRegister)
  /\ WF_hubVars(HubUnregister)
  /\ WF_hubVars(Restart)

HubFairSpec == HubSpec /\ HubFairness

-----------------------------------------------------------------------------
(* A connection the hub has taken is the agent's entry or it is closed: no *)
(* second live connection of an agent survives a reconnect, whichever      *)
(* order the old connection's end and the new one's registration come in   *)
(* (ws_hub.go, Run: old.Close() and `existing == client`).                 *)
NoOrphanConnection ==
  \A c \in Conns : Taken(c) => Mapped(c) \/ closed[c]

(* An entry of the map disappears only after its own readPump has ended:   *)
(* the late unregister of a replaced connection never removes the          *)
(* connection that replaced it (ws_hub.go, Run, unregister case).          *)
EntryRemovedByItself ==
  [][\A a \in Agents :
       clients[a] # NoConn /\ clients'[a] = NoConn
         => panicked \/ reader[clients[a]] = "ended"]_hubVars

(* A mapped connection whose link breaks while its readPump runs leaves    *)
(* the map: it is unregistered, replaced, or the process is restarted.     *)
BrokenLinkLeavesHub ==
  \A c \in Conns :
    (Mapped(c) /\ ~link[c] /\ reader[c] = "reading") ~> ~Mapped(c)
=============================================================================
