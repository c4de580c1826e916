------------------------------- MODULE WSClient -------------------------------
(***************************************************************************)
(* The agent's WebSocket client (internal/agent-node/ws_client.go).        *)
(*                                                                         *)
(* Goroutines: the connector (Start's first connect, then reconnectLoop),  *)
(* a readLoop and a writeLoop for every connection made, the goroutines    *)
(* that call Send, and the one that calls Stop.  They share conn and       *)
(* connected (under mu), the channel sendCh, and the context.  A readLoop  *)
(* ends with its connection, clears connected and closes whatever conn is  *)
(* then.  A writeLoop does not belong to a connection: it looks up conn    *)
(* for each message, drops the message when not connected, and ends only   *)
(* when a write fails or the context is cancelled.  After a reconnect two  *)
(* of them can therefore be writing on one connection, which               *)
(* gorilla/websocket forbids; it panics when it notices.                   *)
(*                                                                         *)
(* Abstracted: messages are counted; ReadTimeout passes when no pong can   *)
(* have come (the link is broken or nobody writes pings) and WriteTimeout  *)
(* at any time.  MaxReconnectAttempts is 0, no limit, as the agent never   *)
(* sets it, and reconnectCnt has no effect then.                           *)
(***************************************************************************)
EXTENDS Naturals

CONSTANTS
  Conns,    \* websocket.Conn objects; reused once collected
  Writers,  \* names of writeLoop goroutines; reused when ended
  SendCap,  \* capacity of sendCh, 256 in the code
  NoConn    \* nil

ASSUME ClientAssumption ==
  /\ NoConn \notin Conns
  /\ SendCap \in Nat \ {0}

VARIABLES
  reachable,  \* the master accepts connections
  link,       \* a connection's TCP link, "closed" once the agent closed it
  conn,       \* WSClient.conn
  connected,  \* WSClient.connected
  connector,  \* where Start or reconnectLoop is; the connection connect made
  reader,     \* the readLoop started with a connection, the one it reads
  writer,     \* each writeLoop; the connection it is writing on
  queued,     \* number of messages in sendCh
  cancelled,  \* the context is cancelled
  stopped     \* Stop has returned

clientVars == <<reachable, link, conn, connected, connector, reader, writer,
                queued, cancelled, stopped>>

MaybeConn == Conns \cup {NoConn}

ClientTypeOK ==
  /\ reachable \in BOOLEAN
  /\ link \in [Conns -> {"none", "up", "down", "closed"}]
  /\ conn \in MaybeConn
  /\ connected \in BOOLEAN
  /\ connector \in [at : {"start", "waiting", "dialing", "shaking", "ended"},
                    conn : MaybeConn]
  /\ reader \in [Conns -> [at : {"none", "starting", "reading", "scanning"},
                        conn : MaybeConn]]
  /\ writer \in [Writers -> [at : {"none", "idle", "writing"}, conn : MaybeConn]]
  /\ queued \in 0..SendCap
  /\ cancelled \in BOOLEAN
  /\ stopped \in BOOLEAN

At(place) == [at |-> place, conn |-> NoConn]

ClientInit ==
  /\ reachable = TRUE
  /\ link = [c \in Conns |-> "none"]
  /\ conn = NoConn
  /\ connected = FALSE
  /\ connector = At("start")
  /\ reader = [c \in Conns |-> At("none")]
  /\ writer = [w \in Writers |-> At("none")]
  /\ queued = 0
  /\ cancelled = FALSE
  /\ stopped = FALSE

-----------------------------------------------------------------------------
Open(c) == link[c] \in {"up", "down"}

LiveReader(c) == reader[c].at # "none"

LiveWriters == {w \in Writers : writer[w].at # "none"}

WritingOn(c) == {w \in Writers : writer[w].at = "writing" /\ writer[w].conn = c}

(* No goroutine and no field refers to the connection.                     *)
Collected(c) ==
  /\ ~Open(c) /\ conn # c /\ connector.conn # c
  /\ ~LiveReader(c) /\ WritingOn(c) = {}
  /\ \A d \in Conns : reader[d].conn # c

-----------------------------------------------------------------------------
(* reconnectLoop's ticker: not connected, so connect is called.            *)
Tick ==
  /\ connector.at = "waiting" /\ ~connected
  /\ connector' = At("dialing")
  /\ UNCHANGED <<reachable, link, conn, connected, reader, writer, queued, cancelled, stopped>>

(* reconnectLoop sees the cancelled context.                               *)
LoopEnds ==
  /\ connector.at = "waiting" /\ cancelled
  /\ connector' = At("ended")
  /\ UNCHANGED <<reachable, link, conn, connected, reader, writer, queued, cancelled, stopped>>

(* connect: the connection is made and the register message written.       *)
Dial(c) ==
  /\ connector.at \in {"start", "dialing"}
  /\ reachable /\ ~cancelled
  /\ Collected(c)
  /\ link' = [link EXCEPT ![c] = "up"]
  /\ connector' = [at |-> "shaking", conn |-> c]
  /\ UNCHANGED <<reachable, conn, connected, reader, writer, queued, cancelled, stopped>>

(* Mutant of DialFails: Start returns the error and starts no loop.        *)
DialFailsGivesUp ==
  /\ connector.at \in {"start", "dialing"}
  /\ ~reachable \/ cancelled
  /\ connector' = At(IF connector.at = "start" THEN "ended" ELSE "waiting")
  /\ UNCHANGED <<reachable, link, conn, connected, reader, writer, queued, cancelled, stopped>>

DialFails ==
  /\ connector.at \in {"start", "dialing"}
  /\ ~reachable \/ cancelled
  /\ connector' = At("waiting")
  /\ UNCHANGED <<reachable, link, conn, connected, reader, writer, queued, cancelled, stopped>>

(* connect: the ack has come; the connection is published and its readLoop *)
(* and writeLoop are started.                                              *)
Acked(w) ==
  /\ connector.at = "shaking" /\ link[connector.conn] = "up"
  /\ writer[w].at = "none"
  /\ conn' = connector.conn
  /\ connected' = TRUE
  /\ reader' = [reader EXCEPT ![connector.conn] = At("starting")]
  /\ writer' = [writer EXCEPT ![w] = At("idle")]
  /\ connector' = At("waiting")
  /\ UNCHANGED <<reachable, link, queued, cancelled, stopped>>

(* Mutant of NotAcked: the error path does not close the connection.       *)
NotAckedLeaks ==
  /\ connector.at = "shaking"
  /\ connector' = At("waiting")
  /\ UNCHANGED <<reachable, link, conn, connected, reader, writer, queued, cancelled, stopped>>

(* connect: an error, or a first message that is not an ack, as the hub    *)
(* may put a command on a connection before its ack.                       *)
NotAcked ==
  /\ connector.at = "shaking"
  /\ link' = [link EXCEPT ![connector.conn] = "closed"]
  /\ connector' = At("waiting")
  /\ UNCHANGED <<reachable, conn, connected, reader, writer, queued, cancelled, stopped>>

-----------------------------------------------------------------------------
(* The deferred function of a readLoop: it closes what conn is now.        *)
EndReader(c) ==
  /\ connected' = FALSE
  /\ link' = [d \in Conns |-> IF d = conn THEN "closed" ELSE link[d]]
  /\ reader' = [reader EXCEPT ![c] = At("none")]

(* readLoop takes conn as the connection it will read.  (The return for a  *)
(* nil conn is never taken: Stop, which clears conn, waits for readLoops.) *)
StartReading(c) ==
  /\ reader[c].at = "starting"
  /\ IF conn = NoConn
       THEN EndReader(c)
       ELSE /\ reader' = [reader EXCEPT ![c] = [at |-> "reading", conn |-> conn]]
            /\ UNCHANGED <<link, connected>>
  /\ UNCHANGED <<reachable, conn, connector, writer, queued, cancelled, stopped>>

(* Mutant of ReadMessage: the handler's answer is appended to a list.      *)
ReadMessageUnbounded(c) ==
  /\ reader[c].at = "reading" /\ link[reader[c].conn] = "up"
  /\ queued' \in {queued, queued + 1}
  /\ IF cancelled THEN EndReader(c) ELSE UNCHANGED <<link, connected, reader>>
  /\ UNCHANGED <<reachable, conn, connector, writer, cancelled, stopped>>

(* The handler of a message returns and may have Sent an answer.  The loop *)
(* then looks at the context.                                              *)
HandlerReturns(c) ==
  /\ queued' \in {queued, queued + 1} /\ queued' <= SendCap
  /\ IF cancelled THEN EndReader(c)
                  ELSE /\ reader' = [reader EXCEPT ![c].at = "reading"]
                       /\ UNCHANGED <<link, connected>>
  /\ UNCHANGED <<reachable, conn, connector, writer, cancelled, stopped>>

(* A message comes whose handler returns at once.                          *)
ReadMessage(c) ==
  /\ reader[c].at = "reading" /\ link[reader[c].conn] = "up"
  /\ HandlerReturns(c)

(* A refresh_env comes: readLoop itself runs docker ps and docker inspect, *)
(* without a time limit, and reads nothing meanwhile.                      *)
StartRefresh(c) ==
  /\ reader[c].at = "reading" /\ link[reader[c].conn] = "up"
  /\ reader' = [reader EXCEPT ![c].at = "scanning"]
  /\ UNCHANGED <<reachable, link, conn, connected, connector, writer, queued, cancelled, stopped>>

(* Docker answers, which it may never do; the environment is sent.         *)
EndRefresh(c) ==
  /\ reader[c].at = "scanning"
  /\ HandlerReturns(c)

(* Mutant of ReadFails: without the read deadline, a silent link is read   *)
(* for ever.                                                               *)
ReadFailsIfClosed(c) ==
  /\ reader[c].at = "reading" /\ link[reader[c].conn] = "closed"
  /\ EndReader(c)
  /\ UNCHANGED <<reachable, conn, connector, writer, queued, cancelled, stopped>>

(* Mutant of ReadFails: every frame, a ping of the master included, moves  *)
(* the deadline.                                                           *)
ReadFailsIfBroken(c) ==
  /\ reader[c].at = "reading" /\ link[reader[c].conn] # "up"
  /\ EndReader(c)
  /\ UNCHANGED <<reachable, conn, connector, writer, queued, cancelled, stopped>>

(* ReadMessage returns an error: the connection is broken or closed, or no *)
(* pong has come for ReadTimeout.                                          *)
ReadFails(c) ==
  /\ reader[c].at = "reading"
  /\ link[reader[c].conn] # "up" \/ LiveWriters = {}
  /\ EndReader(c)
  /\ UNCHANGED <<reachable, conn, connector, writer, queued, cancelled, stopped>>

-----------------------------------------------------------------------------
(* writeLoop takes a message; when not connected the message is dropped.   *)
TakeMessage(w) ==
  /\ writer[w].at = "idle" /\ queued > 0
  /\ queued' = queued - 1
  /\ writer' = [writer EXCEPT ![w] =
       IF connected THEN [at |-> "writing", conn |-> conn] ELSE @]
  /\ UNCHANGED <<reachable, link, conn, connected, connector, reader, cancelled, stopped>>

(* writeLoop's ticker: a ping.                                             *)
Ping(w) ==
  /\ writer[w].at = "idle" /\ connected
  /\ writer' = [writer EXCEPT ![w] = [at |-> "writing", conn |-> conn]]
  /\ UNCHANGED <<reachable, link, conn, connected, connector, reader, queued, cancelled, stopped>>

(* The frame is written, if only into the buffer of a broken link.         *)
WriteDone(w) ==
  /\ writer[w].at = "writing" /\ Open(writer[w].conn)
  /\ writer' = [writer EXCEPT ![w] = At("idle")]
  /\ UNCHANGED <<reachable, link, conn, connected, connector, reader, queued, cancelled, stopped>>

(* Mutant of WriteFails: the writeLoop reports the connection as lost.     *)
WriteFailsTells(w) ==
  /\ writer[w].at = "writing"
  /\ writer' = [writer EXCEPT ![w] = At("none")]
  /\ connected' = FALSE
  /\ UNCHANGED <<reachable, link, conn, connector, reader, queued, cancelled, stopped>>

(* The write fails, or WriteTimeout passes: this writeLoop ends, and       *)
(* nobody is told.                                                         *)
WriteFails(w) ==
  /\ writer[w].at = "writing"
  /\ writer' = [writer EXCEPT ![w] = At("none")]
  /\ UNCHANGED <<reachable, link, conn, connected, connector, reader, queued, cancelled, stopped>>

WriterStops(w) ==
  /\ writer[w].at = "idle" /\ cancelled
  /\ writer' = [writer EXCEPT ![w] = At("none")]
  /\ UNCHANGED <<reachable, link, conn, connected, connector, reader, queued, cancelled, stopped>>

-----------------------------------------------------------------------------
(* Send, called by the loops of the agent when IsConnected: with sendCh    *)
(* full, or the context cancelled, the message is dropped.                 *)
Send ==
  /\ connected /\ queued < SendCap
  /\ queued' = queued + 1
  /\ UNCHANGED <<reachable, link, conn, connected, connector, reader, writer, cancelled, stopped>>

(* Stop, called after Start: cancel, ...                                   *)
Cancel ==
  /\ connector.at # "start" /\ ~cancelled
  /\ cancelled' = TRUE
  /\ UNCHANGED <<reachable, link, conn, connected, connector, reader, writer, queued, stopped>>

(* ... wait for reconnectLoop and for all readLoops and writeLoops, close. *)
StopReturns ==
  /\ cancelled /\ ~stopped
  /\ connector.at = "ended" /\ LiveWriters = {} /\ \A c \in Conns : ~LiveReader(c)
  /\ link' = [d \in Conns |-> IF d = conn THEN "closed" ELSE link[d]]
  /\ conn' = NoConn
  /\ connected' = FALSE
  /\ stopped' = TRUE
  /\ UNCHANGED <<reachable, connector, reader, writer, queued, cancelled>>

-----------------------------------------------------------------------------
(* The process ends, because it was stopped or because two writeLoops were *)
(* caught writing on one connection, and systemd starts it again.          *)
ProcessRestart ==
  /\ stopped \/ \E c \in Conns, w, v \in Writers : w # v /\ {w, v} \subseteq WritingOn(c)
  /\ link' = [c \in Conns |-> "none"]
  /\ conn' = NoConn
  /\ connected' = FALSE
  /\ connector' = At("start")
  /\ reader' = [c \in Conns |-> At("none")]
  /\ writer' = [w \in Writers |-> At("none")]
  /\ queued' = 0
  /\ cancelled' = FALSE
  /\ stopped' = FALSE
  /\ UNCHANGED reachable

(* The link breaks, by itself or since two writeLoops garbled a frame.     *)
(* (Bound: only while there is a name for the next writeLoop.)             *)
LinkBreaks(c) ==
  /\ link[c] = "up" /\ LiveWriters # Writers
  /\ link' = [link EXCEPT ![c] = "down"]
  /\ UNCHANGED <<reachable, conn, connected, connector, reader, writer, queued, cancelled, stopped>>

MasterComesOrGoes ==
  /\ reachable' = ~reachable
  /\ UNCHANGED <<link, conn, connected, connector, reader, writer, queued, cancelled, stopped>>

ReaderStep(c) ==
  \/ StartReading(c) \/ ReadMessage(c) \/ ReadFails(c)
  \/ StartRefresh(c) \/ EndRefresh(c)

WriterStep(w) ==
  TakeMessage(w) \/ Ping(w) \/ WriteDone(w) \/ WriteFails(w) \/ WriterStops(w)

ClientNext ==
  \/ Tick \/ LoopEnds \/ DialFails \/ NotAcked
  \/ \E c \in Conns : Dial(c) \/ ReaderStep(c) \/ LinkBreaks(c)
  \/ \E w \in Writers : Acked(w) \/ WriterStep(w)
  \/ Send \/ Cancel \/ StopReturns \/ ProcessRestart \/ MasterComesOrGoes

ClientSpec == ClientInit /\ [][ClientNext]_clientVars

(* Goroutines that can go on do.  Strong fairness: a handshake that can be *)
(* completed again and again is completed at some time; select does not    *)
(* pass over the cancelled context, or over a message, for ever; a read    *)
(* deadline that has passed stays passed while messages are handled.       *)
(* Docker owes no answer: nothing of EndRefresh.                           *)
ClientFairness ==
  /\ WF_clientVars(Tick \/ DialFails \/ NotAcked)
  /\ WF_clientVars(\E c \in Conns : Dial(c))
  /\ SF_clientVars(\E w \in Writers : Acked(w))
  /\ SF_clientVars(LoopEnds)
  /\ WF_clientVars(StopReturns)
  /\ WF_clientVars(\E c \in Conns : StartReading(c))
  /\ SF_clientVars(\E c \in Conns : ReadFails(c))
  /\ \A w \in Writers : WF_clientVars(WriteDone(w) \/ WriteFails(w))
  /\ SF_clientVars(\E w \in Writers : WriterStops(w))
  /\ SF_clientVars(\E w \in Writers : TakeMessage(w))

ClientFairSpec == ClientSpec /\ ClientFairness

-----------------------------------------------------------------------------
(* While the client says it is connected, exactly the readLoop started     *)
(* with conn is alive, and it reads conn: so the end of a connection       *)
(* clears the flag, and no late readLoop closes a later connection.        *)
ReaderMatchesConn ==
  \A c \in Conns :
    /\ LiveReader(c) <=> connected /\ conn = c
    /\ reader[c].at \in {"reading", "scanning"} => reader[c].conn = c

(* A socket is open only for the handshake or while connected; none is     *)
(* left after Stop (connect's error paths, readLoop's defer).              *)
NoSocketLeaks ==
  \A c \in Conns :
    Open(c) => \/ connector.at = "shaking" /\ connector.conn = c
               \/ connected /\ conn = c /\ ~stopped

DockerRuns == \E c \in Conns : reader[c].at = "scanning"

(* A broken link is noticed and closed, also when the writeLoop that would *)
(* have noticed is gone (ReadTimeout), unless its readLoop waits for a     *)
(* docker that hangs.                                                      *)
BrokenLinkNoticed ==
  \A c \in Conns :
    link[c] = "down" ~> link[c] # "down" \/ []DockerRuns

(* Stop returns, though readLoop looks at the context only after a message *)
(* and the connection is closed only after readLoop has ended; unless      *)
(* docker hangs, which Stop waits for.                                     *)
StopTerminates ==
  cancelled ~> stopped \/ ~cancelled \/ []DockerRuns

(* A client that is not stopped is connected again and again while the     *)
(* master accepts connections, and its channel does not stay full, unless  *)
(* docker hangs.                                                           *)
Reconnects ==
  <>[](reachable /\ ~cancelled) =>
    \/ []<>(connected /\ queued < SendCap)
    \/ <>[]DockerRuns
=============================================================================
