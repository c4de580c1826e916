---------------------------- MODULE WSClient_proofs ----------------------------
(***************************************************************************)
(* Proofs about the agent's WebSocket client, for any number of            *)
(* connections and writeLoops and any capacity of sendCh.                  *)
(*                                                                         *)
(* ReaderMatchesConn is not inductive alone: when connect publishes a      *)
(* connection, no readLoop may be alive.  None is, as the client was not   *)
(* connected when connect began, only connect sets the flag, and           *)
(* there is one connector (NotConnectedWhileConnecting).  That no socket   *)
(* is open after Stop needs that the connector has ended then              *)
(* (StoppedIsOver).                                                        *)
(***************************************************************************)
EXTENDS WSClient, TLAPS

(* A connection is being made only when none is published, and it is not   *)
(* yet the published one.                                                  *)
NotConnectedWhileConnecting ==
  /\ connector.at \in {"start", "dialing", "shaking"} => ~connected
  /\ connector.at = "shaking" => connector.conn \in Conns

StoppedIsOver == stopped => connector.at = "ended" /\ ~connected /\ cancelled

ClientInv ==
  /\ ClientTypeOK
  /\ ReaderMatchesConn
  /\ NoSocketLeaks
  /\ NotConnectedWhileConnecting
  /\ StoppedIsOver

-----------------------------------------------------------------------------
(* What happens to readLoops, flag and links when a readLoop ends.         *)
LEMMA EndReaderKeeps ==
  ASSUME ClientInv, NEW c \in Conns, LiveReader(c), EndReader(c),
         UNCHANGED <<reachable, conn, connector, writer, cancelled, stopped>>,
         queued' \in 0..SendCap
  PROVE  ClientInv'
<1>1. connected /\ conn = c
  BY DEF ClientInv, ReaderMatchesConn
<1>2. connector.at \notin {"start", "dialing", "shaking"}
  BY <1>1 DEF ClientInv, NotConnectedWhileConnecting
<1>3. ClientTypeOK'
  BY DEF ClientInv, ClientTypeOK, EndReader, At, MaybeConn
<1>4. \A d \in Conns : ~LiveReader(d)'
  BY <1>1 DEF ClientInv, ClientTypeOK, ReaderMatchesConn, LiveReader, EndReader, At
<1>5. ReaderMatchesConn'
  BY <1>4 DEF ReaderMatchesConn, LiveReader, EndReader
<1>6. \A d \in Conns : ~Open(d)'
  BY <1>1, <1>2 DEF ClientInv, ClientTypeOK, NoSocketLeaks, Open, EndReader
<1>7. NoSocketLeaks'
  BY <1>6 DEF NoSocketLeaks
<1>8. NotConnectedWhileConnecting' /\ StoppedIsOver'
  BY <1>1 DEF ClientInv, NotConnectedWhileConnecting, StoppedIsOver, EndReader
<1> QED
  BY <1>3, <1>5, <1>7, <1>8 DEF ClientInv

(* Steps that leave links, readLoops, conn, connected and connector alone. *)
LEMMA QuietKeeps ==
  ASSUME ClientInv,
         UNCHANGED <<link, conn, connected, connector, reader>>,
         stopped' => stopped, stopped' => cancelled',
         reachable' \in BOOLEAN, cancelled' \in BOOLEAN, stopped' \in BOOLEAN,
         queued' \in 0..SendCap,
         writer' \in [Writers -> [at : {"none", "idle", "writing"}, conn : MaybeConn]]
  PROVE  ClientInv'
<1>1. ClientTypeOK'
  BY DEF ClientInv, ClientTypeOK, MaybeConn
<1>2. ReaderMatchesConn' /\ NotConnectedWhileConnecting' /\ StoppedIsOver'
  BY DEF ClientInv, ReaderMatchesConn, NotConnectedWhileConnecting, StoppedIsOver, LiveReader
<1>3. NoSocketLeaks'
  BY DEF ClientInv, NoSocketLeaks, Open
<1> QED
  BY <1>1, <1>2, <1>3 DEF ClientInv

(* The invariant holds at the start, which is also where a restart leads.  *)
LEMMA InitHasClientInv == ClientInit => ClientInv
<1> SUFFICES ASSUME ClientInit
             PROVE  ClientInv
  OBVIOUS
<1>1. ClientTypeOK
  <2>1. /\ At("none") \in [at : {"none", "starting", "reading", "scanning"}, conn : MaybeConn]
        /\ At("none") \in [at : {"none", "idle", "writing"}, conn : MaybeConn]
        /\ At("start") \in [at : {"start", "waiting", "dialing", "shaking", "ended"},
                            conn : MaybeConn]
    BY DEF At, MaybeConn
  <2>2. 0 \in 0..SendCap
    BY ClientAssumption
  <2> QED
    BY <2>1, <2>2 DEF ClientInit, ClientTypeOK, MaybeConn
<1>2. \A c \in Conns : ~LiveReader(c) /\ ~Open(c) /\ reader[c].at = "none"
  BY DEF ClientInit, LiveReader, Open, At
<1>3. ReaderMatchesConn /\ NoSocketLeaks
  BY <1>2 DEF ClientInit, ReaderMatchesConn, NoSocketLeaks
<1>4. NotConnectedWhileConnecting /\ StoppedIsOver
  BY DEF ClientInit, NotConnectedWhileConnecting, StoppedIsOver, At
<1> QED
  BY <1>1, <1>3, <1>4 DEF ClientInv

LEMMA WriterStepKeeps ==
  ASSUME ClientInv, NEW w \in Writers, WriterStep(w)
  PROVE  ClientInv'
<1> USE DEF ClientInv, ClientTypeOK, MaybeConn
<1>1. CASE TakeMessage(w)
  <2>1. queued' \in 0..SendCap
    BY <1>1, ClientAssumption DEF TakeMessage
  <2>2. writer' \in [Writers -> [at : {"none", "idle", "writing"}, conn : MaybeConn]]
    BY <1>1 DEF TakeMessage
  <2> QED
    BY <1>1, <2>1, <2>2, QuietKeeps DEF TakeMessage, StoppedIsOver
<1>2. CASE Ping(w) \/ WriteDone(w) \/ WriteFails(w) \/ WriterStops(w)
  <2>1. writer' \in [Writers -> [at : {"none", "idle", "writing"}, conn : MaybeConn]]
    BY <1>2 DEF Ping, WriteDone, WriteFails, WriterStops, At
  <2> QED
    BY <1>2, <2>1, QuietKeeps DEF Ping, WriteDone, WriteFails, WriterStops, StoppedIsOver
<1> QED
  BY <1>1, <1>2 DEF WriterStep

(* A readLoop that goes from reading to docker or back.                    *)
LEMMA MovedReaderKeeps ==
  ASSUME ClientInv, NEW c \in Conns, reader[c].at \in {"reading", "scanning"},
         NEW l \in {"reading", "scanning"}, reader' = [reader EXCEPT ![c].at = l],
         UNCHANGED <<reachable, link, conn, connected, connector, writer, cancelled, stopped>>,
         queued' \in 0..SendCap
  PROVE  ClientInv'
<1>1. ClientTypeOK'
  BY DEF ClientInv, ClientTypeOK, MaybeConn
<1>2. /\ reader'[c].at = l /\ reader'[c].conn = reader[c].conn
      /\ \A d \in Conns : d # c => reader'[d] = reader[d]
  BY DEF ClientInv, ClientTypeOK
<1>3. ReaderMatchesConn'
  BY <1>2 DEF ClientInv, ReaderMatchesConn, LiveReader
<1>4. NoSocketLeaks' /\ NotConnectedWhileConnecting' /\ StoppedIsOver'
  BY DEF ClientInv, NoSocketLeaks, Open, NotConnectedWhileConnecting, StoppedIsOver
<1> QED
  BY <1>1, <1>3, <1>4 DEF ClientInv

LEMMA ReaderStepKeeps ==
  ASSUME ClientInv, NEW c \in Conns, ReaderStep(c)
  PROVE  ClientInv'
<1>1. CASE StartReading(c)
  <2>1. LiveReader(c)
    BY <1>1 DEF StartReading, LiveReader
  <2>2. conn = c /\ connected
    BY <2>1 DEF ClientInv, ReaderMatchesConn
  <2>3. conn # NoConn
    BY <2>2, ClientAssumption
  <2>4. /\ reader' = [reader EXCEPT ![c] = [at |-> "reading", conn |-> c]]
        /\ UNCHANGED <<link, connected, reachable, conn, connector, writer, queued,
                       cancelled, stopped>>
    BY <1>1, <2>2, <2>3 DEF StartReading
  <2>5. ClientTypeOK'
    BY <2>4 DEF ClientInv, ClientTypeOK, MaybeConn
  <2>6. ReaderMatchesConn'
    BY <2>1, <2>4 DEF ClientInv, ClientTypeOK, ReaderMatchesConn, LiveReader
  <2>7. NoSocketLeaks'
    BY <2>4 DEF ClientInv, NoSocketLeaks, Open
  <2>8. NotConnectedWhileConnecting' /\ StoppedIsOver'
    BY <2>4 DEF ClientInv, NotConnectedWhileConnecting, StoppedIsOver
  <2> QED
    BY <2>5, <2>6, <2>7, <2>8 DEF ClientInv
<1>2. CASE ReadMessage(c) \/ EndRefresh(c)
  <2>1. LiveReader(c) /\ HandlerReturns(c)
    BY <1>2 DEF ReadMessage, EndRefresh, LiveReader
  <2>2. queued' \in 0..SendCap
    BY <2>1, ClientAssumption DEF HandlerReturns, ClientInv, ClientTypeOK
  <2>3. CASE cancelled
    BY <2>1, <2>2, <2>3, EndReaderKeeps DEF HandlerReturns
  <2>4. CASE ~cancelled
    <3>1. /\ reader' = [reader EXCEPT ![c].at = "reading"]
          /\ UNCHANGED <<reachable, link, conn, connected, connector, writer, cancelled,
                         stopped>>
      BY <2>1, <2>4 DEF HandlerReturns
    <3>2. reader[c].at \in {"reading", "scanning"}
      BY <1>2 DEF ReadMessage, EndRefresh
    <3> QED
      BY <2>2, <3>1, <3>2, MovedReaderKeeps
  <2> QED
    BY <2>3, <2>4
<1>4. CASE StartRefresh(c)
  BY <1>4, MovedReaderKeeps DEF StartRefresh, ClientInv, ClientTypeOK
<1>3. CASE ReadFails(c)
  BY <1>3, EndReaderKeeps DEF ReadFails, LiveReader, ClientInv, ClientTypeOK
<1> QED
  BY <1>1, <1>2, <1>3, <1>4 DEF ReaderStep

LEMMA ConnectorStepKeeps ==
  ASSUME ClientInv,
         Tick \/ LoopEnds \/ DialFails \/ NotAcked \/ (\E c \in Conns : Dial(c))
  PROVE  ClientInv'
<1> USE DEF ClientInv
<1>1. CASE Tick \/ LoopEnds \/ DialFails
  <2>1. /\ UNCHANGED <<reachable, link, conn, connected, reader, writer, queued, cancelled, stopped>>
        /\ connector' \in {At("dialing"), At("ended"), At("waiting")}
        /\ connector' = At("dialing") => ~connected
        /\ connector.at \notin {"shaking", "ended"}
    BY <1>1 DEF Tick, LoopEnds, DialFails, At
  <2>2. ClientTypeOK'
    BY <2>1 DEF ClientTypeOK, At, MaybeConn
  <2>3. ReaderMatchesConn'
    BY <2>1 DEF ReaderMatchesConn, LiveReader
  <2>4. NoSocketLeaks'
    BY <2>1 DEF NoSocketLeaks, Open
  <2>5. NotConnectedWhileConnecting' /\ StoppedIsOver'
    BY <2>1 DEF NotConnectedWhileConnecting, StoppedIsOver, At
  <2> QED
    BY <2>2, <2>3, <2>4, <2>5
<1>2. CASE NotAcked
  <2>1. connector.at = "shaking" /\ connector.conn \in Conns
    BY <1>2 DEF NotAcked, NotConnectedWhileConnecting
  <2>2. ClientTypeOK'
    BY <1>2, <2>1 DEF NotAcked, ClientTypeOK, At, MaybeConn
  <2>3. ReaderMatchesConn'
    BY <1>2 DEF NotAcked, ReaderMatchesConn, LiveReader
  <2>4. NoSocketLeaks'
    BY <1>2, <2>1 DEF NotAcked, NoSocketLeaks, ClientTypeOK, Open, At
  <2>5. NotConnectedWhileConnecting' /\ StoppedIsOver'
    BY <1>2, <2>1 DEF NotAcked, NotConnectedWhileConnecting, StoppedIsOver, At
  <2> QED
    BY <2>2, <2>3, <2>4, <2>5
<1>3. ASSUME NEW c \in Conns, Dial(c)
      PROVE  ClientInv'
  <2>1. ClientTypeOK'
    BY <1>3 DEF Dial, ClientTypeOK, MaybeConn
  <2>2. ReaderMatchesConn'
    BY <1>3 DEF Dial, ReaderMatchesConn, LiveReader
  <2>3. NoSocketLeaks'
    BY <1>3 DEF Dial, NoSocketLeaks, ClientTypeOK, Open
  <2>4. NotConnectedWhileConnecting' /\ StoppedIsOver'
    BY <1>3 DEF Dial, NotConnectedWhileConnecting, StoppedIsOver
  <2> QED
    BY <2>1, <2>2, <2>3, <2>4
<1> QED
  BY <1>1, <1>2, <1>3

(* A connection is published when no readLoop is alive.                    *)
LEMMA AckedKeeps ==
  ASSUME ClientInv, NEW w \in Writers, Acked(w)
  PROVE  ClientInv'
<1> DEFINE cc == connector.conn
<1> USE DEF ClientInv
<1>1. cc \in Conns /\ ~connected /\ ~stopped
  BY DEF Acked, NotConnectedWhileConnecting, StoppedIsOver
<1>2. \A d \in Conns : ~LiveReader(d) /\ (Open(d) => d = cc)
  BY <1>1 DEF ReaderMatchesConn, NoSocketLeaks
<1>3. ClientTypeOK'
  BY <1>1 DEF Acked, ClientTypeOK, At, MaybeConn
<1>4. ReaderMatchesConn'
  BY <1>1, <1>2 DEF Acked, ReaderMatchesConn, ClientTypeOK, LiveReader, At
<1>5. NoSocketLeaks'
  BY <1>1, <1>2 DEF Acked, NoSocketLeaks, Open
<1>6. NotConnectedWhileConnecting' /\ StoppedIsOver'
  BY <1>1 DEF Acked, NotConnectedWhileConnecting, StoppedIsOver, At
<1> QED
  BY <1>3, <1>4, <1>5, <1>6

LEMMA StopReturnsKeeps ==
  ASSUME ClientInv, StopReturns
  PROVE  ClientInv'
<1> USE DEF ClientInv
<1>1. ClientTypeOK'
  BY DEF StopReturns, ClientTypeOK, MaybeConn
<1>2. ReaderMatchesConn'
  BY DEF StopReturns, ReaderMatchesConn, LiveReader
<1>3. \A d \in Conns : Open(d) => d = conn
  BY DEF StopReturns, NoSocketLeaks
<1>4. NoSocketLeaks'
  BY <1>3 DEF StopReturns, NoSocketLeaks, ClientTypeOK, Open
<1>5. NotConnectedWhileConnecting' /\ StoppedIsOver'
  BY DEF StopReturns, NotConnectedWhileConnecting, StoppedIsOver
<1> QED
  BY <1>1, <1>2, <1>4, <1>5

LEMMA ClientStepKeeps == ClientInv /\ [ClientNext]_clientVars => ClientInv'
<1> SUFFICES ASSUME ClientInv, [ClientNext]_clientVars
             PROVE  ClientInv'
  OBVIOUS
<1>1. CASE Tick \/ LoopEnds \/ DialFails \/ NotAcked \/ (\E c \in Conns : Dial(c))
  BY <1>1, ConnectorStepKeeps
<1>2. ASSUME NEW c \in Conns, ReaderStep(c) PROVE ClientInv'
  BY <1>2, ReaderStepKeeps
<1>3. ASSUME NEW c \in Conns, LinkBreaks(c) PROVE ClientInv'
  <2>1. ClientTypeOK'
    BY <1>3 DEF ClientInv, LinkBreaks, ClientTypeOK
  <2>2. ReaderMatchesConn' /\ NotConnectedWhileConnecting' /\ StoppedIsOver'
    BY <1>3 DEF ClientInv, LinkBreaks, ReaderMatchesConn, NotConnectedWhileConnecting,
                StoppedIsOver, LiveReader
  <2>3. NoSocketLeaks'
    BY <1>3 DEF ClientInv, LinkBreaks, ClientTypeOK, NoSocketLeaks, Open
  <2> QED
    BY <2>1, <2>2, <2>3 DEF ClientInv
<1>4. ASSUME NEW w \in Writers, Acked(w) PROVE ClientInv'
  BY <1>4, AckedKeeps
<1>5. ASSUME NEW w \in Writers, WriterStep(w) PROVE ClientInv'
  BY <1>5, WriterStepKeeps
<1>6. CASE Send
  BY <1>6, ClientAssumption, QuietKeeps DEF Send, ClientInv, ClientTypeOK, StoppedIsOver
<1>7. CASE Cancel
  BY <1>7, QuietKeeps DEF Cancel, ClientInv, ClientTypeOK
<1>8. CASE StopReturns
  BY <1>8, StopReturnsKeeps
<1>9. CASE ProcessRestart
  <2>1. ClientTypeOK'
    <3>1. /\ At("none") \in [at : {"none", "starting", "reading", "scanning"}, conn : MaybeConn]
          /\ At("none") \in [at : {"none", "idle", "writing"}, conn : MaybeConn]
          /\ At("start") \in [at : {"start", "waiting", "dialing", "shaking", "ended"},
                              conn : MaybeConn]
      BY DEF At, MaybeConn
    <3>2. 0 \in 0..SendCap
      BY ClientAssumption
    <3> QED
      BY <1>9, <3>1, <3>2 DEF ProcessRestart, ClientInv, ClientTypeOK, MaybeConn
  <2>2. \A c \in Conns : ~LiveReader(c)' /\ ~Open(c)' /\ reader'[c].at = "none"
    BY <1>9 DEF ProcessRestart, LiveReader, Open, At
  <2>3. ReaderMatchesConn' /\ NoSocketLeaks'
    BY <1>9, <2>2 DEF ProcessRestart, ReaderMatchesConn, NoSocketLeaks
  <2>4. NotConnectedWhileConnecting' /\ StoppedIsOver'
    BY <1>9 DEF ProcessRestart, NotConnectedWhileConnecting, StoppedIsOver, At
  <2> QED
    BY <2>1, <2>3, <2>4 DEF ClientInv
<1>10. CASE MasterComesOrGoes
  BY <1>10, QuietKeeps DEF MasterComesOrGoes, ClientInv, ClientTypeOK, StoppedIsOver
<1>11. CASE UNCHANGED clientVars
  BY <1>11, QuietKeeps DEF clientVars, ClientInv, ClientTypeOK, StoppedIsOver
<1> QED
  BY <1>1, <1>2, <1>3, <1>4, <1>5, <1>6, <1>7, <1>8, <1>9, <1>10, <1>11 DEF ClientNext

-----------------------------------------------------------------------------
LEMMA ClientInvHolds == ClientSpec => []ClientInv
<1> QED
  BY InitHasClientInv, ClientStepKeeps, PTL DEF ClientSpec

(* The client's fields and goroutines keep their types: sendCh never holds *)
(* more than its capacity (Send and readLoop's answers drop when full).    *)
THEOREM ClientTypeCorrect == ClientSpec => []ClientTypeOK
<1>1. ClientInv => ClientTypeOK
  BY DEF ClientInv
<1> QED
  BY <1>1, ClientInvHolds, PTL

(* Exactly the readLoop started with the published connection is alive     *)
(* while connected, for any number of reconnects (connect, readLoop).      *)
THEOREM ReaderAlwaysMatchesConn == ClientSpec => []ReaderMatchesConn
<1>1. ClientInv => ReaderMatchesConn
  BY DEF ClientInv
<1> QED
  BY <1>1, ClientInvHolds, PTL

(* Every open socket is the one of the handshake or the published one, and *)
(* none is open after Stop (connect's error paths, readLoop's defer).      *)
THEOREM SocketsNeverLeak == ClientSpec => []NoSocketLeaks
<1>1. ClientInv => NoSocketLeaks
  BY DEF ClientInv
<1> QED
  BY <1>1, ClientInvHolds, PTL

-----------------------------------------------------------------------------
(* Nothing of a stopped client goes on: no goroutine it started, no        *)
(* socket, and IsConnected says so.                                        *)
NothingGoesOn ==
  /\ connector.at = "ended" /\ ~connected
  /\ LiveWriters = {} /\ \A c \in Conns : ~LiveReader(c) /\ ~Open(c)

(* Only the connector starts a writeLoop, and it has ended.                *)
LEMMA StoppedStep ==
  ASSUME ClientInv, [ClientNext]_clientVars, stopped => LiveWriters = {}
  PROVE  stopped' => LiveWriters' = {}
<1> SUFFICES ASSUME stopped'
             PROVE  LiveWriters' = {}
  OBVIOUS
<1>1. CASE StopReturns
  BY <1>1 DEF StopReturns, LiveWriters
<1>2. CASE stopped
  <2>1. \A w \in Writers : writer[w].at = "none"
    BY <1>2 DEF LiveWriters
  <2>2. connector.at = "ended"
    BY <1>2 DEF ClientInv, StoppedIsOver
  <2>3. UNCHANGED writer \/ ProcessRestart
    BY <2>1, <2>2
    DEF ClientNext, ReaderStep, WriterStep, Tick, LoopEnds, DialFails, NotAcked, Dial,
        StartReading, ReadMessage, ReadFails, StartRefresh, EndRefresh, HandlerReturns,
        LinkBreaks, Acked, TakeMessage, Ping,
        WriteDone, WriteFails, WriterStops, Send, Cancel, StopReturns,
        MasterComesOrGoes, clientVars
  <2> QED
    BY <2>1, <2>3 DEF ProcessRestart, LiveWriters
<1>3. CASE ~stopped /\ ~StopReturns
  <2>1. stopped' = stopped
    BY <1>3
    DEF ClientNext, ReaderStep, WriterStep, Tick, LoopEnds, DialFails, NotAcked, Dial,
        StartReading, ReadMessage, ReadFails, StartRefresh, EndRefresh, HandlerReturns,
        LinkBreaks, Acked, TakeMessage, Ping,
        WriteDone, WriteFails, WriterStops, Send, Cancel, ProcessRestart,
        MasterComesOrGoes, clientVars
  <2> QED
    BY <1>3, <2>1
<1> QED
  BY <1>1, <1>2, <1>3

(* When Stop has returned, nothing of the client goes on, and it stays so  *)
(* until the process starts again: no reconnect that was under way comes   *)
(* up after it (Stop's wg.Wait, reconnectLoop).                            *)
THEOREM StoppedForGood == ClientSpec => [](stopped => NothingGoesOn)
<1> DEFINE NoWriter == stopped => LiveWriters = {}
<1>1. ClientInit => NoWriter
  BY DEF ClientInit
<1>2. ClientInv /\ NoWriter /\ [ClientNext]_clientVars => NoWriter'
  BY StoppedStep
<1>3. ClientInv /\ NoWriter => (stopped => NothingGoesOn)
  BY DEF ClientInv, StoppedIsOver, ReaderMatchesConn, NoSocketLeaks, NothingGoesOn
<1> QED
  BY <1>1, <1>2, <1>3, ClientInvHolds, PTL DEF ClientSpec
=============================================================================
