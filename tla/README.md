# A TLA+ model of ServerOwl

ServerOwl (Go, `src/`) lets a team operate its servers from a chat: *masters*
(`src/cmd/serverowl`) talk to an LLM, to the users (WeCom, a web console) and
to *agent nodes* (`src/internal/agent-node`) that run on the servers. Masters run
in pairs, keep everything about agents and commands in memory, and forward to
each other what they cannot do themselves. This directory holds TLA+ modules of
the parts in which goroutines, processes and messages meet, the configurations
that check them with TLC, and proofs that the TLAPS proof system checks.

    tlc -workers 2 -config MCWSHub.cfg MCWSHub.tla      # any run of PROJECT.json
    tlapm WSServer_proofs.tla                           # any *_proofs module

`PROJECT.json` lists the runs, the source lines of every definition (`map`), a
plausible bug for every property (`mutants`), what the code and its comments
disagree about (`findings`), and the hazards the properties were chosen for.

## Inventory

Paths are below `src/internal/` unless they start with `src/`.

| component | state | operations | meets others through | what makes it correct |
|---|---|---|---|---|
| WebSocket hub, `cluster/ws_hub.go` | map agent -> connection, channels `register`, `unregister`, per connection `SendCh` and `closed` | Run, Register, Unregister, Broadcast, SendToAgent, Send, Close | callback goroutines, both pumps of each connection, callers on other goroutines | one live connection per agent; only a connection's own end removes its entry; a dead connection leaves the map |
| WebSocket server, `cluster/ws_server.go` | the pumps | HandleConnection, readPump, writePump, handlers of messages | hub, agent table, command results | records follow the connections |
| Agent table, `cluster/master_cluster.go` | map agent -> record | HandleHeartbeat, environment, SetStatus by callbacks, health check, cleanup, peer sync | heartbeats (HTTP, WebSocket), hub callbacks, tickers, peers | a dead agent does not stay "online"; a connected one comes to be shown so |
| Command delivery, `cluster/agent_api.go`, `cluster/master_cluster.go`, `ExecuteOnAgent` in `src/cmd/serverowl/main.go`, `agent/tools.go`, `web/server.go` | queues, results, IDs; requesters that wait | send over WebSocket or queue, forward to peers, poll, expire, SSH fallback | agents, peers, chat tools, web console | executed at most once; a result is that of a command with the requester's ID; every requester returns or goes on to SSH |
| Agent node, `agent-node/agent.go` | active master, status, pending events | heartbeat, failover, executeCommand, collect and report events, applyConfigUpdate | masters over HTTP and WebSocket, its rule engine | an agent finds a master that answers; no event is lost or held twice; results reach a master |
| Agent's WebSocket client, `agent-node/ws_client.go` | connection, `connected`, `sendCh`, context | Start, Stop, Send, connect, reconnectLoop, readLoop, writeLoop | the agent's loops, a master | one readLoop, on the published connection; no socket is left; reconnects; Stop returns |
| Rule engine, `agent-node/rule_engine.go` | rules, per rule when it last fired, `eventChan` | Evaluate, SetRules | its loop, configuration updates, the event collector | a rule does not fire within its cooldown |
| Peer sync, `cluster/master_cluster.go` | peers' status, records copied from them | heartbeat and sync loops | masters over HTTP | no record goes back in time; masters agree in the end; a dead agent does not live on in their exchange |
| Chat agent and confirmation, `agent/executor.go`, `agent/confirm.go`, `memory/manager.go`, `wecom/callback.go` | table `pending_actions`, `processedMsgs`, tasks | handleMessage, OnText, TryHandleConfirmCancel, Execute, createPendingAndReply | users, WeCom's redeliveries, LLM, tools | what a user confirms runs once, and only if that user confirmed it; the handling of a message ends |
| Scheduler, `scheduler/`, `web/handlers/tasks.go` | tasks, cron entries, rows of tasks and runs | AddTask, RemoveTask, runTask, the console's create, update, delete | cron's goroutines, web handlers, database | cron runs what is listed, on the schedules shown, and nothing else |
| Memory, `memory/` | rows of episodes, conversations | SaveEpisode, IncrementAccessCount, pin, forget gate, consolidation | chat agent, console, daily ticker, database | only what may be forgotten is; the table stays within its limit |
| Monitor, `monitor/`, `notifier/` | per check: alert sent | Start, RunChecks | cron's goroutines, notifier | what stays bad is alerted of, what is good again does not block the next alert |
| Skills, `skills/` | registry, variables and outputs of a run | Execute with conditions, retries, nested skills | scheduler, chat agent, web | a run works with its own inputs and ends |
| Built-in skills, `skills/builtin/`, `src/skills/` | none | 34 skills in Go, 3 in YAML | the executor | the steps a parameter asks for are run |
| MCP server, `mcp/` | transport, initialised flag | initialize, tools/call | stdio | not modelled: one request and one response at a time |
| Workflow engine, `scheduler/workflow.go` | none | Execute | nothing creates one | not modelled |
| Log analysis, metrics, environment, LLM client, configuration, logging, front end | none whose order matters | | | not modelled |

**What is hard here.** Several goroutines share the hub's map and channels, and
a send on a closed channel ends the process. Callbacks of the hub run in
goroutines of their own, so they arrive in any order. Everything about commands
is in memory: heartbeats and results get lost, an agent fails over between the
arrival of a command and its end, masters restart. Command IDs are clock
readings. Database statements of one operation interleave with those of
another, and their errors are often ignored. WeCom delivers a message again
when the answer takes long. The hazards are listed in `PROJECT.json` at their
lines, with the properties that watch them.

## The modules

### `WSHub` (run `hub`; proofs `WSServer_proofs`)

State: `clients`, `register`, `unregister`, `closed`, `sendCh` are the fields
of the same names; `callbacks` are goroutines started by Run; `handler`,
`reader`, `writer` say where the three goroutines of a connection are; `link`
is the TCP connection; `sending` is the connection a goroutine has looked up
and not yet sent to; `panicked` ends the process. One action per statement that
touches shared state: `HubRegister`, `HubUnregister`, `HubBroadcast` are the
cases of Run's select, `TakeClient` and `PutCommand` are the two halves of
SendToAgent (the lookup under the lock, the send outside it), and so on. A send
on a closed channel sets `panicked` in every goroutine but the HTTP handler,
whose panics `net/http` recovers; `Restart` is systemd's `Restart=` and empties
everything.

Properties: `NoOrphanConnection` (a connection the hub has taken is its agent's
entry or closed), `EntryRemovedByItself` (a late unregister of a replaced
connection does not remove its successor), `BrokenLinkLeavesHub` (liveness).
The two channels of Run have no common order: a connection whose unregister is
taken before its register is mapped although its pumps have ended, and stays
mapped until the agent registers again. The model has this behaviour; the
properties are about connections whose readPump still runs.

Bounds: one agent with two connection objects (reused when collected, so that
any number of reconnects happens), one caller, `SendCh` of capacity 1 (full and
empty both occur at once), hub channels of capacity 2, one slot per connection,
so that they fill up only as in the code when more connections than slots wait.
Two connections suffice for "old and new"; agents do not meet in the hub except
in its channels.

### `AgentRegistry` and `WSServer` (run `server`; proofs `WSServer_proofs`)

`AgentRegistry` has the agent table's operations as actions over the one
variable `agents`; a record is its status and whether the last heartbeat is
younger than 60 s. `WSServer` EXTENDS `WSHub` and INSTANCEs `AgentRegistry`:
each of its actions is a step of the hub, joined with what the goroutine does
to the table, or a step of the agent's process, of the health check or of the
operator. `mood` is the agent's own status, which a heartbeat carries from
before it is sent.

Properties: `OnlineIsAlive` and `ConnectedHeals` (both liveness, in the two
directions between table and connections; the callbacks' order is what
endangers them). `ConnectedHeals` is about agents that have a record: the first
heartbeat after a start says "offline", and an operator's cleanup before the
second one deletes the record of a connected agent, which stays invisible until
it registers again, as `handleHeartbeat` of the WebSocket server creates none.
Bounds as for the hub, without callers of SendToAgent; capacity 1 for the hub's
channels.

### `CommandDelivery` and `RemoteExecution` (run `delivery`; proofs `CommandDelivery_proofs`)

A command is the pair of a request and the master it was put on; the sets
`pending`, `wire`, `response`, `running` say where it is, `execs` how often it
was executed, `results` what each master stores under each ID. A request moves
through `pc`: `ExecuteLocally`, `ExecuteByPeer`, `ForwardCommand` (one round of
the loop over peers, whose answer may be lost after the peer acted),
`TakeResult`, `TimeOut`, `FallBackToSSH`. Agents connect, disconnect,
heartbeat, fail over and restart; masters learn records from each other, forget
them and restart.

`RemoteExecution` is the abstract promise: a command is sent with an ID, then
executed once or lost, and a request returns the output of an executed command
that bears the ID its own command was given. `ContractHolds` is the refinement,
with `Stage` as the refinement mapping: TLC checks it on the instance, and the
proofs show it for all.

The promise says "bears the ID" and not "is its own", because the code gives no
more: `WSServer.SendCommand` makes the ID of the time in milliseconds
(`ws_server.go:330`), and the agent API sends to all agents of a tag in one loop
(`agent_api.go:259-280`; `ListAgents`, then `SendFromAPI` once for each). Two
commands of one millisecond share an ID, the later result overwrites the earlier,
and a requester can return a foreign output. In the run *every* command that goes
over a WebSocket has the same ID (`OneMs` in `MCCommandDelivery`), so that
`remote_shell` and an API command collide; `OutputHasItsId` says that this is the
only way to a foreign output: no other result, stale, early, lost or sent again,
is ever taken, and none of a command that has not ended.

Properties: `AtMostOnce`, `OutputHasItsId`, `ContractHolds`,
`EveryRequestLeaves` and `QueueIsEmptied` (liveness). `EveryRequestLeaves` ends
where the cluster's path ends: a request returns or goes on to SSH.
`remote_shell` runs `ssh` with `CombinedOutput` and without a time limit
(`tools.go:377`; `Tool.Timeout` is used nowhere), so that a requester stays there
for ever if `ssh` hangs; `FallBackToSSH` owes nothing. It falls back on *any*
error, so that a command which ran and failed runs again there, a second
execution that is not one of the command `AtMostOnce` counts. `CleanUp` drops
queued commands after 5 minutes and results an hour after the time the *agent's*
clock gave them, so a result may go at any moment, also while it is waited for.

Bounds: the two masters of the configuration files, one agent, two requests at
its own master, one from `remote_shell`, forwarded to the other master while the
agent is not connected, and one over HTTP (WebSocket and queue meet, and so do
equal IDs). A loop over two agents is not in the run: instances with two agents
have 2 to 4.5 million states, too many for the liveness properties. The theorems
are about any number of agents, requests and masters and any IDs.

### `ConfirmFlow` and `Consent` (run `confirm`; proofs `ConfirmFlow_proofs`)

State: `status`, `owner`, `before` and `lapsed` are the rows of
`pending_actions`; `seen` is `processedMsgs`; `task` says where each handling
of a message is (`at`), which action it confirms, cancels or follows up, and
the counters of Execute. One action per database statement; a failed statement
is a disjunct of its action (`WriteStatus` ignores errors as the code does).
`ran` and `consents` are history variables, `unwritten` the actions with a
status that could not be stored.

What the LLM asks for is one of `Calls`: a tool, whether its text matches a
forbidden pattern, the rule of the whitelist it matches, and whether its
arguments say `_confirmed`. `CheckLocalShell` and `CheckDockerExec` say what the
handlers make of it, `NeedsConsent` what should be asked for, `HandlerAsks` what
is. The two differ: `executeTool` hands the LLM's arguments to the handler as
they are (`executor.go:338-351`), and a handler that finds `_confirmed` in them
does not ask (`tools.go:74`, `tools.go:295`, `skill_tool.go:59`), although the
schema calls the field "仅系统使用", for the system only (`tools.go:54`). `StartTool`
has that case, and `vouched` remembers it. `remote_shell` never asks, although
the prompt lists it as "需确认", to be confirmed (`executor.go:136`). In
`CheckLocalShell` the rule's `confirm` flag is without effect, unlike in
`CheckDockerExec`; no built-in tool has `NeedConfirm`, so that only what a
handler asks ever becomes a pending action.

`Consent` is the abstract promise, without handlers, deliveries, restarts and
statements: an action is asked for in a session, a message of that session may
agree to it while it is open, and it is done only because of a message that has
agreed, once for each, and only when it can be agreed to no more. The last two
do not hold of an action with a status that could not be stored (`untracked`).
The promise covers what is *asked for*. It has an action `ActUnasked` for the
tool the LLM vouches for itself: no consent protects from that, and the contract
does not pretend so. Only WeCom messages can agree: the web console never looks
for a confirmation. `ConsentHolds` is the refinement; `Stage` (a row is "open"
exactly while it is pending) and `Acted` (the messages whose handlers have run
the tool) are the mapping.

A task ends "done", with an answer for its user, or "unanswered": `SendText`
fails, which is only logged (`main.go:518`), there is no notifier
(`main.go:465`), the process ends, or `executeTool` panics. Arguments that read
`null` give it a nil map that it writes to (`executor.go:338-343`); `net/http`
recovers the panic of a handler (`ToolPanics`), but in the goroutine of a
follow-up it ends the process (`ProcessRestart`).

Properties: `OneRunPerConfirmation` (through redeliveries and restarts),
`ConsentHolds`, `EveryMessageEnds` (liveness: the handling of a message ends, in
one of these ways, unless a tool hangs while the user waits). That a user *is
answered* the code does not guarantee. That a user has one open
action at a time, as the comment in createPendingAndReply says, does not hold:
the look and the insert are two statements.

Bounds: one user, a web request that uses the same session, one WeCom message
that is delivered up to twice, one action, two rounds of the ReAct loop, one
failure in a row (334,620 states). Each message may be a request, a confirmation
or a cancel, with or without ID. A second session or a second action makes more
than 15 million states: that a message of another session confirms nothing, and
that two open actions are not confused, rests on `ConsentIsKept` and
`ConfirmedOnce`, which are proved for any number of sessions, actions and
messages. `CHECK_DEADLOCK FALSE`: when all deliveries are used up the instance
stops, as deliveries are bounded.

### `RuleEngine` and `AgentNode` (run `agent`; proofs `AgentNode_proofs`)

`RuleEngine` is the engine alone: `installed` and `cooling` are its list of
rules and their `LastTriggered`, `engine` is where the one goroutine in
Evaluate is, with the copy it works on (`todo`, `cooled`), `eventChan` the
channel. SetRules can come between any two steps of it. `AgentNode` EXTENDS it
with the agent around it: `activeMaster`, `isActive`, `status`, `pendingEvents`
are fields of `Agent` and of its configuration; `beat` is where the heartbeat
is, `report` where each reportEvents goroutine is. tryFailover holds the
agent's lock during all its probes, so that "the heartbeat is probing" is the
lock, and the other critical sections are one action each; reportEvents is four
(`AddressReport` and `TakeBatch` take the lock separately, then the answer or
the failure of the request).

Properties: `CooldownKept` (Evaluate decides on a copy that may be out of
date), `EventsKept` (a collected event leaves only in an answered report or
for newer ones), `EventInOnePlace` (no two goroutines hold the same event),
`FailsOver` and `EventsReported` (liveness). The latter has later events as its
premise: nothing but a new event starts a report, so that what an outage left
behind waits for the next event, although the comment on `ActionTypeNotify`
speaks of a report after the recovery.

What the code does without promising otherwise: a full `eventChan` drops the
*new* event (the comment speaks of old ones); the HTTP status of an event
report is not looked at; a put-back can come behind an older batch, so order is
not kept; `RuleCondition.Duration` and `AutoRule.MaxRetries` are never read.

Bounds (`MCAgentNode`): the two masters of the shipped configuration, the least
with which failover has a choice; one rule with a cooldown and one action, as
rules do not touch one another's cooldowns, while an update may remove it and
bring it back; two events and two reporters, whose names are used again, so that
one batch is on its way while the next is collected; a channel and a backlog of
one, so that both overflow. The proofs hold for any numbers of each.

### `WSClient` (run `client`; proofs `WSClient_proofs`)

`conn`, `connected` are the fields; `connector` is the goroutine of Start's
first connect and then of reconnectLoop, `reader` the readLoop started with each
connection, `writer` each writeLoop; `queued` counts the messages in `sendCh`.
connect is three actions: dialing, the wait for the ack, and its publication.
A readLoop belongs to its connection, a writeLoop to none: it looks `conn` up for
each message, drops the message when not connected, and ends only when a write
fails or Stop is called. So after a reconnect an old writeLoop may work beside
the new one. The library forbids two writers on one connection and panics when
it notices; `ProcessRestart` allows that whenever two are writing, and the
the liveness properties have to hold all the same.

readLoop runs the handler of a message itself. A `refresh_env` makes it run
`docker ps` and, for each container, `docker inspect` (`agent.go:218-242`,
`environment.go:65`, `environment.go:84`), neither with a time limit:
`StartRefresh` and `EndRefresh`, where docker owes no answer. While docker hangs
readLoop does not read, so the deadline on the connection helps nobody, and the
three liveness properties make that exception by name (`DockerRuns`).

Properties: `ReaderMatchesConn` (readLoop's deferred function closes whatever
`conn` is then, which must be its own), `NoSocketLeaks`, `BrokenLinkNoticed`,
`StopTerminates` (Stop waits for a readLoop that is blocked on a connection Stop
closes only afterwards: the read deadline, moved by pongs only, ends the wait),
`Reconnects`.

Bounds: two connection objects, old and new, used again when collected; three
writeLoops at a time; two slots in `sendCh`. A link breaks only while a
writeLoop's name is free: with more of them alive nothing new is shared, as all
idle writeLoops are alike.

### `PeerSync` (run `peers`; proofs `PeerSync_proofs`)

The agent tables of several masters: `agents` of each, with status and the
number of the last heartbeat as its time; `sync` is where peerSyncLoop is, with
the table it has fetched; `writer` a WebSocket handler or hub callback that has
looked a record up and not yet written to it, and whether the record is still
the one in the map (`mapped`). `PostAnswered`/`PostFails`,
`GetAnswered`/`GetFails` and `Merge` are the statements of syncWithPeer and
syncAgentsFromPeer, `Newer` the test by which a record replaces the map's.
Heartbeats, environments, health check, cleanup, the end and the start of a
process come between any two of them.

Properties: `NewestHeartbeatKept` (action property), `PeersCatchUp` and
`GoneIsNotOnline` (liveness). The second shows that a cleaned-up or timed-out
agent is not kept alive by two masters that hand each other its record. A peer
is marked seen on any HTTP answer, and the code's own handler answers 400, since
the request has no body: so the masters list of a peer is never filled by it,
and `PeersCatchUp` reads "seen" for what the code takes for it.

Bounds: two masters, each the other's peer, one agent (agents do not meet in a
table), two heartbeats, one writer at a time; one of the masters may be down.
The proofs hold for any number of each.

### `BuiltinSkills` and `SkillRuns` (runs `skills`, `ssl_renew`; proofs `SkillRuns_proofs`)

`BuiltinSkills` is the 34 skills of the program and those of its YAML files as
the executor sees them: steps with condition, error handling, retries, the
earlier output they use, the skill they call; and the parameters their
conditions mention. `SkillRuns` is the executor: `registry`, `variables` and
`outputs` are its fields, shared by all runs; `run` has a stack of frames for
nested skills. `EvaluateCondition` is the code's: split at the first `==`, else
the first `!=`, compared as text. A run that starts replaces both maps, and
`ConcurrentMapAccess` is Go's fatal error when it sees two goroutines in a map.
`spoilt` and `alone` record whether somebody else has touched the maps since.

Properties: `OwnInputs` (a run that nobody disturbed has its own parameters and
its own outputs), `EveryRunEnds` (liveness). That a run is *never* disturbed
does not hold: the executor is shared, and the property says exactly how far a
run can trust it. `RenewalRenews` fails (finding): the conditions of `ssl_renew`
join comparisons by `&&`, which evaluateCondition takes for text, so that it
renews nothing and reports success. The same holds of the `||` of `caddy_logs`,
`nginx_logs`, `network_diag` and `port_check`. Also: `Retries` has no effect
unless `on_error` is `retry`; the dumps of `backup` for postgres and mysql are
saved by no step while the old backups are deleted; `renderTemplate` makes "<no
value>" of the `{{.x}}` that `docker_inspect` means for docker; a skill that
calls itself is limited by nothing but its timeout.

Bounds: a user's run of any of twelve skills, which have every kind of step,
condition and parameter, beside a run of the scheduler (`backup:mysql`, whose
steps hand on an output); nesting up to 2; each skill alone in `ssl_renew`.

### `TaskScheduler` (run `tasks`; proofs `Background_proofs`)

`listed` is the scheduler's map, `schedule` the field of the task object that
GetTask hands out and handlers write to without the lock, `entries` cron's
entries, `current` what a task's EntryID refers to; `rows` and `history` the
tables, `running` the runs, `update` the PUT requests. updateTask is four
actions (`UpdateTask`, `SetSchedule`, `Remove`, `Add`), so that two updates of
one task, a deletion and a restart come between any two of them.

Properties: `ScheduleIsShown` (invariant), `RunsFollowList` (liveness: a task
that stays listed is run again and again if skills are enabled, one that stays
off the list is run no more, as it would be by an entry whose ID an update has
overwritten). A task that is put in anew more often than its period comes round
may never run: cron counts `@every` from the moment of adding, and the property
says nothing of it. What the code does without promising otherwise: an update
with a schedule cron refuses loses the task and its history; a paused task is
run all the same; runs of one task overlap; `LoadTasks` is never called, so that
tasks of the console are gone after a restart although they have rows; SaveTask
hands `[]string` to the driver without `pq.Array`, and its error is only logged
(`Saved` leaves both outcomes); without skills the executor is nil and the first
run ends the process (`Panic`).

Bounds: a task of the configuration and one of the console, two schedules and
one cron refuses, two updates at a time, two runs of a task at a time (they
overlap).

### `Memory` (run `memory`; proofs `Background_proofs`)

`episodes` is the table, with outcome, age in months, pin, accesses and
importance; `gate` the maintenance goroutine, at one of the forget gate's five
statements or in the consolidation, with the scores it has read and the excess
it has counted; `messages` the conversations. A statement may fail
(`StatementFails` goes on with the consolidation); searches, pins, new rows and
restarts come in between.

Properties: `OnlyForgotten` (action property: what the two DELETEs may take,
whatever has happened since the scores were read), `TableShrinks` (liveness; its
premises are that the process stays up, as the daily ticker begins anew with
it, and that pins settle). What the code does besides: with the default
threshold of 25 a successful episode, at worst 30, goes only by the limit;
importance is stale for what is unpinned between two statements, and a pinned
episode keeps the importance the chat gave it; `SaveKnowledge` hands ten
arguments to nine parameters and always fails, so that no knowledge is ever
stored; `max_turns: 0` keeps no history.

Bounds: two episodes where there is room for one, new or three months old, one
access, of the two outcomes whose scores differ most; a threshold of 20, with
which one access decides.

### `Monitor` (run `monitor`)

`health` is what a probe would find, `alerting` the AlertState, `run` the runs
of RunChecks with check and result; cron starts a run whether or not an earlier
one goes on. `Unhealthy` and `Exceeded` are the two kinds of check: no answer
is bad for a container, an endpoint or a database, and good for disk and memory,
where an unreadable value (-1) does not exceed a threshold and is told as a
recovery.

Property: `AlertsFollow` (liveness): though a slow run writes what it saw over
what later ones wrote, the state settles to the truth. The last *message* may be
wrong all the same, a message that could not be sent is not repeated, databases
that are not configured are alerted of, and an error of AddFunc is ignored: the
code promises nothing else.

Bounds: three checks, one of them a metric; three runs at a time, so that one
can write over what two later ones have written.

## Fairness

* `HubFairness`, `ServerFairness`: a goroutine that can step does so; Go's
  select chooses among ready cases at random, so a ready case is not passed
  over for ever; read deadline and ping notice a broken link; tickers tick;
  systemd restarts. Strong fairness for `Heartbeat` only: the agent's ticker
  sends a heartbeat every 10 s for as long as the connection is up, and other
  messages of that connection may come between. New connections,
  broken links, senders and operators owe nothing.
* `Fairness` (commands): the requester's goroutine goes on (a request to a peer
  has a timeout of 10 s), its context ends, the cleanup ticker ticks. The network,
  agents, peers and ssh owe nothing: that is why `EveryRequestLeaves` is about
  leaving the cluster's path, not about success and not about the end of ssh.
* `AgentFairness`: the agent's goroutines go on; a request ends, at last by
  `Client.Timeout` (30 s). Rules, masters and updates owe nothing. `FailsOver`
  assumes in its statement that some master stays reachable and that the
  process is not restarted for ever.
* `ClientFairness`: the client's goroutines go on; strong fairness where a
  select chooses at random between the context and other ready cases, and for
  a handshake that a master can complete again and again; a read deadline that
  has passed stays passed, so a read that is tried again and again fails at last.
  Links, masters, docker, callers of Send and Stop owe nothing.
* `ConfirmFairness`: database and LLM calls end, if need be with an error (the
  LLM client has a timeout of 360 s); strong fairness of `EndRound` is that an
  LLM answer asks for finitely many tools. A tool handler owes nothing, as
  nothing in the code enforces `Tool.Timeout`; a hanging tool is the exception
  in `EveryMessageEnds`.
* `PeerFairness`: tickers tick, 60 s pass, systemd restarts; strong fairness for
  a request to a peer that can be answered again and again. Agents, operators and
  the ends of processes owe nothing.
* `SkillFairSpec`: goroutines go on and commands end (each has the timeout of
  its context). Nobody owes a start.
* `SchedulerFairness`: handlers go on, systemd restarts, runs end. Cron is weak
  fairness of `Fire`: an entry that *stays* is fired, while one that is removed
  and added again, by an update or a restart, waits afresh. Schedules whose time
  never comes (30 February) are left out.
* `MemoryFairness`: the goroutine goes on; strong fairness for each statement, as
  one that is tried every day succeeds at last.
* `MonitorFairness`: every probe ends, cron fires. For HTTP checks this takes a
  configured `timeout`: without one (`config.go:44`) the client has none
  (`http.go:18`), and an endpoint that never answers keeps its run for ever.

## What is proved

All theorems hold for every value of the constants under the named assumption
of the module (`HubAssumption`, `DeliveryAssumption`, `ConfirmAssumption`,
`EngineAssumption`, `AgentAssumption`, `ClientAssumption`, `PeerAssumption`,
`SchedulerAssumption`, `MemoryAssumption`, `SkillAssumption`), which only give
the constants their sorts and positive capacities; `SkillAssumption` also says
that the steps of skills are records with the fields the executor reads. The
theorems are in eight modules. A hypothesis beyond these assumptions is written
in the theorem, and there are two: `UsesEarlier` and a threshold of at most 30.

* **Hub.** `HubTypeCorrect`, `NoOrphanEver`, `OnlyOwnEndRemovesEntry`, from the
  inductive invariant `HubInv`. `NoOrphanConnection` is not inductive alone: a
  connection must not be in `register` before its handler put it there nor in
  the map before it was registered (`UnusedIsNowhere`), an entry must be that of
  its own agent (`EntryIsOwn`), and only a readPump that has ended asks for
  removal (`OnlyEndedUnregister`).
* **Server.** `ServerImplementsHub`: each step of the joined system is a step
  of the hub or leaves the hub alone, so that the hub's theorems hold for it
  (`ServerHasNoOrphan`, `ServerKeepsEntries`); with `ServerTypeCorrect` for the
  table.
* **Commands.** `TypeCorrect` and `ExecutedAtMostOnce`, from `IndInv`: the
  places a command can be in are disjoint, only a sent command is in one, and no
  command that was executed is in one. `OutputOfTheSameId` (the property
  `OutputHasItsId`) adds `ResultInv`: a stored result is that of a command that
  has run, under its ID (`ResultsMatch`), a requester waits for the ID of its
  own command (`WaitsForOwn`), and what it returned had that ID (`SourceHasId`).
  `ContractIsKept` is the refinement of `RemoteExecution`, step by step. Neither
  assumes anything about IDs: they hold whatever IDs the clock gives, equal ones
  included.
* **Confirmation.** `ConfirmTypeCorrect` and `ConfirmedOnce`, from `ConfirmInv`:
  only the last handler of a message is at work (`HandlersInv`: a redelivery is
  handled after a restart only, and the restart ended all handlers); one at the
  tool has stored a status other than "pending" (`ActionInv`), which no
  statement puts back, so that a later handler of the same message is refused
  (`RanInv`). `ConsentIsKept` is the refinement, step by step, with `OnceInv`:
  only messages from WeCom are on the way to the tool, the action they name has
  a row, and a handler that has run it is past it. What the LLM gets done by
  writing `_confirmed` is a step `ActUnasked` of `Consent`.
* **Agent.** `AgentTypeCorrect`, `EventAlwaysInOnePlace`, `CooldownAlwaysKept`,
  `EventsAlwaysKept`, from `AgentInv`: what `Evaluate`'s copy takes for not
  cooling is not cooling (`CopyIsCurrent`; updates only shorten cooldowns), and a
  reportEvents holds events only while it posts them (`BatchIsPosted`). The
  order of channel, backlog and batches is kept apart by lemmas about
  `Append`, `Tail`, `SubSeq` and `\o`. `FallsBackToConfigured`, from
  `FlagsFollow`: failovers clear every flag they have set before they set another
  or give up, so that an agent on its own goes back to a master its configuration
  names, not to one it once failed over to. That this master exists (the least
  of a set, the greatest of bounded priorities) rests on well-founded `<`.
* **Client.** `ClientTypeCorrect`, `ReaderAlwaysMatchesConn`,
  `SocketsNeverLeak`, from `ClientInv`: connecting and connected exclude each
  other (`NotConnectedWhileConnecting`), as only the one connector sets the
  flag, and the connector has ended when Stop returns (`StoppedIsOver`).
  `StoppedForGood`: then no goroutine of the client runs and no socket is open,
  until the process starts again.
* **Peers.** `PeerInvariant` and `NewestIsKept`, from `PeerInv`: a write has the
  newest time there is only if no table, in memory or fetched and not yet
  merged, has one from the future (`BeatsArePast`); and a handler that takes its
  record for the map's finds one there (`MappedIsThere`), or its write would
  make one.
* **Tasks.** `SchedulerInvariant` and `ScheduleShown`, from `SchedulerInv`:
  cron's entries are those the tasks refer to (`EntriesAreCurrent`), and a listed
  task whose object says something else has an update that is about to remove it
  (`ChangePending`). `ScheduleIsShown` speaks of quiet states only and is not
  inductive; that whoever adds the task again adds what the object says *then*
  is what carries it through concurrent updates.

* **Memory.** `MemoryInvariant`, from what the gate's statements leave true
  for the next one while chats, searches and the console change the table: the
  scores it has read are those in the table when it deletes by them
  (`ScoresInPlace`), and the table has not shrunk since the excess was counted
  (`StillOver`). From these, `ForgottenOnly` (the property `OnlyForgotten`),
  `TrimmedToLimit` (a deletion of excess never takes the table below its limit)
  and, as no formula gives a success less than 30 (`SuccessScores`),
  `SuccessIsKept`: with a threshold of at most 30, and the default is 25,
  a successful episode goes only as excess.
* **Skills.** `SkillInvariant` and `OwnInputsIfEarlier`. `OwnInputs` speaks of
  the step at work only; the invariant `Sound` says of each run, by the topmost
  frame of its stack, that the executor's maps hold all its parameters until
  somebody disturbs it, and its outputs of all steps it has passed, if it was
  alone. That takes two more facts: who was alone all the time still is
  (`AloneIsAlone`), and only steps with `on_error: retry` are tried again. The
  hypothesis `UsesEarlier`, that a step uses outputs of earlier steps, is not
  checked by the loader; `BuiltinsUseEarlier` shows it of every skill that comes
  with the program.

**Only model-checked** is what is stated under fairness (`BrokenLinkLeavesHub`,
`OnlineIsAlive`, `ConnectedHeals`, `EveryRequestLeaves`, `QueueIsEmptied`,
`EveryMessageEnds`, `FailsOver`, `EventsReported`, `BrokenLinkNoticed`,
`StopTerminates`, `Reconnects`, `PeersCatchUp`, `GoneIsNotOnline`,
`EveryRunEnds`, `RunsFollowList`, `TableShrinks`, `AlertsFollow`), because TLAPS
does not reason about ENABLED and liveness. Every invariant and action property
that a run checks is also a theorem, `RenewalRenews` aside, which is false. What a
condition comes to (`EvaluateCondition`) is computed by TLC. No module that is
proved about declares a RECURSIVE operator, and no theorem needs an induction
over data, which the installed provers cannot do.

## What is abstracted or left out

* Command text, output, chat text, prompts, what the LLM answers: free choices.
* Time is an order of events: timeouts can fire at any moment, and the model
  says so where a duration is longer than another (a queued command lives
  5 minutes, a requester waits 30 s; WeCom retries within the 5 minutes
  `processedMsgs` remembers).
* In `CommandDelivery` the hub is a set of agents and the online flag of a
  record a free choice; `WSHub` and `WSServer` have the detail.
* Two *different* messages that confirm the same action may both run its tool,
  and a cancel can lose to a confirmation that has passed its checks: the model
  has these behaviours, and no text of the repository promises otherwise.
* In `AgentNode` a master's address is well-formed; with a malformed one
  `reportEvents` drops its batch before any request (`agent.go:521-523`).
* What a command of a skill does, and reloading the registry; a message of the
  notifier is one step, its token cache is left out; embeddings and the text of
  knowledge; the working memory, which nothing starts.
* Not modelled: log analysis and metrics (regular expressions and floating point
  over text, reads of `/proc`), what environment collection finds (that it may
  hang is in `WSClient`), the MCP server (one request and one response at a
  time, no state a later request depends on), the workflow engine (nothing in
  the program creates one: main refuses workflow tasks), the LLM client,
  configuration and logging (no state whose order matters), the front end.

## Plan

1. Done: `WSHub`, `AgentRegistry`, `WSServer`, `CommandDelivery`,
   `ConfirmFlow`, `RuleEngine`, `AgentNode`, `WSClient`, `PeerSync`,
   `TaskScheduler`, `SkillRuns`, `BuiltinSkills` and `Memory` with proofs of their
   safety properties, `RemoteExecution` and `Consent` with proofs of the
   refinements; `Monitor` by TLC.
2. The composition of `WSClient` with `WSHub` over one link, and of `WSServer`
   with `CommandDelivery`'s view of the hub, as refinements.
3. The registry's reload in `SkillRuns`, and the notifier's token in `Monitor`.
