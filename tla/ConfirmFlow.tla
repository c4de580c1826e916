----------------------------- MODULE ConfirmFlow -----------------------------
(***************************************************************************)
(* How a chat message is handled and how a tool that needs the user's      *)
(* consent gets it: the WeCom callback (wecom/callback.go), OnText of      *)
(* cmd/serverowl/main.go and the web chat (web/server.go), the ReAct loop  *)
(* Execute and TryHandleConfirmCancel of agent/executor.go, and the table  *)
(* pending_actions (memory/manager.go).                                    *)
(*                                                                         *)
(* Every delivery of a message that is not recognised as a duplicate is    *)
(* handled by a goroutine of its own, a task.  A task takes one step per   *)
(* statement it sends to the database; a statement may fail.  WeCom        *)
(* delivers a message again when the answer takes long, but not as long as *)
(* the 5 minutes after which processedMsgs forgets it.                     *)
(*                                                                         *)
(* Abstracted: what the LLM answers (a free choice), texts, prompts and    *)
(* arguments but for `_confirmed`; the history and episodes a task stores; *)
(* a tool that starts does nothing but succeed, fail or hang.              *)
(***************************************************************************)
EXTENDS Naturals, FiniteSets

CONSTANTS
  Msgs,           \* messages users send
  WebMsgs,        \* those of them that come over the web chat
  Calls,          \* what the LLM calls: tools, forbidden text, matching rule
  AskUnlisted,    \* what happens to commands no rule of the whitelist matches
  Notifier,       \* whether there is a notifier, by which WeCom users get answers
  Sessions,
  Session,        \* the session, which is also the user, of a message
  Actions,        \* IDs of pending actions
  NoAction,       \* "", no ID
  NoSession,
  MaxDeliveries,  \* bound: how often a message is handled, a web message once
  MaxIterations,  \* AgentExecutor.maxIterations, 10 in the code
  MaxFails        \* AgentExecutor.maxConsecutiveFail, 3 in the code

ASSUME ConfirmAssumption ==
  /\ WebMsgs \subseteq Msgs
  /\ Calls \subseteq [tool : {"local_shell", "docker_exec", "docker", "skill",
                             "remote_shell"},
                     banned : BOOLEAN, rule : {"none", "run", "ask"},
                     confirmed : BOOLEAN]
  /\ AskUnlisted \in BOOLEAN
  /\ Notifier \in BOOLEAN
  /\ Session \in [Msgs -> Sessions]
  /\ NoAction \notin Actions
  /\ NoSession \notin Sessions
  /\ MaxDeliveries \in [Msgs -> Nat \ {0}]
  /\ \A m \in WebMsgs : MaxDeliveries[m] = 1
  /\ MaxIterations \in Nat \ {0}
  /\ MaxFails \in Nat \ {0}

VARIABLES
  \* the table pending_actions
  status,      \* status of an action, "none" if there is no row
  owner,       \* session_id and user_id of its row
  before,      \* created_at: the actions whose rows are older
  lapsed,      \* actions whose expires_at has passed
  \* the process
  seen,        \* CallbackHandler.processedMsgs
  task,        \* the tasks
  \* the users and WeCom
  deliveries,  \* how often a message has been handled
  text,        \* what it says
  \* history
  ran,         \* tasks that have run the tool of an action
  consents,    \* messages that were accepted as confirmation of an action
  unwritten,   \* actions of which a status could not be stored
  vouched      \* whether the LLM's own `_confirmed` has ever let a tool run

row == <<owner, before, lapsed>>
users == <<deliveries, text>>
history == <<ran, consents, unwritten, vouched>>
confirmVars == <<status, row, seen, task, users, history>>

Tasks == UNION {{m} \X (1..MaxDeliveries[m]) : m \in Msgs}
Statuses == {"none", "pending", "confirmed", "cancelled", "expired",
             "executed", "failed"}
Texts == [kind : {"chat"}, id : {NoAction}] \cup
         [kind : {"confirm", "cancel"}, id : Actions \cup {NoAction}]
Confirming == {"latest", "find", "expire", "cancel", "confirm", "run", "settle"}
Executing == {"think", "tools", "tool", "create"}
Ended == {"none", "done", "unanswered"}

(* Where a task is, the action it confirms, cancels or follows up, the     *)
(* rounds of the ReAct loop it has begun, consecutiveFailures, and whether *)
(* its user has been told that it takes too long.                          *)
Task == [at : Confirming \cup Executing \cup Ended, action : Actions \cup {NoAction},
         round : 0..MaxIterations, fails : 0..MaxFails, told : BOOLEAN]

At(label) == [at |-> label, action |-> NoAction, round |-> 0, fails |-> 0,
              told |-> FALSE]

ConfirmTypeOK ==
  /\ status \in [Actions -> Statuses]
  /\ owner \in [Actions -> Sessions \cup {NoSession}]
  /\ before \in [Actions -> SUBSET Actions]
  /\ lapsed \subseteq Actions
  /\ seen \subseteq Msgs
  /\ task \in [Tasks -> Task]
  /\ deliveries \in [Msgs -> Nat]
  /\ \A m \in Msgs : deliveries[m] <= MaxDeliveries[m]
  /\ text \in [Msgs -> Texts]
  /\ ran \in [Actions -> SUBSET Tasks]
  /\ consents \in [Actions -> SUBSET Msgs]
  /\ unwritten \subseteq Actions
  /\ vouched \in BOOLEAN

ConfirmInit ==
  /\ status = [i \in Actions |-> "none"]
  /\ owner = [i \in Actions |-> NoSession]
  /\ before = [i \in Actions |-> {}]
  /\ lapsed = {}
  /\ seen = {}
  /\ task = [t \in Tasks |-> At("none")]
  /\ deliveries = [m \in Msgs |-> 0]
  /\ text = [m \in Msgs |-> [kind |-> "chat", id |-> NoAction]]
  /\ ran = [i \in Actions |-> {}]
  /\ consents = [i \in Actions |-> {}]
  /\ unwritten = {}
  /\ vouched = FALSE

-----------------------------------------------------------------------------
SessionOf(t) == Session[t[1]]

Open(i, s) == status[i] = "pending" /\ i \notin lapsed /\ owner[i] = s

(* getLatestPendingAction: the newest of the open actions of a session.    *)
Latest(i, s) ==
  /\ Open(i, s)
  /\ \A j \in Actions : Open(j, s) => j = i \/ j \in before[i]

NoneOpen(s) == \A i \in Actions : ~Open(i, s)

Become(t, rec) == task' = [task EXCEPT ![t] = rec]
Goto(t, label) == task' = [task EXCEPT ![t].at = label]

(* The task ends with an answer for its user; an error of SendText is only *)
(* logged.                                                                 *)
Reply(t) == \E end \in {"done", "unanswered"} : Become(t, At(end))

(* updatePendingActionStatus: unconditional, and its error is ignored.     *)
WriteStatus(i, s) ==
  \/ status' = [status EXCEPT ![i] = s] /\ UNCHANGED unwritten
  \/ unwritten' = unwritten \cup {i} /\ UNCHANGED status

-----------------------------------------------------------------------------
(* The web chat goes to Execute at once, whatever the message says, and    *)
(* answers with what that returns.                                         *)
HandleChat == At("think")

(* OnText does nothing without a notifier; else it looks for a             *)
(* confirmation or a cancel in the message first.                          *)
Begin(m, x) ==
  IF m \in WebMsgs THEN HandleChat
  ELSE IF ~Notifier THEN At("unanswered")
  ELSE IF x.kind = "chat" THEN HandleChat
  ELSE IF x.id = NoAction THEN At("latest")
  ELSE [At("find") EXCEPT !.action = x.id]

(* A message that is taken for a new one: a goroutine handles it.          *)
Handle(m) ==
  /\ deliveries[m] < MaxDeliveries[m]
  /\ deliveries' = [deliveries EXCEPT ![m] = @ + 1]
  /\ IF deliveries[m] = 0 THEN \E x \in Texts : text' = [text EXCEPT ![m] = x]
                          ELSE UNCHANGED text
  /\ Become(<<m, deliveries[m] + 1>>, Begin(m, text'[m]))

(* Mutant of Deliver: no look at processedMsgs.                            *)
DeliverAll(m) ==
  /\ Handle(m)
  /\ UNCHANGED <<status, row, seen, history>>

(* A message arrives, over WeCom possibly for the second time: the         *)
(* callback, when it has verified and decrypted a text, answers one it has *)
(* taken before and does nothing.                                          *)
Deliver(m) ==
  /\ m \notin seen
  /\ Handle(m)
  /\ seen' = seen \cup ({m} \ WebMsgs)
  /\ UNCHANGED <<status, row, history>>

(* A lookup of TryHandleConfirmCancel fails: OnText logs it and hands the  *)
(* message to Execute.                                                     *)
LookupFails(t) ==
  /\ task[t].at \in {"latest", "find"}
  /\ Become(t, At("think"))
  /\ UNCHANGED <<status, row, seen, users, history>>

(* The message names no ID: the newest open action of the session.         *)
FindLatest(t) ==
  /\ task[t].at = "latest"
  /\ \/ NoneOpen(SessionOf(t)) /\ Reply(t)
     \/ \E i \in Actions : /\ Latest(i, SessionOf(t))
                           /\ Become(t, [At("find") EXCEPT !.action = i])
  /\ UNCHANGED <<status, row, seen, users, history>>

(* GetPendingAction and the checks on the row: it exists, it is of this    *)
(* session, it is pending, it has not lapsed.                              *)
Find(t) ==
  LET i == task[t].action
      kind == text[t[1]].kind
  IN
  /\ task[t].at = "find"
  /\ IF status[i] # "pending" \/ owner[i] # SessionOf(t)
       THEN Reply(t) /\ UNCHANGED consents
       ELSE /\ Goto(t, IF i \in lapsed THEN "expire" ELSE kind)
            /\ consents' = IF i \notin lapsed /\ kind = "confirm"
                             THEN [consents EXCEPT ![i] = @ \cup {t[1]}] ELSE consents
  /\ UNCHANGED <<status, row, seen, users, ran, unwritten, vouched>>

(* The row has lapsed, or the user cancels it.                             *)
Close(t) ==
  /\ task[t].at \in {"expire", "cancel"}
  /\ WriteStatus(task[t].action,
                 IF task[t].at = "expire" THEN "expired" ELSE "cancelled")
  /\ Reply(t)
  /\ UNCHANGED <<row, seen, users, ran, consents, vouched>>

(* Mutant of Confirm: the status is left for when the tool has run.        *)
ConfirmLater(t) ==
  /\ task[t].at = "confirm"
  /\ Goto(t, "run")
  /\ UNCHANGED <<status, row, seen, users, history>>

Confirm(t) ==
  /\ task[t].at = "confirm"
  /\ WriteStatus(task[t].action, "confirmed")
  /\ Goto(t, "run")
  /\ UNCHANGED <<row, seen, users, ran, consents, vouched>>

(* tool.Handler does the action.  (It may also hang.)                      *)
RunTool(t) ==
  /\ task[t].at = "run"
  /\ ran' = [ran EXCEPT ![task[t].action] = @ \cup {t}]
  /\ Goto(t, "settle")
  /\ UNCHANGED <<status, row, seen, users, consents, unwritten, vouched>>

(* Or the process does not have the tool, or the arguments are damaged.    *)
NoTool(t) ==
  /\ task[t].at = "run"
  /\ WriteStatus(task[t].action, "failed")
  /\ Reply(t)
  /\ UNCHANGED <<row, seen, users, ran, consents, vouched>>

(* The outcome is stored and the task goes on with the original request,   *)
(* if that is not blank, in a goroutine that executeWithContext waits for. *)
Settle(t) ==
  /\ task[t].at = "settle"
  /\ \E s \in {"executed", "failed"} : WriteStatus(task[t].action, s)
  /\ Goto(t, "think") \/ Reply(t)
  /\ UNCHANGED <<row, seen, users, ran, consents, vouched>>

(* executeWithContext stops waiting after 90 s and the user is told; the   *)
(* goroutine goes on.                                                      *)
FollowUpTimeout(t) ==
  /\ task[t].at \in Executing /\ task[t].action # NoAction /\ ~task[t].told
  /\ task' = [task EXCEPT ![t].told = TRUE]
  /\ UNCHANGED <<status, row, seen, users, history>>

-----------------------------------------------------------------------------
(* A round of Execute: the LLM answers, fails, or asks for tools.  After   *)
(* MaxIterations rounds Execute gives up.  OnText takes an empty reply to  *)
(* the follow-up for a message that was not handled.                       *)
Think(t) ==
  /\ task[t].at = "think"
  /\ \/ Reply(t)
     \/ task[t].action # NoAction /\ ~task[t].told /\ Become(t, At("think"))
     \/ /\ task[t].round < MaxIterations
        /\ task' = [task EXCEPT ![t].at = "tools", ![t].round = @ + 1]
  /\ UNCHANGED <<status, row, seen, users, history>>

(* CheckLocalShell: forbidden text is looked for first; a rule of the list *)
(* that matches lets the command run, also a rule that says confirm.       *)
CheckLocalShell(c) ==
  IF c.banned THEN "refuse" ELSE IF c.rule # "none" THEN "run"
  ELSE IF AskUnlisted THEN "ask" ELSE "refuse"

(* CheckDockerExec: the rules of "common", then those of the container and *)
(* of the programs its name hints at, decide.                              *)
CheckDockerExec(c) ==
  IF c.banned THEN "refuse" ELSE IF c.rule # "none" THEN c.rule
  ELSE IF AskUnlisted THEN "ask" ELSE "refuse"

(* What the handlers want consent for: start, stop and restart of the      *)
(* docker tool and skills that are marked without a check; remote_shell    *)
(* for nothing.                                                            *)
NeedsConsent(c) ==
  CASE c.tool = "local_shell" -> CheckLocalShell(c) = "ask"
    [] c.tool = "docker_exec" -> CheckDockerExec(c) = "ask"
    [] c.tool = "remote_shell" -> FALSE
    [] OTHER -> c.rule = "ask"

(* They ask unless their arguments say `_confirmed`, which they do for a   *)
(* confirmed action, and whenever the LLM writes it: executeTool passes    *)
(* the LLM's arguments on as they are.                                     *)
HandlerAsks(c) == NeedsConsent(c) /\ ~c.confirmed

(* executeTool: a tool that does not ask starts, or refuses.               *)
StartTool(t) ==
  /\ task[t].at = "tools"
  /\ \E c \in Calls : /\ ~HandlerAsks(c)
                      /\ vouched' = (vouched \/ NeedsConsent(c))
  /\ Goto(t, "tool")
  /\ UNCHANGED <<status, row, seen, users, ran, consents, unwritten>>

(* Arguments that read "null" give executeTool a nil map, and its write to *)
(* it panics.  net/http recovers that and the message is dropped; in a     *)
(* follow-up's goroutine it ends the process (ProcessRestart).             *)
ToolPanics(t) ==
  /\ task[t].at = "tools" /\ task[t].action = NoAction
  /\ Become(t, At("unanswered"))
  /\ UNCHANGED <<status, row, seen, users, history>>

(* Mutant of EndTool: it never gives up.                                   *)
EndToolForever(t) ==
  /\ task[t].at = "tool"
  /\ \E n \in {0, task[t].fails + 1} :
       task' = [task EXCEPT ![t].at = "tools", ![t].fails = n]
  /\ UNCHANGED <<status, row, seen, users, history>>

(* It ends.  After MaxFails failures in a row Execute gives up.            *)
EndTool(t) ==
  /\ task[t].at = "tool"
  /\ \/ task' = [task EXCEPT ![t].at = "tools", ![t].fails = 0]
     \/ IF task[t].fails + 1 >= MaxFails
          THEN Reply(t)
          ELSE task' = [task EXCEPT ![t].at = "tools", ![t].fails = @ + 1]
  /\ UNCHANGED <<status, row, seen, users, history>>

(* A tool asks: createPendingAndReply looks for an open action of the      *)
(* session and answers with it.  If there is none, or the lookup fails, it *)
(* goes on to create one.                                                  *)
LookForOpen(t) ==
  /\ task[t].at = "tools"
  /\ \E c \in Calls : HandlerAsks(c)
  /\ \/ ~NoneOpen(SessionOf(t)) /\ Reply(t)
     \/ Goto(t, "create")
  /\ UNCHANGED <<status, row, seen, users, history>>

(* The row is inserted and the user is asked; or the insert fails, because *)
(* the ID is taken for instance, and the LLM is told.                      *)
Create(t) ==
  /\ task[t].at = "create"
  /\ \/ \E i \in Actions :
          /\ status[i] = "none"
          /\ status' = [status EXCEPT ![i] = "pending"]
          /\ owner' = [owner EXCEPT ![i] = SessionOf(t)]
          /\ before' = [before EXCEPT ![i] = {j \in Actions : status[j] # "none"}]
          /\ Reply(t)
     \/ Goto(t, "tools") /\ UNCHANGED <<status, owner, before>>
  /\ UNCHANGED <<lapsed, seen, users, history>>

(* Mutant of EndRound: the round does not count.                           *)
EndRoundUncounted(t) ==
  /\ task[t].at = "tools"
  /\ task' = [task EXCEPT ![t].at = "think", ![t].round = 0]
  /\ UNCHANGED <<status, row, seen, users, history>>

(* All tools the LLM asked for have ended.                                 *)
EndRound(t) ==
  /\ task[t].at = "tools"
  /\ Goto(t, "think")
  /\ UNCHANGED <<status, row, seen, users, history>>

-----------------------------------------------------------------------------
(* defaultConfirmTTL (10 minutes) passes.                                  *)
Lapse(i) ==
  /\ status[i] = "pending" /\ i \notin lapsed
  /\ lapsed' = lapsed \cup {i}
  /\ UNCHANGED <<status, owner, before, seen, task, users, history>>

(* The process ends and starts again; the table stays.                     *)
ProcessRestart ==
  /\ seen # {} \/ \E t \in Tasks : task[t].at \notin Ended
  /\ seen' = {}
  /\ task' = [t \in Tasks |-> IF task[t].at \in Ended THEN task[t] ELSE At("unanswered")]
  /\ UNCHANGED <<status, row, users, history>>

TaskStep(t) ==
  \/ LookupFails(t) \/ FindLatest(t) \/ Find(t) \/ Close(t) \/ Confirm(t)
  \/ RunTool(t) \/ NoTool(t) \/ Settle(t) \/ FollowUpTimeout(t)
  \/ Think(t) \/ StartTool(t) \/ ToolPanics(t) \/ EndTool(t)
  \/ LookForOpen(t) \/ Create(t) \/ EndRound(t)

ConfirmNext ==
  \/ \E m \in Msgs : Deliver(m)
  \/ \E t \in Tasks : TaskStep(t)
  \/ \E i \in Actions : Lapse(i)
  \/ ProcessRestart

ConfirmSpec == ConfirmInit /\ [][ConfirmNext]_confirmVars

(* Database and LLM calls end, with an error if need be (the LLM client    *)
(* has a timeout), the LLM asks for finitely many tools at a time, and the *)
(* 90 s pass.  A tool handler owes nothing: Tool.Timeout is not used.      *)
ConfirmFairness ==
  \A t \in Tasks :
    /\ WF_confirmVars(LookupFails(t) \/ FindLatest(t) \/ Find(t))
    /\ WF_confirmVars(Close(t) \/ Confirm(t) \/ Settle(t))
    /\ WF_confirmVars(FollowUpTimeout(t))
    /\ WF_confirmVars(Think(t))
    /\ WF_confirmVars(Create(t))
    /\ SF_confirmVars(EndRound(t))

ConfirmFairSpec == ConfirmSpec /\ ConfirmFairness

-----------------------------------------------------------------------------
(* A message confirms an action at most once: however often it is          *)
(* delivered and whenever the process restarts, one task at most runs the  *)
(* tool for it, unless a status could not be stored (processedMsgs, and    *)
(* the status written before the tool runs, executor.go:523).              *)
OneRunPerConfirmation ==
  \A i \in Actions \ unwritten : \A t, u \in ran[i] :
    t[1] \in consents[i] /\ (t[1] = u[1] => t = u)

(* The state as Consent has it.                                            *)
Stage ==
  [i \in Actions |->
     CASE status[i] = "none" -> "unasked"
       [] status[i] = "pending" -> "open"
       [] OTHER -> "settled"]

Acted == [i \in Actions |-> {t[1] : t \in ran[i]}]

Contract == INSTANCE Consent
  WITH Msgs <- Msgs \ WebMsgs, stage <- Stage, asker <- owner, agreed <- consents,
       acted <- Acted, untracked <- unwritten, unasked <- vouched

(* The confirmation keeps its contract: whatever handlers, redeliveries,   *)
(* restarts and failed statements come in between, an action that was      *)
(* asked for is done for a message only if that came over WeCom from the   *)
(* session the action was asked for in while it was open, once for each,   *)
(* and only when it is settled (TryHandleConfirmCancel).  What the LLM     *)
(* gets done by writing `_confirmed` itself is not asked for.              *)
ConsentHolds == Contract!Spec

(* The handling of a message comes to an end, unless a tool hangs while    *)
(* the user waits for it: "done" with an answer, or "unanswered" because   *)
(* SendText fails, executeTool panics or the process ends.  A tool that    *)
(* hangs after the confirmed action has run does not keep the user waiting *)
(* (Execute's limits and executeWithContext).                              *)
EveryMessageEnds ==
  \A t \in Tasks :
    task[t].at # "none" ~>
      \/ task[t].at \in Ended \/ task[t].told
      \/ [](task[t].at = "run" \/ (task[t].at = "tool" /\ task[t].action = NoAction))
=============================================================================
