-------------------------- MODULE ConfirmFlow_proofs --------------------------
(***************************************************************************)
(* Proofs about ConfirmFlow: types, that a message confirms an action at   *)
(* most once, and that the handling of confirmations implements Consent.   *)
(* The argument: all handlers of a message but the last have ended (a      *)
(* redelivery is handled only after a restart), and a handler that reaches *)
(* the tool has stored a status other than "pending", which no statement   *)
(* puts back, so that a later handler of the message is refused by the     *)
(* checks on the row.                                                      *)
(***************************************************************************)
EXTENDS ConfirmFlow, TLAPS

(* A task is a message and the number of the delivery.                     *)
LEMMA TaskIsPair ==
  \A t : t \in Tasks <=> /\ t = <<t[1], t[2]>>
                        /\ t[1] \in Msgs /\ t[2] \in 1..MaxDeliveries[t[1]]
  BY DEF Tasks

LEMMA AtTyped ==
  ASSUME NEW l \in Confirming \cup Executing \cup Ended
  PROVE  At(l) \in Task /\ At(l).at = l /\ At(l).action = NoAction
  BY ConfirmAssumption DEF At, Task

Settled(i) == status[i] \notin {"none", "pending"}

Holds(t, i) == task[t].at \in {"confirm", "run"} /\ task[t].action = i

(* Only the last handler of a message is at work, and it marked it as seen.*)
HandlersInv ==
  /\ \A t \in Tasks : task[t].at \notin Ended =>
       t[2] = deliveries[t[1]] /\ t[1] \in seen \cup WebMsgs
  /\ \A t \in Tasks : t[2] > deliveries[t[1]] => task[t].at = "none"

(* A handler that confirms has an action, its message is a consent to it,  *)
(* and at the tool the action is no longer pending.  A look for an action  *)
(* follows a message that confirms or cancels.                             *)
ActionInv ==
  \A t \in Tasks :
    /\ task[t].at \in Confirming \ {"latest"} => task[t].action \in Actions
    /\ task[t].at \in {"confirm", "run"} => t[1] \in consents[task[t].action]
    /\ task[t].at = "run" /\ task[t].action \notin unwritten => Settled(task[t].action)
    /\ task[t].at \in {"latest", "find"} => text[t[1]].kind # "chat"

RanInv ==
  \A i \in Actions \ unwritten : \A t \in ran[i] :
    /\ Settled(i) /\ t[1] \in consents[i]
    /\ \A u \in Tasks : u[1] = t[1] /\ (u \in ran[i] \/ Holds(u, i)) => u = t

ConfirmInv == ConfirmTypeOK /\ HandlersInv /\ ActionInv /\ RanInv

(* The steps that end, restart or move a task leave it a task.             *)
LEMMA BecomeTyped ==
  ASSUME NEW t \in Tasks, NEW rec \in Task, task \in [Tasks -> Task], Become(t, rec)
  PROVE  /\ task' \in [Tasks -> Task] /\ task'[t] = rec
         /\ \A u \in Tasks : u # t => task'[u] = task[u]
  BY DEF Become

LEMMA GotoTyped ==
  ASSUME NEW t \in Tasks, NEW l \in Confirming \cup Executing \cup Ended,
         task \in [Tasks -> Task], Goto(t, l)
  PROVE  /\ task' \in [Tasks -> Task]
         /\ task'[t].at = l /\ task'[t].action = task[t].action
         /\ \A u \in Tasks : u # t => task'[u] = task[u]
  BY DEF Goto, Task

LEMMA ReplyTyped ==
  ASSUME NEW t \in Tasks, task \in [Tasks -> Task], Reply(t)
  PROVE  /\ task' \in [Tasks -> Task]
         /\ task'[t].at \in {"done", "unanswered"}
         /\ \A u \in Tasks : u # t => task'[u] = task[u]
<1>1. PICK end \in {"done", "unanswered"} : Become(t, At(end))
  BY DEF Reply
<1>2. At(end) \in Task /\ At(end).at = end
  BY AtTyped DEF Ended
<1> QED
  BY <1>1, <1>2, BecomeTyped

LEMMA FindTyped ==
  ASSUME NEW i \in Actions
  PROVE  /\ [At("find") EXCEPT !.action = i] \in Task
         /\ [At("find") EXCEPT !.action = i].at = "find"
         /\ [At("find") EXCEPT !.action = i].action = i
  BY AtTyped DEF Task, Confirming, At

(* A message that is handled: the new task starts, all others are as they  *)
(* were.                                                                   *)
LEMMA HandleTyped ==
  ASSUME NEW m \in Msgs, ConfirmTypeOK, Handle(m)
  PROVE  LET t == <<m, deliveries[m] + 1>> IN
         /\ t \in Tasks
         /\ task' \in [Tasks -> Task] /\ text' \in [Msgs -> Texts]
         /\ deliveries' \in [Msgs -> Nat]
         /\ \A n \in Msgs : deliveries'[n] <= MaxDeliveries[n]
         /\ deliveries'[m] = deliveries[m] + 1
         /\ \A n \in Msgs : n # m => deliveries'[n] = deliveries[n]
         /\ task'[t].at \in {"think", "latest", "find", "unanswered"}
         /\ task'[t].at = "find" => task'[t].action \in Actions
         /\ task'[t].at \in {"latest", "find"} => text'[m].kind # "chat"
         /\ \A n \in Msgs : n # m => text'[n] = text[n]
         /\ \A u \in Tasks : u # t => task'[u] = task[u]
<1> DEFINE t == <<m, deliveries[m] + 1>>
<1> USE DEF ConfirmTypeOK
<1>a. deliveries[m] \in Nat /\ \A n \in Msgs : MaxDeliveries[n] \in Nat
  BY ConfirmAssumption
<1>b. deliveries[m] < MaxDeliveries[m] /\ deliveries' = [deliveries EXCEPT ![m] = @ + 1]
  BY DEF Handle
<1>0. deliveries[m] + 1 \in 1..MaxDeliveries[m]
  BY <1>a, <1>b
<1>1. t \in Tasks
  BY <1>0, TaskIsPair
<1>2. text' \in [Msgs -> Texts] /\ \A n \in Msgs : n # m => text'[n] = text[n]
  BY DEF Handle
<1>3. text'[m].kind # "chat" => text'[m].id \in Actions \cup {NoAction}
  BY <1>2 DEF Texts
<1>5. /\ Begin(m, text'[m]) \in Task
      /\ Begin(m, text'[m]).at \in {"think", "latest", "find", "unanswered"}
      /\ Begin(m, text'[m]).at = "find" => Begin(m, text'[m]).action \in Actions
      /\ Begin(m, text'[m]).at \in {"latest", "find"} => text'[m].kind # "chat"
  BY <1>3, FindTyped, AtTyped DEF Begin, HandleChat, Confirming, Executing, Ended
<1>6. Become(t, Begin(m, text'[m]))
  BY DEF Handle
<1>7. /\ deliveries' \in [Msgs -> Nat]
      /\ \A n \in Msgs : deliveries'[n] <= MaxDeliveries[n]
      /\ deliveries'[m] = deliveries[m] + 1
      /\ \A n \in Msgs : n # m => deliveries'[n] = deliveries[n]
  BY <1>a, <1>b
<1> QED
  BY <1>1, <1>2, <1>5, <1>6, <1>7, BecomeTyped

-----------------------------------------------------------------------------
(* What any step of a task can change.                                     *)
Frame(t) ==
  /\ task[t].at \notin Ended
  /\ task' \in [Tasks -> Task]
  /\ \A u \in Tasks : u # t => task'[u] = task[u]
  /\ UNCHANGED <<seen, deliveries, text>>
  /\ status' \in [Actions -> Statuses]
  /\ owner' \in [Actions -> Sessions \cup {NoSession}]
  /\ before' \in [Actions -> SUBSET Actions]
  /\ lapsed' \subseteq Actions
  /\ ran' \in [Actions -> SUBSET Tasks]
  /\ consents' \in [Actions -> SUBSET Msgs]
  /\ unwritten \subseteq unwritten' /\ unwritten' \subseteq Actions
  /\ vouched' \in BOOLEAN

(* And how it moves towards the tool.                                      *)
Effect(t) ==
  /\ \A i \in Actions : Settled(i) => Settled(i)'
  /\ \A i \in Actions : consents[i] \subseteq consents'[i]
  /\ task'[t].at \in Confirming \ {"latest"} => task'[t].action \in Actions
  /\ \A i \in Actions : Holds(t, i)' =>
       /\ t[1] \in consents'[i]
       /\ Holds(t, i) \/ status[i] = "pending"
  /\ task'[t].at = "run" /\ task'[t].action \notin unwritten' => Settled(task[t].action)'
  /\ task'[t].at \in {"latest", "find"} => text[t[1]].kind # "chat"
  /\ \A i \in Actions :
       \/ ran'[i] = ran[i]
       \/ Holds(t, i) /\ task[t].at = "run" /\ ran'[i] = ran[i] \cup {t}

(* Storing a status keeps the table typed and settles the action, or the   *)
(* action is marked.                                                       *)
LEMMA WriteStatusTyped ==
  ASSUME ConfirmTypeOK, NEW i \in Actions, NEW s \in Statuses \ {"none", "pending"},
         WriteStatus(i, s)
  PROVE  /\ status' \in [Actions -> Statuses]
         /\ unwritten \subseteq unwritten' /\ unwritten' \subseteq Actions
         /\ \A j \in Actions : Settled(j) => Settled(j)'
         /\ i \notin unwritten' => Settled(i)'
<1>1. CASE status' = [status EXCEPT ![i] = s] /\ UNCHANGED unwritten
  BY <1>1 DEF ConfirmTypeOK, Settled
<1>2. CASE unwritten' = unwritten \cup {i} /\ UNCHANGED status
  BY <1>2 DEF ConfirmTypeOK, Settled
<1> QED
  BY <1>1, <1>2 DEF WriteStatus

(* A step that changes nothing but its task, and does not lead to the tool.*)
LEMMA QuietEffect ==
  ASSUME ConfirmTypeOK, NEW t \in Tasks, task[t].at \notin Ended,
         task' \in [Tasks -> Task], \A u \in Tasks : u # t => task'[u] = task[u],
         task'[t].at \in {"done", "unanswered"} \cup Executing,
         UNCHANGED <<status, row, seen, users, ran, consents, unwritten>>,
         vouched' \in BOOLEAN
  PROVE  Frame(t) /\ Effect(t)
<1>1. Frame(t)
  BY DEF Frame, ConfirmTypeOK, row, users
<1>2. task'[t].at \notin {"confirm", "run", "latest", "find"}
  BY DEF Executing
<1>3. task'[t].at \in Confirming \ {"latest"} => task'[t].action \in Actions
  BY DEF Executing, Confirming
<1>4. Effect(t)
  BY <1>2, <1>3 DEF Effect, Settled, Holds, row
<1> QED
  BY <1>1, <1>4

LEMMA LookupFailsEffect ==
  ASSUME ConfirmTypeOK, ActionInv, NEW t \in Tasks, LookupFails(t)
  PROVE  Frame(t) /\ Effect(t)
<1>1. task[t].at \notin Ended /\ UNCHANGED <<status, row, seen, users, history>>
  BY DEF LookupFails, Ended, Executing
<1>2. /\ task' \in [Tasks -> Task] /\ \A u \in Tasks : u # t => task'[u] = task[u]
      /\ task'[t].at \in {"done", "unanswered"} \cup Executing
  BY AtTyped, BecomeTyped DEF LookupFails, ConfirmTypeOK, Executing
<1> QED
  BY <1>1, <1>2, QuietEffect DEF ConfirmTypeOK, history

LEMMA FindLatestEffect ==
  ASSUME ConfirmTypeOK, ActionInv, NEW t \in Tasks, FindLatest(t)
  PROVE  Frame(t) /\ Effect(t)
<1>1. task[t].at = "latest" /\ UNCHANGED <<status, row, seen, users, history>>
  BY DEF FindLatest
<1>2. CASE Reply(t)
  BY <1>1, <1>2, ReplyTyped, QuietEffect DEF ConfirmTypeOK, Ended, history
<1>3. CASE \E i \in Actions : Become(t, [At("find") EXCEPT !.action = i])
  <2>1. PICK i \in Actions : Become(t, [At("find") EXCEPT !.action = i])
    BY <1>3
  <2>2. /\ task' \in [Tasks -> Task] /\ \A u \in Tasks : u # t => task'[u] = task[u]
        /\ task'[t].at = "find" /\ task'[t].action \in Actions
    <3> DEFINE r == [At("find") EXCEPT !.action = i]
    <3>1. r \in Task /\ r.at = "find" /\ r.action \in Actions /\ Become(t, r)
      BY <2>1, FindTyped
    <3> HIDE DEF r
    <3> QED
      BY <3>1, BecomeTyped DEF ConfirmTypeOK
  <2>3. Frame(t)
    BY <1>1, <2>2 DEF Frame, ConfirmTypeOK, row, users, history, Ended
  <2>4. text[t[1]].kind # "chat"
    BY <1>1 DEF ActionInv
  <2>5. Effect(t)
    BY <1>1, <2>2, <2>4 DEF Effect, Settled, Holds, row, users, history
  <2> QED
    BY <2>3, <2>5
<1> QED
  BY <1>2, <1>3 DEF FindLatest

LEMMA FollowUpTimeoutEffect ==
  ASSUME ConfirmTypeOK, ActionInv, NEW t \in Tasks, FollowUpTimeout(t)
  PROVE  Frame(t) /\ Effect(t)
<1>1. task[t].at \notin Ended /\ UNCHANGED <<status, row, seen, users, history>>
  BY DEF FollowUpTimeout, Ended, Executing
<1> DEFINE r == [task[t] EXCEPT !.told = TRUE]
<1>2. task \in [Tasks -> Task] /\ task' = [task EXCEPT ![t] = r]
  BY DEF FollowUpTimeout, ConfirmTypeOK
<1>3. r \in Task /\ r.at = task[t].at
  BY <1>2 DEF Task
<1> HIDE DEF r
<1>4. /\ task' \in [Tasks -> Task] /\ \A u \in Tasks : u # t => task'[u] = task[u]
      /\ task'[t] = r
  BY <1>2, <1>3
<1>5. task'[t].at \in {"done", "unanswered"} \cup Executing
  BY <1>3, <1>4 DEF FollowUpTimeout
<1> QED
  BY <1>1, <1>4, <1>5, QuietEffect DEF ConfirmTypeOK, history

LEMMA ThinkEffect ==
  ASSUME ConfirmTypeOK, ActionInv, NEW t \in Tasks, Think(t)
  PROVE  Frame(t) /\ Effect(t)
<1>1. task[t].at \notin Ended /\ UNCHANGED <<status, row, seen, users, history>>
  BY DEF Think, Ended, Executing
<1>2. /\ task' \in [Tasks -> Task] /\ \A u \in Tasks : u # t => task'[u] = task[u]
      /\ task'[t].at \in {"done", "unanswered"} \cup Executing
  <2>1. CASE Reply(t)
    BY <2>1, ReplyTyped DEF ConfirmTypeOK
  <2>2. CASE /\ task[t].round < MaxIterations
             /\ task' = [task EXCEPT ![t].at = "tools", ![t].round = @ + 1]
    BY <2>2, ConfirmAssumption DEF ConfirmTypeOK, Task, Executing
  <2>3. CASE Become(t, At("think"))
    BY <2>3, AtTyped, BecomeTyped DEF ConfirmTypeOK, Executing
  <2> QED
    BY <2>1, <2>2, <2>3 DEF Think
<1> QED
  BY <1>1, <1>2, QuietEffect DEF ConfirmTypeOK, history

LEMMA StartToolEffect ==
  ASSUME ConfirmTypeOK, ActionInv, NEW t \in Tasks, StartTool(t)
  PROVE  Frame(t) /\ Effect(t)
<1>1. /\ task[t].at \notin Ended
      /\ UNCHANGED <<status, row, seen, users, ran, consents, unwritten>>
  BY DEF StartTool, Ended, Executing
<1>2. /\ task' \in [Tasks -> Task] /\ \A u \in Tasks : u # t => task'[u] = task[u]
      /\ task'[t].at \in {"done", "unanswered"} \cup Executing
  BY GotoTyped DEF StartTool, ConfirmTypeOK, Executing
<1>3. PICK c \in Calls : vouched' = (vouched \/ NeedsConsent(c))
  BY DEF StartTool
<1>4. vouched' \in BOOLEAN
  BY <1>3, ZenonT(30) DEF ConfirmTypeOK
<1> QED
  BY <1>1, <1>2, <1>4, QuietEffect

LEMMA ToolPanicsEffect ==
  ASSUME ConfirmTypeOK, ActionInv, NEW t \in Tasks, ToolPanics(t)
  PROVE  Frame(t) /\ Effect(t)
<1>1. task[t].at \notin Ended /\ UNCHANGED <<status, row, seen, users, history>>
  BY DEF ToolPanics, Ended, Executing
<1>2. /\ task' \in [Tasks -> Task] /\ \A u \in Tasks : u # t => task'[u] = task[u]
      /\ task'[t].at \in {"done", "unanswered"} \cup Executing
  BY AtTyped, BecomeTyped DEF ToolPanics, ConfirmTypeOK, Ended
<1> QED
  BY <1>1, <1>2, QuietEffect DEF ConfirmTypeOK, history

LEMMA EndToolEffect ==
  ASSUME ConfirmTypeOK, ActionInv, NEW t \in Tasks, EndTool(t)
  PROVE  Frame(t) /\ Effect(t)
<1>1. task[t].at \notin Ended /\ UNCHANGED <<status, row, seen, users, history>>
  BY DEF EndTool, Ended, Executing
<1>2. /\ task' \in [Tasks -> Task] /\ \A u \in Tasks : u # t => task'[u] = task[u]
      /\ task'[t].at \in {"done", "unanswered"} \cup Executing
  <2>1. CASE task' = [task EXCEPT ![t].at = "tools", ![t].fails = 0]
    <3>1. 0 \in 0..MaxFails
      BY ConfirmAssumption
    <3> DEFINE r == [task[t] EXCEPT !.at = "tools", !.fails = 0]
    <3>2. task[t] \in Task
      BY DEF ConfirmTypeOK
    <3>3. r \in Task /\ r.at \in Executing
      BY <3>1, <3>2 DEF Task, Executing
    <3>4. Become(t, r)
      BY <2>1, <3>2 DEF Become, ConfirmTypeOK
    <3> HIDE DEF r
    <3> QED
      BY <3>3, <3>4, BecomeTyped DEF ConfirmTypeOK
  <2>2. CASE task[t].fails + 1 >= MaxFails /\ Reply(t)
    BY <2>2, ReplyTyped DEF ConfirmTypeOK
  <2>3. CASE /\ ~(task[t].fails + 1 >= MaxFails)
             /\ task' = [task EXCEPT ![t].at = "tools", ![t].fails = @ + 1]
    BY <2>3, ConfirmAssumption DEF ConfirmTypeOK, Task, Executing
  <2> QED
    BY <2>1, <2>2, <2>3 DEF EndTool
<1> QED
  BY <1>1, <1>2, QuietEffect DEF ConfirmTypeOK, history

LEMMA LookForOpenEffect ==
  ASSUME ConfirmTypeOK, ActionInv, NEW t \in Tasks, LookForOpen(t)
  PROVE  Frame(t) /\ Effect(t)
<1>1. task[t].at \notin Ended /\ UNCHANGED <<status, row, seen, users, history>>
  BY DEF LookForOpen, Ended, Executing
<1>2. /\ task' \in [Tasks -> Task] /\ \A u \in Tasks : u # t => task'[u] = task[u]
      /\ task'[t].at \in {"done", "unanswered"} \cup Executing
  <2>1. CASE Reply(t)
    BY <2>1, ReplyTyped DEF ConfirmTypeOK
  <2>2. CASE Goto(t, "create")
    BY <2>2, GotoTyped DEF ConfirmTypeOK, Executing
  <2> QED
    BY <2>1, <2>2 DEF LookForOpen
<1> QED
  BY <1>1, <1>2, QuietEffect DEF ConfirmTypeOK, history

LEMMA EndRoundEffect ==
  ASSUME ConfirmTypeOK, ActionInv, NEW t \in Tasks, EndRound(t)
  PROVE  Frame(t) /\ Effect(t)
<1>1. task[t].at \notin Ended /\ UNCHANGED <<status, row, seen, users, history>>
  BY DEF EndRound, Ended, Executing
<1>2. /\ task' \in [Tasks -> Task] /\ \A u \in Tasks : u # t => task'[u] = task[u]
      /\ task'[t].at \in {"done", "unanswered"} \cup Executing
  BY GotoTyped DEF EndRound, ConfirmTypeOK, Executing
<1> QED
  BY <1>1, <1>2, QuietEffect DEF ConfirmTypeOK, history

LEMMA FindEffect ==
  ASSUME ConfirmTypeOK, ActionInv, NEW t \in Tasks, Find(t)
  PROVE  Frame(t) /\ Effect(t)
<1> DEFINE i == task[t].action
           kind == text[t[1]].kind
<1>1. /\ task[t].at = "find" /\ i \in Actions
      /\ UNCHANGED <<status, row, seen, users, ran, unwritten, vouched>>
  BY DEF Find, ActionInv, Confirming
<1>2. kind \in {"confirm", "cancel"} /\ t[1] \in Msgs
  BY <1>1, TaskIsPair DEF ActionInv, ConfirmTypeOK, Texts
<1>3. CASE Reply(t) /\ UNCHANGED consents
  BY <1>1, <1>3, ReplyTyped, QuietEffect DEF ConfirmTypeOK, Ended
<1>4. CASE /\ status[i] = "pending"
           /\ Goto(t, IF i \in lapsed THEN "expire" ELSE kind)
           /\ consents' = IF i \notin lapsed /\ kind = "confirm"
                            THEN [consents EXCEPT ![i] = @ \cup {t[1]}] ELSE consents
  <2> DEFINE l == IF i \in lapsed THEN "expire" ELSE kind
  <2>1. l \in {"expire", "confirm", "cancel"} /\ l \in Confirming \cup Executing \cup Ended
    BY <1>2 DEF Confirming
  <2>2. /\ task' \in [Tasks -> Task] /\ task'[t].at = l /\ task'[t].action = i
        /\ \A u \in Tasks : u # t => task'[u] = task[u]
    BY <1>4, <2>1, GotoTyped DEF ConfirmTypeOK
  <2>3. /\ consents' \in [Actions -> SUBSET Msgs]
        /\ \A j \in Actions : consents[j] \subseteq consents'[j]
        /\ l = "confirm" => t[1] \in consents'[i]
    BY <1>1, <1>2, <1>4 DEF ConfirmTypeOK
  <2>4. Frame(t)
    BY <1>1, <2>2, <2>3 DEF Frame, ConfirmTypeOK, row, users, Ended
  <2>5. Effect(t)
    BY <1>1, <1>4, <2>1, <2>2, <2>3 DEF Effect, Settled, Holds
  <2> QED
    BY <2>4, <2>5
<1> QED
  BY <1>3, <1>4 DEF Find

LEMMA CloseEffect ==
  ASSUME ConfirmTypeOK, ActionInv, NEW t \in Tasks, Close(t)
  PROVE  Frame(t) /\ Effect(t)
<1> DEFINE s == IF task[t].at = "expire" THEN "expired" ELSE "cancelled"
<1>1. /\ task[t].at \in {"expire", "cancel"} /\ task[t].action \in Actions
      /\ UNCHANGED <<row, seen, users, ran, consents, vouched>>
  BY DEF Close, ActionInv, Confirming
<1>2. /\ task' \in [Tasks -> Task] /\ task'[t].at \in {"done", "unanswered"}
      /\ \A u \in Tasks : u # t => task'[u] = task[u]
  BY ReplyTyped DEF Close, ConfirmTypeOK
<1>3. s \in Statuses \ {"none", "pending"} /\ WriteStatus(task[t].action, s)
  BY DEF Close, Statuses
<1>4. Frame(t)
  BY <1>1, <1>2, <1>3, WriteStatusTyped DEF Frame, ConfirmTypeOK, row, users, Ended
<1>5. Effect(t)
  BY <1>1, <1>2, <1>3, WriteStatusTyped DEF Effect, Holds, Confirming
<1> QED
  BY <1>4, <1>5

LEMMA ConfirmEffect ==
  ASSUME ConfirmTypeOK, ActionInv, NEW t \in Tasks, Confirm(t)
  PROVE  Frame(t) /\ Effect(t)
<1>1. /\ task[t].at = "confirm" /\ task[t].action \in Actions
      /\ t[1] \in consents[task[t].action]
      /\ UNCHANGED <<row, seen, users, ran, consents, vouched>>
  BY DEF Confirm, ActionInv, Confirming
<1>2. /\ task' \in [Tasks -> Task] /\ task'[t].at = "run"
      /\ task'[t].action = task[t].action
      /\ \A u \in Tasks : u # t => task'[u] = task[u]
  BY GotoTyped DEF Confirm, ConfirmTypeOK, Confirming
<1>3. "confirmed" \in Statuses \ {"none", "pending"}
  BY DEF Statuses
<1>4. WriteStatus(task[t].action, "confirmed")
  BY DEF Confirm
<1>5. Frame(t)
  BY <1>1, <1>2, <1>3, <1>4, WriteStatusTyped
  DEF Frame, ConfirmTypeOK, row, users, Ended
<1>6. Effect(t)
  BY <1>1, <1>2, <1>3, <1>4, WriteStatusTyped DEF Effect, Holds
<1> QED
  BY <1>5, <1>6

LEMMA RunToolEffect ==
  ASSUME ConfirmTypeOK, ActionInv, NEW t \in Tasks, RunTool(t)
  PROVE  Frame(t) /\ Effect(t)
<1>1. /\ task[t].at = "run" /\ task[t].action \in Actions
      /\ ran' = [ran EXCEPT ![task[t].action] = @ \cup {t}]
      /\ UNCHANGED <<status, row, seen, users, consents, unwritten, vouched>>
  BY DEF RunTool, ActionInv, Confirming
<1>2. /\ task' \in [Tasks -> Task] /\ task'[t].at = "settle"
      /\ task'[t].action = task[t].action
      /\ \A u \in Tasks : u # t => task'[u] = task[u]
  BY GotoTyped DEF RunTool, ConfirmTypeOK, Confirming
<1>3. Frame(t)
  BY <1>1, <1>2 DEF Frame, ConfirmTypeOK, row, users, Ended
<1>4. \A i \in Actions : \/ ran'[i] = ran[i]
                         \/ Holds(t, i) /\ ran'[i] = ran[i] \cup {t}
  BY <1>1 DEF ConfirmTypeOK, Holds
<1>5. Effect(t)
  BY <1>1, <1>2, <1>4 DEF Effect, Holds, Settled
<1> QED
  BY <1>3, <1>5

LEMMA NoToolEffect ==
  ASSUME ConfirmTypeOK, ActionInv, NEW t \in Tasks, NoTool(t)
  PROVE  Frame(t) /\ Effect(t)
<1>1. /\ task[t].at = "run" /\ task[t].action \in Actions
      /\ UNCHANGED <<row, seen, users, ran, consents, vouched>>
  BY DEF NoTool, ActionInv, Confirming
<1>2. /\ task' \in [Tasks -> Task] /\ task'[t].at \in {"done", "unanswered"}
      /\ \A u \in Tasks : u # t => task'[u] = task[u]
  BY ReplyTyped DEF NoTool, ConfirmTypeOK
<1>3. "failed" \in Statuses \ {"none", "pending"} /\ WriteStatus(task[t].action, "failed")
  BY DEF NoTool, Statuses
<1>4. Frame(t)
  BY <1>1, <1>2, <1>3, WriteStatusTyped DEF Frame, ConfirmTypeOK, row, users, Ended
<1>5. Effect(t)
  BY <1>1, <1>2, <1>3, WriteStatusTyped DEF Effect, Holds, Confirming
<1> QED
  BY <1>4, <1>5

LEMMA SettleEffect ==
  ASSUME ConfirmTypeOK, ActionInv, NEW t \in Tasks, Settle(t)
  PROVE  Frame(t) /\ Effect(t)
<1>1. /\ task[t].at = "settle" /\ task[t].action \in Actions
      /\ UNCHANGED <<row, seen, users, ran, consents, vouched>>
  BY DEF Settle, ActionInv, Confirming
<1>2. /\ task' \in [Tasks -> Task] /\ task'[t].at \in {"think", "done", "unanswered"}
      /\ \A u \in Tasks : u # t => task'[u] = task[u]
  BY GotoTyped, ReplyTyped DEF Settle, ConfirmTypeOK, Executing
<1>3. PICK s \in {"executed", "failed"} : WriteStatus(task[t].action, s)
  BY DEF Settle
<1>4. s \in Statuses \ {"none", "pending"}
  BY DEF Statuses
<1>5. Frame(t)
  BY <1>1, <1>2, <1>3, <1>4, WriteStatusTyped
  DEF Frame, ConfirmTypeOK, row, users, Ended
<1>6. Effect(t)
  BY <1>1, <1>2, <1>3, <1>4, WriteStatusTyped DEF Effect, Holds, Confirming
<1> QED
  BY <1>5, <1>6

LEMMA CreateEffect ==
  ASSUME ConfirmTypeOK, ActionInv, NEW t \in Tasks, Create(t)
  PROVE  Frame(t) /\ Effect(t)
<1>1. task[t].at = "create" /\ UNCHANGED <<lapsed, seen, users, history>>
  BY DEF Create
<1>2. CASE Goto(t, "tools") /\ UNCHANGED <<status, owner, before>>
  BY <1>1, <1>2, GotoTyped, QuietEffect
  DEF ConfirmTypeOK, Executing, Ended, row, history
<1>3. ASSUME NEW i \in Actions, status[i] = "none",
             status' = [status EXCEPT ![i] = "pending"],
             owner' = [owner EXCEPT ![i] = SessionOf(t)],
             before' = [before EXCEPT ![i] = {j \in Actions : status[j] # "none"}],
             Reply(t)
      PROVE  Frame(t) /\ Effect(t)
  <2>1. /\ task' \in [Tasks -> Task] /\ task'[t].at \in {"done", "unanswered"}
        /\ \A u \in Tasks : u # t => task'[u] = task[u]
    BY <1>3, ReplyTyped DEF ConfirmTypeOK
  <2>2. SessionOf(t) \in Sessions
    BY TaskIsPair, ConfirmAssumption DEF SessionOf
  <2>3. /\ status' \in [Actions -> Statuses]
        /\ owner' \in [Actions -> Sessions \cup {NoSession}]
        /\ before' \in [Actions -> SUBSET Actions]
    BY <1>3, <2>2 DEF ConfirmTypeOK, Statuses
  <2>4. \A j \in Actions : Settled(j) => Settled(j)'
    BY <1>3 DEF ConfirmTypeOK, Settled
  <2>5. Frame(t)
    BY <1>1, <2>1, <2>3 DEF Frame, ConfirmTypeOK, users, history, Ended
  <2>6. Effect(t)
    BY <1>1, <2>1, <2>4 DEF Effect, Holds, users, history, Confirming
  <2> QED
    BY <2>5, <2>6
<1> QED
  BY <1>2, <1>3 DEF Create

LEMMA TaskStepEffect ==
  ASSUME ConfirmTypeOK, ActionInv, NEW t \in Tasks, TaskStep(t)
  PROVE  Frame(t) /\ Effect(t)
BY LookupFailsEffect, FindLatestEffect, FindEffect, CloseEffect, ConfirmEffect,
   RunToolEffect, NoToolEffect, SettleEffect, FollowUpTimeoutEffect, ThinkEffect, StartToolEffect,
   ToolPanicsEffect, EndToolEffect, LookForOpenEffect, CreateEffect, EndRoundEffect
DEF TaskStep

-----------------------------------------------------------------------------
LEMMA InitConfirmInv == ConfirmInit => ConfirmInv
<1> SUFFICES ASSUME ConfirmInit PROVE ConfirmInv
  OBVIOUS
<1>1. At("none") \in Task /\ At("none").at = "none"
  BY AtTyped DEF Ended
<1>2. ConfirmTypeOK
  <2>1. task \in [Tasks -> Task]
    BY <1>1 DEF ConfirmInit
  <2>2. /\ deliveries \in [Msgs -> Nat] /\ text \in [Msgs -> Texts]
        /\ \A m \in Msgs : deliveries[m] <= MaxDeliveries[m]
    BY ConfirmAssumption DEF ConfirmInit, Texts
  <2>3. /\ ran \in [Actions -> SUBSET Tasks] /\ consents \in [Actions -> SUBSET Msgs]
        /\ unwritten \subseteq Actions /\ vouched \in BOOLEAN
    BY DEF ConfirmInit
  <2> QED
    BY <2>1, <2>2, <2>3 DEF ConfirmInit, ConfirmTypeOK, Statuses
<1>3. \A t \in Tasks : task[t].at = "none"
  BY <1>1 DEF ConfirmInit
<1>4. HandlersInv
  BY <1>3 DEF HandlersInv, Ended
<1>5. ActionInv
  BY <1>3 DEF ActionInv, Confirming
<1>6. RanInv
  BY DEF RanInv, ConfirmInit
<1> QED
  BY <1>2, <1>4, <1>5, <1>6 DEF ConfirmInv

LEMMA TaskStepInv ==
  ASSUME ConfirmInv, NEW t \in Tasks, TaskStep(t)
  PROVE  ConfirmInv'
<1>1. Frame(t) /\ Effect(t)
  BY TaskStepEffect DEF ConfirmInv
<1>2. ConfirmTypeOK'
  BY <1>1 DEF Frame, ConfirmInv, ConfirmTypeOK
<1>3. HandlersInv'
  <2>1. task[t].at \notin Ended /\ \A u \in Tasks : u # t => task'[u] = task[u]
    BY <1>1 DEF Frame
  <2>2. UNCHANGED <<deliveries, seen>>
    BY <1>1 DEF Frame
  <2>3. task[t].at # "none" /\ ~(t[2] > deliveries[t[1]])
    BY <2>1 DEF ConfirmInv, HandlersInv, Ended
  <2> QED
    BY <2>1, <2>2, <2>3 DEF ConfirmInv, HandlersInv
<1>4. ActionInv'
  <2> SUFFICES ASSUME NEW u \in Tasks
               PROVE  /\ task'[u].at \in Confirming \ {"latest"} => task'[u].action \in Actions
                      /\ task'[u].at \in {"confirm", "run"} => u[1] \in consents'[task'[u].action]
                      /\ task'[u].at = "run" /\ task'[u].action \notin unwritten' =>
                           Settled(task[u].action)'
                      /\ task'[u].at \in {"latest", "find"} => text'[u[1]].kind # "chat"
    BY DEF ActionInv, Settled
  <2>1. CASE u = t
    BY <1>1, <2>1 DEF Frame, Effect, Holds, Confirming
  <2>2. CASE u # t
    <3>1. task'[u] = task[u] /\ text' = text /\ unwritten \subseteq unwritten'
      BY <1>1, <2>2 DEF Frame
    <3>2. \A i \in Actions : consents[i] \subseteq consents'[i] /\ (Settled(i) => Settled(i)')
      BY <1>1 DEF Effect
    <3>3. task[u].at \in {"confirm", "run"} => task[u].action \in Actions
      BY DEF ConfirmInv, ActionInv, Confirming
    <3> QED
      BY <3>1, <3>2, <3>3 DEF ConfirmInv, ActionInv
  <2> QED
    BY <2>1, <2>2
<1>5. RanInv'
  <2> SUFFICES ASSUME NEW i \in Actions, i \notin unwritten', NEW v \in ran'[i]
               PROVE  /\ Settled(i)' /\ v[1] \in consents'[i]
                      /\ \A u \in Tasks : u[1] = v[1] /\ (u \in ran'[i] \/ Holds(u, i)')
                                           => u = v
    BY DEF RanInv, Settled, Holds
  <2>1. i \notin unwritten /\ v \in Tasks
    BY <1>1, <1>2 DEF Frame, ConfirmTypeOK
  <2>2. (Settled(i) => Settled(i)') /\ consents[i] \subseteq consents'[i]
    BY <1>1 DEF Effect
  <2>3. \A u \in Tasks : u # t => (Holds(u, i)' <=> Holds(u, i))
    BY <1>1 DEF Frame, Holds
  <2>4. ran'[i] = ran[i] \/ (Holds(t, i) /\ task[t].at = "run" /\ ran'[i] = ran[i] \cup {t})
    BY <1>1 DEF Effect
  <2>5. Holds(t, i)' => Holds(t, i) \/ ~Settled(i)
    BY <1>1 DEF Effect, Settled
  <2>6. \A w \in ran[i] : /\ Settled(i) /\ w[1] \in consents[i]
                         /\ \A u \in Tasks : u[1] = w[1] /\ (u \in ran[i] \/ Holds(u, i))
                                              => u = w
    BY <2>1 DEF ConfirmInv, RanInv
  <2>7. CASE v \in ran[i]
    <3>1. Settled(i) /\ v[1] \in consents[i]
      BY <2>6, <2>7
    <3>2. ASSUME NEW u \in Tasks, u[1] = v[1], u \in ran'[i] \/ Holds(u, i)'
          PROVE  u = v
      <4>1. u \in ran[i] \/ Holds(u, i)
        BY <2>3, <2>4, <2>5, <3>1, <3>2
      <4> QED
        BY <2>6, <2>7, <3>2, <4>1
    <3> QED
      BY <2>2, <3>1, <3>2
  <2>8. CASE v \notin ran[i]
    <3>1. v = t /\ Holds(t, i) /\ task[t].at = "run" /\ task[t].action = i
      BY <2>4, <2>8 DEF Holds
    <3>2. Settled(i) /\ v[1] \in consents[i]
      BY <2>1, <3>1 DEF ConfirmInv, ActionInv
    <3>3. ASSUME NEW u \in Tasks, u[1] = v[1], u \in ran'[i] \/ Holds(u, i)'
          PROVE  u = v
      <4>1. CASE u \in ran[i]
        BY <2>1, <2>6, <3>1, <3>3, <4>1
      <4>2. CASE u \notin ran[i] /\ u # t
        <5>1. Holds(u, i)
          BY <2>3, <2>4, <3>3, <4>2
        <5>2. task[u].at \notin Ended /\ task[t].at \notin Ended
          BY <3>1, <5>1 DEF Holds, Ended
        <5>3. u[2] = v[2]
          BY <3>1, <3>3, <5>2 DEF ConfirmInv, HandlersInv
        <5> QED
          BY <2>1, <3>3, <5>3, TaskIsPair
      <4> QED
        BY <3>1, <4>1, <4>2
    <3> QED
      BY <2>2, <3>2, <3>3
  <2> QED
    BY <2>7, <2>8
<1> QED
  BY <1>2, <1>3, <1>4, <1>5 DEF ConfirmInv

(* Only the last handler of a message is at work, so that when a message   *)
(* is handled again all its earlier handlers have ended.                   *)
LEMMA DeliverInv ==
  ASSUME ConfirmInv, NEW m \in Msgs, Deliver(m)
  PROVE  ConfirmInv'
<1> DEFINE t == <<m, deliveries[m] + 1>>
<1>1. /\ m \notin seen /\ Handle(m) /\ seen' = seen \cup ({m} \ WebMsgs)
      /\ UNCHANGED <<status, owner, before, lapsed, ran, consents, unwritten, vouched>>
  BY DEF Deliver, row, history
<1>2. ConfirmTypeOK /\ HandlersInv /\ ActionInv /\ RanInv
  BY DEF ConfirmInv
<1>3. /\ t \in Tasks
      /\ task' \in [Tasks -> Task] /\ text' \in [Msgs -> Texts]
      /\ deliveries' \in [Msgs -> Nat]
      /\ \A n \in Msgs : deliveries'[n] <= MaxDeliveries[n]
      /\ deliveries'[m] = deliveries[m] + 1
      /\ \A n \in Msgs : n # m => deliveries'[n] = deliveries[n]
      /\ task'[t].at \in {"think", "latest", "find", "unanswered"}
      /\ task'[t].at = "find" => task'[t].action \in Actions
      /\ task'[t].at \in {"latest", "find"} => text'[m].kind # "chat"
      /\ \A n \in Msgs : n # m => text'[n] = text[n]
      /\ \A u \in Tasks : u # t => task'[u] = task[u]
  BY <1>1, <1>2, HandleTyped
<1>4. ConfirmTypeOK'
  BY <1>1, <1>2, <1>3 DEF ConfirmTypeOK
<1>5. deliveries[m] \in Nat /\ deliveries[m] < MaxDeliveries[m]
  BY <1>1, <1>2 DEF ConfirmTypeOK, Handle
<1>6. ASSUME NEW u \in Tasks, u[1] = m
      PROVE  task[u].at \in Ended
  <2>1. SUFFICES ASSUME task[u].at \notin Ended PROVE FALSE
    OBVIOUS
  <2>2. u[2] = deliveries[m] /\ m \in WebMsgs
    BY <1>1, <1>2, <1>6, <2>1 DEF HandlersInv
  <2>3. MaxDeliveries[m] = 1 /\ u[2] \in 1..MaxDeliveries[m]
    BY <1>6, <2>2, TaskIsPair, ConfirmAssumption
  <2> QED
    BY <1>5, <2>2, <2>3
<1>7. HandlersInv'
  <2> SUFFICES ASSUME NEW u \in Tasks
               PROVE  /\ task'[u].at \notin Ended =>
                           u[2] = deliveries'[u[1]] /\ u[1] \in seen' \cup WebMsgs
                      /\ u[2] > deliveries'[u[1]] => task'[u].at = "none"
    BY DEF HandlersInv
  <2>0. u = <<u[1], u[2]>> /\ u[1] \in Msgs /\ u[2] \in 1..MaxDeliveries[u[1]]
    BY TaskIsPair
  <2>1. CASE u = t
    <3>1. u[1] = m /\ u[2] = deliveries[m] + 1
      BY <2>1
    <3> QED
      BY <1>1, <1>3, <1>5, <3>1
  <2>2. CASE u # t /\ u[1] = m
    <3>1. task'[u] = task[u] /\ task[u].at \in Ended
      BY <1>3, <1>6, <2>2
    <3>2. u[2] \in Nat /\ MaxDeliveries[m] \in Nat
      BY <2>0, <2>2, ConfirmAssumption
    <3>3. u[2] > deliveries[m] + 1 => u[2] > deliveries[m]
      BY <1>5, <3>2
    <3>4. u[2] > deliveries[m] => task[u].at = "none"
      BY <1>2, <2>2 DEF HandlersInv
    <3> QED
      BY <1>3, <2>2, <3>1, <3>3, <3>4
  <2>3. CASE u[1] # m
    <3>1. task'[u] = task[u] /\ deliveries'[u[1]] = deliveries[u[1]]
      BY <1>3, <2>0, <2>3
    <3> QED
      BY <1>1, <1>2, <3>1 DEF HandlersInv
  <2> QED
    BY <2>1, <2>2, <2>3
<1>8. ActionInv'
  <2> SUFFICES ASSUME NEW u \in Tasks
               PROVE  /\ task'[u].at \in Confirming \ {"latest"} => task'[u].action \in Actions
                      /\ task'[u].at \in {"confirm", "run"} => u[1] \in consents[task'[u].action]
                      /\ task'[u].at = "run" /\ task'[u].action \notin unwritten =>
                           Settled(task'[u].action)
                      /\ task'[u].at \in {"latest", "find"} => text'[u[1]].kind # "chat"
    BY <1>1 DEF ActionInv, Settled
  <2>1. CASE u = t
    BY <1>3, <2>1 DEF Confirming
  <2>2. CASE u # t /\ u[1] = m
    <3>1. task'[u] = task[u] /\ task[u].at \in Ended
      BY <1>3, <1>6, <2>2
    <3> QED
      BY <3>1 DEF Ended, Confirming
  <2>3. CASE u[1] # m
    <3>1. task'[u] = task[u] /\ u[1] \in Msgs
      BY <1>3, <2>3, TaskIsPair
    <3> QED
      BY <1>2, <1>3, <2>3, <3>1 DEF ActionInv
  <2> QED
    BY <2>1, <2>2, <2>3
<1>9. RanInv'
  <2>1. \A u \in Tasks, i \in Actions : Holds(u, i)' => Holds(u, i)
    <3> SUFFICES ASSUME NEW u \in Tasks, NEW i \in Actions, Holds(u, i)'
                 PROVE  Holds(u, i)
      OBVIOUS
    <3>1. u # t
      BY <1>3 DEF Holds
    <3> QED
      BY <1>3, <3>1 DEF Holds
  <2> QED
    BY <1>1, <1>2, <2>1 DEF RanInv, Settled
<1> QED
  BY <1>4, <1>7, <1>8, <1>9 DEF ConfirmInv

LEMMA LapseInv ==
  ASSUME ConfirmInv, NEW i \in Actions, Lapse(i)
  PROVE  ConfirmInv'
BY DEF Lapse, ConfirmInv, ConfirmTypeOK, HandlersInv, ActionInv, RanInv, Settled, Holds,
       users, history

LEMMA ProcessRestartInv ==
  ASSUME ConfirmInv, ProcessRestart
  PROVE  ConfirmInv'
<1>1. /\ seen' = {}
      /\ task' = [t \in Tasks |-> IF task[t].at \in Ended THEN task[t] ELSE At("unanswered")]
      /\ UNCHANGED <<status, owner, before, lapsed, deliveries, text, history>>
  BY DEF ProcessRestart, row, users
<1>2. ConfirmTypeOK /\ HandlersInv /\ ActionInv /\ RanInv
  BY DEF ConfirmInv
<1>3. At("unanswered") \in Task /\ At("unanswered").at = "unanswered"
  BY AtTyped DEF Ended
<1>4. /\ task' \in [Tasks -> Task]
      /\ \A t \in Tasks : task'[t].at \in Ended
      /\ \A t \in Tasks : task[t].at = "none" => task'[t].at = "none"
  BY <1>1, <1>2, <1>3 DEF ConfirmTypeOK, Ended
<1>5. ConfirmTypeOK'
  BY <1>1, <1>2, <1>4 DEF ConfirmTypeOK, history
<1>6. HandlersInv'
  BY <1>1, <1>2, <1>4 DEF HandlersInv
<1>7. ActionInv'
  BY <1>4 DEF ActionInv, Ended, Confirming
<1>8. \A t \in Tasks, i \in Actions : ~Holds(t, i)'
  BY <1>4 DEF Holds, Ended
<1>9. RanInv'
  BY <1>1, <1>2, <1>8 DEF RanInv, Settled, history
<1> QED
  BY <1>5, <1>6, <1>7, <1>9 DEF ConfirmInv

LEMMA StepConfirmInv == ConfirmInv /\ [ConfirmNext]_confirmVars => ConfirmInv'
<1> SUFFICES ASSUME ConfirmInv, [ConfirmNext]_confirmVars
             PROVE  ConfirmInv'
  OBVIOUS
<1>1. CASE \E m \in Msgs : Deliver(m)
  BY <1>1, DeliverInv
<1>2. CASE \E t \in Tasks : TaskStep(t)
  BY <1>2, TaskStepInv
<1>3. CASE \E i \in Actions : Lapse(i)
  BY <1>3, LapseInv
<1>4. CASE ProcessRestart
  BY <1>4, ProcessRestartInv
<1>5. CASE UNCHANGED confirmVars
  BY <1>5 DEF confirmVars, row, users, history, ConfirmInv, ConfirmTypeOK, HandlersInv,
              ActionInv, RanInv, Settled, Holds
<1> QED
  BY <1>1, <1>2, <1>3, <1>4, <1>5 DEF ConfirmNext

LEMMA ConfirmInvariance == ConfirmSpec => []ConfirmInv
BY InitConfirmInv, StepConfirmInv, PTL DEF ConfirmSpec

(* Rows, tasks and messages always have their types, for any number of     *)
(* messages, actions, deliveries and rounds (memory/postgres.go:110,       *)
(* agent/executor.go).                                                     *)
THEOREM ConfirmTypeCorrect == ConfirmSpec => []ConfirmTypeOK
<1>1. ConfirmInv => ConfirmTypeOK
  BY DEF ConfirmInv
<1> QED
  BY <1>1, ConfirmInvariance, PTL

(* However often a message is delivered and whenever the process restarts, *)
(* a message confirms an action at most once, if statuses can be stored    *)
(* (wecom/callback.go:151, agent/executor.go:523).                         *)
THEOREM ConfirmedOnce == ConfirmSpec => []OneRunPerConfirmation
<1>1. ConfirmInv => OneRunPerConfirmation
  BY DEF ConfirmInv, ConfirmTypeOK, RanInv, OneRunPerConfirmation
<1> QED
  BY <1>1, ConfirmInvariance, PTL

-----------------------------------------------------------------------------
(* What the contract needs to know of handlers besides: which messages can *)
(* reach the tool, and that a handler does so once.                        *)
Over == {"settle", "done", "unanswered"} \cup Executing

OnceInv ==
  /\ \A t \in Tasks : task[t].at \in Confirming => t[1] \notin WebMsgs
  /\ \A t \in Tasks : task[t].at \in Confirming \ {"latest", "find"} =>
       status[task[t].action] # "none"
  /\ \A i \in Actions : \A t \in ran[i] : task[t].at \in Over

(* A step of a task on its way through these places.                       *)
Onward(t) ==
  /\ task'[t].at \in Confirming => task[t].at \in Confirming
  /\ task'[t].at \in Confirming \ {"latest", "find"} => status'[task'[t].action] # "none"
  /\ task[t].at \in Over => task'[t].at \in Over
  /\ \A i \in Actions : status[i] # "none" => status'[i] # "none"
  /\ \A i \in Actions :
       ran'[i] = ran[i] \/ (ran'[i] = ran[i] \cup {t} /\ task'[t].at \in Over)

Promised == Contract!Next \/ UNCHANGED Contract!vars

(* The contract says nothing of a step that leaves rows and history alone, *)
(* or lets the LLM vouch for the user.                                     *)
LEMMA QuietOnward ==
  ASSUME NEW t \in Tasks, UNCHANGED <<status, row, ran, consents, unwritten>>,
         \/ task[t].at \in {"latest", "find"}
            /\ task'[t].at \in {"find", "done", "unanswered"} \cup Executing
         \/ task[t].at \in Executing
            /\ task'[t].at \in {"done", "unanswered"} \cup Executing
  PROVE  Onward(t) /\ (UNCHANGED vouched \/ vouched' = TRUE => Promised)
<1>1. task[t].at \in Over => task'[t].at \in Over
  BY DEF Over, Confirming, Executing
<1>2. Onward(t)
  BY <1>1 DEF Onward, Over, Confirming, Executing
<1>3. UNCHANGED <<Stage, owner, consents, Acted, unwritten>>
  BY DEF Stage, Acted, row
<1>4. CASE UNCHANGED vouched
  BY <1>2, <1>3, <1>4 DEF Promised, Contract!vars
<1>5. CASE vouched' = TRUE
  <2>1. Contract!ActUnasked
    BY <1>3, <1>5 DEF Contract!ActUnasked
  <2> QED
    BY <1>2, <2>1 DEF Promised, Contract!Next
<1> QED
  BY <1>2, <1>4, <1>5

(* A stored status settles the action; one that is not, the contract loses *)
(* track of.                                                               *)
LEMMA WriteStatusPromised ==
  ASSUME ConfirmTypeOK, NEW i \in Actions, status[i] # "none",
         NEW s \in Statuses \ {"none", "pending"}, WriteStatus(i, s),
         UNCHANGED <<row, ran, consents, vouched>>
  PROVE  Promised /\ \A j \in Actions : status[j] # "none" => status'[j] # "none"
<1>1. UNCHANGED <<owner, consents, Acted, vouched>>
  BY DEF row, Acted
<1>2. Stage[i] # "unasked"
  BY DEF Stage
<1>3. CASE status' = [status EXCEPT ![i] = s] /\ UNCHANGED unwritten
  <2>1. Stage' = [Stage EXCEPT ![i] = "settled"]
    BY <1>3 DEF Stage, ConfirmTypeOK
  <2>2. Contract!Settle(i)
    BY <1>1, <1>2, <1>3, <2>1 DEF Contract!Settle
  <2> QED
    BY <1>3, <2>2 DEF Promised, Contract!Next, ConfirmTypeOK
<1>4. CASE unwritten' = unwritten \cup {i} /\ UNCHANGED status
  <2>1. UNCHANGED Stage
    BY <1>4 DEF Stage
  <2>2. Contract!LoseTrack(i)
    BY <1>1, <1>2, <1>4, <2>1 DEF Contract!LoseTrack
  <2> QED
    BY <1>4, <2>2 DEF Promised, Contract!Next
<1> QED
  BY <1>3, <1>4 DEF WriteStatus

LEMMA FindPromised ==
  ASSUME ConfirmTypeOK, ActionInv, OnceInv, NEW t \in Tasks, Find(t)
  PROVE  Onward(t) /\ Promised
<1> DEFINE i == task[t].action
           kind == text[t[1]].kind
<1>1. /\ task[t].at = "find" /\ i \in Actions
      /\ UNCHANGED <<status, row, seen, users, ran, unwritten, vouched>>
  BY DEF Find, ActionInv, Confirming
<1>2. kind \in {"confirm", "cancel"} /\ t[1] \in Msgs \ WebMsgs
  BY <1>1, TaskIsPair DEF ActionInv, OnceInv, ConfirmTypeOK, Texts, Confirming
<1>3. CASE Reply(t) /\ UNCHANGED consents
  <2>1. task'[t].at \in {"done", "unanswered"}
    BY <1>3, ReplyTyped DEF ConfirmTypeOK
  <2> QED
    BY <1>1, <1>3, <2>1, QuietOnward DEF Confirming, history
<1>4. CASE /\ status[i] = "pending" /\ owner[i] = SessionOf(t)
           /\ Goto(t, IF i \in lapsed THEN "expire" ELSE kind)
           /\ consents' = IF i \notin lapsed /\ kind = "confirm"
                            THEN [consents EXCEPT ![i] = @ \cup {t[1]}] ELSE consents
  <2> DEFINE l == IF i \in lapsed THEN "expire" ELSE kind
  <2>1. l \in {"expire", "confirm", "cancel"} /\ l \in Confirming \cup Executing \cup Ended
    BY <1>2 DEF Confirming
  <2>2. task'[t].at = l /\ task'[t].action = i
    BY <1>4, <2>1, GotoTyped DEF ConfirmTypeOK
  <2>3. task[t].at \notin Over
    BY <1>1 DEF Over, Executing
  <2>4. Onward(t)
    BY <1>1, <1>4, <2>2, <2>3 DEF Onward, Confirming
  <2>5. UNCHANGED <<Stage, owner, Acted, unwritten, vouched>>
    BY <1>1 DEF Stage, Acted, row
  <2>6. Stage[i] = "open" /\ owner[i] = Session[t[1]]
    BY <1>1, <1>4 DEF Stage, SessionOf
  <2>7. CASE consents' = [consents EXCEPT ![i] = @ \cup {t[1]}]
    <3>1. Contract!Agree(i, t[1])
      BY <2>5, <2>6, <2>7 DEF Contract!Agree
    <3> QED
      BY <1>1, <1>2, <2>4, <3>1 DEF Promised, Contract!Next
  <2>8. CASE UNCHANGED consents
    BY <2>4, <2>5, <2>8 DEF Promised, Contract!vars
  <2> QED
    BY <1>4, <2>7, <2>8
<1> QED
  BY <1>3, <1>4 DEF Find

(* The steps that store a status.                                          *)
LEMMA WritersPromised ==
  ASSUME ConfirmTypeOK, ActionInv, OnceInv, NEW t \in Tasks,
         Close(t) \/ Confirm(t) \/ NoTool(t) \/ Settle(t)
  PROVE  Onward(t) /\ Promised
<1> DEFINE i == task[t].action
<1>1. /\ task[t].at \in {"expire", "cancel", "confirm", "run", "settle"}
      /\ UNCHANGED <<row, ran, consents, vouched>>
  BY DEF Close, Confirm, NoTool, Settle
<1>2. i \in Actions /\ status[i] # "none"
  BY <1>1 DEF ActionInv, OnceInv, Confirming
<1>3. \E s \in Statuses \ {"none", "pending"} : WriteStatus(i, s)
  BY DEF Close, Confirm, NoTool, Settle, Statuses
<1>4. Promised /\ \A j \in Actions : status[j] # "none" => status'[j] # "none"
  BY <1>1, <1>2, <1>3, WriteStatusPromised
<1>5. \/ task'[t].at \in {"done", "unanswered", "think"}
      \/ task[t].at = "confirm" /\ task'[t].at = "run" /\ task'[t].action = i
  <2>1. CASE Reply(t)
    BY <2>1, ReplyTyped DEF ConfirmTypeOK
  <2>2. CASE Confirm(t)
    BY <2>2, GotoTyped DEF ConfirmTypeOK, Confirm, Confirming
  <2>3. CASE Goto(t, "think")
    BY <2>3, GotoTyped DEF ConfirmTypeOK, Executing
  <2> QED
    BY <2>1, <2>2, <2>3 DEF Close, NoTool, Settle
<1>6. task[t].at \in Over => task'[t].at \in Over
  BY <1>1, <1>5 DEF Over, Executing
<1>7. Onward(t)
  BY <1>1, <1>2, <1>4, <1>5, <1>6 DEF Onward, Confirming
<1> QED
  BY <1>4, <1>7

(* The handler's message has agreed; if all statuses are stored the action *)
(* is settled, and it has not been done for this message, as no other      *)
(* handler of it has run the tool and this one comes here once.            *)
LEMMA RunToolPromised ==
  ASSUME ConfirmInv, OnceInv, NEW t \in Tasks, RunTool(t)
  PROVE  Onward(t) /\ Promised
<1> DEFINE i == task[t].action
<1>0. ConfirmTypeOK /\ ActionInv /\ RanInv
  BY DEF ConfirmInv
<1>1. /\ task[t].at = "run" /\ i \in Actions /\ t[1] \in consents[i]
      /\ ran' = [ran EXCEPT ![i] = @ \cup {t}]
      /\ UNCHANGED <<status, row, seen, users, consents, unwritten, vouched>>
  BY <1>0 DEF RunTool, ActionInv, Confirming
<1>2. task'[t].at = "settle" /\ task'[t].action = i
  BY <1>0, GotoTyped DEF RunTool, ConfirmTypeOK, Confirming
<1>3. status[i] # "none" /\ t[1] \in Msgs \ WebMsgs
  BY <1>1, TaskIsPair DEF OnceInv, Confirming
<1>4. \A j \in Actions : ran'[j] = IF j = i THEN ran[j] \cup {t} ELSE ran[j]
  BY <1>0, <1>1 DEF ConfirmTypeOK
<1>5. Onward(t)
  BY <1>1, <1>2, <1>3, <1>4 DEF Onward, Over, Confirming
<1>6. UNCHANGED <<Stage, owner, consents, unwritten, vouched>>
  BY <1>1 DEF Stage, row
<1>7. Acted' = [Acted EXCEPT ![i] = @ \cup {t[1]}]
  <2>1. \A j \in Actions :
          {u[1] : u \in ran'[j]} = IF j = i THEN {u[1] : u \in ran[j]} \cup {t[1]}
                                            ELSE {u[1] : u \in ran[j]}
    BY <1>4
  <2> QED
    BY <1>1, <2>1 DEF Acted
<1>8. i \notin unwritten => Stage[i] = "settled" /\ t[1] \notin Acted[i]
  <2> SUFFICES ASSUME i \notin unwritten
               PROVE  Stage[i] = "settled" /\ t[1] \notin Acted[i]
    OBVIOUS
  <2>1. Settled(i)
    BY <1>0, <1>1 DEF ActionInv
  <2>2. t \notin ran[i]
    BY <1>1 DEF OnceInv, Over, Executing
  <2>3. \A u \in ran[i] : u[1] # t[1]
    <3>1. Holds(t, i)
      BY <1>1 DEF Holds
    <3> QED
      BY <1>0, <1>1, <2>2, <3>1 DEF RanInv
  <2> QED
    BY <1>1, <2>1, <2>3 DEF Stage, Acted, Settled
<1>9. Contract!Act(i, t[1])
  BY <1>1, <1>6, <1>7, <1>8 DEF Contract!Act
<1> QED
  BY <1>1, <1>3, <1>5, <1>9 DEF Promised, Contract!Next

LEMMA CreatePromised ==
  ASSUME ConfirmTypeOK, NEW t \in Tasks, Create(t)
  PROVE  Onward(t) /\ Promised
<1>1. task[t].at = "create" /\ UNCHANGED <<lapsed, seen, users, history>>
  BY DEF Create
<1>2. CASE Goto(t, "tools") /\ UNCHANGED <<status, owner, before>>
  <2>1. task'[t].at = "tools"
    BY <1>2, GotoTyped DEF ConfirmTypeOK, Executing
  <2> QED
    BY <1>1, <1>2, <2>1, QuietOnward DEF Executing, row, history
<1>3. ASSUME NEW i \in Actions, status[i] = "none",
             status' = [status EXCEPT ![i] = "pending"],
             owner' = [owner EXCEPT ![i] = SessionOf(t)],
             Reply(t)
      PROVE  Onward(t) /\ Promised
  <2>1. task'[t].at \in {"done", "unanswered"}
    BY <1>3, ReplyTyped DEF ConfirmTypeOK
  <2>2. \A j \in Actions : status[j] # "none" => status'[j] # "none"
    BY <1>3 DEF ConfirmTypeOK
  <2>3. Onward(t)
    BY <1>1, <2>1, <2>2 DEF Onward, Over, Confirming, history
  <2>4. Stage[i] = "unasked" /\ Stage' = [Stage EXCEPT ![i] = "open"]
    BY <1>3 DEF Stage, ConfirmTypeOK
  <2>5. UNCHANGED <<consents, Acted, unwritten, vouched>>
    BY <1>1 DEF Acted, history
  <2>6. SessionOf(t) \in Sessions
    BY TaskIsPair, ConfirmAssumption DEF SessionOf
  <2>7. Contract!Ask(i, SessionOf(t))
    BY <1>3, <2>4, <2>5 DEF Contract!Ask
  <2> QED
    BY <2>3, <2>6, <2>7 DEF Promised, Contract!Next
<1> QED
  BY <1>2, <1>3 DEF Create

LEMMA QuietPromised ==
  ASSUME ConfirmTypeOK, NEW t \in Tasks,
         \/ LookupFails(t) \/ FindLatest(t) \/ FollowUpTimeout(t) \/ Think(t)
         \/ StartTool(t) \/ ToolPanics(t) \/ EndTool(t) \/ LookForOpen(t) \/ EndRound(t)
  PROVE  Onward(t) /\ Promised
<1> USE DEF ConfirmTypeOK
<1>1. CASE LookupFails(t)
  <2>1. task'[t].at = "think"
    BY <1>1, AtTyped, BecomeTyped DEF LookupFails, Executing
  <2> QED
    BY <1>1, <2>1, QuietOnward DEF history, LookupFails, Confirming, Executing
<1>2. CASE FindLatest(t)
  <2>1. task'[t].at \in {"find", "done", "unanswered"}
    <3>1. ASSUME NEW i \in Actions, Become(t, [At("find") EXCEPT !.action = i])
          PROVE  task'[t].at = "find"
      <4> DEFINE r == [At("find") EXCEPT !.action = i]
      <4>1. r \in Task /\ r.at = "find" /\ Become(t, r)
        BY <3>1, FindTyped
      <4> HIDE DEF r
      <4> QED
        BY <4>1, BecomeTyped
    <3> QED
      BY <1>2, <3>1, ReplyTyped DEF FindLatest
  <2> QED
    BY <1>2, <2>1, QuietOnward DEF history, FindLatest, Confirming
<1>3. CASE FollowUpTimeout(t)
  <2>1. task'[t].at = task[t].at
    BY <1>3 DEF FollowUpTimeout
  <2> QED
    BY <1>3, <2>1, QuietOnward DEF history, FollowUpTimeout
<1>4. CASE Think(t)
  <2>1. task'[t].at \in {"done", "unanswered", "think", "tools"}
    <3>1. CASE Reply(t)
      BY <3>1, ReplyTyped
    <3>2. CASE Become(t, At("think"))
      BY <3>2, AtTyped, BecomeTyped DEF Executing
    <3>3. CASE task' = [task EXCEPT ![t].at = "tools", ![t].round = @ + 1]
      BY <3>3 DEF Task
    <3> QED
      BY <1>4, <3>1, <3>2, <3>3 DEF Think
  <2> QED
    BY <1>4, <2>1, QuietOnward DEF history, Think, Executing
<1>5. CASE EndTool(t)
  <2>1. task'[t].at \in {"done", "unanswered", "tools"}
    <3>1. CASE Reply(t)
      BY <3>1, ReplyTyped
    <3>2. CASE \/ task' = [task EXCEPT ![t].at = "tools", ![t].fails = 0]
               \/ task' = [task EXCEPT ![t].at = "tools", ![t].fails = @ + 1]
      BY <3>2 DEF Task
    <3> QED
      BY <1>5, <3>1, <3>2 DEF EndTool
  <2> QED
    BY <1>5, <2>1, QuietOnward DEF history, EndTool, Executing
<1>6. CASE StartTool(t)
  <2>1. task'[t].at = "tool"
    BY <1>6, GotoTyped DEF StartTool, Executing
  <2>2. PICK c \in Calls : vouched' = (vouched \/ NeedsConsent(c))
    BY <1>6 DEF StartTool
  <2>3. UNCHANGED vouched \/ vouched' = TRUE
    BY <2>2, ZenonT(30)
  <2> QED
    BY <1>6, <2>1, <2>3, QuietOnward DEF StartTool, Executing
<1>8. CASE ToolPanics(t)
  <2>1. task'[t].at = "unanswered"
    BY <1>8, AtTyped, BecomeTyped DEF ToolPanics, Ended
  <2> QED
    BY <1>8, <2>1, QuietOnward DEF history, ToolPanics, Executing
<1>9. CASE EndRound(t)
  <2>1. task'[t].at = "think"
    BY <1>9, GotoTyped DEF EndRound, Executing
  <2> QED
    BY <1>9, <2>1, QuietOnward DEF history, EndRound, Executing
<1>7. CASE LookForOpen(t)
  <2>1. task'[t].at \in {"done", "unanswered", "create"}
    BY <1>7, GotoTyped, ReplyTyped DEF LookForOpen, Executing
  <2> QED
    BY <1>7, <2>1, QuietOnward DEF history, LookForOpen, Executing
<1> QED
  BY <1>1, <1>2, <1>3, <1>4, <1>5, <1>6, <1>7, <1>8, <1>9

LEMMA TaskStepPromised ==
  ASSUME ConfirmInv, OnceInv, NEW t \in Tasks, TaskStep(t)
  PROVE  Onward(t) /\ Promised
BY QuietPromised, FindPromised, WritersPromised, RunToolPromised, CreatePromised
DEF TaskStep, ConfirmInv

-----------------------------------------------------------------------------
LEMMA TaskStepOnce ==
  ASSUME ConfirmInv, OnceInv, NEW t \in Tasks, TaskStep(t)
  PROVE  OnceInv'
<1>1. Onward(t) /\ Frame(t)
  BY TaskStepPromised, TaskStepEffect DEF ConfirmInv
<1>2. \A u \in Tasks : u # t => task'[u] = task[u]
  BY <1>1 DEF Frame
<1>3. \A u \in Tasks : task'[u].at \in Confirming => u[1] \notin WebMsgs
  BY <1>1, <1>2 DEF Onward, OnceInv
<1>4. \A u \in Tasks : task'[u].at \in Confirming \ {"latest", "find"} =>
                         status'[task'[u].action] # "none"
  <2> SUFFICES ASSUME NEW u \in Tasks, u # t, task'[u].at \in Confirming \ {"latest", "find"}
               PROVE  status'[task'[u].action] # "none"
    BY <1>1 DEF Onward
  <2>1. task[u].action \in Actions
    BY <1>2 DEF ConfirmInv, ActionInv
  <2> QED
    BY <1>1, <1>2, <2>1 DEF Onward, OnceInv
<1>5. \A i \in Actions : \A u \in ran'[i] : task'[u].at \in Over
  <2> SUFFICES ASSUME NEW i \in Actions, NEW u \in ran'[i] PROVE task'[u].at \in Over
    OBVIOUS
  <2>1. u \in Tasks
    BY <1>1 DEF Frame
  <2> QED
    BY <1>1, <1>2, <2>1 DEF Onward, OnceInv
<1> QED
  BY <1>3, <1>4, <1>5 DEF OnceInv

LEMMA DeliverOnce ==
  ASSUME ConfirmInv, OnceInv, NEW m \in Msgs, Deliver(m)
  PROVE  OnceInv' /\ Promised
<1> DEFINE t == <<m, deliveries[m] + 1>>
<1>1. /\ Handle(m)
      /\ UNCHANGED <<status, owner, before, lapsed, ran, consents, unwritten, vouched>>
  BY DEF Deliver, row, history
<1>2. ConfirmTypeOK /\ HandlersInv
  BY DEF ConfirmInv
<1>3. /\ t \in Tasks
      /\ task'[t].at \in {"think", "latest", "find", "unanswered"}
      /\ \A u \in Tasks : u # t => task'[u] = task[u]
  BY <1>1, <1>2, HandleTyped
<1>4. m \in WebMsgs => task'[t].at = "think"
  BY <1>1, <1>2, <1>3, AtTyped, BecomeTyped
  DEF Handle, Begin, HandleChat, ConfirmTypeOK, Executing
<1>5. task[t].at = "none"
  <2>1. t[2] > deliveries[t[1]]
    BY <1>2 DEF ConfirmTypeOK
  <2> QED
    BY <1>2, <1>3, <2>1 DEF HandlersInv
<1>6. \A i \in Actions : t \notin ran[i]
  BY <1>5 DEF OnceInv, Over, Executing
<1>7. OnceInv'
  <2>1. \A u \in Tasks : task'[u].at \in Confirming => u[1] \notin WebMsgs
    BY <1>3, <1>4 DEF OnceInv, Confirming
  <2>2. \A u \in Tasks : task'[u].at \in Confirming \ {"latest", "find"} =>
                           status[task'[u].action] # "none"
    BY <1>3 DEF OnceInv, Confirming
  <2>3. \A i \in Actions : \A u \in ran[i] : task'[u].at \in Over
    BY <1>2, <1>3, <1>6 DEF OnceInv, ConfirmTypeOK
  <2> QED
    BY <1>1, <2>1, <2>2, <2>3 DEF OnceInv
<1>8. UNCHANGED <<Stage, owner, consents, Acted, unwritten, vouched>>
  BY <1>1 DEF Stage, Acted
<1> QED
  BY <1>7, <1>8 DEF Promised, Contract!vars

LEMMA OnceStep ==
  ConfirmInv /\ OnceInv /\ [ConfirmNext]_confirmVars => OnceInv' /\ Promised
<1> SUFFICES ASSUME ConfirmInv, OnceInv, [ConfirmNext]_confirmVars
             PROVE  OnceInv' /\ Promised
  OBVIOUS
<1>1. CASE \E m \in Msgs : Deliver(m)
  BY <1>1, DeliverOnce
<1>2. CASE \E t \in Tasks : TaskStep(t)
  BY <1>2, TaskStepOnce, TaskStepPromised
<1>a. ASSUME UNCHANGED <<status, owner, ran, consents, unwritten, vouched>>
      PROVE  Promised
  BY <1>a DEF Promised, Contract!vars, Stage, Acted
<1>3. CASE \E i \in Actions : Lapse(i)
  BY <1>3, <1>a DEF Lapse, OnceInv, users, history
<1>4. CASE ProcessRestart
  <2>1. /\ task' = [t \in Tasks |-> IF task[t].at \in Ended THEN task[t] ELSE At("unanswered")]
        /\ UNCHANGED <<status, owner, ran, consents, unwritten, vouched>>
    BY <1>4 DEF ProcessRestart, row, history
  <2>2. \A t \in Tasks : task'[t].at = IF task[t].at \in Ended THEN task[t].at ELSE "unanswered"
    BY <2>1, AtTyped DEF Ended
  <2>3. \A t \in Tasks : task'[t].at \notin Confirming
    BY <2>2 DEF Ended, Confirming
  <2>4. \A i \in Actions : \A t \in ran[i] : task'[t].at \in Over
    <3>1. \A i \in Actions : ran[i] \subseteq Tasks
      BY DEF ConfirmInv, ConfirmTypeOK
    <3> QED
      BY <2>2, <3>1 DEF OnceInv, Over
  <2> QED
    BY <1>a, <2>1, <2>3, <2>4 DEF OnceInv
<1>5. CASE UNCHANGED confirmVars
  BY <1>5, <1>a DEF confirmVars, row, history, OnceInv
<1> QED
  BY <1>1, <1>2, <1>3, <1>4, <1>5 DEF ConfirmNext

(* The handling of confirmations implements Consent: through redeliveries, *)
(* restarts and statements that fail, an action is done only for a message *)
(* that agreed to it in its own session, once for each, when it is settled *)
(* (agent/executor.go:471-555).                                            *)
THEOREM ConsentIsKept == ConfirmSpec => ConsentHolds
<1>1. ConfirmInit => Contract!Init
  BY DEF ConfirmInit, Contract!Init, Stage, Acted
<1>2. ConfirmInit => OnceInv
  <2> SUFFICES ASSUME ConfirmInit PROVE OnceInv
    OBVIOUS
  <2>1. \A t \in Tasks : task[t].at = "none"
    BY AtTyped DEF ConfirmInit, Ended
  <2> QED
    BY <2>1 DEF OnceInv, Confirming, ConfirmInit
<1>3. ConfirmInv /\ OnceInv /\ [ConfirmNext]_confirmVars
        => OnceInv' /\ [Contract!Next]_(Contract!vars)
  BY OnceStep DEF Promised
<1> QED
  BY <1>1, <1>2, <1>3, ConfirmInvariance, PTL DEF ConfirmSpec, ConsentHolds, Contract!Spec
=============================================================================
