--------------------------- MODULE RemoteExecution ---------------------------
(***************************************************************************)
(* What the command channel of the masters promises, without masters,      *)
(* queues or connections: a command that is sent gets a label and is       *)
(* executed once or lost, and the output a request returns is that of an   *)
(* executed command with the label of one of its own.  Labels need not     *)
(* differ, and then the output may be a foreign one.  CommandDelivery      *)
(* implements it.                                                          *)
(***************************************************************************)
CONSTANTS
  Requests, Commands,
  Sender,   \* the request a command is sent for
  Labels, NoLabel, NoCommand

VARIABLES
  stage,    \* "unsent", "queued", "executed" or "lost"
  label,    \* NoLabel before it is sent
  output    \* the command whose output a request returned

vars == <<stage, label, output>>

Init ==
  /\ stage = [c \in Commands |-> "unsent"]
  /\ label = [c \in Commands |-> NoLabel]
  /\ output = [r \in Requests |-> NoCommand]

Move(S, from, to) ==
  /\ \A c \in S : stage[c] = from
  /\ stage' = [c \in Commands |-> IF c \in S THEN to ELSE stage[c]]
  /\ UNCHANGED output

Send(c) ==
  /\ Move({c}, "unsent", "queued")
  /\ \E l \in Labels : label' = [label EXCEPT ![c] = l]

(* The commands an agent receives together.                                *)
Execute(S) == Move(S, "queued", "executed") /\ UNCHANGED label

(* The commands a broken connection, a restart or the cleanup drops.       *)
Lose(S) == Move(S, "queued", "lost") /\ UNCHANGED label

Return(r, c) ==
  /\ stage[c] = "executed"
  /\ \E d \in Commands : Sender[d] = r /\ label[d] = label[c]
  /\ output[r] = NoCommand
  /\ output' = [output EXCEPT ![r] = c]
  /\ UNCHANGED <<stage, label>>

Next ==
  \/ \E c \in Commands : Send(c)
  \/ \E S \in SUBSET Commands : Execute(S) \/ Lose(S)
  \/ \E r \in Requests, c \in Commands : Return(r, c)

Spec == Init /\ [][Next]_vars
=============================================================================
