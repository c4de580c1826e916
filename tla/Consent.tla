------------------------------- MODULE Consent -------------------------------
(***************************************************************************)
(* What the confirmation of dangerous actions promises, without handlers,  *)
(* deliveries, restarts and statements: an action is done only because of  *)
(* a message that agreed to it, which came from the session the action was *)
(* asked for in while it was open; each such message does it once; and it  *)
(* is done only when it can be agreed to no more.  The last two fail for   *)
(* an action that the table has lost track of.  The promise is about what  *)
(* is asked for: the LLM can get things done unasked, and `unasked` says   *)
(* whether it has.  ConfirmFlow implements it.                             *)
(***************************************************************************)
CONSTANTS
  Msgs,       \* messages by which one can agree
  Session,    \* the session of a message
  Sessions, NoSession,
  Actions

VARIABLES
  stage,      \* of an action: "unasked", "open" or "settled"
  asker,      \* the session it was asked for in
  agreed,     \* the messages that agreed to it
  acted,      \* those it has been done for
  untracked,  \* actions with a status that could not be stored
  unasked     \* whether anything has been done that should have been asked for

vars == <<stage, asker, agreed, acted, untracked, unasked>>

Init ==
  /\ stage = [i \in Actions |-> "unasked"]
  /\ asker = [i \in Actions |-> NoSession]
  /\ agreed = [i \in Actions |-> {}]
  /\ acted = [i \in Actions |-> {}]
  /\ untracked = {}
  /\ unasked = FALSE

Ask(i, s) ==
  /\ stage[i] = "unasked"
  /\ stage' = [stage EXCEPT ![i] = "open"]
  /\ asker' = [asker EXCEPT ![i] = s]
  /\ UNCHANGED <<agreed, acted, untracked, unasked>>

Agree(i, m) ==
  /\ stage[i] = "open" /\ asker[i] = Session[m]
  /\ agreed' = [agreed EXCEPT ![i] = @ \cup {m}]
  /\ UNCHANGED <<stage, asker, acted, untracked, unasked>>

(* It is confirmed, cancelled, expired or over.                            *)
Settle(i) ==
  /\ stage[i] # "unasked"
  /\ stage' = [stage EXCEPT ![i] = "settled"]
  /\ UNCHANGED <<asker, agreed, acted, untracked, unasked>>

LoseTrack(i) ==
  /\ stage[i] # "unasked"
  /\ untracked' = untracked \cup {i}
  /\ UNCHANGED <<stage, asker, agreed, acted, unasked>>

Act(i, m) ==
  /\ m \in agreed[i]
  /\ \/ stage[i] = "settled" /\ m \notin acted[i]
     \/ i \in untracked
  /\ acted' = [acted EXCEPT ![i] = @ \cup {m}]
  /\ UNCHANGED <<stage, asker, agreed, untracked, unasked>>

(* The LLM says itself that the user has confirmed.                        *)
ActUnasked ==
  /\ unasked' = TRUE
  /\ UNCHANGED <<stage, asker, agreed, acted, untracked>>

Next ==
  \/ \E i \in Actions :
       \/ \E s \in Sessions : Ask(i, s)
       \/ Settle(i) \/ LoseTrack(i)
       \/ \E m \in Msgs : Agree(i, m) \/ Act(i, m)
  \/ ActUnasked

Spec == Init /\ [][Next]_vars
=============================================================================
