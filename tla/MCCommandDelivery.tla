--------------------------- MODULE MCCommandDelivery ---------------------------
(***************************************************************************)
(* The deployment the configuration files describe: two masters and an     *)
(* agent whose WebSocket goes to the first; a remote_shell and an HTTP     *)
(* request for it, both at that master and in the same millisecond.        *)
(***************************************************************************)
EXTENDS CommandDelivery, TLC

CONSTANTS m1, m2, a1, r1, r2

AgentOnM1 == [a \in Agents |-> m1]
ForA1 == [r \in Requests |-> a1]

(* The first is forwarded to the other master while the agent is not       *)
(* connected here; the second is the web console's or the agent API's.     *)
ShellAndHTTP == (r1 :> "remote_shell" @@ r2 :> "http")
AtM1 == [r \in Requests |-> m1]

(* Every command sent over a WebSocket gets the same ID: the requests come *)
(* within a millisecond.  Nanoseconds tell them apart.                     *)
AllIds == {<<"ms">>} \cup ({"ns"} \X Tokens)
OwnNs == [t \in Tokens |-> <<"ns", t>>]
OneMs == [t \in Tokens |-> <<"ms">>]
=============================================================================
