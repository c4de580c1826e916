------------------------------ MODULE MCAgentNode ------------------------------
(***************************************************************************)
(* An agent with the two masters of the shipped configuration, the second  *)
(* preferred, and one rule with a cooldown and one action.                 *)
(***************************************************************************)
EXTENDS AgentNode, TLC

OneAction == [r \in Rules |-> 1]
SecondPreferred == [m \in 1..2 |-> m]
=============================================================================
