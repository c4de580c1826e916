------------------------------- MODULE MCWSHub -------------------------------
(***************************************************************************)
(* One agent that reconnects for ever (two connection objects, so that an  *)
(* old and a new connection overlap) and one SendToAgent caller.           *)
(***************************************************************************)
EXTENDS WSHub

CONSTANTS a1

OneAgent == [c \in Conns |-> a1]
=============================================================================
