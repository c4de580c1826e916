------------------------------ MODULE MCWSServer ------------------------------
(***************************************************************************)
(* One agent that reconnects for ever.  The senders of commands are left   *)
(* out (MCWSHub has them).                                                 *)
(***************************************************************************)
EXTENDS WSServer

CONSTANTS a1

OneAgent == [c \in Conns |-> a1]
=============================================================================
