------------------------------ MODULE MCPeerSync ------------------------------
(***************************************************************************)
(* The pair of masters of the deployment, each the other's peer.           *)
(***************************************************************************)
EXTENDS PeerSync

EachOther == [m \in Masters |-> Masters \ {m}]
=============================================================================
