------------------------------ MODULE MCMonitor ------------------------------
(***************************************************************************)
(* A container, an endpoint and the disk, and three runs at the same time: *)
(* a slow one can write over what two later ones have written.             *)
(***************************************************************************)
EXTENDS Monitor

ThreeChecks == <<"container", "http", "disk">>
==============================================================================
