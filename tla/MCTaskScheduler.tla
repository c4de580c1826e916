--------------------------- MODULE MCTaskScheduler ---------------------------
(***************************************************************************)
(* One task of the configuration file and one made at the console, two     *)
(* users who change them at the same time.                                 *)
(***************************************************************************)
EXTENDS TaskScheduler

CONSTANTS t1, t2

HourlyT1 == [t \in Configured |-> "hourly"]
=============================================================================
