------------------------------- MODULE MCMemory -------------------------------
(***************************************************************************)
(* Two episodes where there is room for one, of the two outcomes whose     *)
(* scores differ most, new or three months old.  With a threshold of 20    *)
(* one access saves a failed episode.                                      *)
(***************************************************************************)
EXTENDS Memory
===============================================================================
