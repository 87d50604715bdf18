--------------------------- MODULE MCReadersWriters ---------------------------
(* ReadersWriters for TLC: its parameters are given in the cfg, and no     *)
(* symmetry is used, because the run checks liveness.                      *)
EXTENDS ReadersWriters
===============================================================================
