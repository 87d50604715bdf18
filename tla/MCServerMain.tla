----------------------------- MODULE MCServerMain -----------------------------
(* Instances of ServerMain for TLC.                                        *)
EXTENDS ServerMain, TLC
ClientSymmetry == Permutations(Clients)
===============================================================================
