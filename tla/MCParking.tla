------------------------------- MODULE MCParking -------------------------------
(* Instance of Parking for TLC.                                            *)
EXTENDS Parking
===============================================================================
