------------------------------- MODULE MCSession -------------------------------
(* Session for TLC: its parameters are given in the cfg files.             *)
EXTENDS Session
===============================================================================
