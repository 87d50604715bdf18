------------------------------ MODULE MCPipeline ------------------------------
(* Arrays of one to four numbers; three of them fit into a FIFO.           *)
EXTENDS Pipeline

MCSizes == 1 .. 4
===============================================================================
