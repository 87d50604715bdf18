-------------------------------- MODULE MCMWCp --------------------------------
(* Instances of MWCp for TLC.                                              *)
EXTENDS MWCp

(* Two levels: a file, a directory with two files, a FIFO, a last file.    *)
MCTree == <<[kind |-> "file", depth |-> 0],
            [kind |-> "dir", depth |-> 0],
            [kind |-> "file", depth |-> 1],
            [kind |-> "file", depth |-> 1],
            [kind |-> "fifo", depth |-> 0],
            [kind |-> "file", depth |-> 0]>>
===============================================================================
