-------------------------------- MODULE RWLock --------------------------------
(***************************************************************************)
(* What sync.c promises the command handlers of the file server: a lock    *)
(* with any number of readers or one writer, where a writer that has       *)
(* announced itself keeps new readers out until every announced writer has *)
(* come and gone ("If you are the first writer, dont allow no new readers",*)
(* sync.c:74).  ReadersWriters implements it.                              *)
(***************************************************************************)
CONSTANT Procs

VARIABLES
    readers,    \* processes inside the reading region
    announced,  \* writers that have closed the door and wait for the region
    writers     \* processes inside the writing region

lockVars == <<readers, announced, writers>>

LockInit ==
    /\ readers = {}
    /\ announced = {}
    /\ writers = {}

Outside(p) == p \notin readers \cup announced \cup writers

ReaderEnter(p) ==
    /\ Outside(p)
    /\ announced = {} /\ writers = {}
    /\ readers' = readers \cup {p}
    /\ UNCHANGED <<announced, writers>>

ReaderLeave(p) ==
    /\ p \in readers
    /\ readers' = readers \ {p}
    /\ UNCHANGED <<announced, writers>>

WriterAnnounce(p) ==
    /\ Outside(p)
    /\ announced' = announced \cup {p}
    /\ UNCHANGED <<readers, writers>>

WriterEnter(p) ==
    /\ p \in announced
    /\ readers = {} /\ writers = {}
    /\ announced' = announced \ {p}
    /\ writers' = {p}
    /\ UNCHANGED readers

WriterLeave(p) ==
    /\ p \in writers
    /\ writers' = writers \ {p}
    /\ UNCHANGED <<readers, announced>>

LockNext ==
    \E p \in Procs :
        \/ ReaderEnter(p) \/ ReaderLeave(p)
        \/ WriterAnnounce(p) \/ WriterEnter(p) \/ WriterLeave(p)

LockSpec == LockInit /\ [][LockNext]_lockVars
===============================================================================
