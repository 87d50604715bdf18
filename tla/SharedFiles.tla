------------------------------ MODULE SharedFiles ------------------------------
(***************************************************************************)
(* The table of files that the children of the file server share           *)
(* (MidtermProject/sync.c and its callers in server.c): one slot with the  *)
(* locks of the region functions for each file name.  A child looks for    *)
(* the name of its file and adds it when it is missing, and nothing keeps  *)
(* two children from doing so at once.                                     *)
(*                                                                         *)
(* Each access to the counter size is a step, as the Makefile builds the   *)
(* code without optimisation.  The region functions are taken as the lock  *)
(* that ReadersWriters shows them to be: many readers or one writer.       *)
(*                                                                         *)
(* Behind the last slot the memory goes on with the counter size, the      *)
(* limit capa and some unused bytes of the mapping, up to slot FarOut; the *)
(* name of a slot at Capacity lies over size and capa.  File names are     *)
(* ASCII and shorter than FNAME_LEN.                                       *)
(***************************************************************************)
EXTENDS Naturals, Sequences

CONSTANTS
    Children,           \* the processes of server_request
    Files,              \* file names of the server's directory
    Initial,            \* the names that init_sdir finds, in their order
    Capacity,           \* NUM_OF_DIR_FILE
    FarOut,             \* slots from here on are not mapped
    Bytes,              \* the number a file name makes of size when it is
                        \* written over it; FarOut stands for larger ones
    NONE

ASSUME TableAssumption ==
    /\ Capacity \in Nat /\ FarOut \in Nat /\ Capacity < FarOut
    /\ Initial \in Seq(Files)
    /\ Len(Initial) <= Capacity
    /\ \A i, j \in 1 .. Len(Initial) : Initial[i] = Initial[j] => i = j
    /\ Bytes \in [Files -> 1 .. FarOut]
    /\ NONE \notin Files

Slots == 0 .. FarOut - 1
Known == {Initial[i] : i \in 1 .. Len(Initial)}

VARIABLES
    names,      \* fname of each slot
    ready,      \* the slots whose semaphores were initialised
    spoilt,     \* those initialised again while a child was using them
    size, capa,
    step,       \* each child: its place in the code
    file, mode, \* each child: its file, and as what it wants to enter
    at,         \* each child: its slot, or the value of size it has read
    raced,      \* history: two children were adding at the same time
    cut         \* history: a name written over size made it no more than the
                \* number of files of the start

table == <<names, ready, spoilt>>
history == <<raced, cut>>
tableVars ==
    <<names, ready, spoilt, size, capa, step, file, mode, at, raced, cut>>

TableInit ==
    /\ names = [i \in Slots |-> IF i < Len(Initial) THEN Initial[i + 1]
                                                    ELSE NONE]
    /\ ready = {i \in Slots : i < Len(Initial)}
    /\ spoilt = {}
    /\ size = Len(Initial)
    /\ capa = Capacity
    /\ step = [c \in Children |-> "idle"]
    /\ file = [c \in Children |-> NONE]
    /\ mode = [c \in Children |-> "read"]
    /\ at = [c \in Children |-> 0]
    /\ raced = FALSE
    /\ cut = FALSE

-----------------------------------------------------------------------------
AddSteps == {"room", "index", "name", "locks", "load", "store", "return"}
Adding(c) == step[c] \in AddSteps
Using(c) == step[c] \in {"enter", "inside"}

Goes(c, from, to) == step[c] = from /\ step' = [step EXCEPT ![c] = to]

(* A child that dies, or whose command ends, has its locals no more.       *)
Forgets(c) ==
    /\ file' = [file EXCEPT ![c] = NONE]
    /\ mode' = [mode EXCEPT ![c] = "read"]
    /\ at' = [at EXCEPT ![c] = 0]

Dies(c, from) == Goes(c, from, "dead") /\ Forgets(c)

(* readF, writeT, upload and download have opened their file.              *)
Request(c, f, m) ==
    /\ Goes(c, "idle", "look")
    /\ file' = [file EXCEPT ![c] = f]
    /\ mode' = [mode EXCEPT ![c] = m]
    /\ UNCHANGED <<table, size, capa, at, history>>

(* Mutant: the loop ends at size - 1.                                      *)
MatchesButLast(f) == {i \in Slots : i + 1 < size /\ names[i] = f}

(* get_sfile: the first slot below size with this name; a size beyond the  *)
(* last slot makes it read on behind the table, where the bytes of size    *)
(* and capa may look like any name.                                        *)
Matches(f) == {i \in Slots : i < size /\ names[i] = f}

FirstMatch(f, i) ==
    /\ i \in Matches(f) \/ (i = Capacity /\ size > Capacity)
    /\ \A j \in Matches(f) : i <= j

Found(c) ==
    /\ Goes(c, "look", "enter")
    /\ \E i \in Slots : FirstMatch(file[c], i) /\ at' = [at EXCEPT ![c] = i]
    /\ UNCHANGED <<table, size, capa, file, mode, history>>

Missed(c) ==
    /\ Goes(c, "look", "room")
    /\ Matches(file[c]) = {}
    /\ raced' = (raced \/ \E d \in Children : Adding(d))
    /\ UNCHANGED <<table, size, capa, file, mode, at, cut>>

RunsOff(c) ==
    /\ Dies(c, "look")
    /\ Matches(file[c]) = {} /\ size >= FarOut
    /\ UNCHANGED <<table, size, capa, history>>

(* add_sfile.  Of a size and a capa that are both far out nobody knows     *)
(* whether they are equal.                                                 *)
Full(c) ==
    /\ Goes(c, "room", "idle") /\ Forgets(c)
    /\ size = capa
    /\ UNCHANGED <<table, size, capa, history>>

(* Mutant: nobody looks whether there is room.                             *)
HasRoomUntested(c) ==
    /\ Goes(c, "room", "index")
    /\ UNCHANGED <<table, size, capa, file, mode, at, history>>

HasRoom(c) ==
    /\ Goes(c, "room", "index")
    /\ size # capa \/ size = FarOut
    /\ UNCHANGED <<table, size, capa, file, mode, at, history>>

TakeIndex(c) ==
    /\ Goes(c, "index", "name")
    /\ at' = [at EXCEPT ![c] = size]
    /\ UNCHANGED <<table, size, capa, file, mode, history>>

(* init_sfile: strcpy of the name; what is far out kills the child.  In    *)
(* the first slot behind the table the name replaces size, and a long one  *)
(* capa; a short name leaves the upper bytes of a large size.              *)
CopyName(c) ==
    /\ Goes(c, "name", "locks")
    /\ at[c] < FarOut
    /\ \/ /\ at[c] # Capacity
          /\ names' = [names EXCEPT ![at[c]] = file[c]]
          /\ UNCHANGED <<size, capa, cut>>
       \/ /\ at[c] = Capacity
          /\ size' \in {Bytes[file[c]]} \cup (IF size = FarOut THEN {FarOut}
                                                             ELSE {})
          /\ capa' \in IF Bytes[file[c]] = FarOut THEN 0 .. FarOut ELSE {capa}
          /\ cut' = (cut \/ size' <= Len(Initial))
          /\ UNCHANGED names
    /\ UNCHANGED <<ready, spoilt, file, mode, at, raced>>

CopyFarOut(c) ==
    /\ Dies(c, "name")
    /\ at[c] >= FarOut
    /\ UNCHANGED <<table, size, capa, history>>

(* init_sfile: the semaphores and the counters.                            *)
InitLocks(c) ==
    /\ Goes(c, "locks", "load")
    /\ ready' = ready \cup {at[c]}
    /\ spoilt' = IF \E d \in Children : Using(d) /\ at[d] = at[c]
                 THEN spoilt \cup {at[c]} ELSE spoilt
    /\ UNCHANGED <<names, size, capa, file, mode, at, history>>

(* sdir->size += 1: a load and a store.                                    *)
LoadSize(c) ==
    /\ Goes(c, "load", "store")
    /\ at' = [at EXCEPT ![c] = size]
    /\ UNCHANGED <<table, size, capa, file, mode, history>>

Incremented(n) == IF n < FarOut THEN n + 1 ELSE FarOut

StoreSize(c) ==
    /\ Goes(c, "store", "return")
    /\ size' = Incremented(at[c])
    /\ UNCHANGED <<table, capa, file, mode, at, history>>

ReturnSlot(c) ==
    /\ Goes(c, "return", "enter")
    /\ \E i \in {size - 1} \cup (IF size = FarOut THEN {FarOut} ELSE {}) :
          at' = [at EXCEPT ![c] = i]
    /\ UNCHANGED <<table, size, capa, file, mode, history>>

(* The region functions on the slot: without initialised semaphores, whose *)
(* memory is zero, a child blocks; semaphores that were reset under their  *)
(* users may let anyone in.                                                *)
Compatible(c) ==
    \A d \in Children : step[d] = "inside" /\ at[d] = at[c] =>
                        mode[c] = "read" /\ mode[d] = "read"

Enter(c) ==
    /\ Goes(c, "enter", "inside")
    /\ \/ at[c] \in ready /\ Compatible(c)
       \/ at[c] \in spoilt
    /\ UNCHANGED <<table, size, capa, file, mode, at, history>>

EnterFarOut(c) ==
    /\ Dies(c, "enter")
    /\ at[c] = FarOut
    /\ UNCHANGED <<table, size, capa, history>>

Leave(c) ==
    /\ Goes(c, "inside", "idle") /\ Forgets(c)
    /\ UNCHANGED <<table, size, capa, history>>

TableStep(c) ==
    \/ Found(c) \/ Missed(c) \/ RunsOff(c)
    \/ Full(c) \/ HasRoom(c) \/ TakeIndex(c) \/ CopyName(c) \/ CopyFarOut(c)
    \/ InitLocks(c) \/ LoadSize(c) \/ StoreSize(c) \/ ReturnSlot(c)
    \/ Enter(c) \/ EnterFarOut(c) \/ Leave(c)

TableNext ==
    \E c \in Children :
        \/ \E f \in Files, m \in {"read", "write"} : Request(c, f, m)
        \/ TableStep(c)

TableSpec == TableInit /\ [][TableNext]_tableVars
-----------------------------------------------------------------------------
TableTypeOK ==
    /\ names \in [Slots -> Files \cup {NONE}]
    /\ ready \subseteq Slots
    /\ size \in 0 .. FarOut /\ capa \in 0 .. FarOut
    /\ step \in [Children -> AddSteps \cup {"idle", "look", "enter", "inside",
                                          "dead"}]
    /\ file \in [Children -> Files \cup {NONE}]
    /\ \A c \in Children : step[c] \notin {"idle", "dead"} => file[c] \in Files
    /\ mode \in [Children -> {"read", "write"}]
    /\ at \in [Children -> 0 .. FarOut]
    /\ \A c \in Children : step[c] = "locks" => at[c] < FarOut
    /\ \A c \in Children : step[c] = "return" => size > 0
    /\ raced \in BOOLEAN /\ cut \in BOOLEAN

(* The slots of the files that init_sdir found stay as they are, no child  *)
(* writes to them, and no other file gets one.                             *)
InitialKept ==
    /\ size >= Len(Initial)
    /\ \A i \in Slots : i < Len(Initial) =>
         names[i] = Initial[i + 1] /\ i \in ready /\ i \notin spoilt
    /\ \A c \in Children :
         /\ step[c] \in {"name", "locks", "store"} => at[c] >= Len(Initial)
         /\ step[c] = "return" => size > Len(Initial)
         /\ Adding(c) => file[c] \notin Known
         /\ Using(c) /\ file[c] \notin Known => at[c] >= Len(Initial)
         /\ Using(c) /\ file[c] \in Known =>
              at[c] < Len(Initial) /\ file[c] = Initial[at[c] + 1]

(* Without a race one child adds at a time, behind the last slot in use.   *)
OneAdds ==
    /\ size <= Capacity /\ capa = Capacity /\ ~cut
    /\ spoilt = {}
    /\ \A c, d \in Children : Adding(c) /\ Adding(d) => c = d
    /\ \A c \in Children :
         /\ Adding(c) /\ step[c] # "return" => Matches(file[c]) = {}
         /\ step[c] \in AddSteps \ {"room", "return"} => size < Capacity
         /\ step[c] \in {"name", "locks", "store"} => at[c] = size
         /\ step[c] \in {"locks", "load", "store"} => names[size] = file[c]
         /\ step[c] \in {"load", "store"} => size \in ready
         /\ step[c] = "return" => size > 0 /\ names[size - 1] = file[c]

(* Without a race each name has one slot, whose semaphores are set, and    *)
(* whoever uses the file is at that slot.                                  *)
OneSlot ==
    /\ \A i \in Slots : i < size => i \in ready /\ names[i] \in Files
    /\ \A i, j \in Slots : i < size /\ j < size /\ names[i] = names[j]
                           => i = j
    /\ \A c \in Children :
         Using(c) => at[c] < size /\ names[at[c]] = file[c]

RegionsExclude ==
    \A c, d \in Children :
        /\ c # d /\ step[c] = "inside" /\ step[d] = "inside"
        /\ at[c] = at[d] /\ at[c] \notin spoilt
        => mode[c] = "read" /\ mode[d] = "read"

(* The inductive invariant of the table.  A region excludes unless its     *)
(* semaphores were reset in use; races of additions do not touch the slots *)
(* of the files the server started with, except that a name written over   *)
(* size may bring size down to their number or below; and each name has    *)
(* one slot as long as there was no race.                                  *)
TableIInv ==
    /\ TableTypeOK
    /\ RegionsExclude
    /\ ~cut => InitialKept
    /\ ~raced => OneAdds /\ OneSlot

(* A child that writes a file is alone with it, and no child waits at      *)
(* semaphores that nobody initialised, whichever slots the children were   *)
(* given: for files added later as long as no two children added files at  *)
(* the same time, for the files the server started with also after such a  *)
(* race, unless a name has cut size down.                                  *)
OneLockPerFile ==
    \A c, d \in Children :
        ((file[c] \in Known /\ ~cut) \/ ~raced) =>
            /\ c # d /\ step[c] = "inside" /\ step[d] = "inside"
               /\ file[c] = file[d] => mode[c] = "read" /\ mode[d] = "read"
            /\ Using(c) => at[c] \in ready
===============================================================================
