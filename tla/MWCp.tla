--------------------------------- MODULE MWCp ---------------------------------
(***************************************************************************)
(* The parallel directory copier of Homework4 and Homework5: a manager     *)
(* thread walks the source tree and puts open files into a bounded buffer, *)
(* workers take and copy them, main joins everybody, and SIGINT stops the  *)
(* walk.  Homework5 adds a barrier that workers and manager meet at before *)
(* they end: UseBarrier tells the two programs apart.                      *)
(*                                                                         *)
(* What runs under buffer_mutex is one step, up to the unlock or the wait. *)
(* A waiting thread may also wake without a signal.  The first SIGINT is   *)
(* handled by the main thread, which the kernel prefers and which holds no *)
(* lock; while it is in the handler, which it never leaves, further ones   *)
(* go to the other threads.                                                *)
(* Not modelled: a SIGINT before the workers are created, and the failure  *)
(* of opendir, mkdir or write, which end the process at once.              *)
(***************************************************************************)
EXTENDS Naturals, FiniteSets, Sequences

CONSTANTS
    NumWorkers,     \* num_workers
    BufferSize,     \* buffer_size
    Tree,           \* the source tree, depth first: records [kind, depth]
    UseBarrier      \* TRUE: Homework5, FALSE: Homework4

ASSUME NumWorkersAssumption == NumWorkers \in Nat \ {0}
ASSUME BufferSizeAssumption == BufferSize \in Nat \ {0}
ASSUME TreeAssumption ==
    Tree \in Seq([kind : {"file", "dir", "fifo"}, depth : Nat])
ASSUME UseBarrierAssumption == UseBarrier \in BOOLEAN

Workers == 1 .. NumWorkers
Manager == 0
Threads == Workers \cup {Manager}
Entries == 1 .. Len(Tree)
Files == {e \in Entries : Tree[e].kind = "file"}
NoFile == 0

VARIABLES
    pc,             \* where each thread stands
    pos,            \* the entry readdir returns next
    item,           \* the file each worker has taken
    data, count, head, tail,    \* the buffer
    done,
    arrived,        \* how many threads have reached the barrier
    open,           \* files whose two descriptors are open
    copies,         \* how often each file was copied
    num_files_copied,
    main,           \* what the main thread is doing
    joined,         \* the workers that were joined
    joining,        \* the worker whose join the signal interrupted
    handler,        \* where each other thread is in the SIGINT handler
    kept            \* buffer_mutex is held by a thread in the handler

buffer == <<data, count, head, tail>>
files == <<open, copies, num_files_copied>>
joins == <<joined, joining>>
again == <<handler, kept>>
mainVars == <<main, joins, again>>
vars == <<pc, pos, item, data, count, head, tail, done, arrived, open, copies,
          num_files_copied, main, joined, joining, handler, kept>>

Init ==
    /\ pc = [t \in Threads |-> IF t = Manager THEN "walk" ELSE "get"]
    /\ pos = 1
    /\ item = [w \in Workers |-> NoFile]
    /\ data = [i \in 0 .. BufferSize - 1 |-> NoFile]
    /\ count = 0 /\ head = 0 /\ tail = 0
    /\ done = FALSE
    /\ arrived = 0
    /\ open = {}
    /\ copies = [f \in Files |-> 0]
    /\ num_files_copied = 0
    /\ main = "join_manager" /\ joined = 0 /\ joining = 0
    /\ handler = [t \in Threads |-> "no"] /\ kept = FALSE

-----------------------------------------------------------------------------
(* The process runs until exit or a crash takes all threads with it.       *)
Running == main \notin {"exited", "crashed"}

(* A thread goes on with its work, and gets buffer_mutex, unless a SIGINT  *)
(* has come between.                                                       *)
Runs(t) == Running /\ handler[t] = "no"
Locks(t) == Runs(t) /\ ~kept

(* Mutant: the buffer is full one file too late.                           *)
buffer_is_overfull == count > BufferSize

buffer_is_empty == count = 0
buffer_is_full == count = BufferSize

buffer_add(f) ==
    /\ data' = [data EXCEPT ![tail] = f]
    /\ tail' = (tail + 1) % BufferSize
    /\ count' = count + 1
    /\ UNCHANGED head

buffer_get ==
    /\ head' = (head + 1) % BufferSize
    /\ count' = count - 1
    /\ UNCHANGED <<data, tail>>

(* Condition variables: a thread waits at a label of its own until a       *)
(* signal or a broadcast sends it back to test its condition again.        *)
Waiting == {w \in Workers : pc[w] = "wait_not_empty"}

Resume(T) == [t \in Threads |->
                IF t \in T THEN (IF t = Manager THEN "put" ELSE "get")
                           ELSE pc[t]]

(* pc after thread t moves on and signals one of the threads of W, if any. *)
SignalOne(t, to, W) ==
    \E T \in {{u} : u \in W} \cup (IF W = {} THEN {{}} ELSE {}) :
        pc' = [Resume(T) EXCEPT ![t] = to]

Broadcast(t, to, W) == pc' = [Resume(W) EXCEPT ![t] = to]

SpuriousWakeup ==
    /\ \E t \in Threads :
         /\ Runs(t)
         /\ pc[t] \in {"wait_not_empty", "wait_not_full"}
         /\ pc' = Resume({t})
    /\ UNCHANGED <<pos, item, buffer, done, arrived, files, mainVars>>

(* Mutant: no barrier.                                                     *)
LeaveAtOnce == "ended"

(* Mutant: the barrier forgets the manager.                                *)
BarrierOpenEarly == arrived >= NumWorkers

(* The last thing a thread does: the barrier, or nothing.                  *)
Leave == IF UseBarrier THEN "barrier" ELSE "ended"
Arrive == arrived' = IF UseBarrier THEN arrived + 1 ELSE arrived
BarrierOpen == arrived = NumWorkers + 1

PassBarrier(t) ==
    /\ Runs(t)
    /\ pc[t] = "barrier" /\ BarrierOpen
    /\ pc' = [pc EXCEPT ![t] = "ended"]
    /\ UNCHANGED <<pos, item, buffer, done, arrived, files, mainVars>>

-----------------------------------------------------------------------------
(* The entry that readdir returns when e was the last of its directory, or *)
(* when the tree under e is left out: the first one less deep than d.      *)
FirstAbove(e, d) ==
    LET above == {f \in e + 1 .. Len(Tree) : Tree[f].depth < d}
    IN  IF above = {} THEN Len(Tree) + 1
        ELSE CHOOSE f \in above : \A g \in above : f <= g

(* traverse_directory: a directory is entered, a FIFO is made, and a file  *)
(* that cannot be opened is passed over.                                   *)
Skip ==
    /\ Runs(Manager)
    /\ pc[Manager] = "walk" /\ pos \in Entries
    /\ pos' = pos + 1
    /\ UNCHANGED <<pc, item, buffer, done, arrived, files, mainVars>>

(* An entry whose stat fails is left out with everything below it.         *)
SkipTree ==
    /\ Runs(Manager)
    /\ pc[Manager] = "walk" /\ pos \in Entries
    /\ pos' = FirstAbove(pos, Tree[pos].depth + 1)
    /\ UNCHANGED <<pc, item, buffer, done, arrived, files, mainVars>>

OpenFile ==
    /\ Runs(Manager)
    /\ pc[Manager] = "walk" /\ pos \in Files
    /\ pc' = [pc EXCEPT ![Manager] = "put"]
    /\ open' = open \cup {pos}
    /\ UNCHANGED <<pos, item, buffer, done, arrived, copies, num_files_copied,
                   mainVars>>

AtPut == Locks(Manager) /\ pc[Manager] = "put"

WaitNotFull ==
    /\ AtPut
    /\ buffer_is_full /\ ~done
    /\ pc' = [pc EXCEPT ![Manager] = "wait_not_full"]
    /\ UNCHANGED <<pos, item, buffer, done, arrived, files, mainVars>>

Put ==
    /\ AtPut
    /\ ~buffer_is_full /\ ~done
    /\ buffer_add(pos)
    /\ SignalOne(Manager, "walk", Waiting)
    /\ pos' = pos + 1
    /\ UNCHANGED <<item, done, arrived, files, mainVars>>

(* Told to stop, the manager leaves the directory it is in, and goes on    *)
(* with the one above: break ends one loop of the recursion.               *)
AfterBreak(e) == FirstAbove(e, Tree[e].depth)

(* Mutant: the manager does not close what it could not hand over.         *)
StopWalkLeaks ==
    /\ AtPut
    /\ done
    /\ pos' = AfterBreak(pos)
    /\ pc' = [pc EXCEPT ![Manager] = "walk"]
    /\ UNCHANGED <<item, buffer, done, arrived, files, mainVars>>

StopWalk ==
    /\ AtPut
    /\ done
    /\ open' = open \ {pos}
    /\ pos' = AfterBreak(pos)
    /\ pc' = [pc EXCEPT ![Manager] = "walk"]
    /\ UNCHANGED <<item, buffer, done, arrived, copies, num_files_copied,
                   mainVars>>

(* Mutant: the end of the walk wakes nobody.                               *)
FinishWalkSilent ==
    /\ Locks(Manager)
    /\ pc[Manager] = "walk" /\ pos \notin Entries
    /\ done' = TRUE
    /\ pc' = [pc EXCEPT ![Manager] = Leave]
    /\ Arrive
    /\ UNCHANGED <<pos, item, buffer, files, mainVars>>

(* manager_function after the walk *)
FinishWalk ==
    /\ Locks(Manager)
    /\ pc[Manager] = "walk" /\ pos \notin Entries
    /\ done' = TRUE
    /\ Broadcast(Manager, Leave, Waiting)
    /\ Arrive
    /\ UNCHANGED <<pos, item, buffer, files, mainVars>>

-----------------------------------------------------------------------------
(* worker_function *)
AtGet(w) == Locks(w) /\ pc[w] = "get"

WaitNotEmpty(w) ==
    /\ AtGet(w)
    /\ buffer_is_empty /\ ~done
    /\ pc' = [pc EXCEPT ![w] = "wait_not_empty"]
    /\ UNCHANGED <<pos, item, buffer, done, arrived, files, mainVars>>

(* Mutant: a worker stops as soon as it is told to.                        *)
StopEarly(w) ==
    /\ AtGet(w)
    /\ done
    /\ pc' = [pc EXCEPT ![w] = Leave]
    /\ Arrive
    /\ UNCHANGED <<pos, item, buffer, done, files, mainVars>>

Stop(w) ==
    /\ AtGet(w)
    /\ buffer_is_empty /\ done
    /\ pc' = [pc EXCEPT ![w] = Leave]
    /\ Arrive
    /\ UNCHANGED <<pos, item, buffer, done, files, mainVars>>

Get(w) ==
    /\ AtGet(w)
    /\ ~buffer_is_empty
    /\ item' = [item EXCEPT ![w] = data[head]]
    /\ buffer_get
    /\ SignalOne(w, "copy", {m \in {Manager} : pc[m] = "wait_not_full"})
    /\ UNCHANGED <<pos, done, arrived, files, mainVars>>

WorkerGoes(w, from, to) ==
    /\ Runs(w)
    /\ pc[w] = from
    /\ pc' = [pc EXCEPT ![w] = to]
    /\ UNCHANGED <<pos, buffer, done, arrived, mainVars>>

Copy(w) ==
    /\ WorkerGoes(w, "copy", "close") /\ ~kept
    /\ copies' = [copies EXCEPT ![item[w]] = @ + 1]
    /\ UNCHANGED <<item, open, num_files_copied>>

Close(w) ==
    /\ WorkerGoes(w, "close", "report")
    /\ open' = open \ {item[w]}
    /\ item' = [item EXCEPT ![w] = NoFile]
    /\ UNCHANGED <<copies, num_files_copied>>

Report(w) ==
    /\ WorkerGoes(w, "report", "get") /\ ~kept
    /\ num_files_copied' = num_files_copied + 1
    /\ UNCHANGED <<item, open, copies>>

-----------------------------------------------------------------------------
(* main: workers 1..joined are joined; the next join is under way or about *)
(* to be.                                                                  *)
JoinManager ==
    /\ main = "join_manager" /\ pc[Manager] = "ended"
    /\ main' = "join_workers"
    /\ UNCHANGED <<pc, pos, item, buffer, done, arrived, files, joins, again>>

JoinWorker ==
    /\ main = "join_workers" /\ joined < NumWorkers
    /\ pc[joined + 1] = "ended"
    /\ joined' = joined + 1
    /\ UNCHANGED <<pc, pos, item, buffer, done, arrived, files, main, joining,
                   again>>

Cleanup ==
    /\ \/ /\ main = "join_workers" /\ joined = NumWorkers
          /\ main' = "cleaned"
       \/ /\ main = "handler_cleanup"
          /\ main' = "handler_cleaned"
    /\ UNCHANGED <<pc, pos, item, buffer, done, arrived, files, joins, again>>

Exit ==
    /\ main \in {"cleaned", "handler_cleaned"}
    /\ main' = "exited"
    /\ UNCHANGED <<pc, pos, item, buffer, done, arrived, files, joins, again>>

(* SIGINT: main never returns to what it was doing.  joining remembers a   *)
(* join it may have been in the middle of.  After cleanup the handler runs *)
(* on freed memory.                                                        *)
Interrupt ==
    /\ \/ /\ main = "join_manager"
          /\ main' = "handler_done" /\ UNCHANGED joining
       \/ /\ main = "join_workers"
          /\ main' = "handler_done"
          /\ joining' \in {0, joined + 1} \cap (0 .. NumWorkers)
       \/ /\ main = "cleaned"
          /\ main' = "crashed" /\ UNCHANGED joining
    /\ UNCHANGED <<pc, pos, item, buffer, done, arrived, files, joined, again>>

HandlerDone ==
    /\ main = "handler_done" /\ ~kept
    /\ main' = "handler_join"
    /\ done' = TRUE
    /\ pc' = Resume(Waiting)
    /\ UNCHANGED <<pos, item, buffer, arrived, files, joins, again>>

(* The handler joins every worker in turn.  A worker that main has joined  *)
(* is joined twice, which fails or crashes; a worker that main was joining *)
(* has its waiter already, and the second join returns at once; so does    *)
(* the join of a worker that another thread is joining in its handler.     *)
HandlerJoined == {w \in Workers : w <= joined \/ w = joining}
InHandler == {t \in Threads : handler[t] # "no"}

HandlerJoin ==
    /\ main = "handler_join"
    /\ \/ /\ \/ \A w \in Workers \ HandlerJoined : pc[w] = "ended"
             \/ InHandler # {}
          /\ main' = "handler_cleanup"
       \/ /\ joined > 0
          /\ main' = "crashed"
    /\ UNCHANGED <<pc, pos, item, buffer, done, arrived, files, joins, again>>

(* SIGINT once more while main is in the handler: another thread takes it, *)
(* wherever it is, and never returns to its work.  If it was in a critical *)
(* section it has buffer_mutex for ever.                                   *)
Locking == {"walk", "put", "wait_not_full", "get", "wait_not_empty", "copy",
            "report"}

InterruptThread(t) ==
    /\ main \in {"handler_done", "handler_join", "handler_cleanup",
                 "handler_cleaned"}
    /\ Runs(t) /\ pc[t] # "ended"
    /\ handler' = [handler EXCEPT ![t] = "done"]
    /\ kept' \in {kept} \cup (IF pc[t] \in Locking THEN {TRUE} ELSE {})
    /\ UNCHANGED <<pc, pos, item, buffer, done, arrived, files, main, joins>>

ThreadHandlerDone(t) ==
    /\ Running
    /\ handler[t] = "done" /\ ~kept
    /\ handler' = [handler EXCEPT ![t] = "join"]
    /\ done' = TRUE
    /\ pc' = Resume(Waiting)
    /\ UNCHANGED <<pos, item, buffer, arrived, files, main, joins, kept>>

(* Its joins wait for workers that may be waiting for this thread, or come *)
(* second and do not wait; then it cleans up and ends the process, whoever *)
(* still works.                                                            *)
ThreadHandlerEnd(t) ==
    /\ Running
    /\ handler[t] = "join"
    /\ main' \in {"exited", "crashed"}
    /\ UNCHANGED <<pc, pos, item, buffer, done, arrived, files, joins, again>>

-----------------------------------------------------------------------------
ManagerStep ==
    Skip \/ SkipTree \/ OpenFile \/ WaitNotFull \/ Put \/ StopWalk \/ FinishWalk
      \/ PassBarrier(Manager)

WorkerStep(w) ==
    WaitNotEmpty(w) \/ Stop(w) \/ Get(w) \/ Copy(w) \/ Close(w) \/ Report(w)
      \/ PassBarrier(w)

HandlerStep(t) ==
    InterruptThread(t) \/ ThreadHandlerDone(t) \/ ThreadHandlerEnd(t)

MainStep ==
    JoinManager \/ JoinWorker \/ Cleanup \/ Exit \/ HandlerDone \/ HandlerJoin

Next ==
    \/ ManagerStep
    \/ \E w \in Workers : WorkerStep(w)
    \/ MainStep \/ Interrupt \/ SpuriousWakeup
    \/ \E t \in Threads : HandlerStep(t)

Spec == Init /\ [][Next]_vars

(* Every thread is scheduled; nobody counts on SIGINT, on a spurious       *)
(* wakeup, or on the joins of a second handler.                            *)
FairSpec ==
    /\ Spec
    /\ WF_vars(ManagerStep)
    /\ \A w \in Workers : WF_vars(WorkerStep(w))
    /\ WF_vars(MainStep)

-----------------------------------------------------------------------------
Slot(k) == (head + k) % BufferSize
Pending == {data[Slot(k)] : k \in 0 .. count - 1}
HeldByWorkers == {item[w] : w \in Workers} \ {NoFile}
HeldByManager == IF pc[Manager] \in {"put", "wait_not_full"} THEN {pos} ELSE {}

ManagerSteps == {"walk", "put", "wait_not_full", "barrier", "ended"}
WorkerSteps == {"get", "wait_not_empty", "copy", "close", "report", "barrier",
                "ended"}

TypeOK ==
    /\ pc \in [Threads -> ManagerSteps \cup WorkerSteps]
    /\ pc[Manager] \in ManagerSteps
    /\ \A w \in Workers : pc[w] \in WorkerSteps
    /\ pos \in 1 .. Len(Tree) + 1
    /\ item \in [Workers -> Files \cup {NoFile}]
    /\ data \in [0 .. BufferSize - 1 -> Files \cup {NoFile}]
    /\ count \in 0 .. BufferSize
    /\ head \in 0 .. BufferSize - 1 /\ tail \in 0 .. BufferSize - 1
    /\ done \in BOOLEAN
    /\ arrived \in 0 .. NumWorkers + 1
    /\ open \subseteq Files
    /\ copies \in [Files -> Nat] /\ num_files_copied \in Nat
    /\ main \in {"join_manager", "join_workers", "handler_done",
                "handler_join", "handler_cleanup", "handler_cleaned",
                "cleaned", "exited", "crashed"}
    /\ joined \in 0 .. NumWorkers /\ joining \in 0 .. NumWorkers
    /\ handler \in [Threads -> {"no", "done", "join"}]
    /\ kept \in BOOLEAN

(* Every pair of open descriptors has one owner who will close it: the     *)
(* manager, a slot of the buffer, or a worker; none has two, none is lost. *)
DescriptorsOwned ==
    /\ open = Pending \cup HeldByWorkers \cup HeldByManager
    /\ Cardinality(open) =
         count + Cardinality({w \in Workers : item[w] # NoFile})
               + Cardinality(HeldByManager)

(* Main is past cleanup, and no second SIGINT has come before.             *)
Cleaned ==
    main \in {"cleaned", "handler_cleaned", "exited"} /\ InHandler = {}

(* When the buffer and the mutex are destroyed, every thread is past the   *)
(* last use of them, however main came there, unless a second SIGINT has   *)
(* sent another thread into the handler.                                   *)
CleanupLast ==
    Cleaned => \A t \in Threads : pc[t] \in {"barrier", "ended"}

(* Whatever was put into the buffer before the end or the signal is copied *)
(* exactly once, counted and closed before the statistics are printed,     *)
(* unless a second SIGINT has come.                                        *)
NothingLost ==
    Cleaned =>
        /\ buffer_is_empty /\ open = {}
        /\ \A f \in Files : copies[f] <= 1
        /\ num_files_copied = Cardinality({f \in Files : copies[f] = 1})

-----------------------------------------------------------------------------
(* The parts of the inductive invariant.  The buffer is a ring whose slots *)
(* from head on hold different files, all of them behind the walk.         *)
BufferRight ==
    /\ tail = Slot(count)
    /\ \A k \in 0 .. count - 1 : data[Slot(k)] \in Files /\ data[Slot(k)] < pos
    /\ \A j, k \in 0 .. count - 1 : data[Slot(j)] = data[Slot(k)] => j = k

(* A file is in one place: with the manager, in the buffer, or with one    *)
(* worker.                                                                 *)
ItemsRight ==
    /\ pc[Manager] \in {"put", "wait_not_full"} => pos \in Files
    /\ \A w \in Workers :
         /\ item[w] # NoFile <=> pc[w] \in {"copy", "close"}
         /\ item[w] # NoFile => item[w] < pos /\ item[w] \notin Pending
    /\ \A v, w \in Workers : item[v] # NoFile /\ item[v] = item[w] => v = w

(* A file that was copied has left the buffer, and is counted unless its   *)
(* worker has yet to report it.                                            *)
CopiesRight ==
    /\ \A f \in Files :
         /\ copies[f] \in {0, 1}
         /\ copies[f] = 1 => f < pos /\ f \notin Pending
         /\ copies[f] = 1 => \A w \in Workers : item[w] = f => pc[w] = "close"
    /\ Cardinality({f \in Files : copies[f] = 1})
         = num_files_copied
             + Cardinality({w \in Workers : pc[w] \in {"close", "report"}})

(* Who is at the barrier or past it.  Whoever came there saw done, and a   *)
(* worker the empty buffer, to which nothing is added any more.            *)
Past == {t \in Threads : pc[t] \in {"barrier", "ended"}}

BarrierRight ==
    /\ Past # {} => done
    /\ Past \cap Workers # {} => count = 0
    /\ arrived = IF UseBarrier THEN Cardinality(Past) ELSE 0
    /\ UseBarrier /\ (\E t \in Threads : pc[t] = "ended") => Past = Threads

(* What main knows from its joins, also when a signal has cut them short.  *)
MainRight ==
    /\ main = "join_manager" => joined = 0
    /\ main \in {"join_manager", "join_workers"} => joining = 0
    /\ main = "join_workers" \/ joined > 0 \/ joining > 0 => pc[Manager] = "ended"
    /\ \A w \in Workers : w <= joined => pc[w] = "ended"
    /\ UseBarrier /\ (Cleaned \/ (main = "handler_cleanup" /\ InHandler = {}))
         => Past = Threads

IInv ==
    /\ TypeOK /\ BufferRight /\ ItemsRight /\ DescriptorsOwned
    /\ CopiesRight /\ BarrierRight /\ MainRight

-----------------------------------------------------------------------------
(* Nobody ends before everybody has come to the barrier: no worker leaves  *)
(* while another still copies.                                             *)
BarrierHolds ==
    [][\A t \in Threads :
         pc[t] # "ended" /\ pc'[t] = "ended" =>
             \A u \in Threads : pc[u] \in {"barrier", "ended"}]_vars

(* The program ends, with or without one SIGINT: no wakeup is lost and     *)
(* nobody waits for ever at the buffer, the barrier or a join.  A second   *)
(* SIGINT that comes before the end may leave a thread in the handler for  *)
(* which the others wait.                                                  *)
Termination == <>(~Running \/ InHandler # {})

(* Homework4 200104004104_main.c:320, "Wait for worker threads to finish": *)
(* cleanup in the handler comes after the last worker.                     *)
WorkersFinished ==
    main = "handler_cleaned" /\ InHandler = {} => \A w \in Workers : pc[w] = "ended"
===============================================================================
