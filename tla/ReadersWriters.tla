---------------------------- MODULE ReadersWriters ----------------------------
(***************************************************************************)
(* The region functions of MidtermProject/sync.c on one struct safe_file:  *)
(* four semaphores in memory shared by the server's child processes, and   *)
(* two counters.  Every semaphore operation is a step of its own, so that  *)
(* any two processes may interleave between any two of them.  A counter    *)
(* update is one step together with the test that follows it: both run     *)
(* under the same mutex (HoldersUnique says so), so nobody can see inside. *)
(*                                                                         *)
(* A process may be killed inside the region, where the handlers write the *)
(* response to a FIFO whose reader may be gone (server.c:808, 818, 931):   *)
(* SIGPIPE is not handled, and a killed process posts nothing.             *)
(***************************************************************************)
EXTENDS Integers, FiniteSets

CONSTANTS
    Procs,      \* the children serving clients of this file
    MaxKilled   \* how many of them may die inside the region

ASSUME ProcsAssumption == IsFiniteSet(Procs)
ASSUME MaxKilledAssumption == MaxKilled \in Nat

VARIABLES
    pc,             \* where each process stands
    read_try, rmutex, wmutex, rsc,  \* the semaphores, all created with 1
    reader_count, writer_count

sems == <<read_try, rmutex, wmutex, rsc>>
counts == <<reader_count, writer_count>>
vars == <<pc, read_try, rmutex, wmutex, rsc, reader_count, writer_count>>

(* The labels, in the order of the code.  A label names the step to come.  *)
ReaderEntry == {"r_try", "r_rmutex", "r_count", "r_rsc", "r_unlock", "r_done"}
ReaderExit  == {"rx_rmutex", "rx_count", "rx_rsc", "rx_unlock"}
WriterEntry == {"w_wmutex", "w_count", "w_try", "w_unlock", "w_rsc"}
WriterExit  == {"wx_rsc", "wx_wmutex", "wx_count", "wx_try", "wx_unlock"}
Killed      == {"killed_reading", "killed_writing"}
Labels == {"idle", "reading", "writing"} \cup Killed
            \cup ReaderEntry \cup ReaderExit \cup WriterEntry \cup WriterExit

In(S) == {p \in Procs : pc[p] \in S}

Init ==
    /\ pc = [p \in Procs |-> "idle"]
    /\ read_try = 1 /\ rmutex = 1 /\ wmutex = 1 /\ rsc = 1
    /\ reader_count = 0 /\ writer_count = 0

-----------------------------------------------------------------------------
(* sem_wait and sem_post on a semaphore, and a step of p from one label.   *)
Wait(s) == s > 0 /\ s' = s - 1
Post(s) == s' = s + 1
Goto(p, from, to) == pc[p] = from /\ pc' = [pc EXCEPT ![p] = to]

(* reader_enter_region *)
StartRead(p) ==
    /\ Goto(p, "idle", "r_try")
    /\ UNCHANGED <<sems, counts>>

(* Mutant: a reader passes a door that writers have closed.                *)
ReaderTryUnchecked(p) ==
    /\ Goto(p, "r_try", "r_rmutex")
    /\ read_try' = 0
    /\ UNCHANGED <<rmutex, wmutex, rsc, counts>>

ReaderTry(p) ==
    /\ Goto(p, "r_try", "r_rmutex")
    /\ Wait(read_try)
    /\ UNCHANGED <<rmutex, wmutex, rsc, counts>>

ReaderLock(p) ==
    /\ Goto(p, "r_rmutex", "r_count")
    /\ Wait(rmutex)
    /\ UNCHANGED <<read_try, wmutex, rsc, counts>>

ReaderCount(p) ==
    /\ reader_count' = reader_count + 1
    /\ Goto(p, "r_count", IF reader_count' = 1 THEN "r_rsc" ELSE "r_unlock")
    /\ UNCHANGED <<sems, writer_count>>

(* Mutant: the first reader does not lock the resource.                    *)
FirstReaderUnlocked(p) ==
    /\ Goto(p, "r_rsc", "r_unlock")
    /\ UNCHANGED <<sems, counts>>

FirstReader(p) ==
    /\ Goto(p, "r_rsc", "r_unlock")
    /\ Wait(rsc)
    /\ UNCHANGED <<read_try, rmutex, wmutex, counts>>

ReaderUnlock(p) ==
    /\ Goto(p, "r_unlock", "r_done")
    /\ Post(rmutex)
    /\ UNCHANGED <<read_try, wmutex, rsc, counts>>

ReaderEntered(p) ==
    /\ Goto(p, "r_done", "reading")
    /\ Post(read_try)
    /\ UNCHANGED <<rmutex, wmutex, rsc, counts>>

(* reader_exit_region *)
StopRead(p) ==
    /\ Goto(p, "reading", "rx_rmutex")
    /\ UNCHANGED <<sems, counts>>

(* Mutant: the exit section does not take the readers' mutex.              *)
ReaderExitUnguarded(p) ==
    /\ Goto(p, "rx_rmutex", "rx_count")
    /\ UNCHANGED <<sems, counts>>

ReaderExitLock(p) ==
    /\ Goto(p, "rx_rmutex", "rx_count")
    /\ Wait(rmutex)
    /\ UNCHANGED <<read_try, wmutex, rsc, counts>>

ReaderUncount(p) ==
    /\ reader_count' = reader_count - 1
    /\ Goto(p, "rx_count", IF reader_count' = 0 THEN "rx_rsc" ELSE "rx_unlock")
    /\ UNCHANGED <<sems, writer_count>>

(* Mutant: the last reader keeps the resource.                             *)
LastReaderKeeps(p) ==
    /\ Goto(p, "rx_rsc", "rx_unlock")
    /\ UNCHANGED <<sems, counts>>

LastReader(p) ==
    /\ Goto(p, "rx_rsc", "rx_unlock")
    /\ Post(rsc)
    /\ UNCHANGED <<read_try, rmutex, wmutex, counts>>

ReaderExitUnlock(p) ==
    /\ Goto(p, "rx_unlock", "idle")
    /\ Post(rmutex)
    /\ UNCHANGED <<read_try, wmutex, rsc, counts>>

-----------------------------------------------------------------------------
(* writer_enter_region *)
StartWrite(p) ==
    /\ Goto(p, "idle", "w_wmutex")
    /\ UNCHANGED <<sems, counts>>

WriterLock(p) ==
    /\ Goto(p, "w_wmutex", "w_count")
    /\ Wait(wmutex)
    /\ UNCHANGED <<read_try, rmutex, rsc, counts>>

WriterCount(p) ==
    /\ writer_count' = writer_count + 1
    /\ Goto(p, "w_count", IF writer_count' = 1 THEN "w_try" ELSE "w_unlock")
    /\ UNCHANGED <<sems, reader_count>>

(* Mutant: the first writer leaves the door open to readers.               *)
FirstWriterOpen(p) ==
    /\ Goto(p, "w_try", "w_unlock")
    /\ UNCHANGED <<sems, counts>>

FirstWriter(p) ==
    /\ Goto(p, "w_try", "w_unlock")
    /\ Wait(read_try)
    /\ UNCHANGED <<rmutex, wmutex, rsc, counts>>

WriterUnlock(p) ==
    /\ Goto(p, "w_unlock", "w_rsc")
    /\ Post(wmutex)
    /\ UNCHANGED <<read_try, rmutex, rsc, counts>>

WriterEntered(p) ==
    /\ Goto(p, "w_rsc", "writing")
    /\ Wait(rsc)
    /\ UNCHANGED <<read_try, rmutex, wmutex, counts>>

(* writer_exit_region *)
StopWrite(p) ==
    /\ Goto(p, "writing", "wx_rsc")
    /\ UNCHANGED <<sems, counts>>

WriterRelease(p) ==
    /\ Goto(p, "wx_rsc", "wx_wmutex")
    /\ Post(rsc)
    /\ UNCHANGED <<read_try, rmutex, wmutex, counts>>

WriterExitLock(p) ==
    /\ Goto(p, "wx_wmutex", "wx_count")
    /\ Wait(wmutex)
    /\ UNCHANGED <<read_try, rmutex, rsc, counts>>

(* Mutant: the last writer is looked for at the count of 1.                *)
WriterUncountEarly(p) ==
    /\ writer_count' = writer_count - 1
    /\ Goto(p, "wx_count", IF writer_count' = 1 THEN "wx_try" ELSE "wx_unlock")
    /\ UNCHANGED <<sems, reader_count>>

WriterUncount(p) ==
    /\ writer_count' = writer_count - 1
    /\ Goto(p, "wx_count", IF writer_count' = 0 THEN "wx_try" ELSE "wx_unlock")
    /\ UNCHANGED <<sems, reader_count>>

LastWriter(p) ==
    /\ Goto(p, "wx_try", "wx_unlock")
    /\ Post(read_try)
    /\ UNCHANGED <<rmutex, wmutex, rsc, counts>>

WriterExitUnlock(p) ==
    /\ Goto(p, "wx_unlock", "idle")
    /\ Post(wmutex)
    /\ UNCHANGED <<read_try, rmutex, rsc, counts>>

(* SIGPIPE while the response is written inside the region *)
Die(p) ==
    /\ Cardinality(In(Killed)) < MaxKilled
    /\ \/ Goto(p, "reading", "killed_reading")
       \/ Goto(p, "writing", "killed_writing")
    /\ UNCHANGED <<sems, counts>>

-----------------------------------------------------------------------------
Read(p) ==
    \/ ReaderTry(p) \/ ReaderLock(p) \/ ReaderCount(p) \/ FirstReader(p)
    \/ ReaderUnlock(p) \/ ReaderEntered(p)
    \/ StopRead(p) \/ ReaderExitLock(p) \/ ReaderUncount(p) \/ LastReader(p)
    \/ ReaderExitUnlock(p)

Write(p) ==
    \/ WriterLock(p) \/ WriterCount(p) \/ FirstWriter(p) \/ WriterUnlock(p)
    \/ WriterEntered(p)
    \/ StopWrite(p) \/ WriterRelease(p) \/ WriterExitLock(p)
    \/ WriterUncount(p) \/ LastWriter(p) \/ WriterExitUnlock(p)

Step(p) == StartRead(p) \/ StartWrite(p) \/ Read(p) \/ Write(p) \/ Die(p)

Next == \E p \in Procs : Step(p)

Spec == Init /\ [][Next]_vars

(* A process scheduled by the kernel keeps running once it has a command.  *)
(* Weak fairness only: sem_post wakes some waiter, not the oldest one.     *)
FairSpec == Spec /\ \A p \in Procs : WF_vars(Read(p)) /\ WF_vars(Write(p))

-----------------------------------------------------------------------------
(* Who stands for what is taken out of each semaphore.                     *)
RMutexHeld == {"r_count", "r_rsc", "r_unlock",
               "rx_count", "rx_rsc", "rx_unlock"}
WMutexHeld == {"w_count", "w_try", "w_unlock",
               "wx_count", "wx_try", "wx_unlock"}
RCounted == {"r_rsc", "r_unlock", "r_done", "reading", "killed_reading",
             "rx_rmutex", "rx_count"}
WCounted == {"w_try", "w_unlock", "w_rsc", "writing", "killed_writing",
             "wx_rsc", "wx_wmutex", "wx_count"}
RscByReaders == (RCounted \ {"r_rsc"}) \cup {"rx_rsc"}
RscByWriter  == {"writing", "killed_writing", "wx_rsc"}
TryByReader  == {"r_rmutex", "r_count", "r_rsc", "r_unlock", "r_done"}
TryByWriters == (WCounted \ {"w_try"}) \cup {"wx_try"}

(* Every variable has its type; a semaphore never exceeds the 1 it was     *)
(* created with (a post too many would admit two holders).                 *)
TypeOK ==
    /\ pc \in [Procs -> Labels]
    /\ read_try \in {0, 1} /\ rmutex \in {0, 1}
    /\ wmutex \in {0, 1} /\ rsc \in {0, 1}
    /\ reader_count \in Nat /\ writer_count \in Nat

(* At most one process holds a mutex, and a mutex nobody holds is free.    *)
HoldersUnique ==
    /\ \A p, q \in In(RMutexHeld) : p = q
    /\ \A p, q \in In(WMutexHeld) : p = q
    /\ rmutex = 1 <=> In(RMutexHeld) = {}
    /\ wmutex = 1 <=> In(WMutexHeld) = {}

(* The counters count exactly the processes between their increment and    *)
(* their decrement.                                                        *)
CountsExact ==
    /\ reader_count = Cardinality(In(RCounted))
    /\ writer_count = Cardinality(In(WCounted))

(* The first reader and the last reader (writer) are alone when they say   *)
(* they are: the counter's test still holds when they reach the semaphore. *)
FirstAndLast ==
    \A p \in Procs :
        /\ pc[p] = "r_rsc" => In(RCounted) = {p}
        /\ pc[p] = "rx_rsc" => In(RCounted) = {}
        /\ pc[p] = "w_try" => In(WCounted) = {p}
        /\ pc[p] = "wx_try" => In(WCounted) = {}

(* rsc belongs to one writer or to the readers as a group.                 *)
RscOwned ==
    /\ \A p \in In(RscByWriter), q \in In(RscByWriter \cup RscByReaders) : p = q
    /\ rsc = 1 <=> In(RscByWriter \cup RscByReaders) = {}

(* read_try belongs to one entering reader or to the writers as a group.   *)
TryOwned ==
    /\ \A p \in In(TryByReader), q \in In(TryByReader \cup TryByWriters) : p = q
    /\ read_try = 1 <=> In(TryByReader \cup TryByWriters) = {}

(* The inductive invariant.                                                *)
IInv ==
    /\ TypeOK /\ HoldersUnique /\ CountsExact
    /\ FirstAndLast /\ RscOwned /\ TryOwned

-----------------------------------------------------------------------------
(* What readF, writeT, upload and download rely on: a process that writes  *)
(* a file is the only one in its region (sync.c:22, 84).                   *)
Exclusion ==
    \A p \in In({"writing", "killed_writing"}) :
        In({"reading", "killed_reading", "writing", "killed_writing"}) = {p}

(* Once every process is back outside, the file is as init_sfile left it:  *)
(* no sequence of commands wears a semaphore or a counter out.             *)
QuiescentReset ==
    In({"idle"}) = Procs =>
        /\ read_try = 1 /\ rmutex = 1 /\ wmutex = 1 /\ rsc = 1
        /\ reader_count = 0 /\ writer_count = 0

(* The first reader waits for rsc with read_try and rmutex in its hands   *)
(* (sync.c:24); if it ever had to wait there, readers could no longer      *)
(* leave (sync.c:44) and writers no longer arrive.  It never has to.       *)
FirstReaderNeverBlocks == In({"r_rsc"}) # {} => rsc = 1

(* The region lock implements the abstract one.  A reader is inside as     *)
(* soon as nothing can stop it any more; a writer has announced itself     *)
(* once its group holds read_try.  A killed process stays where it died.   *)
Lock == INSTANCE RWLock WITH
    readers   <- In({"r_unlock", "r_done", "reading", "killed_reading"}),
    announced <- In({"w_unlock", "w_rsc"}),
    writers   <- In({"writing", "killed_writing"})

LockRefinement == Lock!LockSpec

(* Some process that wants the region gets in, unless one was killed       *)
(* inside: no combination of the four semaphores blocks everyone.          *)
RegionProgress ==
    In(ReaderEntry \cup WriterEntry) # {}
        ~> In({"reading", "writing"} \cup Killed) # {}

(* Writers are preferred: once one has announced itself a writer gets in,  *)
(* whatever number of readers keeps coming.                                *)
WriterProgress ==
    In({"w_unlock", "w_rsc"}) # {} ~> In({"writing"} \cup Killed) # {}

===============================================================================
