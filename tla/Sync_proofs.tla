------------------------------ MODULE Sync_proofs ------------------------------
(***************************************************************************)
(* Proofs about the two modules of sync.c.  ReadersWriters: the region     *)
(* functions, for any finite set of processes and any number of them       *)
(* killed.  SharedFiles: the table of files, for any children, file names, *)
(* capacity and files at the start.                                        *)
(***************************************************************************)
EXTENDS ReadersWriters, SharedFiles, FiniteSetTheorems, TLAPS

(* Processes are finitely many, so every set of them has a size.           *)
LEMMA FiniteIn ==
  ASSUME NEW S
  PROVE  /\ IsFiniteSet(In(S)) /\ Cardinality(In(S)) \in Nat
         /\ Cardinality(In(S)) = 0 <=> In(S) = {}
  <1>1. IsFiniteSet(In(S))
    BY FS_Subset, ProcsAssumption DEF In
  <1> QED
    BY <1>1, FS_CardinalityType, FS_EmptySet

(* Only four steps move a process into or out of the counted ones, and     *)
(* they are the four that change a counter.                                *)
LEMMA CountsPreserved ==
  ASSUME TypeOK, CountsExact, NEW p \in Procs, Step(p)
  PROVE  CountsExact'
  <1>. USE DEF sems, counts
  <1>1. CASE ReaderCount(p)
    <2>1. In(RCounted)' = In(RCounted) \cup {p} /\ p \notin In(RCounted)
      BY <1>1 DEF ReaderCount, Goto, In, RCounted, TypeOK
    <2>2. In(WCounted)' = In(WCounted)
      BY <1>1 DEF ReaderCount, Goto, In, WCounted, TypeOK
    <2>3. Cardinality(In(RCounted)') = Cardinality(In(RCounted)) + 1
      BY <2>1, FiniteIn, FS_AddElement
    <2> QED
      BY <1>1, <2>2, <2>3 DEF ReaderCount, CountsExact
  <1>2. CASE ReaderUncount(p)
    <2>1. In(RCounted)' = In(RCounted) \ {p} /\ p \in In(RCounted)
      BY <1>2 DEF ReaderUncount, Goto, In, RCounted, TypeOK
    <2>2. In(WCounted)' = In(WCounted)
      BY <1>2 DEF ReaderUncount, Goto, In, WCounted, TypeOK
    <2>3. Cardinality(In(RCounted)') = Cardinality(In(RCounted)) - 1
      BY <2>1, FiniteIn, FS_RemoveElement
    <2> QED
      BY <1>2, <2>2, <2>3 DEF ReaderUncount, CountsExact
  <1>3. CASE WriterCount(p)
    <2>1. In(WCounted)' = In(WCounted) \cup {p} /\ p \notin In(WCounted)
      BY <1>3 DEF WriterCount, Goto, In, WCounted, TypeOK
    <2>2. In(RCounted)' = In(RCounted)
      BY <1>3 DEF WriterCount, Goto, In, RCounted, TypeOK
    <2>3. Cardinality(In(WCounted)') = Cardinality(In(WCounted)) + 1
      BY <2>1, FiniteIn, FS_AddElement
    <2> QED
      BY <1>3, <2>2, <2>3 DEF WriterCount, CountsExact
  <1>4. CASE WriterUncount(p)
    <2>1. In(WCounted)' = In(WCounted) \ {p} /\ p \in In(WCounted)
      BY <1>4 DEF WriterUncount, Goto, In, WCounted, TypeOK
    <2>2. In(RCounted)' = In(RCounted)
      BY <1>4 DEF WriterUncount, Goto, In, RCounted, TypeOK
    <2>3. Cardinality(In(WCounted)') = Cardinality(In(WCounted)) - 1
      BY <2>1, FiniteIn, FS_RemoveElement
    <2> QED
      BY <1>4, <2>2, <2>3 DEF WriterUncount, CountsExact
  <1>5. CASE /\ ~ReaderCount(p) /\ ~ReaderUncount(p)
             /\ ~WriterCount(p) /\ ~WriterUncount(p)
    <2>1. /\ In(RCounted)' = In(RCounted) /\ reader_count' = reader_count
          /\ In(WCounted)' = In(WCounted) /\ writer_count' = writer_count
      <3> USE DEF Goto, In, RCounted, WCounted, TypeOK
      <3>1. CASE Read(p)
        BY <1>5, <3>1 DEF Read, ReaderTry, ReaderLock, FirstReader, ReaderUnlock,
           ReaderEntered, StopRead, ReaderExitLock, LastReader,
           ReaderExitUnlock
      <3>2. CASE Write(p)
        BY <1>5, <3>2 DEF Write, WriterLock, FirstWriter, WriterUnlock,
           WriterEntered, StopWrite, WriterRelease, WriterExitLock,
           LastWriter, WriterExitUnlock
      <3>3. CASE StartRead(p) \/ StartWrite(p) \/ Die(p)
        BY <3>3 DEF StartRead, StartWrite, Die
      <3> QED
        BY <3>1, <3>2, <3>3 DEF Step
    <2> QED
      BY <2>1 DEF CountsExact
  <1> QED
    BY <1>1, <1>2, <1>3, <1>4, <1>5

(* The tests of the code on a counter tell what they are meant to: the one *)
(* that finds 1 is the first one in, the one that finds 0 the last one out. *)
LEMMA CountTests ==
  ASSUME TypeOK, CountsExact, NEW p \in Procs
  PROVE  /\ ReaderCount(p) => (reader_count' = 1 <=> In(RCounted) = {})
         /\ ReaderUncount(p) => (reader_count' = 0 <=> In(RCounted) = {p})
         /\ WriterCount(p) => (writer_count' = 1 <=> In(WCounted) = {})
         /\ WriterUncount(p) => (writer_count' = 0 <=> In(WCounted) = {p})
  <1>1. ASSUME ReaderCount(p)
        PROVE  reader_count' = 1 <=> In(RCounted) = {}
    <2>1. reader_count = Cardinality(In(RCounted))
      BY DEF CountsExact
    <2>2. reader_count = 0 <=> In(RCounted) = {}
      BY <2>1, FiniteIn
    <2> QED
      BY <1>1, <2>2 DEF ReaderCount, TypeOK
  <1>2. ASSUME ReaderUncount(p)
        PROVE  reader_count' = 0 <=> In(RCounted) = {p}
    <2>1. p \in In(RCounted)
      BY <1>2 DEF ReaderUncount, Goto, In, RCounted
    <2>2. Cardinality(In(RCounted) \ {p}) = reader_count - 1
      BY <2>1, FiniteIn, FS_RemoveElement DEF CountsExact
    <2>3. IsFiniteSet(In(RCounted) \ {p})
      BY FiniteIn, FS_RemoveElement
    <2>4. Cardinality(In(RCounted) \ {p}) = 0
            <=> In(RCounted) \ {p} = {}
      BY <2>3, FS_EmptySet
    <2> QED
      BY <1>2, <2>1, <2>2, <2>4 DEF ReaderUncount, TypeOK
  <1>3. ASSUME WriterCount(p)
        PROVE  writer_count' = 1 <=> In(WCounted) = {}
    <2>1. writer_count = Cardinality(In(WCounted))
      BY DEF CountsExact
    <2>2. writer_count = 0 <=> In(WCounted) = {}
      BY <2>1, FiniteIn
    <2> QED
      BY <1>3, <2>2 DEF WriterCount, TypeOK
  <1>4. ASSUME WriterUncount(p)
        PROVE  writer_count' = 0 <=> In(WCounted) = {p}
    <2>1. p \in In(WCounted)
      BY <1>4 DEF WriterUncount, Goto, In, WCounted
    <2>2. Cardinality(In(WCounted) \ {p}) = writer_count - 1
      BY <2>1, FiniteIn, FS_RemoveElement DEF CountsExact
    <2>3. IsFiniteSet(In(WCounted) \ {p})
      BY FiniteIn, FS_RemoveElement
    <2>4. Cardinality(In(WCounted) \ {p}) = 0
            <=> In(WCounted) \ {p} = {}
      BY <2>3, FS_EmptySet
    <2> QED
      BY <1>4, <2>1, <2>2, <2>4 DEF WriterUncount, TypeOK
  <1> QED
    BY <1>1, <1>2, <1>3, <1>4

(* Nobody enters a mutex that is held.                                      *)
LEMMA HoldersPreserved ==
  ASSUME TypeOK, HoldersUnique, NEW p \in Procs, Step(p)
  PROVE  HoldersUnique'
  <1> USE DEF TypeOK, In, Goto, Wait, Post, sems, counts,
             HoldersUnique, RMutexHeld, WMutexHeld
  <1>1. CASE Read(p)
    BY <1>1 DEF Read, ReaderTry, ReaderLock, ReaderCount, FirstReader, ReaderUnlock,
         ReaderEntered, StopRead, ReaderExitLock, ReaderUncount, LastReader,
         ReaderExitUnlock
  <1>2. CASE Write(p)
    BY <1>2 DEF Write, WriterLock, WriterCount, FirstWriter, WriterUnlock,
         WriterEntered, StopWrite, WriterRelease, WriterExitLock,
         WriterUncount, LastWriter, WriterExitUnlock
  <1>3. CASE StartRead(p) \/ StartWrite(p) \/ Die(p)
    BY <1>3 DEF StartRead, StartWrite, Die
  <1> QED
    BY <1>1, <1>2, <1>3 DEF Step

(* Between its count and its semaphore a process cannot be overtaken.        *)
LEMMA FirstAndLastPreserved ==
  ASSUME TypeOK, HoldersUnique, CountsExact, FirstAndLast, NEW p \in Procs, Step(p)
  PROVE  FirstAndLast'
  <1> USE DEF TypeOK, In, Goto, Wait, Post, sems, counts,
             HoldersUnique, FirstAndLast, RMutexHeld, WMutexHeld, RCounted, WCounted
  <1>1. CASE Read(p)
    BY <1>1, CountTests DEF Read, ReaderTry, ReaderLock, ReaderCount, FirstReader, ReaderUnlock,
         ReaderEntered, StopRead, ReaderExitLock, ReaderUncount, LastReader,
         ReaderExitUnlock
  <1>2. CASE Write(p)
    BY <1>2, CountTests DEF Write, WriterLock, WriterCount, FirstWriter, WriterUnlock,
         WriterEntered, StopWrite, WriterRelease, WriterExitLock,
         WriterUncount, LastWriter, WriterExitUnlock
  <1>3. CASE StartRead(p) \/ StartWrite(p) \/ Die(p)
    BY <1>3 DEF StartRead, StartWrite, Die
  <1> QED
    BY <1>1, <1>2, <1>3 DEF Step

(* A process takes rsc only when nobody, or only fellow readers, hold it.   *)
LEMMA RscPreserved ==
  ASSUME TypeOK, HoldersUnique, CountsExact, FirstAndLast, RscOwned, NEW p \in Procs, Step(p)
  PROVE  RscOwned'
  <1> USE DEF TypeOK, In, Goto, Wait, Post, sems, counts,
             HoldersUnique, FirstAndLast, RscOwned, RMutexHeld,
             RCounted, RscByReaders, RscByWriter
  <1>1. CASE Read(p)
    BY <1>1, CountTests DEF Read, ReaderTry, ReaderLock, ReaderCount, FirstReader, ReaderUnlock,
         ReaderEntered, StopRead, ReaderExitLock, ReaderUncount, LastReader,
         ReaderExitUnlock
  <1>2. CASE Write(p)
    BY <1>2, CountTests DEF Write, WriterLock, WriterCount, FirstWriter, WriterUnlock,
         WriterEntered, StopWrite, WriterRelease, WriterExitLock,
         WriterUncount, LastWriter, WriterExitUnlock
  <1>3. CASE StartRead(p) \/ StartWrite(p) \/ Die(p)
    BY <1>3 DEF StartRead, StartWrite, Die
  <1> QED
    BY <1>1, <1>2, <1>3 DEF Step

(* read_try passes between one entering reader and the writers as a group. *)
LEMMA TryPreserved ==
  ASSUME TypeOK, HoldersUnique, CountsExact, FirstAndLast, TryOwned, NEW p \in Procs, Step(p)
  PROVE  TryOwned'
  <1> USE DEF TypeOK, In, Goto, Wait, Post, sems, counts,
             HoldersUnique, FirstAndLast, TryOwned, WMutexHeld,
             WCounted, TryByReader, TryByWriters
  <1>1. CASE Read(p)
    BY <1>1, CountTests DEF Read, ReaderTry, ReaderLock, ReaderCount, FirstReader, ReaderUnlock,
         ReaderEntered, StopRead, ReaderExitLock, ReaderUncount, LastReader,
         ReaderExitUnlock
  <1>2. CASE Write(p)
    BY <1>2, CountTests DEF Write, WriterLock, WriterCount, FirstWriter, WriterUnlock,
         WriterEntered, StopWrite, WriterRelease, WriterExitLock,
         WriterUncount, LastWriter, WriterExitUnlock
  <1>3. CASE StartRead(p) \/ StartWrite(p) \/ Die(p)
    BY <1>3 DEF StartRead, StartWrite, Die
  <1> QED
    BY <1>1, <1>2, <1>3 DEF Step

(* A semaphore is posted only by its holder, so it never exceeds 1.         *)
LEMMA TypePreserved ==
  ASSUME IInv, CountsExact', NEW p \in Procs, Step(p)
  PROVE  TypeOK'
  <1> USE DEF IInv, TypeOK, In, Goto, Wait, Post, sems, counts, Labels,
             ReaderEntry, ReaderExit, WriterEntry, WriterExit, Killed
  <1>1. reader_count' \in Nat /\ writer_count' \in Nat
    <2>1. \A S \in SUBSET Procs : Cardinality(S) \in Nat
      BY FS_Subset, FS_CardinalityType, ProcsAssumption
    <2> QED
      BY <2>1 DEF CountsExact
  <1>2. CASE Read(p)
    BY <1>1, <1>2 DEF HoldersUnique, RscOwned, TryOwned, RMutexHeld,
         RCounted, RscByReaders, TryByReader,
         Read, ReaderTry, ReaderLock, ReaderCount, FirstReader, ReaderUnlock,
         ReaderEntered, StopRead, ReaderExitLock, ReaderUncount, LastReader,
         ReaderExitUnlock
  <1>3. CASE Write(p)
    BY <1>1, <1>3 DEF HoldersUnique, RscOwned, TryOwned, WMutexHeld,
         WCounted, RscByWriter, TryByWriters,
         Write, WriterLock, WriterCount, FirstWriter, WriterUnlock,
         WriterEntered, StopWrite, WriterRelease, WriterExitLock,
         WriterUncount, LastWriter, WriterExitUnlock
  <1>4. CASE StartRead(p) \/ StartWrite(p) \/ Die(p)
    BY <1>1, <1>4 DEF StartRead, StartWrite, Die
  <1> QED
    BY <1>2, <1>3, <1>4 DEF Step

-----------------------------------------------------------------------------
(* IInv is an invariant of the region functions: every semaphore is held   *)
(* by whom it should, and every counter counts whom it should, whatever    *)
(* the interleaving and whoever was killed inside.                         *)
THEOREM Invariance == Spec => []IInv
  <1>1. Init => IInv
    <2> SUFFICES ASSUME Init PROVE IInv
      OBVIOUS
    <2> USE DEF Init
    <2>1. TypeOK
      BY DEF TypeOK, Labels
    <2>2. \A S : "idle" \notin S => In(S) = {}
      BY DEF In
    <2>3. /\ In(RCounted) = {} /\ In(WCounted) = {}
          /\ In(RMutexHeld) = {} /\ In(WMutexHeld) = {}
          /\ In(RscByWriter \cup RscByReaders) = {} /\ In(RscByWriter) = {}
          /\ In(TryByReader \cup TryByWriters) = {} /\ In(TryByReader) = {}
      BY <2>2 DEF RCounted, WCounted, RMutexHeld, WMutexHeld, RscByWriter,
           RscByReaders, TryByReader, TryByWriters
    <2>4. CountsExact
      BY <2>3, FS_EmptySet DEF CountsExact
    <2>5. HoldersUnique /\ RscOwned /\ TryOwned
      BY <2>3 DEF HoldersUnique, RscOwned, TryOwned
    <2>6. FirstAndLast
      BY DEF FirstAndLast
    <2> QED
      BY <2>1, <2>4, <2>5, <2>6 DEF IInv
  <1>2. IInv /\ [Next]_vars => IInv'
    <2> SUFFICES ASSUME IInv, [Next]_vars PROVE IInv'
      OBVIOUS
    <2>1. CASE UNCHANGED vars
      BY <2>1 DEF IInv, vars, TypeOK, HoldersUnique, CountsExact, FirstAndLast,
           RscOwned, TryOwned, In
    <2>2. ASSUME NEW p \in Procs, Step(p) PROVE IInv'
      <3>1. CountsExact'
        BY <2>2, CountsPreserved DEF IInv
      <3>2. TypeOK'
        BY <2>2, <3>1, TypePreserved
      <3>3. HoldersUnique'
        BY <2>2, HoldersPreserved DEF IInv
      <3>4. FirstAndLast'
        BY <2>2, FirstAndLastPreserved DEF IInv
      <3>5. RscOwned'
        BY <2>2, RscPreserved DEF IInv
      <3>6. TryOwned'
        BY <2>2, TryPreserved DEF IInv
      <3> QED
        BY <3>1, <3>2, <3>3, <3>4, <3>5, <3>6 DEF IInv
    <2> QED
      BY <2>1, <2>2 DEF Next
  <1> QED
    BY <1>1, <1>2, PTL DEF Spec

(* No semaphore exceeds the 1 it was created with and no counter is        *)
(* negative.                                                               *)
THEOREM TypeCorrect == Spec => []TypeOK
  BY Invariance, PTL DEF IInv

(* A process that writes a file is alone in its region.                    *)
THEOREM MutualExclusion == Spec => []Exclusion
  <1>1. IInv => Exclusion
    BY DEF IInv, RscOwned, Exclusion, In, RscByWriter, RscByReaders, RCounted
  <1> QED
    BY <1>1, Invariance, PTL

(* When everyone is outside, the file is as init_sfile left it.            *)
THEOREM Reset == Spec => []QuiescentReset
  <1>1. IInv => QuiescentReset
    <2> SUFFICES ASSUME IInv, In({"idle"}) = Procs PROVE QuiescentReset
      BY DEF QuiescentReset
    <2>1. \A S : "idle" \notin S => In(S) = {}
      BY DEF In
    <2>2. /\ In(RCounted) = {} /\ In(WCounted) = {}
          /\ In(RMutexHeld) = {} /\ In(WMutexHeld) = {}
          /\ In(RscByWriter \cup RscByReaders) = {}
          /\ In(TryByReader \cup TryByWriters) = {}
      BY <2>1 DEF RCounted, WCounted, RMutexHeld, WMutexHeld, RscByWriter,
           RscByReaders, TryByReader, TryByWriters
    <2>3. reader_count = 0 /\ writer_count = 0
      BY <2>2, FS_EmptySet DEF IInv, CountsExact
    <2> QED
      BY <2>2, <2>3 DEF IInv, HoldersUnique, RscOwned, TryOwned, QuiescentReset
  <1> QED
    BY <1>1, Invariance, PTL

(* The first reader never waits with rmutex and read_try in its hands.     *)
THEOREM NoHoldAndWait == Spec => []FirstReaderNeverBlocks
  <1>1. IInv => FirstReaderNeverBlocks
    BY DEF IInv, FirstReaderNeverBlocks, FirstAndLast, HoldersUnique, RscOwned,
         TryOwned, In, RMutexHeld, RscByWriter, RscByReaders, RCounted,
         TryByReader, TryByWriters, WCounted
  <1> QED
    BY <1>1, Invariance, PTL

-----------------------------------------------------------------------------
(* The region functions implement the writer-preferring lock of RWLock.    *)
THEOREM Refinement == Spec => LockRefinement
  <1> USE DEF In
  <1>1. Init => Lock!LockInit
    BY DEF Init, Lock!LockInit
  <1>2. IInv /\ [Next]_vars => [Lock!LockNext]_(Lock!lockVars)
    <2> SUFFICES ASSUME IInv, [Next]_vars
                 PROVE  [Lock!LockNext]_(Lock!lockVars)
      OBVIOUS
    <2> USE DEF IInv, TypeOK, Goto, Lock!lockVars
    <2>1. CASE UNCHANGED vars
      BY <2>1 DEF vars
    <2>2. ASSUME NEW p \in Procs, Step(p)
          PROVE  [Lock!LockNext]_(Lock!lockVars)
      <3>1. CASE ReaderCount(p) \/ FirstReader(p)
        <4>1. CASE pc'[p] = "r_rsc"
          BY <3>1, <4>1 DEF ReaderCount, FirstReader
        <4>2. CASE pc'[p] = "r_unlock"
          <5>1. Lock!ReaderEnter(p)
            BY <3>1, <4>2 DEF ReaderCount, FirstReader, Lock!ReaderEnter,
                 Lock!Outside, TryOwned, TryByReader, TryByWriters, WCounted
          <5> QED
            BY <5>1 DEF Lock!LockNext
        <4> QED
          BY <3>1, <4>1, <4>2 DEF ReaderCount, FirstReader
      <3>2. CASE StopRead(p)
        BY <3>2 DEF StopRead, Lock!LockNext, Lock!ReaderLeave
      <3>3. CASE WriterCount(p) \/ FirstWriter(p)
        <4>1. CASE pc'[p] = "w_try"
          BY <3>3, <4>1 DEF WriterCount, FirstWriter
        <4>2. CASE pc'[p] = "w_unlock"
          <5>1. Lock!WriterAnnounce(p)
            BY <3>3, <4>2 DEF WriterCount, FirstWriter, Lock!WriterAnnounce,
                 Lock!Outside
          <5> QED
            BY <5>1 DEF Lock!LockNext
        <4> QED
          BY <3>3, <4>1, <4>2 DEF WriterCount, FirstWriter
      <3>4. CASE WriterEntered(p)
        <4>1. In(RscByWriter \cup RscByReaders) = {}
          BY <3>4 DEF WriterEntered, Wait, RscOwned
        <4>2. Lock!WriterEnter(p)
          BY <3>4, <4>1 DEF WriterEntered, Lock!WriterEnter, RscByWriter,
               RscByReaders, RCounted
        <4> QED
          BY <4>2 DEF Lock!LockNext
      <3>5. CASE StopWrite(p)
        BY <3>5 DEF StopWrite, Lock!LockNext, Lock!WriterLeave
      <3>6. CASE StartRead(p) \/ StartWrite(p) \/ Die(p)
        BY <3>6 DEF StartRead, StartWrite, Die
      <3>7. CASE Read(p) /\ ~ReaderCount(p) /\ ~FirstReader(p) /\ ~StopRead(p)
        BY <3>7 DEF Read, ReaderTry, ReaderLock, ReaderUnlock, ReaderEntered,
             ReaderExitLock, ReaderUncount, LastReader, ReaderExitUnlock
      <3>8. CASE Write(p) /\ ~WriterCount(p) /\ ~FirstWriter(p)
                 /\ ~WriterEntered(p) /\ ~StopWrite(p)
        BY <3>8 DEF Write, WriterLock, WriterUnlock, WriterRelease,
             WriterExitLock, WriterUncount, LastWriter, WriterExitUnlock
      <3> QED
        BY <2>2, <3>1, <3>2, <3>3, <3>4, <3>5, <3>6, <3>7, <3>8 DEF Step
    <2> QED
      BY <2>1, <2>2 DEF Next
  <1> QED
    BY <1>1, <1>2, Invariance, PTL DEF Spec, LockRefinement, Lock!LockSpec

-----------------------------------------------------------------------------
(* SharedFiles.                                                            *)

(* How many files there are at the start, and where.                       *)
LEMMA InitialFacts ==
  /\ Len(Initial) \in Nat /\ Len(Initial) <= Capacity
  /\ Capacity \in Nat /\ FarOut \in Nat /\ Capacity < FarOut
  /\ Known \subseteq Files
  /\ \A i \in Slots : i < Len(Initial) => Initial[i + 1] \in Known
  /\ \A f \in Known : \E i \in Slots : i < Len(Initial) /\ f = Initial[i + 1]
  /\ \A i, j \in Slots : i < Len(Initial) /\ j < Len(Initial)
                         /\ Initial[i + 1] = Initial[j + 1] => i = j
  /\ \A i \in Slots : i \in Nat /\ i < FarOut
  /\ \A i \in Nat : i < FarOut => i \in Slots
  /\ \A f \in Files : Bytes[f] \in 1 .. FarOut
  <1>1. /\ Len(Initial) \in Nat /\ Len(Initial) <= Capacity
        /\ Capacity \in Nat /\ FarOut \in Nat /\ Capacity < FarOut
    BY TableAssumption
  <1>2. \A i \in 1 .. Len(Initial) : Initial[i] \in Files
    BY TableAssumption
  <1>3. /\ \A i \in Slots : i \in Nat /\ i < FarOut
        /\ \A i \in Nat : i < FarOut => i \in Slots
    BY <1>1 DEF Slots
  <1>4. \A i \in Slots : i < Len(Initial) => i + 1 \in 1 .. Len(Initial)
    BY <1>1, <1>3
  <1>5. \A f \in Known : \E i \in Slots : i < Len(Initial) /\ f = Initial[i + 1]
    <2>1. SUFFICES ASSUME NEW k \in 1 .. Len(Initial)
                   PROVE  \E i \in Slots : /\ i < Len(Initial)
                                          /\ Initial[k] = Initial[i + 1]
      BY DEF Known
    <2>2. k - 1 \in Slots /\ k - 1 < Len(Initial) /\ (k - 1) + 1 = k
      BY <1>1, <1>3
    <2> QED BY <2>2
  <1>6. \A i, j \in Slots : i < Len(Initial) /\ j < Len(Initial)
                           /\ Initial[i + 1] = Initial[j + 1] => i = j
    <2>1. SUFFICES ASSUME NEW i \in Slots, NEW j \in Slots,
                          i < Len(Initial), j < Len(Initial),
                          Initial[i + 1] = Initial[j + 1]
                   PROVE  i = j
      OBVIOUS
    <2>2. i + 1 = j + 1
      BY <2>1, <1>4, TableAssumption
    <2> QED BY <2>2, <1>3
  <1>7. \A f \in Files : Bytes[f] \in 1 .. FarOut
    BY TableAssumption
  <1> QED
    BY <1>1, <1>2, <1>3, <1>4, <1>5, <1>6, <1>7 DEF Known

(* Which slot get_sfile finds: a file of the start its own, another file   *)
(* one that carries its name, or the bytes of size.                        *)
LEMMA FoundSlot ==
  ASSUME TableTypeOK, NEW c \in Children, Found(c)
  PROVE  /\ at'[c] \in Slots /\ at'[c] < size
         /\ at'[c] # Capacity => names[at'[c]] = file[c]
         /\ InitialKept /\ file[c] \in Known =>
              at'[c] < Len(Initial) /\ file[c] = Initial[at'[c] + 1]
         /\ InitialKept /\ file[c] \notin Known => at'[c] >= Len(Initial)
  <1>1. PICK i \in Slots : FirstMatch(file[c], i) /\ at' = [at EXCEPT ![c] = i]
    BY DEF Found
  <1>2. at'[c] = i /\ i < size /\ (i # Capacity => names[i] = file[c])
    BY <1>1, InitialFacts DEF TableTypeOK, FirstMatch, Matches
  <1>3. ASSUME InitialKept, file[c] \in Known
        PROVE  i < Len(Initial) /\ file[c] = Initial[i + 1]
    <2>1. PICK k \in Slots : k < Len(Initial) /\ file[c] = Initial[k + 1]
      BY <1>3, InitialFacts
    <2>2. k \in Matches(file[c])
      BY <1>3, <2>1, InitialFacts DEF Matches, InitialKept, TableTypeOK
    <2>3. i <= k
      BY <1>1, <2>2 DEF FirstMatch
    <2> QED
      BY <1>2, <1>3, <2>1, <2>3, InitialFacts DEF InitialKept
  <1>4. ASSUME InitialKept, file[c] \notin Known
        PROVE  i >= Len(Initial)
    BY <1>2, <1>4, InitialFacts DEF InitialKept
  <1> QED
    BY <1>2, <1>3, <1>4

(* get_sfile misses no file of the start.                                  *)
LEMMA MissedFile ==
  ASSUME TableTypeOK, InitialKept, NEW c \in Children, Missed(c)
  PROVE  file[c] \in Files /\ file[c] \notin Known
  <1>1. file[c] \in Files
    BY DEF TableTypeOK, Missed, Goes
  <1>2. ASSUME file[c] \in Known PROVE FALSE
    <2>1. PICK k \in Slots : k < Len(Initial) /\ file[c] = Initial[k + 1]
      BY <1>2, InitialFacts
    <2>2. k \in Matches(file[c])
      BY <2>1, InitialFacts DEF Matches, InitialKept, TableTypeOK
    <2> QED
      BY <2>2 DEF Missed
  <1> QED
    BY <1>1, <1>2

(* Every step leaves each variable in its type.                            *)
LEMMA Typed ==
  ASSUME TableTypeOK, [TableNext]_tableVars
  PROVE  TableTypeOK'
  <1>. USE DEF table, history, Goes, Dies, Forgets
  <1>1. ASSUME NEW c \in Children, NEW f \in Files,
               NEW m \in {"read", "write"}, Request(c, f, m)
        PROVE  TableTypeOK'
    BY <1>1, InitialFacts DEF Request, TableTypeOK, AddSteps
  <1>2. ASSUME NEW c \in Children, Found(c)
        PROVE  TableTypeOK'
    BY <1>2, InitialFacts, FoundSlot DEF Found, TableTypeOK, AddSteps
  <1>3. ASSUME NEW c \in Children, Missed(c)
        PROVE  TableTypeOK'
    BY <1>3, InitialFacts DEF Missed, TableTypeOK, AddSteps
  <1>4. ASSUME NEW c \in Children, RunsOff(c)
        PROVE  TableTypeOK'
    BY <1>4, InitialFacts DEF RunsOff, TableTypeOK, AddSteps
  <1>5. ASSUME NEW c \in Children, Full(c)
        PROVE  TableTypeOK'
    BY <1>5, InitialFacts DEF Full, TableTypeOK, AddSteps
  <1>6. ASSUME NEW c \in Children, HasRoom(c)
        PROVE  TableTypeOK'
    BY <1>6, InitialFacts DEF HasRoom, TableTypeOK, AddSteps
  <1>7. ASSUME NEW c \in Children, TakeIndex(c)
        PROVE  TableTypeOK'
    BY <1>7, InitialFacts DEF TakeIndex, TableTypeOK, AddSteps
  <1>8. ASSUME NEW c \in Children, CopyName(c)
        PROVE  TableTypeOK'
    <2>1. file[c] \in Files
      BY <1>8 DEF CopyName, TableTypeOK
    <2>2. CASE at[c] # Capacity
      <3>1. names' \in [Slots -> Files \cup {NONE}]
        BY <1>8, <2>1, <2>2 DEF CopyName, TableTypeOK
      <3> QED
        BY <1>8, <2>1, <2>2, <3>1, InitialFacts DEF CopyName, TableTypeOK, AddSteps
    <2>3. CASE at[c] = Capacity
      <3>1. size' \in 1 .. FarOut /\ capa' \in 0 .. FarOut /\ cut' \in BOOLEAN
        BY <1>8, <2>1, <2>3, InitialFacts DEF CopyName, TableTypeOK
      <3> QED
        BY <1>8, <2>1, <2>3, <3>1, InitialFacts DEF CopyName, TableTypeOK, AddSteps
    <2> QED
      BY <2>2, <2>3
  <1>9. ASSUME NEW c \in Children, CopyFarOut(c)
        PROVE  TableTypeOK'
    BY <1>9, InitialFacts DEF CopyFarOut, TableTypeOK, AddSteps
  <1>10. ASSUME NEW c \in Children, InitLocks(c)
        PROVE  TableTypeOK'
    BY <1>10, InitialFacts DEF InitLocks, TableTypeOK, AddSteps
  <1>11. ASSUME NEW c \in Children, LoadSize(c)
        PROVE  TableTypeOK'
    BY <1>11, InitialFacts DEF LoadSize, TableTypeOK, AddSteps
  <1>12. ASSUME NEW c \in Children, StoreSize(c)
        PROVE  TableTypeOK'
    BY <1>12, InitialFacts DEF StoreSize, TableTypeOK, AddSteps, Incremented
  <1>13. ASSUME NEW c \in Children, ReturnSlot(c)
        PROVE  TableTypeOK'
    BY <1>13, InitialFacts DEF ReturnSlot, TableTypeOK, AddSteps, InitialKept
  <1>14. ASSUME NEW c \in Children, Enter(c)
        PROVE  TableTypeOK'
    BY <1>14, InitialFacts DEF Enter, TableTypeOK, AddSteps
  <1>15. ASSUME NEW c \in Children, EnterFarOut(c)
        PROVE  TableTypeOK'
    BY <1>15, InitialFacts DEF EnterFarOut, TableTypeOK, AddSteps
  <1>16. ASSUME NEW c \in Children, Leave(c)
        PROVE  TableTypeOK'
    BY <1>16, InitialFacts DEF Leave, TableTypeOK, AddSteps
  <1>17. CASE UNCHANGED tableVars
    BY <1>17 DEF tableVars, TableTypeOK, AddSteps
  <1> QED
    BY <1>1, <1>2, <1>3, <1>4, <1>5, <1>6, <1>7, <1>8, <1>9, <1>10, <1>11,
       <1>12, <1>13, <1>14, <1>15, <1>16, <1>17 DEF TableNext, TableStep

(* No step touches the slots of the files of the start.                    *)
LEMMA InitialStay ==
  ASSUME TableTypeOK, ~cut => InitialKept, [TableNext]_tableVars
  PROVE  (~cut => InitialKept)'
  <1>. USE DEF table, history, Goes, Dies, Forgets
  <1>1. ASSUME NEW c \in Children, NEW f \in Files,
               NEW m \in {"read", "write"}, Request(c, f, m)
        PROVE  (~cut => InitialKept)'
    BY <1>1, InitialFacts DEF Request, InitialKept, TableTypeOK, Adding, Using,
       AddSteps
  <1>2. ASSUME NEW c \in Children, Found(c)
        PROVE  (~cut => InitialKept)'
    <2>1. PICK i \in Slots : at' = [at EXCEPT ![c] = i]
      BY <1>2 DEF Found
    <2>2. ~cut =>
            /\ file[c] \in Known => i < Len(Initial) /\ file[c] = Initial[i + 1]
            /\ file[c] \notin Known => i >= Len(Initial)
      BY <1>2, <2>1, FoundSlot DEF TableTypeOK
    <2>3. SUFFICES ASSUME ~cut, InitialKept
                   PROVE  InitialKept'
      BY <1>2 DEF Found
    <2>4. /\ UNCHANGED <<names, ready, spoilt, size, file>>
          /\ step' = [step EXCEPT ![c] = "enter"] /\ step[c] = "look"
      BY <1>2 DEF Found
    <2>5. \A d \in Children :
            /\ step'[d] \in {"name", "locks", "store"} => at'[d] >= Len(Initial)
            /\ step'[d] = "return" => size' > Len(Initial)
            /\ Adding(d)' => file'[d] \notin Known
      BY <2>1, <2>3, <2>4 DEF InitialKept, TableTypeOK, Adding, AddSteps
    <2>6. ASSUME NEW d \in Children, Using(d)'
          PROVE  /\ file'[d] \notin Known => at'[d] >= Len(Initial)
                 /\ file'[d] \in Known =>
                      at'[d] < Len(Initial) /\ file'[d] = Initial[at'[d] + 1]
      <3>1. CASE d = c
        <4>1. at'[d] = i /\ file'[d] = file[c]
          BY <2>1, <2>4, <3>1 DEF TableTypeOK
        <4>2. /\ file[c] \in Known => i < Len(Initial) /\ file[c] = Initial[i + 1]
              /\ file[c] \notin Known => i >= Len(Initial)
          BY <2>2, <2>3, Zenon
        <4> QED
          BY <4>1, <4>2
      <3>2. CASE d # c
        BY <2>1, <2>3, <2>4, <2>6, <3>2 DEF InitialKept, TableTypeOK, Using
      <3> QED
        BY <3>1, <3>2
    <2> QED
      BY <2>3, <2>4, <2>5, <2>6 DEF InitialKept
  <1>3. ASSUME NEW c \in Children, Missed(c)
        PROVE  (~cut => InitialKept)'
    BY <1>3, InitialFacts, MissedFile DEF Missed, InitialKept, TableTypeOK, Adding,
       Using, AddSteps
  <1>4. ASSUME NEW c \in Children, RunsOff(c)
        PROVE  (~cut => InitialKept)'
    BY <1>4, InitialFacts DEF RunsOff, InitialKept, TableTypeOK, Adding, Using,
       AddSteps
  <1>5. ASSUME NEW c \in Children, Full(c)
        PROVE  (~cut => InitialKept)'
    BY <1>5, InitialFacts DEF Full, InitialKept, TableTypeOK, Adding, Using,
       AddSteps
  <1>6. ASSUME NEW c \in Children, HasRoom(c)
        PROVE  (~cut => InitialKept)'
    BY <1>6, InitialFacts DEF HasRoom, InitialKept, TableTypeOK, Adding, Using,
       AddSteps
  <1>7. ASSUME NEW c \in Children, TakeIndex(c)
        PROVE  (~cut => InitialKept)'
    BY <1>7, InitialFacts DEF TakeIndex, InitialKept, TableTypeOK, Adding, Using,
       AddSteps
  <1>8. ASSUME NEW c \in Children, CopyName(c)
        PROVE  (~cut => InitialKept)'
    <2>1. SUFFICES ASSUME ~cut, ~cut', InitialKept
                   PROVE  InitialKept'
      <3>1. ~cut' => ~cut
        BY <1>8 DEF CopyName
      <3> QED
        BY <3>1
    <2>2. /\ size' >= Len(Initial)
          /\ \A d \in Children : step[d] = "return" => size' > Len(Initial)
      <3>1. CASE at[c] # Capacity
        BY <1>8, <2>1, <3>1, InitialFacts DEF CopyName, InitialKept, TableTypeOK
      <3>2. CASE at[c] = Capacity
        <4>1. size' \in 1 .. FarOut
          BY <1>8, <3>2, InitialFacts DEF CopyName, TableTypeOK
        <4>2. ~(size' <= Len(Initial))
          <5>1. cut' = (cut \/ size' <= Len(Initial))
            BY <1>8, <3>2 DEF CopyName
          <5> QED
            BY <2>1, <5>1, Zenon
        <4>3. size' > Len(Initial)
          BY <4>1, <4>2, InitialFacts
        <4> QED
          BY <4>1, <4>3, InitialFacts
      <3> QED
        BY <3>1, <3>2
    <2>3. at[c] >= Len(Initial) /\ UNCHANGED <<ready, spoilt, file, at>>
      BY <1>8, <2>1 DEF CopyName, InitialKept
    <2>4. \A i \in Slots : i < Len(Initial) => names'[i] = names[i]
      BY <1>8, <2>3, InitialFacts DEF CopyName, TableTypeOK
    <2>5. \A d \in Children :
            step'[d] = step[d] \/ (d = c /\ step[c] = "name" /\ step'[c] = "locks")
      BY <1>8 DEF CopyName, TableTypeOK
    <2>6. \A d \in Children : step'[d] = "return" => step[d] = "return"
      BY <2>5
    <2> QED
      BY <2>1, <2>2, <2>3, <2>4, <2>5, <2>6 DEF InitialKept, Adding, Using,
         AddSteps
  <1>9. ASSUME NEW c \in Children, CopyFarOut(c)
        PROVE  (~cut => InitialKept)'
    BY <1>9, InitialFacts DEF CopyFarOut, InitialKept, TableTypeOK, Adding, Using,
       AddSteps
  <1>10. ASSUME NEW c \in Children, InitLocks(c)
        PROVE  (~cut => InitialKept)'
    BY <1>10, InitialFacts DEF InitLocks, InitialKept, TableTypeOK, Adding, Using,
       AddSteps
  <1>11. ASSUME NEW c \in Children, LoadSize(c)
        PROVE  (~cut => InitialKept)'
    BY <1>11, InitialFacts DEF LoadSize, InitialKept, TableTypeOK, Adding, Using,
       AddSteps
  <1>12. ASSUME NEW c \in Children, StoreSize(c)
        PROVE  (~cut => InitialKept)'
    BY <1>12, InitialFacts DEF StoreSize, InitialKept, TableTypeOK, Adding, Using,
       AddSteps, Incremented
  <1>13. ASSUME NEW c \in Children, ReturnSlot(c)
        PROVE  (~cut => InitialKept)'
    BY <1>13, InitialFacts DEF ReturnSlot, InitialKept, TableTypeOK, Adding, Using,
       AddSteps
  <1>14. ASSUME NEW c \in Children, Enter(c)
        PROVE  (~cut => InitialKept)'
    BY <1>14, InitialFacts DEF Enter, InitialKept, TableTypeOK, Adding, Using,
       AddSteps
  <1>15. ASSUME NEW c \in Children, EnterFarOut(c)
        PROVE  (~cut => InitialKept)'
    BY <1>15, InitialFacts DEF EnterFarOut, InitialKept, TableTypeOK, Adding,
       Using, AddSteps
  <1>16. ASSUME NEW c \in Children, Leave(c)
        PROVE  (~cut => InitialKept)'
    BY <1>16, InitialFacts DEF Leave, InitialKept, TableTypeOK, Adding, Using,
       AddSteps
  <1>17. CASE UNCHANGED tableVars
    BY <1>17 DEF tableVars, InitialKept, TableTypeOK, Adding, Using, AddSteps
  <1> QED
    BY <1>1, <1>2, <1>3, <1>4, <1>5, <1>6, <1>7, <1>8, <1>9, <1>10, <1>11,
       <1>12, <1>13, <1>14, <1>15, <1>16, <1>17 DEF TableNext, TableStep

(* Every step leaves those inside the same slot compatible.                *)
LEMMA Excluding ==
  ASSUME TableTypeOK, RegionsExclude, [TableNext]_tableVars
  PROVE  RegionsExclude'
  <1>. USE DEF table, history, Goes, Dies, Forgets
  <1>1. ASSUME NEW c \in Children, NEW f \in Files,
               NEW m \in {"read", "write"}, Request(c, f, m)
        PROVE  RegionsExclude'
    BY <1>1, InitialFacts DEF Request, RegionsExclude, TableTypeOK
  <1>2. ASSUME NEW c \in Children, Found(c)
        PROVE  RegionsExclude'
    BY <1>2, InitialFacts DEF Found, RegionsExclude, TableTypeOK
  <1>3. ASSUME NEW c \in Children, Missed(c)
        PROVE  RegionsExclude'
    BY <1>3, InitialFacts DEF Missed, RegionsExclude, TableTypeOK
  <1>4. ASSUME NEW c \in Children, RunsOff(c)
        PROVE  RegionsExclude'
    BY <1>4, InitialFacts DEF RunsOff, RegionsExclude, TableTypeOK
  <1>5. ASSUME NEW c \in Children, Full(c)
        PROVE  RegionsExclude'
    BY <1>5, InitialFacts DEF Full, RegionsExclude, TableTypeOK
  <1>6. ASSUME NEW c \in Children, HasRoom(c)
        PROVE  RegionsExclude'
    BY <1>6, InitialFacts DEF HasRoom, RegionsExclude, TableTypeOK
  <1>7. ASSUME NEW c \in Children, TakeIndex(c)
        PROVE  RegionsExclude'
    BY <1>7, InitialFacts DEF TakeIndex, RegionsExclude, TableTypeOK
  <1>8. ASSUME NEW c \in Children, CopyName(c)
        PROVE  RegionsExclude'
    BY <1>8, InitialFacts DEF CopyName, RegionsExclude, TableTypeOK
  <1>9. ASSUME NEW c \in Children, CopyFarOut(c)
        PROVE  RegionsExclude'
    BY <1>9, InitialFacts DEF CopyFarOut, RegionsExclude, TableTypeOK
  <1>10. ASSUME NEW c \in Children, InitLocks(c)
        PROVE  RegionsExclude'
    BY <1>10, InitialFacts DEF InitLocks, RegionsExclude, TableTypeOK
  <1>11. ASSUME NEW c \in Children, LoadSize(c)
        PROVE  RegionsExclude'
    BY <1>11, InitialFacts DEF LoadSize, RegionsExclude, TableTypeOK
  <1>12. ASSUME NEW c \in Children, StoreSize(c)
        PROVE  RegionsExclude'
    BY <1>12, InitialFacts DEF StoreSize, RegionsExclude, TableTypeOK
  <1>13. ASSUME NEW c \in Children, ReturnSlot(c)
        PROVE  RegionsExclude'
    BY <1>13, InitialFacts DEF ReturnSlot, RegionsExclude, TableTypeOK
  <1>14. ASSUME NEW c \in Children, Enter(c)
        PROVE  RegionsExclude'
    BY <1>14, InitialFacts DEF Enter, RegionsExclude, TableTypeOK, Compatible
  <1>15. ASSUME NEW c \in Children, EnterFarOut(c)
        PROVE  RegionsExclude'
    BY <1>15, InitialFacts DEF EnterFarOut, RegionsExclude, TableTypeOK
  <1>16. ASSUME NEW c \in Children, Leave(c)
        PROVE  RegionsExclude'
    BY <1>16, InitialFacts DEF Leave, RegionsExclude, TableTypeOK
  <1>17. CASE UNCHANGED tableVars
    BY <1>17 DEF tableVars, RegionsExclude, TableTypeOK
  <1> QED
    BY <1>1, <1>2, <1>3, <1>4, <1>5, <1>6, <1>7, <1>8, <1>9, <1>10, <1>11,
       <1>12, <1>13, <1>14, <1>15, <1>16, <1>17 DEF TableNext, TableStep

(* As long as no two children add at once, the table stays in order.       *)
LEMMA Undisturbed ==
  ASSUME TableTypeOK, ~cut => InitialKept, ~raced => OneAdds /\ OneSlot, [TableNext]_tableVars
  PROVE  (~raced => OneAdds /\ OneSlot)'
  <1>. USE DEF table, history, Goes, Dies, Forgets
  <1>1. ASSUME NEW c \in Children, NEW f \in Files,
               NEW m \in {"read", "write"}, Request(c, f, m)
        PROVE  (~raced => OneAdds /\ OneSlot)'
    BY <1>1, InitialFacts DEF Request, OneAdds, OneSlot, TableTypeOK, Adding,
       Using, AddSteps, Matches
  <1>2. ASSUME NEW c \in Children, Found(c)
        PROVE  (~raced => OneAdds /\ OneSlot)'
    <2>1. PICK i \in Slots : at' = [at EXCEPT ![c] = i]
      BY <1>2 DEF Found
    <2>2. i < size /\ (~raced => names[i] = file[c])
      BY <1>2, <2>1, FoundSlot, InitialFacts DEF TableTypeOK, OneAdds
    <2> QED
      BY <1>2, <2>1, <2>2, InitialFacts
      DEF Found, OneAdds, OneSlot, TableTypeOK, Adding, Using, AddSteps, Matches
  <1>3. ASSUME NEW c \in Children, Missed(c)
        PROVE  (~raced => OneAdds /\ OneSlot)'
    <2>1. SUFFICES ASSUME ~raced, \A d \in Children : ~Adding(d)
                   PROVE  OneAdds' /\ OneSlot'
      BY <1>3 DEF Missed
    <2>2. OneAdds'
      BY <1>3, <2>1, InitialFacts
      DEF Missed, OneAdds, TableTypeOK, Adding, AddSteps, Matches
    <2>3. OneSlot'
      BY <1>3, <2>1, InitialFacts DEF Missed, OneSlot, TableTypeOK, Using
    <2> QED
      BY <2>2, <2>3
  <1>4. ASSUME NEW c \in Children, RunsOff(c)
        PROVE  (~raced => OneAdds /\ OneSlot)'
    BY <1>4, InitialFacts DEF RunsOff, OneAdds, OneSlot, TableTypeOK, Adding,
       Using, AddSteps, Matches
  <1>5. ASSUME NEW c \in Children, Full(c)
        PROVE  (~raced => OneAdds /\ OneSlot)'
    BY <1>5, InitialFacts DEF Full, OneAdds, OneSlot, TableTypeOK, Adding, Using,
       AddSteps, Matches
  <1>6. ASSUME NEW c \in Children, HasRoom(c)
        PROVE  (~raced => OneAdds /\ OneSlot)'
    BY <1>6, InitialFacts DEF HasRoom, OneAdds, OneSlot, TableTypeOK, Adding,
       Using, AddSteps, Matches
  <1>7. ASSUME NEW c \in Children, TakeIndex(c)
        PROVE  (~raced => OneAdds /\ OneSlot)'
    BY <1>7, InitialFacts DEF TakeIndex, OneAdds, OneSlot, TableTypeOK, Adding,
       Using, AddSteps, Matches
  <1>8. ASSUME NEW c \in Children, CopyName(c)
        PROVE  (~raced => OneAdds /\ OneSlot)'
    <2>1. SUFFICES ASSUME ~raced
                   PROVE  OneAdds' /\ OneSlot'
      BY <1>8 DEF CopyName
    <2>2. /\ at[c] = size /\ size < Capacity /\ size \in Slots
          /\ file[c] \in Files /\ Matches(file[c]) = {}
          /\ \A d \in Children : Adding(d) => d = c
      <3>1. step[c] = "name" /\ Adding(c)
        BY <1>8 DEF CopyName, Adding, AddSteps
      <3>2. OneAdds /\ file[c] \in Files
        BY <2>1, <3>1 DEF TableTypeOK
      <3> QED
        BY <3>1, <3>2, InitialFacts DEF OneAdds, TableTypeOK, AddSteps
    <2>3. /\ names' = [names EXCEPT ![size] = file[c]]
          /\ UNCHANGED <<ready, spoilt, size, capa, cut, file, at>>
      BY <1>8, <2>2, InitialFacts DEF CopyName
    <2>4. \A i \in Slots : i < size => names'[i] = names[i]
      BY <2>3, InitialFacts DEF TableTypeOK
    <2>5. Matches(file[c])' = {} /\ names'[size'] = file'[c]
      BY <2>2, <2>3, <2>4 DEF Matches, TableTypeOK
    <2>6. OneAdds'
      BY <1>8, <2>1, <2>2, <2>3, <2>5 DEF CopyName, OneAdds, TableTypeOK, Adding,
         AddSteps
    <2>7. OneSlot'
      BY <1>8, <2>1, <2>2, <2>3, <2>4, InitialFacts DEF CopyName, OneSlot,
         TableTypeOK, Using
    <2> QED
      BY <2>6, <2>7
  <1>9. ASSUME NEW c \in Children, CopyFarOut(c)
        PROVE  (~raced => OneAdds /\ OneSlot)'
    BY <1>9, InitialFacts DEF CopyFarOut, OneAdds, OneSlot, TableTypeOK, Adding,
       Using, AddSteps, Matches
  <1>10. ASSUME NEW c \in Children, InitLocks(c)
        PROVE  (~raced => OneAdds /\ OneSlot)'
    BY <1>10, InitialFacts DEF InitLocks, OneAdds, OneSlot, TableTypeOK, Adding,
       Using, AddSteps, Matches
  <1>11. ASSUME NEW c \in Children, LoadSize(c)
        PROVE  (~raced => OneAdds /\ OneSlot)'
    BY <1>11, InitialFacts DEF LoadSize, OneAdds, OneSlot, TableTypeOK, Adding,
       Using, AddSteps, Matches
  <1>12. ASSUME NEW c \in Children, StoreSize(c)
        PROVE  (~raced => OneAdds /\ OneSlot)'
    <2>1. SUFFICES ASSUME ~raced
                   PROVE  OneAdds' /\ OneSlot'
      BY <1>12 DEF StoreSize
    <2>2. /\ at[c] = size /\ size < Capacity /\ size' = size + 1 /\ size \in Slots
          /\ names[size] = file[c] /\ size \in ready /\ Matches(file[c]) = {}
          /\ file[c] \in Files
          /\ \A d \in Children : Adding(d) => d = c
      BY <1>12, <2>1, InitialFacts
      DEF StoreSize, OneAdds, TableTypeOK, Adding, AddSteps, Incremented
    <2>3. OneAdds'
      BY <1>12, <2>1, <2>2, InitialFacts
      DEF StoreSize, OneAdds, TableTypeOK, Adding, AddSteps
    <2>4. OneSlot'
      <3>1. \A i \in Slots : i < size' => i < size \/ i = size
        BY <2>2, InitialFacts DEF TableTypeOK
      <3>2. \A i \in Slots : i < size => names[i] # file[c]
        BY <2>2 DEF Matches
      <3>3. UNCHANGED <<names, ready, file, at>>
        BY <1>12 DEF StoreSize
      <3>4. \A i \in Slots : i < size' => i \in ready' /\ names'[i] \in Files
        BY <2>1, <2>2, <3>1, <3>3 DEF OneSlot
      <3>5. \A i, j \in Slots :
              i < size' /\ j < size' /\ names'[i] = names'[j] => i = j
        BY <2>1, <2>2, <3>1, <3>2, <3>3 DEF OneSlot
      <3>6. \A d \in Children :
              Using(d)' => at'[d] < size' /\ names'[at'[d]] = file'[d]
        BY <1>12, <2>1, <2>2, <3>3 DEF OneSlot, StoreSize, Using, TableTypeOK
      <3> QED
        BY <3>4, <3>5, <3>6 DEF OneSlot
    <2> QED
      BY <2>3, <2>4
  <1>13. ASSUME NEW c \in Children, ReturnSlot(c)
        PROVE  (~raced => OneAdds /\ OneSlot)'
    BY <1>13, InitialFacts DEF ReturnSlot, OneAdds, OneSlot, TableTypeOK, Adding,
       Using, AddSteps, Matches
  <1>14. ASSUME NEW c \in Children, Enter(c)
        PROVE  (~raced => OneAdds /\ OneSlot)'
    BY <1>14, InitialFacts DEF Enter, OneAdds, OneSlot, TableTypeOK, Adding, Using,
       AddSteps, Matches
  <1>15. ASSUME NEW c \in Children, EnterFarOut(c)
        PROVE  (~raced => OneAdds /\ OneSlot)'
    BY <1>15, InitialFacts DEF EnterFarOut, OneAdds, OneSlot, TableTypeOK, Adding,
       Using, AddSteps, Matches
  <1>16. ASSUME NEW c \in Children, Leave(c)
        PROVE  (~raced => OneAdds /\ OneSlot)'
    BY <1>16, InitialFacts DEF Leave, OneAdds, OneSlot, TableTypeOK, Adding, Using,
       AddSteps, Matches
  <1>17. CASE UNCHANGED tableVars
    BY <1>17 DEF tableVars, OneAdds, OneSlot, TableTypeOK, Adding, Using, AddSteps,
       Matches
  <1> QED
    BY <1>1, <1>2, <1>3, <1>4, <1>5, <1>6, <1>7, <1>8, <1>9, <1>10, <1>11,
       <1>12, <1>13, <1>14, <1>15, <1>16, <1>17 DEF TableNext, TableStep

(* The invariant holds in every reachable state of the table.              *)
THEOREM TableInvariance == TableSpec => []TableIInv
  <1>1. TableInit => TableIInv
    <2>1. SUFFICES ASSUME TableInit PROVE TableIInv
      OBVIOUS
    <2>2. TableTypeOK
      <3>1. names \in [Slots -> Files \cup {NONE}]
        BY <2>1, InitialFacts DEF TableInit
      <3>2. size \in 0 .. FarOut /\ 0 \in 0 .. FarOut /\ capa \in 0 .. FarOut
        BY <2>1, InitialFacts DEF TableInit
      <3> QED
        BY <2>1, <3>1, <3>2 DEF TableInit, TableTypeOK
    <2>3. \A c \in Children : ~Adding(c) /\ ~Using(c) /\ step[c] = "idle"
      BY <2>1 DEF TableInit, Adding, Using, AddSteps
    <2>4. InitialKept
      BY <2>1, <2>3, InitialFacts DEF TableInit, InitialKept
    <2>5. OneAdds
      BY <2>1, <2>3, InitialFacts DEF TableInit, OneAdds, AddSteps
    <2>6. OneSlot
      BY <2>1, <2>3, InitialFacts DEF TableInit, OneSlot
    <2>7. RegionsExclude
      BY <2>3 DEF RegionsExclude
    <2> QED
      BY <2>2, <2>4, <2>5, <2>6, <2>7 DEF TableIInv
  <1>2. TableIInv /\ [TableNext]_tableVars => TableIInv'
    BY Typed, InitialStay, Excluding, Undisturbed DEF TableIInv
  <1> QED
    BY <1>1, <1>2, PTL DEF TableSpec

(* Whoever writes a file of the start is alone with it unless a name that  *)
(* was written over size has cut it down, and whoever writes any file is   *)
(* unless two children added files at once; nobody waits at semaphores     *)
(* that were never initialised.                                            *)
THEOREM LocksAgree == TableSpec => []OneLockPerFile
  <1>1. TableIInv => OneLockPerFile
    <2>1. SUFFICES ASSUME TableIInv, NEW c \in Children, NEW d \in Children,
                          (file[c] \in Known /\ ~cut) \/ ~raced
                   PROVE  /\ c # d /\ step[c] = "inside" /\ step[d] = "inside"
                             /\ file[c] = file[d]
                             => mode[c] = "read" /\ mode[d] = "read"
                          /\ Using(c) => at[c] \in ready
      BY DEF OneLockPerFile
    <2>2. CASE file[c] \in Known /\ ~cut
      <3>1. ASSUME NEW e \in Children, Using(e), file[e] \in Known
            PROVE  /\ at[e] \in Slots /\ at[e] \in ready /\ at[e] \notin spoilt
                   /\ at[e] < Len(Initial) /\ file[e] = Initial[at[e] + 1]
        BY <2>1, <2>2, <3>1, InitialFacts DEF TableIInv, TableTypeOK, InitialKept
      <3>2. ASSUME Using(c), Using(d), file[c] = file[d]
            PROVE  at[c] = at[d]
        BY <2>2, <3>1, <3>2, InitialFacts
      <3> QED
        BY <2>1, <2>2, <3>1, <3>2 DEF Using, TableIInv, RegionsExclude
    <2>3. CASE ~raced
      <3>1. ASSUME NEW e \in Children, Using(e)
            PROVE  /\ at[e] \in Slots /\ at[e] \in ready /\ at[e] < size
                   /\ names[at[e]] = file[e]
        BY <2>1, <2>3, <3>1, InitialFacts DEF TableIInv, TableTypeOK, OneAdds, OneSlot
      <3>2. ASSUME Using(c), Using(d), file[c] = file[d]
            PROVE  at[c] = at[d]
        BY <2>1, <2>3, <3>1, <3>2 DEF TableIInv, OneSlot
      <3> QED
        BY <2>1, <2>3, <3>1, <3>2 DEF Using, TableIInv, RegionsExclude, OneAdds
    <2> QED
      BY <2>1, <2>2, <2>3
  <1> QED
    BY <1>1, TableInvariance, PTL
===============================================================================
