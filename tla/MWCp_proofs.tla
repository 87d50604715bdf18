------------------------------ MODULE MWCp_proofs ------------------------------
(***************************************************************************)
(* Proofs about MWCp, for any number of workers, any size of the buffer,   *)
(* any tree, and with or without the barrier.                              *)
(***************************************************************************)
EXTENDS MWCp, Integers, FiniteSetTheorems, WellFoundedInduction, TLAPS

(* Every set of natural numbers has a least one.                           *)
LEMMA NatLeast ==
  ASSUME NEW S, S \subseteq Nat, S # {}
  PROVE  \E x \in S : \A y \in S : x <= y
  <1> DEFINE R == OpToRel(<, Nat)
  <1>1. IsWellFoundedOn(R, Nat)
    BY NatLessThanWellFounded
  <1>2. \A x, y \in S : y < x => <<y, x>> \in R
    <2> SUFFICES ASSUME NEW x \in S, NEW y \in S, y < x PROVE <<y, x>> \in R
      OBVIOUS
    <2>1. <<y, x>> \in Nat \X Nat /\ <<y, x>>[1] = y /\ <<y, x>>[2] = x
      OBVIOUS
    <2>2. <<y, x>>[1] < <<y, x>>[2]
      BY <2>1
    <2>3. R = {ss \in Nat \X Nat : ss[1] < ss[2]}
      BY DEF OpToRel
    <2> QED
      BY <2>1, <2>2, <2>3
  <1> HIDE DEF R
  <1>3. PICK x \in S : \A y \in S : ~(<<y, x>> \in R)
    BY <1>1, WFMin
  <1>4. \A y \in S : ~(y < x)
    BY <1>2, <1>3
  <1>5. \A y \in S : x <= y
    BY <1>4
  <1> QED
    BY <1>5

(* The tree.                                                               *)
LEMMA TreeFacts ==
  /\ Len(Tree) \in Nat /\ Entries = 1 .. Len(Tree)
  /\ Files \subseteq Entries /\ Entries \subseteq Nat \ {0} /\ NoFile = 0
  /\ IsFiniteSet(Files)
  /\ \A e \in Entries : Tree[e].depth \in Nat
  <1>1. Len(Tree) \in Nat /\ \A e \in 1 .. Len(Tree) : Tree[e].depth \in Nat
    <2> DEFINE R == [kind : {"file", "dir", "fifo"}, depth : Nat]
    <2>1. Len(Tree) \in Nat /\ \A e \in 1 .. Len(Tree) : Tree[e] \in R
      <3> HIDE DEF R
      <3>1. Tree \in Seq(R)
        BY TreeAssumption DEF R
      <3> QED
        BY <3>1
    <2>2. \A x \in R : x.depth \in Nat
      OBVIOUS
    <2> HIDE DEF R
    <2> QED
      BY <2>1, <2>2
  <1>2. IsFiniteSet(1 .. Len(Tree))
    BY <1>1, FS_Interval
  <1>3. Files \subseteq 1 .. Len(Tree)
    BY DEF Files, Entries
  <1>4. IsFiniteSet(Files)
    BY <1>2, <1>3, FS_Subset
  <1> QED
    BY <1>1, <1>3, <1>4 DEF Entries, NoFile

LEMMA ThreadFacts ==
  /\ Manager \notin Workers /\ Manager \in Threads /\ Workers \subseteq Threads
  /\ Threads = Workers \cup {Manager} /\ Workers # {}
  /\ IsFiniteSet(Workers) /\ Cardinality(Workers) = NumWorkers
  /\ IsFiniteSet(Threads) /\ Cardinality(Threads) = NumWorkers + 1
  <1>1. Manager \notin Workers /\ 1 \in Workers
    BY NumWorkersAssumption DEF Workers, Manager
  <1>2. IsFiniteSet(Workers) /\ Cardinality(Workers) = NumWorkers
    BY NumWorkersAssumption, FS_Interval DEF Workers
  <1>3. IsFiniteSet(Threads) /\ Cardinality(Threads) = NumWorkers + 1
    BY <1>1, <1>2, FS_AddElement DEF Threads
  <1> QED
    BY <1>1, <1>2, <1>3 DEF Threads

(* The walk only goes forward.                                             *)
LEMMA FirstAboveForward ==
  ASSUME NEW e \in Entries, NEW d \in Nat
  PROVE  FirstAbove(e, d) \in e + 1 .. Len(Tree) + 1
  <1> DEFINE above == {f \in e + 1 .. Len(Tree) : Tree[f].depth < d}
  <1>1. CASE above = {}
    BY <1>1, TreeFacts DEF FirstAbove
  <1>2. CASE above # {}
    <2>1. above \subseteq Nat /\ above \subseteq e + 1 .. Len(Tree)
      BY TreeFacts
    <2>2. \E f \in above : \A g \in above : f <= g
      BY <1>2, <2>1, NatLeast
    <2>3. (CHOOSE f \in above : \A g \in above : f <= g) \in above
      BY <2>2
    <2>4. FirstAbove(e, d) \in above
      BY <1>2, <2>3 DEF FirstAbove
    <2> QED
      BY <2>1, <2>4, TreeFacts
  <1> QED
    BY <1>1, <1>2

LEMMA WalkForward ==
  ASSUME TypeOK, SkipTree \/ StopWalk, pos \in Entries
  PROVE  pos' \in pos + 1 .. Len(Tree) + 1
  <1>1. Tree[pos].depth \in Nat /\ Tree[pos].depth + 1 \in Nat
    BY TreeFacts
  <1> QED
    BY <1>1, FirstAboveForward DEF SkipTree, StopWalk, AfterBreak

-----------------------------------------------------------------------------
(* The ring.                                                               *)
LEMMA Modulo ==
  ASSUME NEW B \in Nat \ {0}, NEW i \in 0 .. 2 * B - 1
  PROVE  i % B = IF i < B THEN i ELSE i - B
  OBVIOUS

LEMMA SlotFacts ==
  ASSUME NEW B \in Nat \ {0}, NEW h \in 0 .. B - 1
  PROVE  /\ (h + 0) % B = h
         /\ \A k \in 0 .. B : (h + k) % B \in 0 .. B - 1
         /\ \A j, k \in 0 .. B - 1 : (h + j) % B = (h + k) % B => j = k
         /\ \A k \in 0 .. B - 1 : (((h + k) % B) + 1) % B = (h + (k + 1)) % B
         /\ \A k \in 0 .. B - 1 : (((h + 1) % B) + k) % B = (h + (k + 1)) % B
  <1>1. \A i \in 0 .. 2 * B - 1 : i % B = IF i < B THEN i ELSE i - B
    BY Modulo
  <1>2. (h + 0) % B = h
    BY <1>1
  <1>3. \A k \in 0 .. B : (h + k) % B \in 0 .. B - 1
    BY <1>1
  <1>4. \A j, k \in 0 .. B - 1 : (h + j) % B = (h + k) % B => j = k
    BY <1>1
  <1>5. \A k \in 0 .. B - 1 : (((h + k) % B) + 1) % B = (h + (k + 1)) % B
    BY <1>1
  <1>6. \A k \in 0 .. B - 1 : (((h + 1) % B) + k) % B = (h + (k + 1)) % B
    BY <1>1
  <1> QED
    BY <1>2, <1>3, <1>4, <1>5, <1>6

(* The slots of the buffer.                                                *)
LEMMA Ring ==
  ASSUME TypeOK
  PROVE  /\ head = Slot(0)
         /\ \A k \in 0 .. BufferSize : Slot(k) \in 0 .. BufferSize - 1
         /\ \A j, k \in 0 .. BufferSize - 1 : Slot(j) = Slot(k) => j = k
         /\ \A k \in 0 .. BufferSize - 1 :
              /\ (Slot(k) + 1) % BufferSize = Slot(k + 1)
              /\ (((head + 1) % BufferSize) + k) % BufferSize = Slot(k + 1)
  <1>1. BufferSize \in Nat \ {0} /\ head \in 0 .. BufferSize - 1
    BY BufferSizeAssumption DEF TypeOK
  <1> DEFINE B == BufferSize
             h == head
  <1>2. /\ (h + 0) % B = h
        /\ \A k \in 0 .. B : (h + k) % B \in 0 .. B - 1
        /\ \A j, k \in 0 .. B - 1 : (h + j) % B = (h + k) % B => j = k
        /\ \A k \in 0 .. B - 1 : (((h + k) % B) + 1) % B = (h + (k + 1)) % B
        /\ \A k \in 0 .. B - 1 : (((h + 1) % B) + k) % B = (h + (k + 1)) % B
    <2> HIDE DEF B, h
    <2>1. B \in Nat \ {0} /\ h \in 0 .. B - 1
      BY <1>1 DEF B, h
    <2> QED
      BY <2>1, SlotFacts
  <1> QED
    BY <1>2 DEF Slot

(* What buffer_add does to the files that wait.                            *)
LEMMA Added ==
  ASSUME TypeOK, BufferRight, pos \in Files, count < BufferSize, buffer_add(pos),
         pos' = pos + 1
  PROVE  Pending' = Pending \cup {pos} /\ BufferRight'
  <1>1. PICK n \in Nat : n = count
    BY DEF TypeOK
  <1>2. /\ BufferSize \in Nat \ {0} /\ head \in 0 .. BufferSize - 1
        /\ n \in 0 .. BufferSize - 1 /\ count' = n + 1 /\ head' = head
        /\ data' = [data EXCEPT ![tail] = pos] /\ DOMAIN data = 0 .. BufferSize - 1
        /\ tail' = (tail + 1) % BufferSize /\ tail = Slot(n)
    BY <1>1, BufferSizeAssumption DEF TypeOK, buffer_add, BufferRight
  <1>3. \A k \in Nat : Slot(k)' = Slot(k)
    BY <1>2 DEF Slot
  <1>4. Slot(n) \in 0 .. BufferSize - 1 /\ \A k \in 0 .. n - 1 : Slot(k) # Slot(n)
    <2>1. \A k \in 0 .. n - 1 : k \in 0 .. BufferSize - 1 /\ k # n
      BY <1>2
    <2> QED
      BY <1>2, <2>1, Ring
  <1>5. /\ \A k \in 0 .. n - 1 : data'[Slot(k)'] = data[Slot(k)]
        /\ data'[Slot(n)'] = pos
    BY <1>2, <1>3, <1>4
  <1>6. tail' = Slot(n + 1)
    BY <1>2, Ring
  <1>7. tail' = Slot(count)'
    BY <1>2, <1>6 DEF Slot
  <1>8. Pending' = Pending \cup {pos}
    <2>1. Pending' = {data'[Slot(k)'] : k \in 0 .. n}
      BY <1>2 DEF Pending
    <2>2. Pending = {data[Slot(k)] : k \in 0 .. n - 1}
      BY <1>1 DEF Pending
    <2>3. 0 .. n = (0 .. n - 1) \cup {n}
      BY <1>2
    <2> QED
      BY <1>5, <2>1, <2>2, <2>3
  <1>9. pos \in Nat /\ \A k \in 0 .. n - 1 : data[Slot(k)] \in Nat
    BY <1>1, TreeFacts DEF BufferRight
  <1>10. \A k \in 0 .. count' - 1 : k = n \/ k \in 0 .. n - 1
    BY <1>2
  <1>11. ASSUME NEW k \in 0 .. count' - 1
         PROVE  data'[Slot(k)'] \in Files /\ data'[Slot(k)'] < pos'
    <2>1. CASE k = n
      <3>1. data'[Slot(k)'] = pos /\ pos < pos + 1
        BY <1>5, <1>9, <2>1
      <3> QED
        BY <3>1
    <2>2. CASE k \in 0 .. n - 1
      BY <1>1, <1>5, <1>9, <2>2 DEF BufferRight
    <2> QED
      BY <1>10, <2>1, <2>2
  <1>12. ASSUME NEW j \in 0 .. count' - 1, NEW k \in 0 .. count' - 1,
                data'[Slot(j)'] = data'[Slot(k)']
         PROVE  j = k
    <2>1. \A i \in 0 .. n - 1 : data'[Slot(i)'] # pos
      BY <1>1, <1>5, <1>9 DEF BufferRight
    <2>2. CASE j = n \/ k = n
      <3>1. CASE j = n
        <4>1. data'[Slot(k)'] = pos
          BY <1>5, <1>12, <3>1
        <4> QED
          BY <1>10, <2>1, <3>1, <4>1
      <3>2. CASE k = n
        <4>1. data'[Slot(j)'] = pos
          BY <1>5, <1>12, <3>2
        <4> QED
          BY <1>10, <2>1, <3>2, <4>1
      <3> QED
        BY <2>2, <3>1, <3>2
    <2>3. CASE j \in 0 .. n - 1 /\ k \in 0 .. n - 1
      BY <1>1, <1>5, <1>12, <2>3 DEF BufferRight
    <2> QED
      BY <1>10, <2>2, <2>3
  <1> QED
    BY <1>7, <1>8, <1>11, <1>12 DEF BufferRight

(* What buffer_get does to them.                                           *)
LEMMA Removed ==
  ASSUME TypeOK, BufferRight, count # 0, buffer_get, pos' = pos
  PROVE  /\ data[head] \in Pending /\ Pending' = Pending \ {data[head]}
         /\ BufferRight'
  <1>0. PICK n \in Nat : n = count - 1
    BY DEF TypeOK
  <1>1. /\ BufferSize \in Nat \ {0} /\ head \in 0 .. BufferSize - 1
        /\ n \in 0 .. BufferSize - 1 /\ count = n + 1 /\ count' = n
        /\ head' = (head + 1) % BufferSize /\ data' = data /\ tail' = tail
        /\ tail = Slot(count)
    BY <1>0, BufferSizeAssumption DEF TypeOK, buffer_get, BufferRight
  <1>2. /\ \A k \in 0 .. n : Slot(k)' = Slot(k + 1)
        /\ data[head] = data[Slot(0)]
    <2>1. \A k \in 0 .. n : k \in 0 .. BufferSize - 1
      BY <1>1
    <2>2. \A k \in 0 .. n : Slot(k)' = (((head + 1) % BufferSize) + k) % BufferSize
      BY <1>1 DEF Slot
    <2> QED
      BY <1>1, <2>1, <2>2, Ring
  <1>3. tail' = Slot(count)'
    <2>1. Slot(n)' = Slot(n + 1)
      BY <1>1, <1>2
    <2> QED
      BY <1>1, <2>1 DEF Slot
  <1>9. /\ Pending = {data[Slot(k)] : k \in 0 .. n}
        /\ Pending' = {data[Slot(k + 1)] : k \in 0 .. n - 1}
        /\ \A j, k \in 0 .. n : data[Slot(j)] = data[Slot(k)] => j = k
        /\ \A k \in 0 .. n : data[Slot(k)] \in Files /\ data[Slot(k)] < pos
    <2>1. count - 1 = n /\ \A k \in 0 .. n - 1 : k \in 0 .. n
      BY <1>1
    <2>2. Pending' = {data'[Slot(k)'] : k \in 0 .. n - 1}
      BY <1>1 DEF Pending
    <2>3. \A k \in 0 .. n - 1 : data'[Slot(k)'] = data[Slot(k + 1)]
      BY <1>1, <1>2, <2>1
    <2>4. Pending' = {data[Slot(k + 1)] : k \in 0 .. n - 1}
      BY <2>2, <2>3
    <2> QED
      BY <2>1, <2>4 DEF Pending, BufferRight
  <1>4. Pending' = Pending \ {data[head]}
    <2>1. ASSUME NEW f \in Pending' PROVE f \in Pending \ {data[head]}
      <3>1. PICK k \in 0 .. n - 1 : f = data[Slot(k + 1)]
        BY <1>9, <2>1
      <3>2. k + 1 \in 0 .. n /\ 0 \in 0 .. n /\ k + 1 # 0
        BY <1>1
      <3>3. f # data[head]
        BY <1>2, <1>9, <3>1, <3>2
      <3> QED
        BY <1>9, <3>1, <3>2, <3>3
    <2>2. ASSUME NEW f \in Pending \ {data[head]} PROVE f \in Pending'
      <3>1. PICK k \in 0 .. n : f = data[Slot(k)]
        BY <1>9, <2>2
      <3>2. k # 0
        BY <1>2, <2>2, <3>1
      <3>3. k - 1 \in 0 .. n - 1 /\ (k - 1) + 1 = k
        BY <1>1, <3>2
      <3> QED
        BY <1>9, <3>1, <3>3
    <2> QED
      BY <2>1, <2>2
  <1>5. data[head] \in Pending
    <2>1. 0 \in 0 .. n
      BY <1>1
    <2> QED
      BY <1>2, <1>9, <2>1
  <1>6. \A k \in 0 .. count' - 1 :
          k \in 0 .. n /\ k + 1 \in 0 .. n /\ data'[Slot(k)'] = data[Slot(k + 1)]
    <2>1. \A k \in 0 .. count' - 1 : k \in 0 .. n /\ k + 1 \in 0 .. n
      BY <1>1
    <2> QED
      BY <1>1, <1>2, <2>1
  <1>7. \A k \in 0 .. count' - 1 : data'[Slot(k)'] \in Files /\ data'[Slot(k)'] < pos'
    BY <1>6, <1>9
  <1>8. ASSUME NEW j \in 0 .. count' - 1, NEW k \in 0 .. count' - 1,
               data'[Slot(j)'] = data'[Slot(k)']
        PROVE  j = k
    <2>1. j + 1 = k + 1
      BY <1>6, <1>8, <1>9
    <2> QED
      BY <2>1
  <1> QED
    BY <1>3, <1>4, <1>5, <1>7, <1>8 DEF BufferRight

-----------------------------------------------------------------------------
(* Threads that wait are sent back to their test; nobody else is moved by  *)
(* a signal.                                                               *)
Steps == ManagerSteps \cup WorkerSteps
Woken(r, u) ==
    \/ r[u] = pc[u]
    \/ u \in Workers /\ pc[u] = "wait_not_empty" /\ r[u] = "get"
    \/ u = Manager /\ pc[u] = "wait_not_full" /\ r[u] = "put"
Moves(t, to) ==
    pc' \in [Threads -> Steps] /\ pc'[t] = to /\ \A u \in Threads \ {t} : Woken(pc', u)

LEMMA Resumed ==
  ASSUME TypeOK, NEW T \in SUBSET Threads,
         \A u \in T : pc[u] \in {"wait_not_empty", "wait_not_full"}
  PROVE  Resume(T) \in [Threads -> Steps] /\ \A u \in Threads : Woken(Resume(T), u)
  <1>1. Resume(T) \in [Threads -> Steps]
    BY DEF Resume, TypeOK, Steps, ManagerSteps, WorkerSteps
  <1>2. ASSUME NEW u \in Threads PROVE Woken(Resume(T), u)
    <2>1. Resume(T)[u] = IF u \in T THEN (IF u = Manager THEN "put" ELSE "get")
                                     ELSE pc[u]
      BY DEF Resume
    <2>2. u \in T => \/ u \in Workers /\ u # Manager /\ pc[u] = "wait_not_empty"
                     \/ u = Manager /\ pc[u] = "wait_not_full"
      BY ThreadFacts DEF TypeOK, ManagerSteps, WorkerSteps
    <2> QED
      BY <2>1, <2>2 DEF Woken
  <1> QED
    BY <1>1, <1>2

LEMMA Signalled ==
  ASSUME TypeOK, NEW t \in Threads, NEW to \in Steps, NEW W \in SUBSET Threads,
         \A u \in W : pc[u] \in {"wait_not_empty", "wait_not_full"},
         SignalOne(t, to, W) \/ Broadcast(t, to, W)
  PROVE  Moves(t, to)
  <1>1. PICK T \in SUBSET W : pc' = [Resume(T) EXCEPT ![t] = to]
    BY DEF SignalOne, Broadcast
  <1>2. Resume(T) \in [Threads -> Steps] /\ \A u \in Threads : Woken(Resume(T), u)
    BY Resumed
  <1> QED
    BY <1>1, <1>2 DEF Moves, Woken

(* Where the step of each thread takes it.                                 *)
LEMMA ThreadMoves ==
  ASSUME TypeOK
  PROVE  /\ OpenFile => Moves(Manager, "put")
         /\ WaitNotFull => Moves(Manager, "wait_not_full")
         /\ Put => Moves(Manager, "walk")
         /\ StopWalk => Moves(Manager, "walk")
         /\ FinishWalk => Moves(Manager, Leave)
         /\ \A w \in Workers :
              /\ WaitNotEmpty(w) => Moves(w, "wait_not_empty")
              /\ Stop(w) => Moves(w, Leave)
              /\ Get(w) => Moves(w, "copy")
              /\ Copy(w) => Moves(w, "close")
              /\ Close(w) => Moves(w, "report")
              /\ Report(w) => Moves(w, "get")
         /\ \A t \in Threads : PassBarrier(t) => Moves(t, "ended")
  <1>1. \A t \in Threads, to \in Steps : pc' = [pc EXCEPT ![t] = to] => Moves(t, to)
    BY DEF Moves, Woken, TypeOK, Steps
  <1>2. /\ {"walk", "put", "wait_not_full", "get", "wait_not_empty", "copy", "close",
            "report", "ended"} \subseteq Steps /\ Leave \in Steps
    BY DEF Steps, ManagerSteps, WorkerSteps, Leave
  <1>3. Waiting \in SUBSET Threads /\ \A u \in Waiting : pc[u] = "wait_not_empty"
    BY ThreadFacts DEF Waiting
  <1>4. Put => Moves(Manager, "walk")
    BY <1>2, <1>3, ThreadFacts, Signalled DEF Put
  <1>5. FinishWalk => Moves(Manager, Leave)
    BY <1>2, <1>3, ThreadFacts, Signalled DEF FinishWalk
  <1>6. ASSUME NEW w \in Workers, Get(w) PROVE Moves(w, "copy")
    <2> DEFINE W == {m \in {Manager} : pc[m] = "wait_not_full"}
    <2>1. W \in SUBSET Threads /\ \A u \in W : pc[u] = "wait_not_full"
      BY ThreadFacts
    <2>2. SignalOne(w, "copy", W)
      BY <1>6 DEF Get
    <2> HIDE DEF W
    <2> QED
      BY <1>2, <2>1, <2>2, ThreadFacts, Signalled
  <1>8. /\ OpenFile => Moves(Manager, "put")
        /\ WaitNotFull => Moves(Manager, "wait_not_full")
        /\ StopWalk => Moves(Manager, "walk")
    BY <1>1, <1>2, ThreadFacts DEF OpenFile, WaitNotFull, StopWalk
  <1>9. \A t \in Threads : PassBarrier(t) => Moves(t, "ended")
    BY <1>1, <1>2 DEF PassBarrier
  <1>10. ASSUME NEW w \in Workers
         PROVE  /\ WaitNotEmpty(w) => Moves(w, "wait_not_empty")
                /\ Stop(w) => Moves(w, Leave)
                /\ Copy(w) => Moves(w, "close")
                /\ Close(w) => Moves(w, "report")
                /\ Report(w) => Moves(w, "get")
    BY <1>1, <1>2, ThreadFacts DEF WaitNotEmpty, Stop, Copy, Close, Report, WorkerGoes
  <1> QED
    BY <1>4, <1>5, <1>6, <1>8, <1>9, <1>10

(* What main, the signals and the handlers do: they touch no file, and     *)
(* send nobody further than back to a test.                                *)
Aside ==
    \/ MainStep \/ Interrupt \/ SpuriousWakeup \/ UNCHANGED vars
    \/ \E t \in Threads : HandlerStep(t)

LEMMA AsideMoves ==
  ASSUME TypeOK, Aside
  PROVE  /\ UNCHANGED <<pos, item, buffer, files, arrived>> /\ done' \in {TRUE, done}
         /\ \/ UNCHANGED pc
            \/ pc' \in [Threads -> Steps] /\ \A u \in Threads : Woken(pc', u)
  <1>1. Waiting \in SUBSET Threads /\ \A u \in Waiting : pc[u] = "wait_not_empty"
    BY ThreadFacts DEF Waiting
  <1>2. CASE SpuriousWakeup
    BY <1>2, Resumed DEF SpuriousWakeup, mainVars
  <1>3. CASE HandlerDone \/ \E t \in Threads : ThreadHandlerDone(t)
    BY <1>1, <1>3, Resumed DEF HandlerDone, ThreadHandlerDone
  <1>4. CASE JoinManager \/ JoinWorker \/ Cleanup \/ Exit \/ HandlerJoin \/ Interrupt
    BY <1>4 DEF JoinManager, JoinWorker, Cleanup, Exit, HandlerJoin, Interrupt
  <1>5. CASE \E t \in Threads : InterruptThread(t) \/ ThreadHandlerEnd(t)
    BY <1>5 DEF InterruptThread, ThreadHandlerEnd
  <1>6. CASE UNCHANGED vars
    BY <1>6 DEF vars, buffer, files
  <1> QED
    BY <1>2, <1>3, <1>4, <1>5, <1>6 DEF Aside, MainStep, HandlerStep

(* Every step leaves each thread at one of its own steps.                  *)
LEMMA PlacesTyped ==
  ASSUME TypeOK, [Next]_vars
  PROVE  /\ pc' \in [Threads -> Steps] /\ pc'[Manager] \in ManagerSteps
         /\ \A w \in Workers : pc'[w] \in WorkerSteps
  <1>. USE ThreadFacts DEF ManagerSteps, WorkerSteps
  <1>1. ASSUME NEW t \in Threads, NEW to, Moves(t, to),
               to \in IF t = Manager THEN ManagerSteps ELSE WorkerSteps
        PROVE  /\ pc' \in [Threads -> Steps] /\ pc'[Manager] \in ManagerSteps
               /\ \A w \in Workers : pc'[w] \in WorkerSteps
    BY <1>1 DEF Moves, Woken, TypeOK
  <1>2. Leave \in {"barrier", "ended"}
    BY DEF Leave
  <1>3. CASE pc' \in [Threads -> Steps] /\ \A u \in Threads : Woken(pc', u)
    BY <1>3 DEF Woken, TypeOK
  <1>4. CASE UNCHANGED pc
    BY <1>4 DEF TypeOK, Steps
  <1>5. CASE ManagerStep
    BY <1>1, <1>2, <1>4, <1>5, ThreadMoves DEF ManagerStep, Skip, SkipTree
  <1>6. ASSUME NEW w \in Workers, WorkerStep(w)
        PROVE  /\ pc' \in [Threads -> Steps] /\ pc'[Manager] \in ManagerSteps
               /\ \A v \in Workers : pc'[v] \in WorkerSteps
    BY <1>1, <1>2, <1>6, ThreadMoves DEF WorkerStep
  <1>7. CASE Aside
    BY <1>3, <1>4, <1>7, AsideMoves
  <1> QED
    BY <1>5, <1>6, <1>7 DEF Next, Aside

(* Who has ended stays so, and who has come to the barrier stays past it.  *)
LEMMA EndedStays ==
  ASSUME TypeOK, [Next]_vars
  PROVE  /\ \A t \in Threads : pc[t] = "ended" => pc'[t] = "ended"
         /\ Past \subseteq Past'
  <1>1. ASSUME NEW t \in Threads, NEW to, Moves(t, to), pc[t] # "ended",
               pc[t] \notin {"barrier", "ended"} \/ to = "ended"
        PROVE  /\ \A u \in Threads : pc[u] = "ended" => pc'[u] = "ended"
               /\ Past \subseteq Past'
    BY <1>1 DEF Moves, Woken, Past
  <1>2. CASE \A u \in Threads : Woken(pc', u)
    BY <1>2 DEF Woken, Past
  <1>3. CASE UNCHANGED pc
    BY <1>3 DEF Past
  <1>4. CASE ManagerStep
    <2>1. CASE Skip \/ SkipTree
      BY <1>3, <2>1 DEF Skip, SkipTree
    <2>2. CASE OpenFile \/ WaitNotFull \/ Put \/ StopWalk \/ FinishWalk
      <3>1. pc[Manager] \in {"walk", "put"}
        BY <2>2 DEF OpenFile, WaitNotFull, Put, StopWalk, FinishWalk, AtPut
      <3> QED
        BY <1>1, <2>2, <3>1, ThreadMoves, ThreadFacts
    <2>3. CASE PassBarrier(Manager)
      <3>1. pc[Manager] = "barrier"
        BY <2>3 DEF PassBarrier
      <3> QED
        BY <1>1, <2>3, <3>1, ThreadMoves, ThreadFacts
    <2> QED
      BY <1>4, <2>1, <2>2, <2>3 DEF ManagerStep
  <1>5. ASSUME NEW w \in Workers, WorkerStep(w)
        PROVE  /\ \A t \in Threads : pc[t] = "ended" => pc'[t] = "ended"
               /\ Past \subseteq Past'
    <2>1. CASE PassBarrier(w)
      <3>1. pc[w] = "barrier"
        BY <2>1 DEF PassBarrier
      <3> QED
        BY <1>1, <2>1, <3>1, ThreadMoves, ThreadFacts
    <2>2. CASE ~PassBarrier(w)
      <3>1. pc[w] \in {"get", "copy", "close", "report"}
        BY <1>5, <2>2 DEF WorkerStep, WaitNotEmpty, Stop, Get, Copy, Close, Report,
                          AtGet, WorkerGoes
      <3> QED
        BY <1>1, <1>5, <2>2, <3>1, ThreadMoves, ThreadFacts DEF WorkerStep
    <2> QED
      BY <2>1, <2>2
  <1>6. CASE Aside
    BY <1>2, <1>3, <1>6, AsideMoves
  <1> QED
    BY <1>4, <1>5, <1>6 DEF Next, Aside

-----------------------------------------------------------------------------
(* The steps that leave every file where it is.                            *)
Work == BufferRight /\ ItemsRight /\ DescriptorsOwned /\ CopiesRight

SameWork ==
    /\ UNCHANGED <<item, buffer, files>>
    /\ pos' \in Nat /\ pos <= pos'
    /\ pc[Manager] \in {"put", "wait_not_full"} <=> pc'[Manager] \in {"put", "wait_not_full"}
    /\ pc[Manager] \in {"put", "wait_not_full"} => pos' = pos
    /\ \A w \in Workers : \A s \in {"copy", "close", "report"} : pc[w] = s <=> pc'[w] = s

LEMMA SameWorkKeeps ==
  ASSUME TypeOK, Work, SameWork
  PROVE  Work'
  <1>1. UNCHANGED <<item, data, count, head, tail, open, copies, num_files_copied>>
    BY DEF SameWork, buffer, files
  <1>2. pos \in Nat /\ pos' \in Nat /\ pos <= pos' /\ Files \subseteq Nat
    BY TreeFacts DEF SameWork, TypeOK
  <1>3. Pending' = Pending
    BY <1>1 DEF Pending, Slot
  <1>4. BufferRight'
    <2>1. \A k : Slot(k)' = Slot(k)
      BY <1>1 DEF Slot
    <2>2. tail' = Slot(count)'
      BY <1>1 DEF Slot, Work, BufferRight
    <2>3. \A k \in 0 .. count - 1 : data[Slot(k)] \in Files /\ data[Slot(k)] < pos'
      <3>1. \A f \in Files : f < pos => f < pos'
        BY <1>2
      <3> QED
        BY <3>1 DEF Work, BufferRight
    <2> QED
      BY <1>1, <2>1, <2>2, <2>3 DEF Work, BufferRight
  <1>5. ItemsRight'
    <2>1. pc'[Manager] \in {"put", "wait_not_full"} => pos' \in Files
      BY DEF SameWork, Work, ItemsRight
    <2>2. ASSUME NEW w \in Workers, item[w] # NoFile PROVE item[w] < pos'
      <3>1. item[w] \in Files \cup {NoFile}
        BY DEF TypeOK
      <3>2. item[w] < pos
        BY <2>2 DEF Work, ItemsRight
      <3>3. item[w] \in Nat
        BY <1>2, <2>2, <3>1
      <3> QED
        BY <1>2, <3>2, <3>3
    <2> QED
      BY <1>1, <1>3, <2>1, <2>2 DEF Work, ItemsRight, SameWork
  <1>6. DescriptorsOwned'
    <2>1. HeldByManager' = HeldByManager
      BY DEF HeldByManager, SameWork
    <2> QED
      BY <1>1, <1>3, <2>1 DEF Work, DescriptorsOwned, HeldByWorkers
  <1>7. CopiesRight'
    <2>1. \A f \in Files : copies[f] = 1 => f < pos'
      BY <1>2 DEF Work, CopiesRight
    <2>2. {w \in Workers : pc[w] \in {"close", "report"}}'
            = {w \in Workers : pc[w] \in {"close", "report"}}
      BY DEF SameWork
    <2>3. {f \in Files : copies[f] = 1}' = {f \in Files : copies[f] = 1}
      BY <1>1
    <2> QED
      BY <1>1, <1>3, <2>1, <2>2, <2>3 DEF Work, CopiesRight, SameWork
  <1> QED
    BY <1>4, <1>5, <1>6, <1>7 DEF Work

(* Which steps these are.                                                  *)
LEMMA Idle ==
  ASSUME TypeOK,
         \/ Skip \/ SkipTree \/ WaitNotFull \/ FinishWalk
         \/ \E t \in Threads : PassBarrier(t)
         \/ \E w \in Workers : WaitNotEmpty(w) \/ Stop(w)
         \/ Aside
  PROVE  SameWork
  <1>1. UNCHANGED <<item, buffer, files>>
    BY AsideMoves
    DEF Skip, SkipTree, WaitNotFull, FinishWalk, PassBarrier, WaitNotEmpty, Stop
  <1>2. CASE Skip \/ SkipTree
    <2>1. pos' \in Nat /\ pos <= pos'
      <3>1. CASE Skip
        BY <3>1 DEF Skip, TypeOK
      <3>2. CASE SkipTree
        <4>1. pos \in Nat /\ pos' \in pos + 1 .. Len(Tree) + 1 /\ Len(Tree) \in Nat
          BY <3>2, WalkForward, TreeFacts DEF SkipTree, TypeOK
        <4> QED
          BY <4>1
      <3> QED
        BY <1>2, <3>1, <3>2
    <2> QED
      BY <1>1, <1>2, <2>1 DEF Skip, SkipTree, SameWork
  <1>3. pos \in Nat
    BY DEF TypeOK
  <1>4. ASSUME UNCHANGED pos,
               \/ UNCHANGED pc
               \/ \A u \in Threads : Woken(pc', u)
               \/ Moves(Manager, "wait_not_full") /\ pc[Manager] = "put"
               \/ \E t \in Threads, to \in {"wait_not_empty", "barrier", "ended"} :
                    Moves(t, to) /\ pc[t] \in {"walk", "get", "barrier"}
        PROVE  SameWork
    BY <1>1, <1>3, <1>4, ThreadFacts DEF SameWork, Moves, Woken
  <1>5. CASE WaitNotFull \/ FinishWalk
    BY <1>4, <1>5, ThreadMoves, ThreadFacts DEF WaitNotFull, FinishWalk, AtPut, Leave
  <1>6. CASE \E t \in Threads : PassBarrier(t)
    BY <1>4, <1>6, ThreadMoves DEF PassBarrier
  <1>7. CASE \E w \in Workers : WaitNotEmpty(w) \/ Stop(w)
    BY <1>4, <1>7, ThreadMoves, ThreadFacts DEF WaitNotEmpty, Stop, AtGet, Leave
  <1>8. CASE Aside
    BY <1>4, <1>8, AsideMoves
  <1> QED
    BY <1>2, <1>5, <1>6, <1>7, <1>8

-----------------------------------------------------------------------------
(* The steps that hand a file on.                                          *)
Holders == {w \in Workers : item[w] # NoFile}
Reporting == {w \in Workers : pc[w] \in {"close", "report"}}
CopiedFiles == {f \in Files : copies[f] = 1}

LEMMA FileFacts ==
  ASSUME TypeOK, Work
  PROVE  /\ Files \subseteq Nat /\ NoFile \notin Files /\ pos \in Nat
         /\ Pending \subseteq Files /\ \A f \in Pending : f < pos
         /\ \A w \in Holders : item[w] \in Files /\ item[w] < pos
         /\ HeldByWorkers = {item[w] : w \in Holders}
         /\ IsFiniteSet(Holders) /\ Cardinality(Holders) \in Nat
         /\ IsFiniteSet(Reporting) /\ Cardinality(Reporting) \in Nat
         /\ IsFiniteSet(CopiedFiles) /\ Cardinality(CopiedFiles) \in Nat
         /\ IsFiniteSet(open) /\ Cardinality(open) \in Nat /\ open \subseteq Files
         /\ Cardinality({}) = 0 /\ Cardinality({pos}) = 1 /\ count \in Nat
         /\ open = Pending \cup HeldByWorkers \cup HeldByManager
         /\ Cardinality(open) = count + Cardinality(Holders) + Cardinality(HeldByManager)
         /\ Cardinality(CopiedFiles) = num_files_copied + Cardinality(Reporting)
  <1>1. Files \subseteq Nat /\ NoFile \notin Files /\ IsFiniteSet(Files) /\ pos \in Nat
        /\ count \in Nat
    BY TreeFacts DEF TypeOK
  <1>2. Pending \subseteq Files /\ \A f \in Pending : f < pos
    BY DEF Work, BufferRight, Pending
  <1>3. \A w \in Holders : item[w] \in Files /\ item[w] < pos
    BY DEF Holders, Work, ItemsRight, TypeOK
  <1>4. HeldByWorkers = {item[w] : w \in Holders}
    BY DEF HeldByWorkers, Holders
  <1>5. Holders \in SUBSET Workers /\ Reporting \in SUBSET Workers
        /\ CopiedFiles \in SUBSET Files /\ open \in SUBSET Files
    BY DEF Holders, Reporting, CopiedFiles, TypeOK
  <1>6. /\ IsFiniteSet(Holders) /\ IsFiniteSet(Reporting)
        /\ IsFiniteSet(CopiedFiles) /\ IsFiniteSet(open)
    BY <1>1, <1>5, ThreadFacts, FS_Subset
  <1>7. /\ Cardinality(Holders) \in Nat /\ Cardinality(Reporting) \in Nat
        /\ Cardinality(CopiedFiles) \in Nat /\ Cardinality(open) \in Nat
    BY <1>6, FS_CardinalityType
  <1>8. Cardinality({}) = 0 /\ Cardinality({pos}) = 1
    BY FS_EmptySet, FS_Singleton
  <1> QED
    BY <1>1, <1>2, <1>3, <1>4, <1>5, <1>6, <1>7, <1>8
    DEF Work, DescriptorsOwned, CopiesRight, Holders, Reporting, CopiedFiles

LEMMA OpenFileKeeps ==
  ASSUME TypeOK, Work, OpenFile
  PROVE  Work'
  <1>1. /\ UNCHANGED <<pos, item, data, count, head, tail, copies, num_files_copied>>
        /\ pos \in Files /\ pc[Manager] = "walk" /\ open' = open \cup {pos}
        /\ pc'[Manager] = "put" /\ \A w \in Workers : pc'[w] = pc[w]
    BY ThreadFacts DEF OpenFile, buffer, TypeOK
  <1>2. Pending' = Pending /\ BufferRight'
    BY <1>1 DEF Pending, Slot, Work, BufferRight
  <1>3. ItemsRight'
    BY <1>1, <1>2 DEF Work, ItemsRight
  <1>4. DescriptorsOwned'
    <2>1. HeldByManager = {} /\ HeldByManager' = {pos} /\ HeldByWorkers' = HeldByWorkers
      BY <1>1 DEF HeldByManager, HeldByWorkers
    <2>2. pos \notin open
      BY <2>1, FileFacts
    <2>3. Cardinality(open') = Cardinality(open) + 1
      BY <1>1, <2>2, FileFacts, FS_AddElement
    <2>4. open' = Pending' \cup HeldByWorkers' \cup HeldByManager'
      BY <1>1, <1>2, <2>1, FileFacts
    <2>5. Cardinality(open') = count' + Cardinality(Holders) + Cardinality(HeldByManager')
      BY <1>1, <2>1, <2>3, FileFacts
    <2> QED
      BY <1>1, <2>4, <2>5 DEF DescriptorsOwned, Holders
  <1>5. CopiesRight'
    BY <1>1, <1>2 DEF Work, CopiesRight
  <1> QED
    BY <1>2, <1>3, <1>4, <1>5 DEF Work

LEMMA PutKeeps ==
  ASSUME TypeOK, Work, Put
  PROVE  Work'
  <1>1. /\ UNCHANGED <<item, open, copies, num_files_copied>>
        /\ pos \in Files /\ pos' = pos + 1 /\ count' = count + 1
        /\ count < BufferSize /\ pc[Manager] = "put"
    BY BufferSizeAssumption
    DEF Put, AtPut, files, buffer_is_full, buffer_add, Work, ItemsRight, TypeOK
  <1>2. pc'[Manager] = "walk" /\ \A w \in Workers : Woken(pc', w)
    BY ThreadMoves, ThreadFacts DEF Moves
  <1>3. Pending' = Pending \cup {pos} /\ BufferRight'
    BY <1>1, Added DEF Put, Work
  <1>4. \A f \in Files : f < pos => f < pos' /\ f # pos
    BY <1>1, FileFacts
  <1>5. \A w \in Workers : \A s \in {"copy", "close", "report"} : pc'[w] = s <=> pc[w] = s
    BY <1>2, ThreadFacts DEF Woken
  <1>6. ItemsRight'
    <2>1. \A w \in Workers : item[w] # NoFile =>
             item[w] < pos' /\ item[w] \notin Pending'
      BY <1>3, <1>4, FileFacts DEF Holders, Work, ItemsRight
    <2> QED
      BY <1>1, <1>2, <1>5, <2>1 DEF Work, ItemsRight
  <1>7. DescriptorsOwned'
    <2>1. HeldByManager = {pos} /\ HeldByManager' = {} /\ HeldByWorkers' = HeldByWorkers
      BY <1>1, <1>2 DEF HeldByManager, HeldByWorkers
    <2>2. open' = Pending' \cup HeldByWorkers' \cup HeldByManager'
      BY <1>1, <1>3, <2>1, FileFacts
    <2>3. Cardinality(open') = count' + Cardinality(Holders) + Cardinality(HeldByManager')
      BY <1>1, <2>1, FileFacts
    <2> QED
      BY <1>1, <2>2, <2>3 DEF DescriptorsOwned, Holders
  <1>8. CopiesRight'
    <2>1. \A f \in Files : copies[f] = 1 => f < pos' /\ f \notin Pending'
      BY <1>3, <1>4 DEF Work, CopiesRight
    <2>2. Reporting' = Reporting /\ CopiedFiles' = CopiedFiles
      BY <1>1, <1>5 DEF Reporting, CopiedFiles
    <2> QED
      BY <1>1, <1>5, <2>1, <2>2 DEF Work, CopiesRight, Reporting, CopiedFiles
  <1> QED
    BY <1>3, <1>6, <1>7, <1>8 DEF Work

LEMMA StopWalkKeeps ==
  ASSUME TypeOK, Work, StopWalk
  PROVE  Work'
  <1>1. /\ UNCHANGED <<item, data, count, head, tail, copies, num_files_copied>>
        /\ pos \in Files /\ pc[Manager] = "put" /\ open' = open \ {pos}
        /\ pc'[Manager] = "walk" /\ \A w \in Workers : pc'[w] = pc[w]
    BY ThreadFacts DEF StopWalk, AtPut, buffer, TypeOK, Work, ItemsRight
  <1>2. pos' \in Nat /\ pos < pos'
    <2>1. pos \in Entries /\ pos \in Nat /\ Len(Tree) \in Nat
      BY <1>1, TreeFacts
    <2> QED
      BY <2>1, WalkForward
  <1>3. \A f \in Files : f < pos => f < pos'
    BY <1>2, FileFacts
  <1>4. Pending' = Pending /\ BufferRight'
    <2>1. Pending' = Pending
      BY <1>1 DEF Pending, Slot
    <2>2. tail' = Slot(count)' /\ \A k : Slot(k)' = Slot(k)
      BY <1>1 DEF Slot, Work, BufferRight
    <2> QED
      BY <1>1, <1>3, <2>1, <2>2 DEF Work, BufferRight
  <1>5. ItemsRight'
    <2>1. \A w \in Workers : item[w] # NoFile => item[w] < pos'
      BY <1>3, FileFacts DEF Holders
    <2> QED
      BY <1>1, <1>4, <2>1 DEF Work, ItemsRight
  <1>6. DescriptorsOwned'
    <2>1. HeldByManager = {pos} /\ HeldByManager' = {} /\ HeldByWorkers' = HeldByWorkers
      BY <1>1 DEF HeldByManager, HeldByWorkers
    <2>2. pos \in open /\ pos \notin Pending \cup HeldByWorkers
      BY <2>1, FileFacts
    <2>3. Cardinality(open') = Cardinality(open) - 1
      BY <1>1, <2>2, FileFacts, FS_RemoveElement
    <2>4. open' = Pending' \cup HeldByWorkers' \cup HeldByManager'
      BY <1>1, <1>4, <2>1, <2>2, FileFacts
    <2>5. Cardinality(open') = count' + Cardinality(Holders) + Cardinality(HeldByManager')
      BY <1>1, <2>1, <2>3, FileFacts
    <2> QED
      BY <1>1, <2>4, <2>5 DEF DescriptorsOwned, Holders
  <1>7. CopiesRight'
    BY <1>1, <1>3, <1>4 DEF Work, CopiesRight
  <1> QED
    BY <1>4, <1>5, <1>6, <1>7 DEF Work

LEMMA GetKeeps ==
  ASSUME TypeOK, Work, NEW w \in Workers, Get(w)
  PROVE  Work'
  <1> DEFINE f == data[head]
  <1>1. /\ UNCHANGED <<pos, open, copies, num_files_copied>>
        /\ pc[w] = "get" /\ item[w] = NoFile /\ count # 0 /\ buffer_get
        /\ item' = [item EXCEPT ![w] = f]
    BY DEF Get, AtGet, files, buffer_is_empty, Work, ItemsRight
  <1>2. pc'[w] = "copy" /\ \A u \in Threads \ {w} : Woken(pc', u)
    BY ThreadMoves DEF Moves
  <1>3. f \in Pending /\ Pending' = Pending \ {f} /\ BufferRight'
    BY <1>1, Removed DEF Work
  <1>4. f \in Files /\ f < pos /\ f # NoFile
    BY <1>3, FileFacts
  <1> HIDE DEF f
  <1>5. /\ item'[w] = f /\ \A v \in Workers \ {w} : item'[v] = item[v]
        /\ \A v \in Workers \ {w}, s \in {"copy", "close", "report"} :
             pc'[v] = s <=> pc[v] = s
        /\ pc[Manager] \in {"put", "wait_not_full"}
             <=> pc'[Manager] \in {"put", "wait_not_full"}
    BY <1>1, <1>2, ThreadFacts DEF Woken, TypeOK
  <1>6. ItemsRight'
    <2>1. pc'[Manager] \in {"put", "wait_not_full"} => pos' \in Files
      BY <1>1, <1>5 DEF Work, ItemsRight
    <2>2. ASSUME NEW v \in Workers
          PROVE  /\ item'[v] # NoFile <=> pc'[v] \in {"copy", "close"}
                 /\ item'[v] # NoFile => item'[v] < pos' /\ item'[v] \notin Pending'
      BY <1>1, <1>2, <1>3, <1>4, <1>5 DEF Work, ItemsRight
    <2>3. ASSUME NEW u \in Workers, NEW v \in Workers, item'[u] # NoFile,
                 item'[u] = item'[v]
          PROVE  u = v
      BY <1>3, <1>4, <1>5, <2>3 DEF Work, ItemsRight
    <2> QED
      BY <2>1, <2>2, <2>3 DEF ItemsRight
  <1>7. DescriptorsOwned'
    <2>1. HeldByManager' = HeldByManager
      BY <1>1, <1>5 DEF HeldByManager
    <2>2. Holders' = Holders \cup {w} /\ w \notin Holders
      BY <1>1, <1>4, <1>5 DEF Holders
    <2>3. HeldByWorkers' = HeldByWorkers \cup {f}
      BY <1>1, <1>4, <1>5 DEF HeldByWorkers
    <2>4. open' = Pending' \cup HeldByWorkers' \cup HeldByManager'
      BY <1>1, <1>3, <2>1, <2>3, FileFacts
    <2>5. Cardinality(Holders') = Cardinality(Holders) + 1
      BY <2>2, FileFacts, FS_AddElement
    <2>6. count' = count - 1 /\ count \in Nat
      BY <1>1, FileFacts DEF buffer_get
    <2>7. Cardinality(HeldByManager) \in Nat
      BY FileFacts DEF HeldByManager
    <2>8. Cardinality(open') = count' + Cardinality(Holders') + Cardinality(HeldByManager')
      BY <1>1, <2>1, <2>5, <2>6, <2>7, FileFacts
    <2> QED
      BY <2>4, <2>8 DEF DescriptorsOwned, Holders
  <1>8. CopiesRight'
    <2>1. copies[f] # 1
      BY <1>3, <1>4 DEF Work, CopiesRight
    <2>2. \A g \in Files : copies[g] = 1 =>
            \A v \in Workers : item'[v] = g => pc'[v] = "close"
      BY <1>5, <2>1 DEF Work, CopiesRight
    <2>3. Reporting' = Reporting /\ CopiedFiles' = CopiedFiles
      BY <1>1, <1>2, <1>5 DEF Reporting, CopiedFiles
    <2> QED
      BY <1>1, <1>3, <2>2, <2>3 DEF Work, CopiesRight, Reporting, CopiedFiles
  <1> QED
    BY <1>3, <1>6, <1>7, <1>8 DEF Work

(* The steps after the get leave the buffer and the manager alone.         *)
LEMMA Apart ==
  ASSUME TypeOK, Work, NEW w \in Workers, Copy(w) \/ Close(w) \/ Report(w)
  PROVE  /\ UNCHANGED <<pos, data, count, head, tail>>
         /\ Pending' = Pending /\ BufferRight' /\ HeldByManager' = HeldByManager
         /\ pc'[Manager] = pc[Manager] /\ \A v \in Workers \ {w} : pc'[v] = pc[v]
         /\ Copy(w) => pc[w] = "copy" /\ pc'[w] = "close"
         /\ Close(w) => pc[w] = "close" /\ pc'[w] = "report"
         /\ Report(w) => pc[w] = "report" /\ pc'[w] = "get"
  <1>1. UNCHANGED <<pos, data, count, head, tail>>
    BY DEF Copy, Close, Report, WorkerGoes, buffer
  <1>2. /\ pc'[Manager] = pc[Manager] /\ \A v \in Workers \ {w} : pc'[v] = pc[v]
        /\ Copy(w) => pc[w] = "copy" /\ pc'[w] = "close"
        /\ Close(w) => pc[w] = "close" /\ pc'[w] = "report"
        /\ Report(w) => pc[w] = "report" /\ pc'[w] = "get"
    BY ThreadFacts DEF Copy, Close, Report, WorkerGoes, TypeOK
  <1>3. Pending' = Pending /\ BufferRight'
    BY <1>1 DEF Pending, Slot, Work, BufferRight
  <1>4. HeldByManager' = HeldByManager
    BY <1>1, <1>2 DEF HeldByManager
  <1> QED
    BY <1>1, <1>2, <1>3, <1>4

LEMMA CopyKeeps ==
  ASSUME TypeOK, Work, NEW w \in Workers, Copy(w)
  PROVE  Work'
  <1> DEFINE f == item[w]
  <1>1. /\ UNCHANGED <<item, open, num_files_copied>>
        /\ copies' = [copies EXCEPT ![f] = copies[f] + 1]
    BY DEF Copy
  <1>2. f \in Files /\ f < pos /\ f \notin Pending /\ w \in Holders
    BY Apart, FileFacts DEF Holders, Work, ItemsRight
  <1>3. copies[f] = 0
    BY <1>2, Apart DEF Work, CopiesRight
  <1>4. copies'[f] = 1 /\ \A g \in Files \ {f} : copies'[g] = copies[g]
    BY <1>1, <1>2, <1>3 DEF TypeOK
  <1> HIDE DEF f
  <1>5. ItemsRight'
    <2>1. \A v \in Workers : pc'[v] \in {"copy", "close"} <=> pc[v] \in {"copy", "close"}
      BY Apart
    <2> QED
      BY <1>1, <2>1, Apart DEF Work, ItemsRight
  <1>6. DescriptorsOwned'
    <2>1. HeldByWorkers' = HeldByWorkers
      BY <1>1 DEF HeldByWorkers
    <2> QED
      BY <1>1, <2>1, Apart DEF Work, DescriptorsOwned
  <1>7. CopiesRight'
    <2>1. ASSUME NEW g \in Files
          PROVE  /\ copies'[g] \in {0, 1}
                 /\ copies'[g] = 1 => g < pos' /\ g \notin Pending'
                 /\ copies'[g] = 1 => \A v \in Workers : item'[v] = g => pc'[v] = "close"
      <3>1. CASE g = f
        <4>1. \A v \in Workers : item[v] = f => v = w
          BY <1>2 DEF f, Holders, Work, ItemsRight
        <4> QED
          BY <1>1, <1>2, <1>4, <3>1, <4>1, Apart
      <3>2. CASE g # f
        <4>1. copies'[g] = copies[g] /\ item[w] # g
          BY <1>4, <3>2 DEF f
        <4> QED
          BY <1>1, <4>1, Apart DEF Work, CopiesRight
      <3> QED
        BY <3>1, <3>2
    <2>2. Reporting' = Reporting \cup {w} /\ w \notin Reporting
      BY Apart DEF Reporting
    <2>3. CopiedFiles' = CopiedFiles \cup {f} /\ f \notin CopiedFiles
      BY <1>2, <1>3, <1>4 DEF CopiedFiles
    <2>4. /\ Cardinality(Reporting') = Cardinality(Reporting) + 1
          /\ Cardinality(CopiedFiles') = Cardinality(CopiedFiles) + 1
      BY <2>2, <2>3, FileFacts, FS_AddElement
    <2>5. Cardinality(CopiedFiles') = num_files_copied' + Cardinality(Reporting')
      BY <1>1, <2>4, FileFacts DEF TypeOK
    <2> QED
      BY <2>1, <2>5 DEF CopiesRight, Reporting, CopiedFiles
  <1> QED
    BY <1>5, <1>6, <1>7, Apart DEF Work

LEMMA CloseKeeps ==
  ASSUME TypeOK, Work, NEW w \in Workers, Close(w)
  PROVE  Work'
  <1> DEFINE f == item[w]
  <1>1. /\ UNCHANGED <<copies, num_files_copied>>
        /\ open' = open \ {f} /\ item' = [item EXCEPT ![w] = NoFile]
    BY DEF Close
  <1>2. f \in Files /\ f < pos /\ f \notin Pending /\ w \in Holders /\ f # NoFile
    BY Apart, FileFacts DEF Holders, Work, ItemsRight
  <1>3. \A v \in Workers \ {w} : item[v] # f
    BY <1>2 DEF Work, ItemsRight
  <1>4. item'[w] = NoFile /\ \A v \in Workers \ {w} : item'[v] = item[v]
    BY <1>1 DEF TypeOK
  <1>5. ItemsRight'
    <2>1. ASSUME NEW v \in Workers
          PROVE  /\ item'[v] # NoFile <=> pc'[v] \in {"copy", "close"}
                 /\ item'[v] # NoFile => item'[v] < pos' /\ item'[v] \notin Pending'
      BY <1>4, Apart DEF Work, ItemsRight
    <2>2. ASSUME NEW u \in Workers, NEW v \in Workers, item'[u] # NoFile,
                 item'[u] = item'[v]
          PROVE  u = v
      BY <1>4, <2>2 DEF Work, ItemsRight
    <2> QED
      BY <2>1, <2>2, Apart DEF Work, ItemsRight
  <1>6. DescriptorsOwned'
    <2>1. HeldByWorkers' = HeldByWorkers \ {f}
      BY <1>2, <1>3, <1>4 DEF HeldByWorkers
    <2>2. Holders' = Holders \ {w}
      BY <1>4 DEF Holders
    <2>3. f \in open /\ f \notin HeldByManager
      <3>1. f \in HeldByWorkers
        BY <1>2 DEF HeldByWorkers
      <3> QED
        BY <1>2, <3>1, FileFacts DEF HeldByManager
    <2>4. /\ Cardinality(Holders') = Cardinality(Holders) - 1
          /\ Cardinality(open') = Cardinality(open) - 1
      BY <1>1, <1>2, <2>2, <2>3, FileFacts, FS_RemoveElement
    <2>5. open' = Pending' \cup HeldByWorkers' \cup HeldByManager'
      BY <1>1, <1>2, <2>1, <2>3, FileFacts, Apart
    <2>6. Cardinality(HeldByManager) \in Nat
      BY FileFacts DEF HeldByManager
    <2>7. Cardinality(open') = count' + Cardinality(Holders') + Cardinality(HeldByManager')
      BY <2>4, <2>6, FileFacts, Apart
    <2> QED
      BY <2>5, <2>7 DEF DescriptorsOwned, Holders
  <1>7. CopiesRight'
    <2>1. \A g \in Files : copies[g] = 1 =>
            \A v \in Workers : item'[v] = g => pc'[v] = "close"
      BY <1>4, FileFacts, Apart DEF Work, CopiesRight
    <2>2. Reporting' = Reporting /\ CopiedFiles' = CopiedFiles
      BY <1>1, Apart DEF Reporting, CopiedFiles
    <2> QED
      BY <1>1, <2>1, <2>2, Apart DEF Work, CopiesRight, Reporting, CopiedFiles
  <1> QED
    BY <1>5, <1>6, <1>7, Apart DEF Work

LEMMA ReportKeeps ==
  ASSUME TypeOK, Work, NEW w \in Workers, Report(w)
  PROVE  Work'
  <1>1. /\ UNCHANGED <<item, open, copies>> /\ num_files_copied' = num_files_copied + 1
    BY DEF Report
  <1>2. ItemsRight'
    <2>1. \A v \in Workers : pc'[v] \in {"copy", "close"} <=> pc[v] \in {"copy", "close"}
      BY Apart
    <2> QED
      BY <1>1, <2>1, Apart DEF Work, ItemsRight
  <1>3. DescriptorsOwned'
    <2>1. HeldByWorkers' = HeldByWorkers
      BY <1>1 DEF HeldByWorkers
    <2> QED
      BY <1>1, <2>1, Apart DEF Work, DescriptorsOwned
  <1>4. CopiesRight'
    <2>1. \A v \in Workers : pc'[v] = "close" <=> pc[v] = "close"
      BY Apart
    <2>2. Reporting' = Reporting \ {w} /\ w \in Reporting /\ CopiedFiles' = CopiedFiles
      BY <1>1, Apart DEF Reporting, CopiedFiles
    <2>3. Cardinality(Reporting') = Cardinality(Reporting) - 1
      BY <2>2, FileFacts, FS_RemoveElement
    <2>4. Cardinality(CopiedFiles') = num_files_copied' + Cardinality(Reporting')
      <3>1. num_files_copied \in Nat /\ Cardinality(Reporting) \in Nat
            /\ Cardinality(CopiedFiles) = num_files_copied + Cardinality(Reporting)
        BY FileFacts DEF TypeOK
      <3> QED
        BY <1>1, <2>2, <2>3, <3>1
    <2> QED
      BY <1>1, <2>1, <2>4, Apart DEF Work, CopiesRight, Reporting, CopiedFiles
  <1> QED
    BY <1>2, <1>3, <1>4, Apart DEF Work

LEMMA WorkKept ==
  ASSUME TypeOK, Work, [Next]_vars
  PROVE  Work'
  <1>1. CASE SameWork
    BY <1>1, SameWorkKeeps
  <1>2. CASE ManagerStep
    BY <1>2, Idle, ThreadFacts, SameWorkKeeps, OpenFileKeeps, PutKeeps, StopWalkKeeps
    DEF ManagerStep
  <1>3. ASSUME NEW w \in Workers, WorkerStep(w) PROVE Work'
    BY <1>3, Idle, ThreadFacts, SameWorkKeeps, GetKeeps, CopyKeeps, CloseKeeps, ReportKeeps
    DEF WorkerStep
  <1>4. CASE Aside
    BY <1>4, Idle, SameWorkKeeps
  <1> QED
    BY <1>2, <1>3, <1>4 DEF Next, Aside

-----------------------------------------------------------------------------
(* The way to the barrier: threads come one at a time, when done is set,   *)
(* and a worker when the buffer is empty.                                  *)
Comes(t) ==
    /\ Past' = Past \cup {t}
    /\ Arrive /\ done' /\ UNCHANGED count
    /\ t \in Workers => count = 0

LEMMA Arrivals ==
  ASSUME TypeOK, [Next]_vars
  PROVE  /\ done => done'
         /\ done /\ count = 0 => count' = 0
         /\ (Past' = Past /\ UNCHANGED arrived) \/ \E t \in Threads \ Past : Comes(t)
         /\ UseBarrier /\ (\E t \in Threads : pc'[t] = "ended")
              => BarrierOpen \/ \E t \in Threads : pc[t] = "ended"
  <1> DEFINE Goal ==
        /\ done => done'
        /\ done /\ count = 0 => count' = 0
        /\ (Past' = Past /\ UNCHANGED arrived) \/ \E t \in Threads \ Past : Comes(t)
        /\ UseBarrier /\ (\E t \in Threads : pc'[t] = "ended")
             => BarrierOpen \/ \E t \in Threads : pc[t] = "ended"
  <1>1. ASSUME NEW t \in Threads, NEW to \in Steps \ {"barrier", "ended"},
               Moves(t, to), pc[t] \notin {"barrier", "ended"}
        PROVE  Past' = Past /\ \A u \in Threads : pc'[u] = "ended" => pc[u] = "ended"
    BY <1>1 DEF Moves, Woken, Past
  <1>2. ASSUME NEW t \in Threads, Moves(t, Leave), pc[t] \notin {"barrier", "ended"}
        PROVE  /\ t \in Threads \ Past /\ Past' = Past \cup {t}
               /\ UseBarrier => \A u \in Threads : pc'[u] = "ended" => pc[u] = "ended"
    BY <1>2 DEF Moves, Woken, Past, Leave
  <1>3. (UNCHANGED pc) \/ (\A u \in Threads : Woken(pc', u))
          => Past' = Past /\ \A u \in Threads : pc'[u] = "ended" => pc[u] = "ended"
    BY DEF Woken, Past
  <1>4. ASSUME NEW t \in Threads, PassBarrier(t) PROVE Goal
    <2>1. Past' = Past
      BY <1>4, ThreadMoves DEF PassBarrier, Moves, Woken, Past
    <2> QED
      BY <1>4, <2>1 DEF PassBarrier, buffer
  <1>5. CASE OpenFile \/ WaitNotFull \/ Put \/ StopWalk
    <2>1. \E to \in Steps \ {"barrier", "ended"} : Moves(Manager, to)
      BY <1>5, ThreadMoves DEF Steps, ManagerSteps
    <2>2. pc[Manager] \notin {"barrier", "ended"}
      BY <1>5 DEF OpenFile, WaitNotFull, Put, StopWalk, AtPut
    <2>3. Past' = Past /\ \A u \in Threads : pc'[u] = "ended" => pc[u] = "ended"
      BY <1>1, <2>1, <2>2, ThreadFacts
    <2>4. UNCHANGED <<done, arrived>> /\ (UNCHANGED count \/ ~done)
      BY <1>5 DEF OpenFile, WaitNotFull, Put, StopWalk, buffer
    <2> QED
      BY <2>3, <2>4
  <1>6. CASE FinishWalk
    <2>1. pc[Manager] \notin {"barrier", "ended"} /\ Manager \notin Workers
      BY <1>6, ThreadFacts DEF FinishWalk
    <2>2. /\ Manager \in Threads \ Past /\ Past' = Past \cup {Manager}
          /\ UseBarrier => \A u \in Threads : pc'[u] = "ended" => pc[u] = "ended"
      BY <1>2, <1>6, <2>1, ThreadMoves, ThreadFacts
    <2>3. Comes(Manager)
      BY <1>6, <2>1, <2>2 DEF FinishWalk, Comes, buffer
    <2> QED
      BY <1>6, <2>2, <2>3 DEF FinishWalk, buffer
  <1>7. CASE ManagerStep
    <2>1. CASE Skip \/ SkipTree
      <3>1. UNCHANGED <<pc, done, arrived, count>>
        BY <2>1 DEF Skip, SkipTree, buffer
      <3> QED
        BY <1>3, <3>1
    <2> QED
      BY <1>4, <1>5, <1>6, <1>7, <2>1, ThreadFacts DEF ManagerStep
  <1>8. ASSUME NEW w \in Workers, WorkerStep(w) PROVE Goal
    <2>1. CASE Stop(w)
      <3>1. pc[w] \notin {"barrier", "ended"}
        BY <2>1 DEF Stop, AtGet
      <3>2. /\ w \in Threads \ Past /\ Past' = Past \cup {w}
            /\ UseBarrier => \A u \in Threads : pc'[u] = "ended" => pc[u] = "ended"
        BY <1>2, <2>1, <3>1, ThreadMoves, ThreadFacts
      <3>3. Comes(w)
        BY <2>1, <3>2 DEF Stop, Comes, buffer, buffer_is_empty
      <3> QED
        BY <2>1, <3>2, <3>3 DEF Stop, buffer
    <2>2. CASE WaitNotEmpty(w) \/ Get(w) \/ Copy(w) \/ Close(w) \/ Report(w)
      <3>1. \E to \in Steps \ {"barrier", "ended"} : Moves(w, to)
        BY <2>2, ThreadMoves DEF Steps, WorkerSteps
      <3>2. pc[w] \notin {"barrier", "ended"}
        BY <2>2 DEF WaitNotEmpty, Get, Copy, Close, Report, WorkerGoes, AtGet
      <3>3. Past' = Past /\ \A u \in Threads : pc'[u] = "ended" => pc[u] = "ended"
        BY <1>1, <3>1, <3>2, ThreadFacts
      <3>4. UNCHANGED <<done, arrived>> /\ (UNCHANGED count \/ count # 0)
        BY <2>2 DEF WaitNotEmpty, Get, Copy, Close, Report, WorkerGoes, buffer,
                    buffer_is_empty
      <3> QED
        BY <3>3, <3>4
    <2> QED
      BY <1>4, <1>8, <2>1, <2>2, ThreadFacts DEF WorkerStep
  <1>9. CASE Aside
    <2>1. UNCHANGED <<arrived, count>> /\ (done => done')
      <3>1. UNCHANGED <<arrived, buffer>> /\ done' \in {TRUE, done}
        BY <1>9, AsideMoves, Zenon
      <3>2. done => done'
        BY <3>1, Zenon
      <3> QED
        BY <3>1, <3>2 DEF buffer
    <2>2. Past' = Past /\ \A u \in Threads : pc'[u] = "ended" => pc[u] = "ended"
      BY <1>3, <1>9, AsideMoves
    <2> QED
      BY <2>1, <2>2
  <1> QED
    BY <1>7, <1>8, <1>9 DEF Next, Aside

LEMMA BarrierKept ==
  ASSUME TypeOK, BarrierRight, [Next]_vars
  PROVE  BarrierRight' /\ arrived' \in 0 .. NumWorkers + 1
  <1>1. /\ Past \subseteq Threads /\ Past' \subseteq Threads
        /\ IsFiniteSet(Past) /\ IsFiniteSet(Past')
        /\ Cardinality(Past) \in Nat /\ Cardinality(Past') \in 0 .. NumWorkers + 1
    <2>1. Past \subseteq Threads /\ Past' \subseteq Threads
      BY DEF Past
    <2>2. \A S \in SUBSET Threads :
            IsFiniteSet(S) /\ Cardinality(S) \in Nat /\ Cardinality(S) <= NumWorkers + 1
      BY ThreadFacts, FS_Subset, FS_CardinalityType
    <2> QED
      BY <2>1, <2>2, NumWorkersAssumption
  <1>2. Past' # {} => done'
    BY Arrivals DEF BarrierRight, Comes
  <1>3. Past' \cap Workers # {} => count' = 0
    <2>1. CASE Past \cap Workers # {}
      BY <2>1, Arrivals DEF BarrierRight
    <2>2. CASE Past \cap Workers = {}
      BY <2>2, Arrivals DEF Comes
    <2> QED
      BY <2>1, <2>2
  <1>4. arrived' = IF UseBarrier THEN Cardinality(Past') ELSE 0
    <2>1. CASE Past' = Past /\ UNCHANGED arrived
      BY <2>1 DEF BarrierRight
    <2>2. ASSUME NEW t \in Threads \ Past, Comes(t)
          PROVE  arrived' = IF UseBarrier THEN Cardinality(Past') ELSE 0
      <3>1. Cardinality(Past \cup {t}) = Cardinality(Past) + 1
        BY <1>1, FS_AddElement
      <3> QED
        BY <2>2, <3>1 DEF Comes, Arrive, BarrierRight
    <2> QED
      BY <2>1, <2>2, Arrivals
  <1>5. ASSUME UseBarrier, \E t \in Threads : pc'[t] = "ended"
        PROVE  Past' = Threads
    <2>1. Past = Threads
      <3>1. CASE BarrierOpen
        <4>1. Cardinality(Past) = Cardinality(Threads)
          BY <1>5, <3>1, ThreadFacts DEF BarrierOpen, BarrierRight
        <4> QED
          BY <1>1, <4>1, ThreadFacts, FS_Subset
      <3>2. CASE \E t \in Threads : pc[t] = "ended"
        BY <1>5, <3>2 DEF BarrierRight
      <3> QED
        BY <1>5, <3>1, <3>2, Arrivals
    <2> QED
      BY <1>1, <2>1, EndedStays
  <1>6. arrived' \in 0 .. NumWorkers + 1
    BY <1>1, <1>4, NumWorkersAssumption
  <1> QED
    BY <1>2, <1>3, <1>4, <1>5, <1>6 DEF BarrierRight

(* Main and the handlers only go through their own states, and who is in  *)
(* a handler never leaves it.                                              *)
LEMMA MainTyped ==
  ASSUME TypeOK, [Next]_vars
  PROVE  /\ main' \in {"join_manager", "join_workers", "handler_done", "handler_join",
                       "handler_cleanup", "handler_cleaned", "cleaned", "exited",
                       "crashed"}
         /\ joined' \in 0 .. NumWorkers /\ joining' \in 0 .. NumWorkers
         /\ handler' \in [Threads -> {"no", "done", "join"}] /\ kept' \in BOOLEAN
         /\ InHandler \subseteq InHandler'
  <1>1. NumWorkers \in Nat
    BY NumWorkersAssumption
  <1>2. CASE UNCHANGED mainVars
    BY <1>2 DEF mainVars, joins, again, InHandler, TypeOK
  <1>3. CASE ManagerStep \/ (\E w \in Workers : WorkerStep(w)) \/ SpuriousWakeup
             \/ UNCHANGED vars
    BY <1>2, <1>3
    DEF ManagerStep, Skip, SkipTree, OpenFile, WaitNotFull, Put, StopWalk, FinishWalk,
        PassBarrier, WorkerStep, WaitNotEmpty, Stop, Get, Copy, Close, Report,
        WorkerGoes, SpuriousWakeup, vars, mainVars, joins, again
  <1>4. CASE MainStep \/ Interrupt
    BY <1>1, <1>4
    DEF MainStep, JoinManager, JoinWorker, Cleanup, Exit, HandlerDone, HandlerJoin,
        Interrupt, joins, again, InHandler, TypeOK
  <1>5. ASSUME NEW t \in Threads, InterruptThread(t) \/ ThreadHandlerDone(t)
        PROVE  /\ UNCHANGED <<main, joins>> /\ kept' \in BOOLEAN
               /\ handler' \in [Threads -> {"no", "done", "join"}]
               /\ InHandler \subseteq InHandler'
    <2>1. PICK h \in {"done", "join"} : handler' = [handler EXCEPT ![t] = h]
      BY <1>5 DEF InterruptThread, ThreadHandlerDone
    <2>2. handler \in [Threads -> {"no", "done", "join"}] /\ kept \in BOOLEAN
      BY DEF TypeOK
    <2>3. UNCHANGED <<main, joins>>
      BY <1>5 DEF InterruptThread, ThreadHandlerDone
    <2>4. kept' \in BOOLEAN
      <3>1. CASE InterruptThread(t)
        BY <2>2, <3>1, Zenon DEF InterruptThread
      <3>2. CASE ThreadHandlerDone(t)
        BY <2>2, <3>2, Zenon DEF ThreadHandlerDone
      <3> QED
        BY <1>5, <3>1, <3>2
    <2> QED
      BY <2>1, <2>2, <2>3, <2>4 DEF InHandler
  <1>6. ASSUME NEW t \in Threads, ThreadHandlerEnd(t)
        PROVE  main' \in {"exited", "crashed"} /\ UNCHANGED <<joins, again>>
    BY <1>6 DEF ThreadHandlerEnd
  <1> QED
    BY <1>3, <1>4, <1>5, <1>6 DEF Next, HandlerStep, joins, again, InHandler, TypeOK

(* What main knows stays true: who has ended does not come back.           *)
LEMMA MainKept ==
  ASSUME TypeOK, BarrierRight, MainRight, [Next]_vars
  PROVE  MainRight'
  <1>1. /\ \A t \in Threads : pc[t] = "ended" => pc'[t] = "ended"
        /\ Past \subseteq Past' /\ Past' \subseteq Threads
        /\ InHandler \subseteq InHandler'
    BY EndedStays, MainTyped DEF Past
  <1>2. /\ Manager \in Threads /\ Workers \subseteq Threads /\ 1 \in Workers
        /\ NumWorkers \in Nat /\ Workers = 1 .. NumWorkers
        /\ joined \in 0 .. NumWorkers /\ joining \in 0 .. NumWorkers
    BY ThreadFacts, NumWorkersAssumption DEF TypeOK, Workers
  <1>3. CASE UNCHANGED <<main, joins>>
    BY <1>1, <1>2, <1>3 DEF joins, Cleaned, MainRight
  <1>4. CASE JoinManager
    BY <1>1, <1>2, <1>4 DEF JoinManager, joins, Cleaned, MainRight
  <1>5. CASE JoinWorker
    BY <1>1, <1>2, <1>5 DEF JoinWorker, Cleaned, MainRight
  <1>6. CASE Cleanup
    <2>1. UseBarrier /\ InHandler = {} => Past = Threads
      <3>1. CASE main = "join_workers" /\ joined = NumWorkers
        <4>1. pc[1] = "ended"
          BY <1>2, <3>1 DEF MainRight
        <4> QED
          BY <1>2, <4>1 DEF BarrierRight
      <3> QED
        BY <1>6, <3>1 DEF Cleanup, MainRight
    <2> QED
      BY <1>1, <1>2, <1>6, <2>1 DEF Cleanup, joins, Cleaned, MainRight
  <1>7. CASE Exit \/ HandlerDone
    BY <1>1, <1>2, <1>7 DEF Exit, HandlerDone, joins, Cleaned, MainRight
  <1>8. CASE Interrupt
    BY <1>1, <1>2, <1>8 DEF Interrupt, Cleaned, MainRight
  <1>9. CASE HandlerJoin
    <2>1. main' = "handler_cleanup" /\ UseBarrier /\ InHandler = {} => Past = Threads
      <3> SUFFICES ASSUME main' = "handler_cleanup", UseBarrier, InHandler = {}
                   PROVE  Past = Threads
        OBVIOUS
      <3>1. \A w \in Workers \ HandlerJoined : pc[w] = "ended"
        BY <1>9 DEF HandlerJoin
      <3>2. CASE 1 \in HandlerJoined
        <4>1. pc[Manager] = "ended"
          BY <1>2, <3>2 DEF HandlerJoined, MainRight
        <4> QED
          BY <1>2, <4>1 DEF BarrierRight
      <3>3. CASE 1 \notin HandlerJoined
        BY <1>2, <3>1, <3>3 DEF BarrierRight
      <3> QED
        BY <3>2, <3>3
    <2> QED
      BY <1>1, <1>2, <1>9, <2>1 DEF HandlerJoin, joins, Cleaned, MainRight
  <1>10. CASE ManagerStep \/ (\E w \in Workers : WorkerStep(w)) \/ SpuriousWakeup
              \/ UNCHANGED vars
    BY <1>3, <1>10
    DEF ManagerStep, Skip, SkipTree, OpenFile, WaitNotFull, Put, StopWalk, FinishWalk,
        PassBarrier, WorkerStep, WaitNotEmpty, Stop, Get, Copy, Close, Report,
        WorkerGoes, SpuriousWakeup, vars, mainVars, joins
  <1>11. ASSUME NEW t \in Threads, InterruptThread(t) \/ ThreadHandlerDone(t)
         PROVE  MainRight'
    BY <1>3, <1>11 DEF InterruptThread, ThreadHandlerDone
  <1>12. ASSUME NEW t \in Threads, ThreadHandlerEnd(t)
         PROVE  MainRight'
    <2>1. InHandler' # {}
      <3>1. t \in InHandler
        BY <1>12 DEF ThreadHandlerEnd, InHandler
      <3> QED
        BY <1>1, <3>1
    <2> QED
      BY <1>1, <1>2, <1>12, <2>1 DEF ThreadHandlerEnd, joins, Cleaned, MainRight
  <1> QED
    BY <1>4, <1>5, <1>6, <1>7, <1>8, <1>9, <1>10, <1>11, <1>12
    DEF Next, MainStep, HandlerStep

-----------------------------------------------------------------------------
(* The types of the data.                                                  *)
DataOK ==
    /\ pos \in 1 .. Len(Tree) + 1
    /\ item \in [Workers -> Files \cup {NoFile}]
    /\ data \in [0 .. BufferSize - 1 -> Files \cup {NoFile}]
    /\ count \in 0 .. BufferSize
    /\ head \in 0 .. BufferSize - 1 /\ tail \in 0 .. BufferSize - 1
    /\ done \in BOOLEAN
    /\ open \subseteq Files
    /\ copies \in [Files -> Nat] /\ num_files_copied \in Nat

LEMMA DataTyped ==
  ASSUME TypeOK, ItemsRight, [Next]_vars
  PROVE  DataOK'
  <1>1. DataOK
    BY DEF TypeOK, DataOK
  <1>2. /\ BufferSize \in Nat \ {0} /\ Len(Tree) \in Nat
        /\ Files \subseteq 1 .. Len(Tree) /\ Entries = 1 .. Len(Tree)
        /\ \A i \in 0 .. BufferSize - 1 : (i + 1) % BufferSize \in 0 .. BufferSize - 1
    <2>1. BufferSize \in Nat \ {0}
      BY BufferSizeAssumption
    <2>2. ASSUME NEW i \in 0 .. BufferSize - 1
          PROVE  (i + 1) % BufferSize \in 0 .. BufferSize - 1
      BY <2>1
    <2> QED
      BY <2>1, <2>2, TreeFacts
  <1>3. CASE UNCHANGED <<pos, item, buffer, files>> /\ done' \in {TRUE, done}
    BY <1>1, <1>3 DEF DataOK, buffer, files
  <1>4. ASSUME pos' \in pos + 1 .. Len(Tree) + 1, UNCHANGED <<item, done, copies, num_files_copied>>,
               open' \subseteq open, UNCHANGED buffer
        PROVE  DataOK'
    BY <1>1, <1>2, <1>4 DEF DataOK, buffer
  <1>5. CASE Skip
    BY <1>1, <1>2, <1>4, <1>5 DEF Skip, files, DataOK
  <1>6. CASE SkipTree
    BY <1>4, <1>6, WalkForward DEF SkipTree, files
  <1>7. CASE StopWalk
    <2>1. pos \in Entries
      BY <1>2, <1>7 DEF StopWalk, AtPut, ItemsRight
    <2> QED
      BY <1>4, <1>7, <2>1, WalkForward DEF StopWalk
  <1>8. CASE OpenFile
    BY <1>1, <1>8 DEF OpenFile, DataOK, buffer
  <1>9. CASE Put
    <2>1. pos \in Files /\ pos' = pos + 1 /\ count # BufferSize
      BY <1>9 DEF Put, AtPut, ItemsRight, buffer_is_full
    <2>2. pos' \in 1 .. Len(Tree) + 1 /\ count' \in 0 .. BufferSize
          /\ tail' \in 0 .. BufferSize - 1 /\ UNCHANGED head
      BY <1>1, <1>2, <1>9, <2>1 DEF Put, buffer_add, DataOK
    <2>3. data' \in [0 .. BufferSize - 1 -> Files \cup {NoFile}]
      BY <1>1, <1>9, <2>1 DEF Put, buffer_add, DataOK
    <2> QED
      BY <1>1, <1>9, <2>2, <2>3 DEF Put, DataOK, files
  <1>10. CASE ManagerStep
    <2>1. CASE WaitNotFull \/ FinishWalk \/ PassBarrier(Manager)
      BY <1>3, <2>1 DEF WaitNotFull, FinishWalk, PassBarrier
    <2> QED
      BY <1>5, <1>6, <1>7, <1>8, <1>9, <1>10, <2>1 DEF ManagerStep
  <1>11. ASSUME NEW w \in Workers, WorkerStep(w) PROVE DataOK'
    <2>1. CASE WaitNotEmpty(w) \/ Stop(w) \/ PassBarrier(w)
      BY <1>3, <2>1 DEF WaitNotEmpty, Stop, PassBarrier
    <2>2. CASE Get(w)
      <3>1. count' \in 0 .. BufferSize /\ head' \in 0 .. BufferSize - 1
            /\ UNCHANGED <<data, tail>>
        BY <1>1, <1>2, <2>2 DEF Get, buffer_get, buffer_is_empty, DataOK
      <3>2. item' \in [Workers -> Files \cup {NoFile}]
        BY <1>1, <2>2 DEF Get, DataOK
      <3> QED
        BY <1>1, <2>2, <3>1, <3>2 DEF Get, DataOK, files
    <2>3. CASE Copy(w)
      <3>1. item[w] \in Files
        BY <1>1, <2>3 DEF Copy, WorkerGoes, ItemsRight, DataOK
      <3>2. copies' \in [Files -> Nat]
        BY <1>1, <2>3, <3>1 DEF Copy, DataOK
      <3> QED
        BY <1>1, <2>3, <3>2 DEF Copy, WorkerGoes, DataOK, buffer
    <2>4. CASE Close(w) \/ Report(w)
      BY <1>1, <2>4 DEF Close, Report, WorkerGoes, DataOK, buffer
    <2> QED
      BY <1>11, <2>1, <2>2, <2>3, <2>4 DEF WorkerStep
  <1>12. CASE Aside
    BY <1>3, <1>12, AsideMoves
  <1> QED
    BY <1>10, <1>11, <1>12 DEF Next, Aside

-----------------------------------------------------------------------------
LEMMA Started ==
  ASSUME Init
  PROVE  IInv
  <1> USE DEF Init
  <1>1. /\ NumWorkers \in Nat \ {0} /\ BufferSize \in Nat \ {0} /\ Len(Tree) \in Nat
        /\ NoFile \notin Files /\ Manager \notin Workers /\ Workers # {}
        /\ Threads = Workers \cup {Manager}
    BY NumWorkersAssumption, BufferSizeAssumption, TreeFacts, ThreadFacts
  <1>2. /\ pc[Manager] = "walk" /\ \A w \in Workers : pc[w] = "get"
        /\ \A w \in Workers : item[w] = NoFile /\ \A f \in Files : copies[f] = 0
    BY <1>1
  <1>3. Pending = {} /\ 0 .. count - 1 = {} /\ Cardinality({}) = 0
    BY FS_EmptySet DEF Pending
  <1>4. TypeOK
    <2>1. /\ pc \in [Threads -> ManagerSteps \cup WorkerSteps]
          /\ pc[Manager] \in ManagerSteps /\ \A w \in Workers : pc[w] \in WorkerSteps
      BY <1>2 DEF ManagerSteps, WorkerSteps
    <2>2. /\ item \in [Workers -> Files \cup {NoFile}]
          /\ data \in [0 .. BufferSize - 1 -> Files \cup {NoFile}]
          /\ copies \in [Files -> Nat] /\ open \subseteq Files
      OBVIOUS
    <2>3. /\ pos \in 1 .. Len(Tree) + 1 /\ count \in 0 .. BufferSize
          /\ head \in 0 .. BufferSize - 1 /\ tail \in 0 .. BufferSize - 1
          /\ arrived \in 0 .. NumWorkers + 1 /\ num_files_copied \in Nat
          /\ joined \in 0 .. NumWorkers /\ joining \in 0 .. NumWorkers
      BY <1>1
    <2>4. main = "join_manager" /\ done \in BOOLEAN /\ kept \in BOOLEAN
          /\ handler \in [Threads -> {"no", "done", "join"}]
      OBVIOUS
    <2> HIDE DEF Init
    <2> QED
      BY <2>1, <2>2, <2>3, <2>4 DEF TypeOK
  <1>5. BufferRight
    BY <1>1, <1>3, <1>4, Ring DEF BufferRight
  <1>6. ItemsRight
    BY <1>2 DEF ItemsRight
  <1>7. DescriptorsOwned
    <2>1. {w \in Workers : item[w] # NoFile} = {} /\ HeldByManager = {} /\ HeldByWorkers = {}
      BY <1>1, <1>2 DEF HeldByManager, HeldByWorkers
    <2>2. /\ Cardinality({w \in Workers : item[w] # NoFile}) = 0
          /\ Cardinality(HeldByManager) = 0 /\ open = {} /\ count = 0
      BY <1>3, <2>1
    <2> HIDE DEF Init
    <2> QED
      BY <1>3, <2>1, <2>2 DEF DescriptorsOwned
  <1>8. CopiesRight
    <2>1. {f \in Files : copies[f] = 1} = {}
          /\ {w \in Workers : pc[w] \in {"close", "report"}} = {}
      BY <1>2
    <2>2. /\ Cardinality({f \in Files : copies[f] = 1}) = 0
          /\ Cardinality({w \in Workers : pc[w] \in {"close", "report"}}) = 0
          /\ num_files_copied = 0
      BY <1>3, <2>1
    <2>3. \A f \in Files : copies[f] = 0
      BY <1>2
    <2> HIDE DEF Init
    <2> QED
      BY <2>2, <2>3 DEF CopiesRight
  <1>9. BarrierRight
    <2>1. Past = {}
      BY <1>1, <1>2 DEF Past
    <2> QED
      BY <1>1, <1>2, <1>3, <2>1 DEF BarrierRight
  <1>10. MainRight
    BY <1>1, <1>2 DEF MainRight, Cleaned, Workers
  <1> QED
    BY <1>4, <1>5, <1>6, <1>7, <1>8, <1>9, <1>10 DEF IInv

LEMMA Kept ==
  ASSUME IInv, [Next]_vars
  PROVE  IInv'
  <1>1. TypeOK /\ Work /\ BarrierRight /\ MainRight
    BY DEF IInv, Work
  <1>2. Work' /\ BarrierRight' /\ MainRight'
    BY <1>1, WorkKept, BarrierKept, MainKept
  <1>3. TypeOK'
    BY <1>1, PlacesTyped, DataTyped, BarrierKept, MainTyped
    DEF TypeOK, DataOK, Work, Steps
  <1> QED
    BY <1>2, <1>3 DEF IInv, Work

(* The inductive invariant: the ring holds different files in order, every *)
(* file is in one place, whoever is at the barrier saw done and an empty   *)
(* buffer, and main knows who has ended.                                   *)
THEOREM Invariance == Spec => []IInv
  <1>1. Init => IInv
    BY Started
  <1>2. IInv /\ [Next]_vars => IInv'
    BY Kept
  <1> QED
    BY <1>1, <1>2, PTL DEF Spec

(* Every pair of open descriptors has one owner who closes it: buffer_add, *)
(* buffer_get and the close calls of manager and worker fit together.      *)
THEOREM OneOwner == Spec => []DescriptorsOwned
  <1>1. IInv => DescriptorsOwned
    BY DEF IInv
  <1> QED
    BY <1>1, Invariance, PTL

(* With the barrier, the mutex and the buffer are destroyed after their    *)
(* last use, on the way through the handler of one SIGINT too.            *)
THEOREM NoUseAfterCleanup ==
  ASSUME UseBarrier
  PROVE  Spec => []CleanupLast
  <1>1. IInv => CleanupLast
    BY DEF IInv, MainRight, CleanupLast, Past
  <1> QED
    BY <1>1, Invariance, PTL

(* With the barrier, every file that was put is copied once, counted and   *)
(* closed when the statistics are printed.                                 *)
THEOREM EveryFileOnce ==
  ASSUME UseBarrier
  PROVE  Spec => []NothingLost
  <1>1. ASSUME IInv, Cleaned
        PROVE  /\ buffer_is_empty /\ open = {}
               /\ \A f \in Files : copies[f] <= 1
               /\ num_files_copied = Cardinality({f \in Files : copies[f] = 1})
    <2>1. TypeOK /\ Work /\ Past = Threads /\ count = 0
      BY <1>1, ThreadFacts DEF IInv, Work, MainRight, BarrierRight
    <2>2. \A t \in Threads : pc[t] \in {"barrier", "ended"}
      BY <2>1 DEF Past
    <2>3. Holders = {} /\ Reporting = {} /\ HeldByManager = {}
      BY <2>1, <2>2, ThreadFacts DEF Holders, Reporting, HeldByManager, Work, ItemsRight
    <2>4. open = {}
      <3>1. Pending = {} /\ HeldByWorkers = {}
        BY <2>1, <2>3, FileFacts DEF Pending
      <3> QED
        BY <2>1, <2>3, <3>1, FileFacts
    <2>5. num_files_copied = Cardinality(CopiedFiles)
      BY <2>1, <2>3, FileFacts DEF TypeOK
    <2>6. \A f \in Files : copies[f] <= 1
      BY <2>1 DEF Work, CopiesRight
    <2> QED
      BY <2>1, <2>4, <2>5, <2>6 DEF buffer_is_empty, CopiedFiles
  <1>2. IInv => NothingLost
    BY <1>1 DEF NothingLost
  <1> QED
    BY <1>2, Invariance, PTL

(* Nobody passes the barrier before everybody has come to it.              *)
THEOREM NobodyLeavesEarly ==
  ASSUME UseBarrier
  PROVE  Spec => BarrierHolds
  <1>1. ASSUME IInv, [Next]_vars, NEW t \in Threads,
               pc[t] # "ended", pc'[t] = "ended"
        PROVE  \A u \in Threads : pc[u] \in {"barrier", "ended"}
    <2>1. TypeOK /\ BarrierRight
      BY <1>1 DEF IInv
    <2>2. BarrierOpen \/ \E u \in Threads : pc[u] = "ended"
      BY <1>1, <2>1, Arrivals
    <2>3. CASE BarrierOpen
      <3>1. Cardinality(Past) = Cardinality(Threads) /\ Past \subseteq Threads
        BY <1>1, <2>1, <2>3, ThreadFacts DEF BarrierOpen, BarrierRight, Past
      <3>2. Past = Threads
        BY <3>1, ThreadFacts, FS_Subset
      <3> QED
        BY <3>2 DEF Past
    <2>4. CASE \E u \in Threads : pc[u] = "ended"
      BY <1>1, <2>1, <2>4 DEF BarrierRight, Past
    <2> QED
      BY <2>2, <2>3, <2>4
  <1>2. IInv /\ [Next]_vars =>
          [\A t \in Threads : pc[t] # "ended" /\ pc'[t] = "ended" =>
             \A u \in Threads : pc[u] \in {"barrier", "ended"}]_vars
    BY <1>1
  <1> QED
    BY <1>2, Invariance, PTL DEF BarrierHolds, Spec
===============================================================================
