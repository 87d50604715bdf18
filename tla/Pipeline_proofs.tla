----------------------------- MODULE Pipeline_proofs ----------------------------
(***************************************************************************)
(* Proofs about Pipeline, for any set of array sizes and any size of the   *)
(* FIFOs.                                                                  *)
(***************************************************************************)
EXTENDS Pipeline, SequenceTheorems, TLAPS

(* What is read from FIFO2 leaves a sequence of the same items.            *)
LEMMA RestTyped ==
  ASSUME NEW S, fifo2 \in Seq(S), NEW item, Arrives(item)
  PROVE  fifo2' \in Seq(S)
  <1>1. CASE fifo2 # <<>> /\ fifo2' = Tail(fifo2)
    BY <1>1
  <1>2. CASE UNCHANGED fifo2
    BY <1>2
  <1> QED
    BY <1>1, <1>2 DEF Arrives

(* The history variable stays set.                                         *)
LEMMA EarlyStays ==
  ASSUME IInv, [Next]_vars, early
  PROVE  early'
  <1>1. CASE Parent
    BY <1>1 DEF Parent, OpenFifo1, WriteArray, PipeBroken, OpenFifo2,
       WriteCommand, OpenAgain, WriteNumber, Completed
  <1>2. CASE ReapChildren \/ Child2
    BY <1>2 DEF ReapChildren, Child2, ReadCommand, ReadNumber, ReadSum
  <1>3. CASE Child1
    BY <1>3 DEF Child1, ReadArray, CloseFifo1, Child1Opens2, WriteSum
  <1> QED
    BY <1>1, <1>2, <1>3 DEF Next, vars

(* While the sum stays behind, child 2 exits after everything was sent.    *)
LEMMA LastReader ==
  ASSUME IInv, ~early, child2 \in Exited
  PROVE  /\ sent = arraySize /\ child1 \in Exited
         /\ parent \in {"proceed", "success"}
  <1>1. StreamKept /\ Stages /\ Len(fifo2) \in Nat /\ arraySize \in Nat \ {0}
        /\ sent \in 0 .. arraySize
    BY SizesAssumption DEF IInv, TypeOK, InOrder
  <1>2. Taken = arraySize + 2
    BY <1>1 DEF Taken, Stages, Exited
  <1>3. Total >= arraySize + 2
    BY <1>1, <1>2 DEF StreamKept
  <1>4. child1 \in Exited
    BY <1>1, <1>3 DEF Total
  <1> QED
    BY <1>1, <1>4 DEF Stages

(* Every step leaves each variable in its type.                            *)
LEMMA Typed ==
  ASSUME IInv, [Next]_vars
  PROVE  TypeOK'
  <1>. USE SizesAssumption DEF one, got, signals, Over, Exited, Reading1, Reading2
  <1>1. CASE OpenFifo1
    BY <1>1 DEF OpenFifo1, IInv, TypeOK
  <1>2. CASE WriteArray
    BY <1>2 DEF WriteArray, IInv, TypeOK, Least, ArrayWhole
  <1>3. CASE PipeBroken
    BY <1>3 DEF PipeBroken, IInv, TypeOK
  <1>4. CASE OpenFifo2
    BY <1>4 DEF OpenFifo2, IInv, TypeOK, Opened2, Meets2
  <1>5. CASE WriteCommand
    BY <1>5 DEF WriteCommand, IInv, TypeOK
  <1>6. CASE OpenAgain
    BY <1>6 DEF OpenAgain, IInv, TypeOK
  <1>7. CASE WriteNumber
    BY <1>7 DEF WriteNumber, IInv, TypeOK, ArrayWhole, Numbers
  <1>8. CASE Completed
    BY <1>8 DEF Completed, IInv, TypeOK
  <1>9. CASE ReapChildren
    <2>1. counter' \in 0 .. 2
      BY <1>9 DEF ReapChildren, IInv, ExitsCounted
    <2>2. child1' \in {"gone", child1} /\ child2' \in {"gone", child2}
          /\ parent' \in {"failed", parent}
      BY <1>9 DEF ReapChildren
    <2> QED
      BY <1>9, <2>1, <2>2 DEF ReapChildren, IInv, TypeOK
  <1>10. CASE ReadArray
    BY <1>10 DEF ReadArray, IInv, TypeOK, ArrayWhole
  <1>17. CASE CloseFifo1
    BY <1>17 DEF CloseFifo1, IInv, TypeOK, ArrayWhole
  <1>11. CASE Child1Opens2
    BY <1>11 DEF Child1Opens2, IInv, TypeOK, Opened2, Meets2
  <1>12. CASE WriteSum
    BY <1>12 DEF WriteSum, IInv, TypeOK
  <1>13. CASE ReadCommand
    <2>1. PICK item \in {Multiply, Sum, Junk} : Arrives(item)
      BY <1>13 DEF ReadCommand
    <2>2. fifo2' \in Seq(Numbers \cup {Multiply, Sum})
      BY <2>1, RestTyped DEF IInv, TypeOK
    <2>3. /\ child2' \in {"numbers", "exit"} /\ sigchld' \in {TRUE, sigchld}
          /\ UNCHANGED <<arraySize, parent, child1, one, sent, got, counter, early>>
      BY <1>13 DEF ReadCommand
    <2> QED
      BY <2>2, <2>3 DEF IInv, TypeOK
  <1>14. CASE ReadNumber
    <2>1. PICK item \in Numbers \cup {Sum, Junk} :
            Arrives(item) /\ result' = Append(result, item)
      BY <1>14 DEF ReadNumber
    <2>2. fifo2' \in Seq(Numbers \cup {Multiply, Sum})
      BY <2>1, RestTyped DEF IInv, TypeOK
    <2>3. result' \in Seq(Numbers \cup {Sum, Junk})
      BY <2>1 DEF IInv, TypeOK
    <2> QED
      BY <1>14, <2>2, <2>3 DEF ReadNumber, IInv, TypeOK
  <1>15. CASE ReadSum
    <2>1. PICK item \in Numbers \cup {Sum, Junk} : Arrives(item) /\ sum' = item
      BY <1>15 DEF ReadSum
    <2>2. fifo2' \in Seq(Numbers \cup {Multiply, Sum})
      BY <2>1, RestTyped DEF IInv, TypeOK
    <2> QED
      BY <1>15, <2>1, <2>2 DEF ReadSum, IInv, TypeOK
  <1>16. CASE UNCHANGED vars
    BY <1>16 DEF vars, IInv, TypeOK
  <1> QED
    BY <1>1, <1>2, <1>3, <1>4, <1>5, <1>6, <1>7, <1>8, <1>9, <1>10, <1>11,
       <1>12, <1>13, <1>14, <1>15, <1>16, <1>17
    DEF Next, Parent, Child1, Child2

(* Every exit is counted once, by the handler.                             *)
LEMMA Counted ==
  ASSUME IInv, [Next]_vars
  PROVE  ExitsCounted'
  <1>. USE SizesAssumption DEF one, got, signals, Over, Exited, Reading1, Reading2
  <1>1. CASE OpenFifo1
    BY <1>1 DEF OpenFifo1, IInv, TypeOK, ExitsCounted
  <1>2. CASE WriteArray
    BY <1>2 DEF WriteArray, IInv, TypeOK, ExitsCounted
  <1>3. CASE PipeBroken
    BY <1>3 DEF PipeBroken, IInv, TypeOK, ExitsCounted
  <1>4. CASE OpenFifo2
    BY <1>4 DEF OpenFifo2, IInv, TypeOK, ExitsCounted, Opened2, Meets2
  <1>5. CASE WriteCommand
    BY <1>5 DEF WriteCommand, IInv, TypeOK, ExitsCounted
  <1>6. CASE OpenAgain
    BY <1>6 DEF OpenAgain, IInv, TypeOK, ExitsCounted
  <1>7. CASE WriteNumber
    BY <1>7 DEF WriteNumber, IInv, TypeOK, ExitsCounted
  <1>8. CASE Completed
    BY <1>8 DEF Completed, IInv, TypeOK, ExitsCounted
  <1>9. CASE ReapChildren
    BY <1>9 DEF ReapChildren, IInv, TypeOK, ExitsCounted, Blocked
  <1>10. CASE ReadArray
    BY <1>10 DEF ReadArray, IInv, TypeOK, ExitsCounted
  <1>17. CASE CloseFifo1
    BY <1>17 DEF CloseFifo1, IInv, TypeOK, ExitsCounted
  <1>11. CASE Child1Opens2
    BY <1>11 DEF Child1Opens2, IInv, TypeOK, ExitsCounted, Opened2, Meets2
  <1>12. CASE WriteSum
    BY <1>12 DEF WriteSum, IInv, TypeOK, ExitsCounted
  <1>13. CASE ReadCommand
    BY <1>13 DEF ReadCommand, IInv, TypeOK, ExitsCounted
  <1>14. CASE ReadNumber
    BY <1>14 DEF ReadNumber, IInv, TypeOK, ExitsCounted
  <1>15. CASE ReadSum
    BY <1>15 DEF ReadSum, IInv, TypeOK, ExitsCounted
  <1>16. CASE UNCHANGED vars
    BY <1>16 DEF vars, IInv, TypeOK, ExitsCounted
  <1> QED
    BY <1>1, <1>2, <1>3, <1>4, <1>5, <1>6, <1>7, <1>8, <1>9, <1>10, <1>11,
       <1>12, <1>13, <1>14, <1>15, <1>16, <1>17
    DEF Next, Parent, Child1, Child2

(* An array that fits is written and read as a whole.                      *)
LEMMA Whole ==
  ASSUME IInv, [Next]_vars
  PROVE  ArrayWhole'
  <1>. USE SizesAssumption DEF one, got, signals, Over, Exited, Reading1, Reading2
  <1>1. CASE OpenFifo1
    BY <1>1 DEF OpenFifo1, IInv, TypeOK, ArrayWhole, Fits
  <1>2. CASE WriteArray
    <2>1. PICK k \in Nat : /\ k = Least(arraySize - written, PipeSize - fifo1)
                           /\ written' = written + k /\ fifo1' = fifo1 + k
                           /\ parent' = IF written + k = arraySize
                                        THEN "open2" ELSE parent
      <3>1. arraySize - written \in Nat /\ PipeSize - fifo1 \in Nat
        BY DEF IInv, TypeOK
      <3> QED
        BY <1>2, <3>1 DEF WriteArray, Least
    <2>2. Fits => k = arraySize
      BY <1>2, <2>1 DEF WriteArray, Least, IInv, TypeOK, ArrayWhole, Fits
    <2> QED
      BY <1>2, <2>1, <2>2 DEF WriteArray, IInv, TypeOK, ArrayWhole, Fits
  <1>3. CASE PipeBroken
    BY <1>3 DEF PipeBroken, IInv, TypeOK, ArrayWhole, Fits
  <1>4. CASE OpenFifo2
    BY <1>4 DEF OpenFifo2, IInv, TypeOK, ArrayWhole, Fits
  <1>5. CASE WriteCommand
    BY <1>5 DEF WriteCommand, IInv, TypeOK, ArrayWhole, Fits
  <1>6. CASE OpenAgain
    BY <1>6 DEF OpenAgain, IInv, TypeOK, ArrayWhole, Fits
  <1>7. CASE WriteNumber
    BY <1>7 DEF WriteNumber, IInv, TypeOK, ArrayWhole, Fits
  <1>8. CASE Completed
    BY <1>8 DEF Completed, IInv, TypeOK, ArrayWhole, Fits
  <1>9. CASE ReapChildren
    BY <1>9 DEF ReapChildren, IInv, TypeOK, ArrayWhole, Fits, Blocked
  <1>10. CASE ReadArray
    BY <1>10 DEF ReadArray, IInv, TypeOK, ArrayWhole, Fits
  <1>17. CASE CloseFifo1
    BY <1>17 DEF CloseFifo1, IInv, TypeOK, ArrayWhole, Fits
  <1>11. CASE Child1Opens2
    BY <1>11 DEF Child1Opens2, IInv, TypeOK, ArrayWhole, Fits
  <1>12. CASE WriteSum
    BY <1>12 DEF WriteSum, IInv, TypeOK, ArrayWhole, Fits
  <1>13. CASE ReadCommand
    BY <1>13 DEF ReadCommand, IInv, TypeOK, ArrayWhole, Fits
  <1>14. CASE ReadNumber
    BY <1>14 DEF ReadNumber, IInv, TypeOK, ArrayWhole, Fits
  <1>15. CASE ReadSum
    BY <1>15 DEF ReadSum, IInv, TypeOK, ArrayWhole, Fits
  <1>16. CASE UNCHANGED vars
    BY <1>16 DEF vars, IInv, TypeOK, ArrayWhole, Fits
  <1> QED
    BY <1>1, <1>2, <1>3, <1>4, <1>5, <1>6, <1>7, <1>8, <1>9, <1>10, <1>11,
       <1>12, <1>13, <1>14, <1>15, <1>16, <1>17
    DEF Next, Parent, Child1, Child2

(* While the sum stays behind, child 2 never meets the end of the file: it *)
(* reads the next item of the stream.                                      *)
LEMMA NextItem ==
  ASSUME IInv, ~early, child2 \in Reading2, NEW item, Arrives(item)
  PROVE  /\ fifo2 # <<>> /\ fifo2' = Tail(fifo2)
         /\ item = Stream(Taken + 1) /\ Taken < Total
         /\ Taken \in Nat /\ Total \in Nat
  <1>1. Taken \in Nat /\ Total \in Nat /\ StreamKept /\ Stages /\ Len(fifo2) \in Nat
    BY DEF IInv, TypeOK, InOrder, Taken, Total
  <1>2. fifo2 # <<>>
    <2>1. SUFFICES ASSUME fifo2 = <<>>, ~Writers2 PROVE FALSE
      BY DEF Arrives
    <2>2. parent # "success"
      BY DEF IInv, ExitsCounted, Reading2
    <2> QED
      BY <1>1, <2>1, <2>2
      DEF Writers2, Stages, CommandSent, IInv, TypeOK, Over, Reading2, Exited
  <1>3. Len(fifo2) > 0 /\ item = fifo2[1] /\ fifo2' = Tail(fifo2)
    BY <1>2 DEF Arrives, IInv, TypeOK
  <1> QED
    BY <1>1, <1>2, <1>3 DEF StreamKept

(* Reading an item moves the beginning of the stream.                      *)
LEMMA StreamRead ==
  ASSUME IInv, StreamKept, fifo2 # <<>>, fifo2' = Tail(fifo2),
         Taken \in Nat, Taken' = Taken + 1, Total \in Nat, Total' = Total,
         UNCHANGED sent
  PROVE  /\ Len(fifo2') + Taken' = Total'
         /\ \A i \in 1 .. Len(fifo2') : fifo2'[i] = Stream(Taken + 1 + i)
  <1>1. fifo2 \in Seq(Numbers \cup {Multiply, Sum})
    BY DEF IInv, TypeOK
  <1>2. Len(fifo2') = Len(fifo2) - 1 /\ Len(fifo2) \in Nat /\ Len(fifo2) > 0
        /\ \A i \in 1 .. Len(fifo2') : fifo2'[i] = fifo2[i + 1]
    BY <1>1
  <1>3. Len(fifo2') + Taken' = Total'
    BY <1>2 DEF StreamKept
  <1>4. ASSUME NEW i \in 1 .. Len(fifo2')
        PROVE  fifo2'[i] = Stream(Taken + 1 + i)
    <2>1. i + 1 \in 1 .. Len(fifo2) /\ Taken + (i + 1) = Taken + 1 + i
      BY <1>2
    <2>2. fifo2[i + 1] = Stream(Taken + (i + 1))
      BY <2>1 DEF StreamKept
    <2> QED
      BY <1>2, <2>1, <2>2
  <1> QED
    BY <1>3, <1>4

(* Steps that leave FIFO2 and what was read alone.                         *)
LEMMA StreamFrame ==
  ASSUME StreamKept, UNCHANGED <<fifo2, result, sent>>,
         Taken' = Taken, Total' = Total
  PROVE  StreamKept'
  BY DEF StreamKept, Stream

(* A writer appends the next item of the stream.                           *)
LEMMA StreamWritten ==
  ASSUME IInv, StreamKept, NEW item, fifo2' = Append(fifo2, item),
         NEW t \in Nat, Taken = t, Taken' = t,
         NEW n \in Nat, Total = n, Total' = n + 1,
         UNCHANGED result, item = Stream(n + 1)',
         \A i \in 1 .. n : Stream(i)' = Stream(i)
  PROVE  StreamKept'
  <1>1. fifo2 \in Seq(Numbers \cup {Multiply, Sum}) /\ Len(fifo2) \in Nat
    BY DEF IInv, TypeOK
  <1>2. Len(fifo2') = Len(fifo2) + 1
        /\ \A i \in 1 .. Len(fifo2') :
             fifo2'[i] = IF i <= Len(fifo2) THEN fifo2[i] ELSE item
    BY <1>1
  <1>3. Len(fifo2) + t = n /\ \A i \in 1 .. Len(fifo2) : fifo2[i] = Stream(t + i)
    BY DEF StreamKept
  <1>4. ASSUME NEW i \in 1 .. Len(fifo2')
        PROVE  fifo2'[i] = Stream(t + i)'
    <2>1. CASE i <= Len(fifo2)
      <3>1. t + i \in 1 .. n /\ i \in 1 .. Len(fifo2)
        BY <1>1, <1>2, <1>3, <2>1
      <3>2. Stream(t + i)' = Stream(t + i)
        BY <3>1
      <3> QED
        BY <1>2, <1>3, <2>1, <3>1, <3>2
    <2>2. CASE i = Len(fifo2) + 1
      <3>1. t + i = n + 1
        BY <1>1, <1>3, <2>2
      <3> QED
        BY <1>1, <1>2, <2>2, <3>1
    <2> QED
      BY <1>1, <1>2, <2>1, <2>2
  <1> QED
    BY <1>1, <1>2, <1>3, <1>4 DEF StreamKept, Stream

(* The stages of the three processes fit together while the sum stays      *)
(* behind.                                                                 *)
LEMMA StagesKept ==
  ASSUME IInv, [Next]_vars, ~early'
  PROVE  Stages'
  <1>. USE SizesAssumption DEF one, got, signals, Over, Exited, Reading1, Reading2
  <1>0. ~early /\ Stages /\ StreamKept
    BY EarlyStays DEF IInv, InOrder
  <1>1. CASE OpenFifo1
    BY <1>0, <1>1 DEF OpenFifo1, IInv, TypeOK, Stages, CommandSent, Fits
  <1>2. CASE WriteArray
    BY <1>0, <1>2 DEF WriteArray, IInv, TypeOK, Stages, CommandSent, Fits
  <1>3. CASE PipeBroken
    <2>1. parent = "write1" /\ child1 # "read1" /\ child1 # "open1"
      BY <1>0, <1>3, LastReader DEF PipeBroken
    <2>2. ~Fits
      BY <2>1 DEF IInv, ArrayWhole
    <2> QED
      BY <1>0, <1>3, <2>1, <2>2
      DEF PipeBroken, IInv, TypeOK, Stages, CommandSent, Fits
  <1>4. CASE OpenFifo2
    BY <1>0, <1>4 DEF OpenFifo2, IInv, TypeOK, Stages, CommandSent, Fits,
       Opened2, Meets2
  <1>5. CASE WriteCommand
    BY <1>0, <1>5 DEF WriteCommand, IInv, TypeOK, Stages, CommandSent, Fits
  <1>6. CASE OpenAgain
    BY <1>0, <1>6 DEF OpenAgain, IInv, TypeOK, Stages, CommandSent, Fits
  <1>7. CASE WriteNumber
    BY <1>0, <1>7 DEF WriteNumber, IInv, TypeOK, Stages, CommandSent, Fits
  <1>8. CASE Completed
    BY <1>0, <1>8 DEF Completed, IInv, TypeOK, Stages, CommandSent, Fits
  <1>9. CASE ReapChildren
    <2>1. ~Blocked
      <3>1. "exit" \in {child1, child2}
        BY <1>9 DEF ReapChildren, IInv, ExitsCounted
      <3>2. parent \notin {"open2", "again", "numbers"}
        BY <1>0, <3>1, LastReader DEF IInv, ArrayWhole, Stages, TypeOK
      <3> QED
        BY <3>2 DEF Blocked
    <2>2. parent' = parent /\ UNCHANGED <<arraySize, sent, result, sum>>
      BY <1>9, <2>1 DEF ReapChildren
    <2>3. child1' \in Exited <=> child1 \in Exited
      BY <1>9 DEF ReapChildren
    <2>4. child2' = IF child2 = "exit" THEN "gone" ELSE child2
      BY <1>9 DEF ReapChildren
    <2>5. child1 \notin Exited => child1' = child1
      BY <1>9 DEF ReapChildren
    <2> QED
      BY <1>0, <2>2, <2>3, <2>4, <2>5 DEF IInv, TypeOK, Stages, CommandSent, Fits
  <1>10. CASE ReadArray
    BY <1>0, <1>10 DEF ReadArray, IInv, TypeOK, Stages, CommandSent, Fits
  <1>17. CASE CloseFifo1
    BY <1>0, <1>17 DEF CloseFifo1, IInv, TypeOK, Stages, CommandSent, Fits
  <1>11. CASE Child1Opens2
    BY <1>0, <1>11 DEF Child1Opens2, IInv, TypeOK, Stages, CommandSent, Fits,
       Opened2, Meets2
  <1>12. CASE WriteSum
    <2>1. sent = arraySize
      <3>1. ~(sent < arraySize)
        BY <1>12 DEF WriteSum
      <3> QED
        BY <3>1 DEF IInv, TypeOK
    <2>2. parent \in {"proceed", "success"} /\ child2 # "open2"
      BY <1>0, <1>12, <2>1 DEF WriteSum, Stages
    <2>3. UNCHANGED <<arraySize, parent, child2, sent, result, sum>>
      BY <1>12 DEF WriteSum
    <2> QED
      BY <1>0, <2>1, <2>2, <2>3 DEF Stages, CommandSent, Fits
  <1>13. CASE ReadCommand
    <2>1. PICK item \in {Multiply, Sum, Junk} :
            /\ Arrives(item)
            /\ \/ item = Multiply /\ child2' = "numbers"
               \/ item \in {Sum, Junk} /\ child2' = "exit"
      BY <1>13 DEF ReadCommand
    <2>2. item = Multiply /\ Total > 0
      BY <1>0, <1>13, <2>1, NextItem DEF ReadCommand, Taken, Stream
    <2>3. child2' = "numbers" /\ CommandSent
      BY <2>1, <2>2 DEF Total
    <2>4. UNCHANGED <<arraySize, parent, child1, sent, result, sum>>
      BY <1>13 DEF ReadCommand
    <2> QED
      BY <1>0, <1>13, <2>3, <2>4
      DEF ReadCommand, IInv, TypeOK, Stages, CommandSent, Fits
  <1>14. CASE ReadNumber
    <2>1. Len(result') = Len(result) + 1
      BY <1>14 DEF ReadNumber, IInv, TypeOK
    <2> QED
      BY <1>0, <1>14, <2>1
      DEF ReadNumber, IInv, TypeOK, Stages, CommandSent, Fits
  <1>15. CASE ReadSum
    <2>1. PICK item \in Numbers \cup {Sum, Junk} : Arrives(item) /\ sum' = item
      BY <1>15 DEF ReadSum
    <2>2. item = Stream(Len(result) + 2) /\ Len(result) + 1 < Total
      BY <1>0, <1>15, <2>1, NextItem DEF ReadSum, Taken, IInv, TypeOK
    <2>3. Len(result) = arraySize /\ sent <= arraySize
      BY <1>0, <1>15 DEF ReadSum, Stages, IInv, TypeOK
    <2>4. item = Sum
      BY <2>2, <2>3 DEF Stream, IInv, TypeOK
    <2>5. UNCHANGED <<arraySize, parent, child1, sent, result>> /\ child2' = "exit"
      BY <1>15 DEF ReadSum
    <2> QED
      BY <1>0, <1>15, <2>1, <2>4, <2>5
      DEF ReadSum, IInv, TypeOK, Stages, CommandSent, Fits
  <1>16. CASE UNCHANGED vars
    BY <1>0, <1>16 DEF vars, IInv, TypeOK, Stages, CommandSent, Fits
  <1> QED
    BY <1>1, <1>2, <1>3, <1>4, <1>5, <1>6, <1>7, <1>8, <1>9, <1>10, <1>11,
       <1>12, <1>13, <1>14, <1>15, <1>16, <1>17
    DEF Next, Parent, Child1, Child2

(* FIFO2 keeps the stream in order while the sum stays behind.             *)
LEMMA Ordered ==
  ASSUME IInv, [Next]_vars, ~early'
  PROVE  StreamKept'
  <1>. USE SizesAssumption DEF one, got, signals, Over, Exited, Reading1, Reading2
  <1>0. ~early /\ Stages /\ StreamKept
    BY EarlyStays DEF IInv, InOrder
  <1>1. CASE OpenFifo1
    <2>1. Taken' = Taken
      BY <1>0, <1>1 DEF OpenFifo1, Taken, Stages, IInv, TypeOK
    <2>2. Total' = Total
      BY <1>0, <1>1 DEF OpenFifo1, Total, CommandSent, Stages, Fits, IInv,
         TypeOK
    <2> QED
      BY <1>0, <1>1, <2>1, <2>2, StreamFrame DEF OpenFifo1
  <1>2. CASE WriteArray
    <2>1. Taken' = Taken
      BY <1>2 DEF WriteArray, Taken
    <2>2. Total' = Total
      BY <1>0, <1>2 DEF WriteArray, Total, CommandSent, Stages, Fits, IInv,
         TypeOK
    <2> QED
      BY <1>0, <1>2, <2>1, <2>2, StreamFrame DEF WriteArray
  <1>3. CASE PipeBroken
    <2>1. Taken' = Taken
      BY <1>3 DEF PipeBroken, Taken
    <2>2. Total' = Total
      BY <1>0, <1>3, LastReader DEF PipeBroken, Total, CommandSent
    <2> QED
      BY <1>0, <1>3, <2>1, <2>2, StreamFrame DEF PipeBroken
  <1>4. CASE OpenFifo2
    <2>1. Taken' = Taken
      BY <1>0, <1>4 DEF OpenFifo2, Taken, Stages, IInv, TypeOK, Opened2, Meets2
    <2>2. Total' = Total
      BY <1>0, <1>4 DEF OpenFifo2, Total, CommandSent, Stages, Fits, IInv,
         TypeOK, Opened2, Meets2
    <2> QED
      BY <1>0, <1>4, <2>1, <2>2, StreamFrame DEF OpenFifo2
  <1>5. CASE WriteCommand
    <2>1. PICK t \in Nat : t = Taken /\ t = Taken'
      BY <1>5 DEF WriteCommand, Taken, IInv, TypeOK
    <2>2. Total = 0 /\ Total' = 1
      BY <1>0, <1>5 DEF WriteCommand, Total, CommandSent, Stages, IInv, TypeOK,
                      ArrayWhole
    <2>3. Multiply = Stream(0 + 1)'
      BY DEF Stream
    <2> QED
      BY <1>0, <1>5, <2>1, <2>2, <2>3, StreamWritten DEF WriteCommand
  <1>6. CASE OpenAgain
    <2>1. Taken' = Taken
      BY <1>0, <1>6 DEF OpenAgain, Taken, Stages, IInv, TypeOK
    <2>2. Total' = Total
      BY <1>0, <1>6 DEF OpenAgain, Total, CommandSent, Stages, Fits, IInv,
         TypeOK
    <2> QED
      BY <1>0, <1>6, <2>1, <2>2, StreamFrame DEF OpenAgain
  <1>7. CASE WriteNumber
    <2>1. PICK t \in Nat : t = Taken /\ t = Taken'
      BY <1>7 DEF WriteNumber, Taken, IInv, TypeOK
    <2>2. PICK n \in Nat : n = Total /\ Total' = n + 1 /\ n = sent + 1
      BY <1>0, <1>7 DEF WriteNumber, Total, CommandSent, Stages, IInv, TypeOK
    <2>3. sent' = sent + 1 /\ sent \in Nat
      BY <1>7 DEF WriteNumber, IInv, TypeOK
    <2>4. sent + 1 = Stream(n + 1)' /\ \A i \in 1 .. n : Stream(i)' = Stream(i)
      BY <2>2, <2>3 DEF Stream
    <2> QED
      BY <1>0, <1>7, <2>1, <2>2, <2>4, StreamWritten DEF WriteNumber
  <1>8. CASE Completed
    <2>1. Taken' = Taken
      BY <1>0, <1>8 DEF Completed, Taken, Stages, IInv, TypeOK
    <2>2. Total' = Total
      BY <1>0, <1>8 DEF Completed, Total, CommandSent, Stages, Fits, IInv,
         TypeOK
    <2> QED
      BY <1>0, <1>8, <2>1, <2>2, StreamFrame DEF Completed
  <1>9. CASE ReapChildren
    <2>1. Taken' = Taken
      BY <1>0, <1>9 DEF ReapChildren, Taken, Stages, IInv, TypeOK, Blocked
    <2>2. Total' = Total
      <3>2. "exit" \in {child1, child2}
        BY <1>9 DEF ReapChildren, IInv, ExitsCounted
      <3>3. parent \notin {"open2", "again", "numbers"}
        BY <1>0, <3>2, LastReader DEF IInv, ArrayWhole, Stages, TypeOK
      <3>4. parent' = parent /\ sent' = sent
        BY <1>9, <3>3 DEF ReapChildren, Blocked
      <3> QED
        BY <1>9, <3>4 DEF ReapChildren, Total, CommandSent
    <2> QED
      BY <1>0, <1>9, <2>1, <2>2, StreamFrame DEF ReapChildren
  <1>10. CASE ReadArray
    <2>1. Taken' = Taken
      BY <1>0, <1>10 DEF ReadArray, Taken, Stages, IInv, TypeOK
    <2>2. Total' = Total
      BY <1>0, <1>10 DEF ReadArray, Total, CommandSent, Stages, Fits, IInv,
         TypeOK
    <2> QED
      BY <1>0, <1>10, <2>1, <2>2, StreamFrame DEF ReadArray
  <1>17. CASE CloseFifo1
    <2>1. Taken' = Taken
      BY <1>0, <1>17 DEF CloseFifo1, Taken, Stages, IInv, TypeOK
    <2>2. Total' = Total
      BY <1>0, <1>17 DEF CloseFifo1, Total, CommandSent, Stages, Fits, IInv,
         TypeOK
    <2> QED
      BY <1>0, <1>17, <2>1, <2>2, StreamFrame DEF CloseFifo1
  <1>11. CASE Child1Opens2
    <2>1. Taken' = Taken
      BY <1>0, <1>11 DEF Child1Opens2, Taken, Stages, IInv, TypeOK, Opened2,
         Meets2
    <2>2. Total' = Total
      BY <1>0, <1>11 DEF Child1Opens2, Total, CommandSent, Stages, Fits, IInv,
         TypeOK, Opened2, Meets2
    <2> QED
      BY <1>0, <1>11, <2>1, <2>2, StreamFrame DEF Child1Opens2
  <1>12. CASE WriteSum
    <2>1. sent = arraySize /\ child2 # "open2"
      <3>1. ~(sent < arraySize)
        BY <1>12 DEF WriteSum
      <3> QED
        BY <1>0, <1>12, <3>1 DEF WriteSum, Stages, IInv, TypeOK
    <2>2. parent \in {"proceed", "success"} /\ child2 \in Reading2
      <3>1. child2 \notin Exited
        BY <1>0, <1>12, LastReader DEF WriteSum
      <3>2. parent \in {"proceed", "success"}
        BY <1>0, <2>1 DEF Stages
      <3> QED
        BY <2>1, <3>1, <3>2 DEF IInv, TypeOK
    <2>3. PICK t \in Nat : t = Taken /\ t = Taken'
      BY <1>12 DEF WriteSum, Taken, IInv, TypeOK
    <2>4. PICK n \in Nat : n = Total /\ Total' = n + 1 /\ n = sent + 1
      BY <1>12, <2>2 DEF WriteSum, Total, CommandSent, IInv, TypeOK
    <2>5. Sum = Stream(n + 1)' /\ \A i \in 1 .. n : Stream(i)' = Stream(i)
      BY <1>12, <2>4 DEF WriteSum, Stream, IInv, TypeOK
    <2> QED
      BY <1>0, <1>12, <2>2, <2>3, <2>4, <2>5, StreamWritten DEF WriteSum
  <1>13. CASE ReadCommand
    <2>1. PICK item \in {Multiply, Sum, Junk} :
            /\ Arrives(item)
            /\ \/ item = Multiply /\ child2' = "numbers"
               \/ item \in {Sum, Junk} /\ child2' = "exit"
      BY <1>13 DEF ReadCommand
    <2>2. item = Multiply /\ fifo2 # <<>> /\ fifo2' = Tail(fifo2)
          /\ Taken = 0 /\ Total \in Nat
      BY <1>0, <1>13, <2>1, NextItem DEF ReadCommand, Taken, Stream
    <2>3. Taken' = 1
      BY <1>0, <1>13, <2>1, <2>2 DEF ReadCommand, Taken, Stages
    <2>4. Total' = Total /\ UNCHANGED <<sent, result>>
      BY <1>13 DEF ReadCommand, Total, CommandSent
    <2>5. /\ Len(fifo2') + Taken' = Total'
          /\ \A i \in 1 .. Len(fifo2') : fifo2'[i] = Stream(Taken + 1 + i)
      BY <1>0, <2>2, <2>3, <2>4, StreamRead
    <2> QED
      BY <1>0, <2>2, <2>3, <2>4, <2>5 DEF StreamKept, Stream
  <1>14. CASE ReadNumber
    <2>1. PICK item \in Numbers \cup {Sum, Junk} :
            Arrives(item) /\ result' = Append(result, item)
      BY <1>14 DEF ReadNumber
    <2>2. PICK n \in Nat : n = Len(result)
      BY DEF IInv, TypeOK
    <2>3. item = Stream(n + 2) /\ fifo2 # <<>> /\ fifo2' = Tail(fifo2)
          /\ Taken = n + 1 /\ Total \in Nat /\ n + 1 < Total
      BY <1>0, <1>14, <2>1, <2>2, NextItem DEF ReadNumber, Taken
    <2>4. Taken' = n + 2
      BY <1>14, <2>1, <2>2 DEF ReadNumber, Taken, IInv, TypeOK
    <2>5. Total' = Total /\ UNCHANGED sent
      BY <1>14 DEF ReadNumber, Total, CommandSent
    <2>6. /\ Len(fifo2') + Taken' = Total'
          /\ \A i \in 1 .. Len(fifo2') : fifo2'[i] = Stream(Taken + 1 + i)
      BY <1>0, <2>3, <2>4, <2>5, StreamRead
    <2>7. item = n + 1
      <3>1. n < arraySize
        BY <1>0, <1>14, <2>2 DEF ReadNumber, Stages
      <3>2. n + 1 <= sent
        BY <1>0, <2>3, <3>1 DEF Total, Stages, IInv, TypeOK
      <3> QED
        BY <2>3, <3>2 DEF Stream, IInv, TypeOK
    <2>8. \A i \in 1 .. Len(result') : result'[i] = i
      BY <1>0, <2>1, <2>2, <2>7 DEF StreamKept, IInv, TypeOK
    <2> QED
      BY <2>3, <2>4, <2>5, <2>6, <2>8 DEF StreamKept, Stream
  <1>15. CASE ReadSum
    <2>1. PICK item \in Numbers \cup {Sum, Junk} : Arrives(item)
      BY <1>15 DEF ReadSum
    <2>2. PICK n \in Nat : n = Len(result)
      BY DEF IInv, TypeOK
    <2>3. fifo2 # <<>> /\ fifo2' = Tail(fifo2) /\ Taken = n + 1 /\ Total \in Nat
      BY <1>0, <1>15, <2>1, <2>2, NextItem DEF ReadSum, Taken
    <2>4. Taken' = n + 2
      BY <1>15, <2>2 DEF ReadSum, Taken
    <2>5. Total' = Total /\ UNCHANGED <<sent, result>>
      BY <1>15 DEF ReadSum, Total, CommandSent
    <2>6. /\ Len(fifo2') + Taken' = Total'
          /\ \A i \in 1 .. Len(fifo2') : fifo2'[i] = Stream(Taken + 1 + i)
      BY <1>0, <2>3, <2>4, <2>5, StreamRead
    <2> QED
      BY <1>0, <2>3, <2>4, <2>5, <2>6 DEF StreamKept, Stream
  <1>16. CASE UNCHANGED vars
    BY <1>0, <1>16, StreamFrame DEF vars, Taken, Total, CommandSent
  <1> QED
    BY <1>1, <1>2, <1>3, <1>4, <1>5, <1>6, <1>7, <1>8, <1>9, <1>10, <1>11,
       <1>12, <1>13, <1>14, <1>15, <1>16, <1>17
    DEF Next, Parent, Child1, Child2

(* The invariant holds in every reachable state of the pipeline.           *)
THEOREM Invariance == Spec => []IInv
  <1>1. Init => IInv
    <2>1. SUFFICES ASSUME Init PROVE IInv
      OBVIOUS
    <2>2. Taken = 0 /\ Total = 0
      BY <2>1 DEF Init, Taken, Total, CommandSent
    <2>3. TypeOK
      <3>1. <<>> \in Seq(Numbers \cup {Multiply, Sum})
            /\ <<>> \in Seq(Numbers \cup {Sum, Junk})
        OBVIOUS
      <3>2. arraySize \in Nat /\ PipeSize \in Nat
        BY <2>1, SizesAssumption DEF Init
      <3>3. 0 \in 0 .. arraySize /\ 0 \in 0 .. PipeSize /\ 0 \in 0 .. 2
        BY <3>2
      <3> QED
        BY <2>1, <3>1, <3>3 DEF Init, TypeOK, Over, Exited, Reading2
    <2>4. ExitsCounted /\ ArrayWhole
      BY <2>1, <2>3, SizesAssumption
      DEF Init, ExitsCounted, ArrayWhole, Fits, TypeOK
    <2>5. StreamKept /\ Stages
      BY <2>1, <2>2, <2>3, SizesAssumption
      DEF Init, StreamKept, Stages, CommandSent, Exited, TypeOK
    <2> QED
      BY <2>3, <2>4, <2>5 DEF IInv, InOrder
  <1>2. IInv /\ [Next]_vars => IInv'
    BY Typed, Counted, Whole, Ordered, StagesKept DEF IInv, InOrder
  <1> QED
    BY <1>1, <1>2, PTL DEF Spec

(* A printed result is right if the sum stayed behind and the array fits.  *)
THEOREM RightInTime == Spec => []ResultRight
  <1>1. IInv => ResultRight
    <2>1. SUFFICES ASSUME IInv, Printed, ~early, Fits PROVE Right
      BY DEF ResultRight
    <2>2. StreamKept /\ Stages
      BY <2>1 DEF IInv, InOrder
    <2>3. Len(result) = arraySize /\ sum = Sum
      BY <2>1, <2>2 DEF Printed, Exited, Stages
    <2>4. \A i \in 1 .. arraySize : result[i] = i
      BY <2>2, <2>3 DEF StreamKept
    <2>5. result = [i \in 1 .. arraySize |-> i]
      BY <2>1, <2>3, <2>4 DEF IInv, TypeOK
    <2>6. child1 \in Exited
      BY <2>1, LastReader DEF Printed
    <2>7. summed = arraySize
      BY <2>1, <2>6 DEF IInv, ArrayWhole, Exited
    <2> QED
      BY <2>3, <2>5, <2>7 DEF Right
  <1> QED
    BY <1>1, Invariance, PTL
===============================================================================
