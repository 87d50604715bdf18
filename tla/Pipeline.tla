-------------------------------- MODULE Pipeline --------------------------------
(***************************************************************************)
(* The two-FIFO pipeline of Homework2/main.c.  The parent writes an array  *)
(* of numbers to FIFO1 and, after a command, to FIFO2; child 1 sums what   *)
(* it reads from FIFO1 and writes the sum to FIFO2; child 2 reads the      *)
(* command, multiplies the numbers and adds the sum.  Only the children's  *)
(* sleep(10) puts the sum behind the numbers: here they may sleep for any  *)
(* time.                                                                   *)
(*                                                                         *)
(* A number is its index in the array.  One write of the command, of a     *)
(* number or of the sum arrives in one piece (less than PIPE_BUF).  A      *)
(* process opens a FIFO together with its first peer.  SIGCHLD reaches the *)
(* parent at any time; without SA_RESTART a call that it finds blocked     *)
(* fails, and the parent exits.                                            *)
(***************************************************************************)
EXTENDS Naturals, Sequences

CONSTANTS
    Sizes,          \* array sizes to choose from
    PipeSize,       \* how many numbers fit into a FIFO
    Multiply, Sum,  \* what goes through FIFO2 besides the numbers
    Junk,           \* a variable that was read at the end of the file
    NONE

ASSUME SizesAssumption ==
    /\ Sizes \subseteq Nat \ {0}
    /\ PipeSize \in Nat \ {0}
    /\ \A x \in {Multiply, Sum, Junk, NONE} : x \notin Nat
    /\ Multiply \notin {Sum, Junk} /\ Junk # Sum /\ NONE \notin {Sum, Junk}

VARIABLES
    arraySize,
    parent, child1, child2,     \* where each process is
    written, fifo1, summed,     \* numbers written to, in, read from FIFO1
    sent, fifo2,                \* numbers sent to FIFO2, and its content
    result, sum,                \* what child 2 multiplied, and read last
    sigchld, counter,           \* SIGCHLD is pending; children reaped
    early                       \* history: the sum overtook a number

one == <<written, fifo1, summed>>
got == <<result, sum>>
signals == <<sigchld, counter>>
vars == <<arraySize, parent, child1, child2, one, sent, fifo2, got, signals,
          early>>

Init ==
    /\ arraySize \in Sizes
    /\ parent = "open1" /\ child1 = "open1" /\ child2 = "open2"
    /\ written = 0 /\ fifo1 = 0 /\ summed = 0
    /\ sent = 0 /\ fifo2 = <<>>
    /\ result = <<>> /\ sum = NONE
    /\ sigchld = FALSE /\ counter = 0
    /\ early = FALSE

-----------------------------------------------------------------------------
Over == {"success", "failed", "killed"}
Exited == {"exit", "gone"}          \* a zombie, and one that was reaped
Reading1 == {"read1", "close1"}     \* child 1 has FIFO1 open
Reading2 == {"command", "numbers", "sum"}

Least(a, b) == IF a < b THEN a ELSE b

(* open(FIFO1): both sides at once.                                        *)
OpenFifo1 ==
    /\ parent = "open1" /\ child1 = "open1"
    /\ parent' = "write1" /\ child1' = "read1"
    /\ UNCHANGED <<arraySize, child2, one, sent, fifo2, got, signals, early>>

(* The write of the whole array fills the pipe and goes on when there is   *)
(* room again, as long as child 1 has the FIFO open.  What comes after its *)
(* only read stays there.                                                  *)
WriteArray ==
    /\ parent = "write1" /\ child1 \in Reading1 /\ fifo1 < PipeSize
    /\ LET k == Least(arraySize - written, PipeSize - fifo1)
       IN  /\ written' = written + k
           /\ fifo1' = fifo1 + k
           /\ parent' = IF written + k = arraySize THEN "open2" ELSE parent
    /\ UNCHANGED <<arraySize, child1, child2, summed, sent, fifo2, got,
                   signals, early>>

PipeBroken ==
    /\ \/ parent = "write1" /\ child1 \notin Reading1 \cup {"open1"}
       \/ parent \in {"command", "numbers"} /\ child2 \in Exited
    /\ parent' = "killed"
    /\ UNCHANGED <<arraySize, child1, child2, one, sent, fifo2, got, signals,
                   early>>

(* open(FIFO2) of a writer that finds child 2 in its own open or past it.  *)
Meets2 == child2 = "open2" \/ child2 \in Reading2
Opened2 == IF child2 = "open2" THEN "command" ELSE child2

OpenFifo2 ==
    /\ parent = "open2" /\ Meets2
    /\ parent' = "command" /\ child2' = Opened2
    /\ UNCHANGED <<arraySize, child1, one, sent, fifo2, got, signals, early>>

WriteCommand ==
    /\ parent = "command" /\ child2 \in Reading2
    /\ fifo2' = Append(fifo2, Multiply)
    /\ parent' = "again"
    /\ UNCHANGED <<arraySize, child1, child2, one, sent, got, signals, early>>

OpenAgain ==
    /\ parent = "again" /\ child2 \in Reading2
    /\ parent' = "numbers"
    /\ UNCHANGED <<arraySize, child1, child2, one, sent, fifo2, got, signals,
                   early>>

WriteNumber ==
    /\ parent = "numbers" /\ child2 \in Reading2 /\ Len(fifo2) < PipeSize
    /\ fifo2' = Append(fifo2, sent + 1)
    /\ sent' = sent + 1
    /\ parent' = IF sent + 1 = arraySize THEN "proceed" ELSE parent
    /\ UNCHANGED <<arraySize, child1, child2, one, got, signals, early>>

(* Mutant: one child is enough.                                            *)
CompletedWithOne ==
    /\ parent = "proceed" /\ counter >= 1
    /\ parent' = "success"
    /\ UNCHANGED <<arraySize, child1, child2, one, sent, fifo2, got, signals,
                   early>>

(* The loop that prints Proceeding ends when both children are counted.    *)
Completed ==
    /\ parent = "proceed" /\ counter >= 2
    /\ parent' = "success"
    /\ UNCHANGED <<arraySize, child1, child2, one, sent, fifo2, got, signals,
                   early>>

(* sigchld_handler reaps every child that has exited.  A call of the       *)
(* parent that is blocked then returns EINTR.                              *)
Blocked ==
    \/ parent \in {"open2", "again"} /\ child2 \in Exited
    \/ parent = "numbers" /\ child2 \in Reading2 /\ Len(fifo2) >= PipeSize

(* Mutant: waitpid is called once for each signal.                         *)
ReapOneChild ==
    /\ sigchld /\ parent \notin Over
    /\ sigchld' = FALSE
    /\ counter' = counter + 1
    /\ IF child1 = "exit" THEN child1' = "gone" /\ UNCHANGED child2
                          ELSE child2' = "gone" /\ UNCHANGED child1
    /\ UNCHANGED <<arraySize, parent, one, sent, fifo2, got, early>>

ReapChildren ==
    /\ sigchld /\ parent \notin Over
    /\ sigchld' = FALSE
    /\ counter' = counter + (IF child1 = "exit" THEN 1 ELSE 0)
                          + (IF child2 = "exit" THEN 1 ELSE 0)
    /\ child1' = IF child1 = "exit" THEN "gone" ELSE child1
    /\ child2' = IF child2 = "exit" THEN "gone" ELSE child2
    /\ parent' \in {parent} \cup (IF Blocked THEN {"failed"} ELSE {})
    /\ UNCHANGED <<arraySize, one, sent, fifo2, got, early>>

-----------------------------------------------------------------------------
(* childProcess1: one read, whatever it brings.                            *)
ReadArray ==
    /\ child1 = "read1" /\ fifo1 > 0
    /\ summed' = fifo1
    /\ fifo1' = 0
    /\ child1' = "close1"
    /\ UNCHANGED <<arraySize, parent, child2, written, sent, fifo2, got,
                   signals, early>>

CloseFifo1 ==
    /\ child1 = "close1"
    /\ child1' = "open2"
    /\ UNCHANGED <<arraySize, parent, child2, one, sent, fifo2, got, signals,
                   early>>

Child1Opens2 ==
    /\ child1 = "open2" /\ Meets2
    /\ child1' = "write2" /\ child2' = Opened2
    /\ UNCHANGED <<arraySize, parent, one, sent, fifo2, got, signals, early>>

(* Without a reader SIGPIPE ends child 1, and it is reaped all the same.   *)
WriteSum ==
    /\ child1 = "write2"
    /\ child2 \in Reading2 => Len(fifo2) < PipeSize
    /\ fifo2' = IF child2 \in Reading2 THEN Append(fifo2, Sum) ELSE fifo2
    /\ early' = (early \/ sent < arraySize)
    /\ child1' = "exit" /\ sigchld' = TRUE
    /\ UNCHANGED <<arraySize, parent, child2, one, sent, got, counter>>

-----------------------------------------------------------------------------
(* childProcess2.  At the end of the file read returns 0, which the code   *)
(* takes for a success: the variable keeps what was in it.                 *)
Writers2 ==
    \/ parent \in {"command", "again", "numbers", "proceed"}
    \/ child1 = "write2"

Arrives(item) ==
    \/ fifo2 # <<>> /\ item = Head(fifo2) /\ fifo2' = Tail(fifo2)
    \/ fifo2 = <<>> /\ ~Writers2 /\ item = Junk /\ UNCHANGED fifo2

Numbers == UNION {1 .. n : n \in Sizes}

ReadCommand ==
    /\ child2 = "command"
    /\ \/ /\ Arrives(Multiply)
          /\ child2' = "numbers" /\ UNCHANGED sigchld
       \/ /\ \E item \in {Sum, Junk} : Arrives(item)
          /\ child2' = "exit" /\ sigchld' = TRUE
    /\ UNCHANGED <<arraySize, parent, child1, one, sent, got, counter, early>>

ReadNumber ==
    /\ child2 = "numbers"
    /\ \E item \in Numbers \cup {Sum, Junk} :
         /\ Arrives(item)
         /\ result' = Append(result, item)
    /\ child2' = IF Len(result) + 1 = arraySize THEN "sum" ELSE child2
    /\ UNCHANGED <<arraySize, parent, child1, one, sent, sum, signals, early>>

(* The final result is printed.                                            *)
ReadSum ==
    /\ child2 = "sum"
    /\ \E item \in Numbers \cup {Sum, Junk} :
         Arrives(item) /\ sum' = item
    /\ child2' = "exit" /\ sigchld' = TRUE
    /\ UNCHANGED <<arraySize, parent, child1, one, sent, result, counter,
                   early>>

-----------------------------------------------------------------------------
Parent == OpenFifo1 \/ WriteArray \/ PipeBroken \/ OpenFifo2 \/ WriteCommand
          \/ OpenAgain \/ WriteNumber \/ Completed
Child1 == ReadArray \/ CloseFifo1 \/ Child1Opens2 \/ WriteSum
Child2 == ReadCommand \/ ReadNumber \/ ReadSum

Next == Parent \/ ReapChildren \/ Child1 \/ Child2

Spec == Init /\ [][Next]_vars

(* The scheduler runs every process, and a pending signal is delivered.    *)
FairSpec == Spec /\ WF_vars(Parent) /\ WF_vars(ReapChildren)
                 /\ WF_vars(Child1) /\ WF_vars(Child2)
-----------------------------------------------------------------------------
TypeOK ==
    /\ arraySize \in Sizes
    /\ parent \in {"open1", "write1", "open2", "command", "again", "numbers",
                   "proceed"} \cup Over
    /\ child1 \in Reading1 \cup {"open1", "open2", "write2"} \cup Exited
    /\ child2 \in {"open2"} \cup Reading2 \cup Exited
    /\ written \in 0 .. arraySize /\ fifo1 \in 0 .. PipeSize
    /\ summed \in 0 .. arraySize /\ sent \in 0 .. arraySize
    /\ fifo2 \in Seq(Numbers \cup {Multiply, Sum})
    /\ result \in Seq(Numbers \cup {Sum, Junk})
    /\ sum \in Numbers \cup {NONE, Sum, Junk}
    /\ sigchld \in BOOLEAN /\ counter \in 0 .. 2 /\ early \in BOOLEAN

Printed == child2 \in Exited /\ sum # NONE
Right == /\ result = [i \in 1 .. arraySize |-> i]
         /\ sum = Sum /\ summed = arraySize
Fits == arraySize <= PipeSize

(* A child that has exited is counted once, a signal is pending for every  *)
(* exit not counted, and success is reported only when both have exited.   *)
ExitsCounted ==
    /\ counter = (IF child1 = "gone" THEN 1 ELSE 0)
               + (IF child2 = "gone" THEN 1 ELSE 0)
    /\ parent = "success" => child1 = "gone" /\ child2 = "gone"
    /\ sigchld <=> "exit" \in {child1, child2}

(* FIFO1 holds what child 1 has not read, and an array that fits is there  *)
(* as a whole.                                                             *)
ArrayWhole ==
    /\ parent = "open1" => child1 = "open1" /\ written = 0
    /\ child1 \in {"open1", "read1"} => fifo1 = written
    /\ parent # "open1" => child1 # "open1"
    /\ parent \in {"open1", "write1", "open2", "command", "again"} => sent = 0
    /\ parent = "numbers" => sent < arraySize
    /\ Fits => /\ written = (IF parent \in {"open1", "write1"} THEN 0
                                                             ELSE arraySize)
               /\ parent = "write1" => child1 = "read1"
               /\ child1 \notin {"open1", "read1"} => summed = arraySize

(* As long as the sum stays behind, FIFO2 carries one stream, the command, *)
(* the numbers and the sum, of which child 2 has read the beginning.       *)
CommandSent == parent \in {"again", "numbers", "proceed", "success"}
Stream(i) == IF i = 1 THEN Multiply ELSE IF i <= sent + 1 THEN i - 1 ELSE Sum
Total == IF CommandSent THEN 1 + sent + (IF child1 \in Exited THEN 1 ELSE 0)
                        ELSE 0
Taken == CASE child2 \in {"open2", "command"} -> 0
           [] child2 = "numbers" -> 1 + Len(result)
           [] OTHER -> 1 + Len(result) + (IF child2 = "sum" THEN 0 ELSE 1)

StreamKept ==
    /\ Len(fifo2) + Taken = Total
    /\ \A i \in 1 .. Len(fifo2) : fifo2[i] = Stream(Taken + i)
    /\ \A i \in 1 .. Len(result) : result[i] = i

Stages ==
    /\ parent # "failed" /\ (parent = "killed" => ~Fits)
    /\ ~CommandSent => sent = 0
    /\ parent \in {"proceed", "success"} <=> sent = arraySize
    /\ child1 \in Exited => sent = arraySize
    /\ child2 = "open2" => parent \in {"open1", "write1", "open2", "killed"}
                           /\ child1 \in Reading1 \cup {"open1", "open2"}
    /\ child2 # "open2" => \/ CommandSent \/ parent = "command"
                           \/ child1 = "write2"
    /\ child2 \in {"open2", "command"} => result = <<>>
    /\ child2 = "numbers" => Len(result) < arraySize
    /\ child2 \in {"sum", "exit", "gone"} => Len(result) = arraySize
    /\ sum = IF child2 \in Exited THEN Sum ELSE NONE

InOrder == StreamKept /\ Stages

(* The inductive invariant: both exits are counted once, and as long as    *)
(* the sum stays behind the numbers, what child 2 reads is the command,    *)
(* every number in its order and then the sum.                             *)
IInv == TypeOK /\ ExitsCounted /\ ArrayWhole /\ (~early => InOrder)

(* A final result that is printed is the right one, unless the sum came    *)
(* before a number or the array did not fit into a pipe.                   *)
ResultRight == Printed => Right \/ early \/ ~Fits

(* If the sum stays behind the numbers and the array fits, the program     *)
(* completes with the right result.  In every other case the parent still  *)
(* comes to its end, unless child 2 was gone before the parent opened      *)
(* FIFO2 and the signal came before the call: open then waits for ever.    *)
Completes ==
    /\ <>(early \/ ~Fits \/ (parent = "success" /\ Printed /\ Right))
    /\ <>(parent \in Over \/ (parent \in {"open2", "again"} /\ child2 = "gone"))
===============================================================================
