# TLA+ models of CSE344SystemProgramming

The repository holds seven small system programs in C. This directory models
them in TLA+, checks the models with TLC and proves theorems about them with
TLAPS. Paths below are relative to `src/`.

## 1. Inventory

| Component | State | Operations | Talks to |
|---|---|---|---|
| Region locks, `MidtermProject/sync.c` | per file: semaphores `read_try`, `rmutex`, `wmutex`, `rsc`; `reader_count`, `writer_count`; in shared memory | `reader_enter_region`, `reader_exit_region`, `writer_enter_region`, `writer_exit_region` | the command handlers of all server children |
| Shared file table, `sync.c` + `server.c` | `safe_dir`: array of `safe_file`, size | `init_sdir`, `add_sfile`, `get_sfile` | every child, without a lock of its own |
| Wait queue and pid list, `MidtermProject/common.c` | ring of client pointers that doubles; array of pids | `enqueue`, `dequeue`, `resize_queue`, `add_pid_list`, `remove_pid_list` | only the server's main process |
| Server main, `MidtermProject/server.c` | `processQueue`, `processArray`, flags `SIGCHILD`, `SIGINTT`, its FIFO | read a registration, give a turn, fork, reap, take from the queue, shut down | clients (FIFOs), children (fork, SIGCHLD, SIGTERM, wait) |
| Server sessions, `server.c` | per child: the request, the response, the file under work | `list`, `readF`, `writeT`, `upload`, `download`, `quit`, `killServer` | its client (two FIFOs), the region locks |
| Client, `MidtermProject/client.c` | where it is in the protocol | register, wait for a turn, make the request FIFO, send commands, print responses | server main, then its child |
| Server log, `server.c` | a file | one write a line | nobody reads it |
| MWCp, `Homework4` and `Homework5` | bounded buffer, `done`, counters; Homework5: a barrier | manager walks the tree, workers copy, main joins, SIGINT handler | threads of one process: mutex, two condition variables, barrier, join |
| Parking lot, `Homework3/hw3.c` | two lots with free counts, a ring of pointers, seven semaphores, three mutexes | owner: arrive, enqueue, announce, wait; attendant: take from the ring, park or turn away, release, remove expired vehicles | threads, POSIX semaphores |
| Pipeline, `Homework2/main.c` | two FIFOs, a count of exited children | parent writes array, command and numbers; child 1 sums; child 2 multiplies; SIGCHLD handler | FIFOs and signals |
| Grade shell, `Homework1/main.c` | a text file, a log, the input buffer | help, create, add, search, sort, show all, list some | children: one or two forks a command, some of which become shells |
| Pide shop, `FinalProject/PideShop.c` | array of orders, slots, peels and places of the oven, counts | main accepts a number and the orders; chefs bake; deliverers hand over and notify | threads with four mutexes and four condition variables; sockets |
| Pide customers, `FinalProject/HungryVeryMuch.c` | where it is in the protocol | send the number, send the orders, wait for the notice, cancel | sockets on one port |

### What is hard, and what makes each part correct

* **Region locks.** Five places where a process may stop between two
  semaphore operations on each path; semaphores taken by one process and given
  back by another; children may be killed inside. Correct when a writer is
  alone, the first reader never blocks with two semaphores in its hands,
  nothing is worn out after any sequence of commands, somebody always gets in,
  and writers are preferred as the comments say.
* **Server main.** Signals that merge, a flag cleared before a polling loop,
  one client taken from the queue per flag and not per exit, results nobody
  looks at, a ring that is full and empty with the same indices, FIFOs made by
  one process and opened by another. Correct when there are never too many
  children, the pid list names exactly the children, no exit and no waiting
  client is forgotten, and shutdown ends everything.
* **Sessions and files.** A request may need one answer, several, or a
  question in between; the two ends must agree. Files are opened and truncated
  before the region is entered.
* **MWCp.** Lost wakeups between `done` and the condition variables, descriptors
  that change owner, SIGINT during the joins, cleanup while somebody still
  works. Correct when no descriptor is leaked or closed twice, every file handed
  over is copied once before the statistics are printed, cleanup comes last and
  the program ends.
* **Shared file table.** Children add files to it without a lock. Correct when
  one file has one lock, which only holds as long as no two of them add at once;
  the files found at the start must keep their locks whatever happens.
* **Parking lot.** The attendant takes the front of a ring that both kinds of
  vehicles share. Correct when each vehicle ends in its own lot or is turned away
  from a full one, no vehicle is used after `free`, and every owner comes back.
* **Pipeline.** Two writers share a FIFO and only a `sleep` orders them; a signal
  may break a blocked call, and exits that merge into one signal must be counted.
* **Pide shop.** One condition variable for chefs and deliverers, three oven
  counters, an array replaced without a lock, a notice to a port on which the
  shop and every customer listen. Correct when each order is baked, delivered
  once, and the customer told with the last.
* **Grade shell.** Children that do not exit and read the input too. Correct
  when each line is executed once and in order, and listings show what was asked.

The `hazards` of `PROJECT.json` list all of these at the line where they bite.

## 2. Modules

| Module | Models | Kind |
|---|---|---|
| `RWLock` | what `sync.c` promises: readers, announced writers, a writer | abstract specification |
| `ReadersWriters` | the four region functions | detailed specification |
| `WaitQueue` | `enqueue`, `dequeue`, `resize_queue` | operators on a queue record |
| `ServerMain` | main, the start of children and clients | specification, uses `WaitQueue` |
| `ServerMain_proofs` | theorems about both | proofs |
| `Session` | the request loops of client and child, the command functions | specification |
| `Session_proofs` | theorems about it | proofs |
| `MWCp` | Homework4 and Homework5 | specification |
| `MWCp_proofs` | theorems about it | proofs |
| `SharedFiles` | `add_sfile`, `get_sfile` and their callers | specification |
| `Sync_proofs` | theorems about the locks and the table | proofs |
| `ParkingLot` | what the parking lot promises | abstract specification |
| `Parking` | Homework3 | detailed specification |
| `Parking_proofs` | theorems about it | proofs |
| `Pipeline` | Homework2 | specification |
| `Pipeline_proofs` | theorems about it | proofs |
| `PideContract` | what the pide shop promises a customer | abstract specification |
| `PideShop` | the final project, server and customers | detailed specification |
| `PideShop_proofs` | theorems about it | proofs |
| `GradeShell` | Homework1 | specification |
| `GradeShell_proofs` | theorems about it | proofs |
| `MC...` | instances for TLC, one a specification | |

### ReadersWriters

One struct `safe_file`. `pc[p]` names the semaphore operation that process `p`
comes to next, or `idle`, `reading`, `writing`. Every `sem_wait` and `sem_post`
is an action of its own. A change of a counter and the test that follows it are
one action: both happen under the counter's mutex, and `HoldersUnique`, part of
the checked and proved invariant, says that nobody else is under it, so no
process could see a state in between. `Init` is `init_sfile`. `Die` is a
child killed by SIGPIPE while it writes its response inside the region
(`server.c:808`, `818`, `931`); it posts nothing, so it stays in the region.
Which file is under the lock, and what is done to it inside, is left out.

### WaitQueue and ServerMain

`WaitQueue` translates the ring with its fields, so that the case
`front = rear` of a full ring is the code's own. A slot holds a client, `NULL`
(cleared by `dequeue`), or `Garbage`: what `malloc` left there.

In `ServerMain` the variable `main` says which part of the loop comes next:
reading one registration (`ReadRegistration`, a non-blocking read), opening the
client's FIFO (`OpenClient`, which meets the client's own open), giving the turn
(`Serve`, `Enqueue`, `TurnAway`), the test of `SIGINTT` and of `SIGCHILD`, the
`waitpid` loop (`ReapOne`, `ReapNone`), one client from the queue (`Dequeue`),
and the shutdown (`KillChildren`, `WaitOne`, `Exit`). `child[c]` is the child
that serves client `c`; it opens the client's FIFO, then the client's request
FIFO, which must exist by then, and serves the session. `client[c]` is the
client up to its first command. Of the session itself this module has the end:
`Quit`, `KillServer` (a SIGINT to the server), or `EndOfFile`. `Lose` kills a
client anywhere. `Interrupt` is Ctrl-C at the server's terminal, at any moment.

A pointer from a `Garbage` slot may be NULL, may crash the server (`main =
"dead"`) or lead to some record: the child then has the record `Junk`, whose
FIFO does not exist.

Left out: the names of FIFOs, the log, the client number (only used for names),
the order of the pid array (nothing reads it). Taken to hold: `fork`, `malloc`
and `mkfifo` succeed; SIGTERM acts at once.

### Session

What `ServerMain` calls a session, opened: one client, its child, and the two
FIFOs between them. A command is a name; the names stand for the branches of
`server_request` and for what the command functions do. The client reads
responses until one that is not `RESP_CONT`, asks the user when it is
`RESP_APPROVE`, and after a yes waits for a further response
without a new request (`skip`). The child opens, enters the region, responds
and leaves it in the order of the code; readF takes the size before the region,
and upload truncates before it. All commands are about one file, of which the
size is kept; a second session uploads to it or appends to it at any time the
lock of `RWLock` lets it (which `ReadersWriters` implements), and truncates it
at any time at all. Either program may be killed at any point (`ClientKilled`,
`Terminate`), and who writes to a FIFO without a reader dies of SIGPIPE. main
keeps the client's FIFO open, so the client sees the end of file only
when the server ends.

The status that readF returns for a whole file is never assigned. The program
that the Makefile builds (gcc without optimisation) finds there the argument
count that `parse_command` left on the stack; the model takes it as success.

Left out: what is in a response, help topics, the archive, lines longer than
the pipe, writes and reads of a header apart from its body.

### MWCp

One module for two programs; `UseBarrier` tells them apart. What runs under
`buffer_mutex` is one action, from the lock to the unlock or to the wait. A
thread in `pthread_cond_wait` has a label of its own and comes back by a
signal, a broadcast or spuriously (`SpuriousWakeup`). The tree is given depth
first with depths, so that the recursion of `traverse_directory` is an index,
and its `break`s (which end one level of the recursion only) are jumps to the
next entry less deep. `Interrupt` is the first SIGINT, in the main thread: main never
goes back to what it did, and the handler's joins meet workers that main has joined
already (undefined: it fails, or the process crashes) or was joining at that
moment (the second join does not wait). While main is in the handler SIGINT is
masked for main only, so a further one goes to another thread
(`InterruptThread`). That thread never returns to its work either. It may have
`buffer_mutex`, which nobody gets any more (`kept`); its own joins may wait for
workers that wait for it at the barrier, and then the program hangs; or they are
second joins, which do not wait, and it cleans up and exits while others still
work (`ThreadHandlerEnd`). `open` holds the files whose two
descriptors are open; `copies` counts copies of each file.

Left out: what is copied, statistics but the number of files, the failures that
end the process at once. A file that cannot be opened, and an entry whose
`stat` fails, are `Skip` and `SkipTree`.

### SharedFiles

The table `safe_dir` with the accesses of `add_sfile` one by one: the test of
`size`, the read that gives the index, `strcpy` of the name, the semaphores, and
load and store of `size += 1` (the Makefile builds without optimisation), and
the read that gives the result. A child looks for its file (`Found`, `Missed`),
adds it, and takes the region of the slot it came to; the region functions are
the lock that `ReadersWriters` shows them to be. Behind the last slot lies the
counter itself: a name copied there overwrites it (`CopyName`) with the bytes of
the name (`Bytes`). A name of a few characters gives a number far beyond the table
and, if it is longer, overwrites the limit `capa` as well; a name of one character
gives a number that may be smaller than the number of files of the start. What
is further out kills the child (`Dies`). `raced` remembers whether two children
have been adding at the same time, `cut` whether a name has brought `size`
down to the number of the first files or below.

Taken to hold: names are ASCII and shorter than `FNAME_LEN`.

### ParkingLot and Parking

Each semaphore operation and each section under `queue_lock` or `parking_lock`
is an action; the two kinds are an argument, as the code's two branches do the
same with different names. A vehicle is a piece of memory, so `free` and a
second `malloc` of the same address are in the model (`heap`). `LotRefinement`
maps the vehicle in service and the occupied slots to `ParkingLot`.

### Pipeline

Three processes and two FIFOs. A process that opens a FIFO goes on together with
its first peer; at the end of the file `read` returns 0, which the code takes
for a success, and the variable keeps what was in it (`Junk`). Child 1 reads the
array and closes its FIFO in two steps (`ReadArray`, `CloseFifo1`). The sleeps are
left out, so the sum may overtake the numbers; `early` remembers that it has.
`ReapChildren` is the SIGCHLD handler at any point: without `SA_RESTART` a call
that is blocked then fails and the parent exits.

### PideContract and PideShop

Main, chefs and deliverers with the four mutexes and conditions; sections under
one mutex are one action, except the hand-over, which keeps `ordersMutex` from
one order to the next. A sleeping thread is in `asleep`, and `Signal` wakes one of
those on that condition. The customers are processes; a connection to a host on
which several sockets listen (both programs set `SO_REUSEPORT`) reaches any of
them. That includes a customer who was told and has not closed his listener yet
(`HungryVeryMuch.c:174`; `told`, then `served`). Memory from `malloc`, and the orders
that a count too high copies from behind the message, hold anything (`Junk`,
`Install`). main reads the orders with one call of `read` (`PideShop.c:410`), which
TCP may answer with the first of them only (`Came`). After the unlock a chef
reads the number of the order for its log line (`PideShop.c:207`, `LogReady`); main may
have freed the array by then, and the process may crash. Who finds orders but
nothing to do lets go of `ordersMutex` and looks again (`Look`).

`trouble` remembers what takes the shop out of its contract: customers overlap
(`overlap`), one is cancelled (`cancelled`), the notice is heard by nobody or by the
shop itself (`unheard`), the orders are read short (`short`), a customer's connection
reaches another customer (`astray`), a log line reads the freed array (`stale`).

### GradeShell

One command is one action, as everybody else waits for it. `shells` are the
shells inside each other and how many lines each has read: from a terminal all
read from one place, from a pipe a child has a copy of the buffer of stdio and
the parent reads the same lines again. A child of an unknown command, or one
whose second fork fails, goes on as a shell (`Nests`). The file is a sequence of
students; for the listings it becomes bytes, read 256 (`BUFFER`) at a time into a
buffer that keeps what was there, and cut by `strtok` (`Buffer`, `Tokens`: a token
is the run that begins at the n-th start). The loops of the code are recursive
functions over their rounds: the reads of `ListGrades`, the inner and the outer
loop of the bubble sort (`BubblePass`, `sortByGrade`). `readStudentsFromFile`, from
which the sorts by grade take their students, does not terminate its buffer
(`main.c:207`): behind the students of the file `strtok` may find others in what the
stack held before. Their grades are `Leftovers`; they are sorted and printed with
the rest, as `Junk`. `sortName` gives every result that `qsort` may return. A sort
of a file that fills its buffer of `SORT_BUFFER` bytes is left out. What is no
number leaves the answer to `sortAll` unset, and then it may be anything (`Chosen`).
Names and grades are numbers, their places in the order of `strcmp`. `MaxPage`
bounds the pages that are asked for and the entries on one.

## 3. Runs

| Run | Instance | Shows |
|---|---|---|
| `regions` | 4 processes, 1 killed | the inductive invariant, exclusion, nothing worn out, the first reader never blocks, implementation of `RWLock`, progress of the region and of writers |
| `server` | 4 clients, 2 places, 1 client killed | the inductive invariant; never too many children; the pid list is exact; no exit unnoticed; a non-empty queue is looked at again |
| `server_live` | 3 clients, 1 place, 1 client killed | `killServer` ends the server and every exit is handled |
| `server_queue` | 3 clients, 1 place | **violated**: after `resize_queue`, `rear` is the "Size of the queue" |
| `session` | 2 responses in the pipe, a file of up to 5 units read 2 at a time | the inductive invariant; both ends in step; no request taken for an answer; which commands are left unanswered; every other is answered; the region is left whatever the user does; no child outlives its client |
| `mwcp` | Homework5, 2 workers, buffer of 2, 6 entries | the inductive invariant, descriptors owned, the barrier holds; nothing lost, cleanup last and the program ends, unless a second SIGINT comes |
| `mwcp_hw4` | Homework4, same | **violated**: the handler waits "for worker threads to finish" |
| `files` | 2 children, 4 names, a table of 3 slots with 2 in use | the inductive invariant; a writer is alone with its file and nobody waits at semaphores that were never set: for later files unless two children added at once, for the first files unless a name has cut the counter |
| `parking` | 2 owners, 3 vehicles, 1 place a lot, a ring of 2 | the inductive invariant; implementation of `ParkingLot`; every owner comes back |
| `pideshop` | 2 chefs, 1 deliverer, 2 customers of 1 or 2 orders, 1 trouble | the inductive invariant: counters of the kitchen and no forgotten sleeper; until a trouble, the array is replaced under nobody but a chef at its log line, `PideContract` is implemented, and the customer is told |
| `pipeline` | arrays of 1 to 4, pipes of 3 | exits counted, the stream of FIFO2 in order, the right result; the program ends |
| `shell` | 3 lines, terminal or pipe, 1 failing fork, files of 0 to 4 lines | no line executed twice; listings and sorts show what they promise, with junk behind or among it only |

### Bounds, and why they are enough

* `Procs` = 4: two readers and two writers at once, so that first and last
  differ from the others in both groups and both groups meet; any other mix is
  in the run too, since each process chooses again each time. The safety
  properties are proved for every finite `Procs`.
* `MaxKilled` = 1: one death is enough to block a file; the proofs cover every
  number.
* `Clients` = 4, `Capacity` = 2 in `server`: two children may exit under one
  flag while two clients wait, which is where one client per flag could go
  wrong, and the ring grows from 1 to 2 while it is in use. With one client
  more than places per side, the queue is non-empty and a new client still
  arrives. The safety properties are proved for every number of clients,
  places and killed clients.
* `Clients` = 3, `Capacity` = 1 in `server_live`: the queue outgrows a ring of
  one, so the damaged ring, `Garbage` and the child of `Junk` all occur. No
  symmetry, as liveness is checked.
* `MaxLost` = 1: a client killed while registering, waiting or in a session.
  Each client connects once. At most one child for `Junk` lives at a time.
* `PipeSize` = 2 in the session runs: the child blocks in a readF of three
  parts. `BuffSize` = 2 and `MaxSize` = 5: files of no, one, two and three
  parts, with a full and with a partial last one. Commands are not counted: the
  session goes on for ever, so every sequence of commands is in the run. The
  safety theorems hold for every value.
* `NumWorkers` = 2, `BufferSize` = 2, four files: the buffer fills, wraps around
  and empties; one worker may copy while the other waits or leaves; the tree
  has a directory, so a SIGINT leaves an inner and an outer level. A FIFO and
  unreadable entries are passed over. The theorems hold for every number of
  workers, every buffer and every tree.
* `files`: with one slot free and two new names, two children meet in
  `add_sfile` for the same or for different names, or one adds while the other
  uses a file; the table overflows into the counter (`FarOut` = 5: the counter's
  slot, one unused, then nothing). Written over the counter, one of the new names
  makes it far too large, the other, `s`, makes it 1, below the two first files. The
  theorems hold for every value.
* `parking`: three vehicles for two places, so that each kind is turned away and
  memory is used again; the ring wraps. The theorems hold for every value.
* `pipeline`: 4 numbers do not fit into a pipe of 3, smaller arrays do. The
  theorems hold for every set of sizes.
* `pideshop`: two chefs meet at one slot, one peel and one place; the bag takes
  both orders or one; a second customer with the same number (no new array) and
  with another one. `MaxTroubles` = 1: one kind of trouble is enough to leave
  the contract; each of the six kinds is in the run. `OverlapCounts`: only
  customers of one order overlap in the run, which bounds the orders the
  kitchen holds at once. `PlaceInOven` never waits, as the oven has a place for each
  slot. The theorems hold for every shop and every value of the two bounds.
* `shell`: three lines let a nested shell and its parent both read, and `sortAll`
  have a blank line before its answer. `Width` = 2, `BUFFER` = 5: two lines and a
  half a read; `SORT_BUFFER` = 9: the largest file fits. `MCLeftovers`: no junk
  student, one, two that belong at the ends, two that belong between the others.
  `MaxPage` = 2: a page that is full, one that is not, one behind the end of the file
  or of the buffer. The theorems hold for every value.

`SYMMETRY` is used in `server` and `files` only, which check no liveness.
Deadlock is not checked where the system may really stop: a killed process keeps
a region, the server, the session, the copier, the pipeline or the shell ends, a
child is dead, all customers are done, a killed client leaves the server waiting
in `open` (`server.c:152`); `Shutdown` and `ExitsReaped` except that one state
(`Blocked`) and the death of the server.

### Fairness

Weak fairness, except for the threads of the pide shop, and only for what the
kernel schedules: a process already inside an enter or exit function (`Read(p)`,
`Write(p)`), the server's loop (`Main`), owners and attendants, the three
processes of the pipeline and the delivery of a pending SIGCHLD, a customer that
has sent its number, both loops of a session, the other session's way out of the
region, and each thread of the copier outside a second SIGINT handler. No
process must start a command, no client must do anything, no signal or spurious
wakeup must come. `sem_post` wakes some waiter and not the oldest, so weak
fairness of a waiting process is all there is: it promises progress of the group
(`RegionProgress`, `WriterProgress`), never of one process. Leaving the region
is part of `Read(p)` and `Write(p)`: a handler does not stay there for ever
unless it is killed, and then the liveness properties say so.

The threads of the pide shop need strong fairness. A chef or deliverer that
finds orders but nothing to do takes `ordersMutex` again and again
(`PideShop.c:130` and `218`), so whoever waits for it finds it free infinitely
often but not for ever. That such a thread gets it in the end is an assumption,
which the program makes too and pthread mutexes do not promise: `CustomerServed`
depends on it.

## 4. Findings

Two runs refute what a comment of the code says:

1. `resize_queue` (`common.c:55`) copies until `front` meets `rear`, but a full
   ring has them equal: nothing is copied, the waiting clients are lost,
   and `size` still counts them. (`server_queue`, `RearIsSize`)
2. Homework4: a SIGINT while main joins a worker makes the handler's join of
   the same worker return at once, and it frees the buffer and destroys the
   mutex while that worker still copies (`200104004104_main.c:322`). The barrier
   of Homework5 happens to repair it: no thread is past the barrier before every
   one has left the buffer. (`mwcp_hw4`, `WorkersFinished`; in `mwcp`,
   `CleanupLast` holds as long as there is no second SIGINT)

Other behaviour that the models show is written down as an exception of a
property that holds; the model keeps the code as it is.

* A command that no test of `server_request` fits gets no answer, though
  `server.c:462` promises an error response; client and child wait for each
  other. readF of a directory never ends: -1 is stored in an unsigned variable
  (`server.c:815`). `Answered`, `ChildFollows` and `RegionLeft` of `session` name
  these cases as their only exceptions, and `StandoffCauses` lists all that can
  leave a client unanswered: the commands above, a `writeT` whose write fails,
  and a readF that finds the file empty or shorter than `fstat` said. A reader
  may starve when writers keep coming, so `Answered` and `ChildFollows` ask that
  the other session stops (`OthersStop`).
* `server.c:331` says that the FIFO the child opens was made by the client
  before. The client makes it after it has read its turn; when the child is
  first, its `open` fails and it exits (`ChildOpenServer`). The properties of
  `server` hold in spite of that and of (1).
* Two children that add files at once may give one file two locks, or write
  behind the table (`sync.c:149`): `OneLockPerFile` excepts these (`raced`). The
  files of the start are not concerned, until a name written behind the table
  happens to make the counter no larger than their number (`sync.c:156`, a name of
  one character may): then their slots are handed out again (`cut`).
* A second SIGINT while main is in the handler of Homework5 may hang it: the thread
  that takes it joins workers that wait for it at the barrier. `Termination`,
  `CleanupLast` and `NothingLost` except it.
* The sum may overtake the numbers in Homework2, an array may be larger than a
  pipe, and a signal may come before an `open` that then waits for ever:
  `Completes` names these.
* The pide shop's notice may reach the shop itself, another customer or nobody
  (then the server exits, `PideShop.c:116`); a customer's orders may be read in part
  (`PideShop.c:410`) or go to the customer before him; a chef's log line may read an
  array that main has freed (`PideShop.c:207`), even when customers come one after
  the other. `ArrayUnused` excepts that line by name; `ContractKept` and
  `CustomerServed` hold until the first of these (`trouble`).
* A sort by grade may print students that are not in the file (`main.c:207` of
  Homework1): `ShownRight` says that those of the file are all there, in order.
* The grade shell executes lines of a pipe twice once a child has read its copy
  of the buffer: the exception of `EachLineOnce`.

## 5. What is proved

All assumptions are the named ones on constants in the modules; none says more
than that capacities are positive or sets finite, that the special values differ
from the ordinary ones, that threads of different kinds have different names,
that no file name makes a counter of 0, and that the oven of the pide shop has
no fewer peels and places than slots, as the constants of `PideShop.c` have it.
`RowsAssumption` says what a file of grades is, a sequence of names and grades,
and that leftovers are sequences of grades. Every invariant that a run lists is
proved, and so is every property of single steps. The inductive invariants were
checked by TLC on the instances of the runs before they were proved; that of
`GradeShell` is not among the properties of its run, which lists the two parts
that say something to a user.

### ReadersWriters

`Sync_proofs`, for every finite set `Procs` and every `MaxKilled` in
Nat (`ProcsAssumption`, `MaxKilledAssumption`):

| Theorem | States |
|---|---|
| `Invariance` | `IInv` always holds |
| `TypeCorrect` | a semaphore is 0 or 1, a counter never negative |
| `MutualExclusion` | a process that writes is alone in its region |
| `Reset` | when everybody is outside, the file is as `init_sfile` left it |
| `NoHoldAndWait` | the first reader never waits for `rsc` |
| `Refinement` | `ReadersWriters` implements `RWLock` |

`Exclusion` alone is not inductive: it holds because `rsc` is 0 exactly when
its owner is inside. `IInv` says for each semaphore who owns it: the two mutexes
belong to one process between two labels (`HoldersUnique`); `rsc` to one writer
or to the readers as a group (`RscOwned`); `read_try` to one entering reader or
to the writers as a group (`TryOwned`). A group takes the semaphore when its
counter goes to 1 and gives it back when it goes to 0, by a process that tested
the counter one step before. So the counters must equal the number of processes
between increment and decrement (`CountsExact`), and the test must still hold
when the process reaches the semaphore (`FirstAndLast`), which the mutex gives.

The lemmas `HoldersPreserved`, `CountsPreserved`, `FirstAndLastPreserved`,
`RscPreserved`, `TryPreserved` and `TypePreserved` prove one part each; `CountTests`
turns a cardinality of 0 or 1 into a statement about sets, from the library's
facts about finite sets. In `Refinement` a reader counts as inside from
`r_unlock` on, when nothing can stop it any more; a writer is announced once
its group holds `read_try`; the counts and `FirstAndLast` show that the steps
of the four semaphores map to steps of the lock or stutter.

### SharedFiles

`Sync_proofs`, for every set of children and files, every table and every
list of first files: `TableInvariance` (`TableIInv`) and `LocksAgree`
(`OneLockPerFile`). That one file has one lock is not inductive. It follows from
two halves of `TableIInv`. `InitialKept` holds until `cut`, so whatever races there are:
an index that a child has taken is never below the number of first files, since
stores that race never bring `size` below it, and only a name written over `size`
could; so neither names nor semaphores there change. `OneAdds`
and `OneSlot` hold as long as no race has begun. Then `size` and `capa` were
never overwritten, and the one child that adds has an
index equal to `size`, its name has no slot yet, and every user of a file is at
the only slot of its name. `RegionsExclude` adds that a slot whose semaphores
were not reset under a user excludes. The lemmas `Typed`, `InitialStay`,
`Excluding` and `Undisturbed` prove one part each.

### Parking

`Parking_proofs`, for any owners, vehicles and capacities: `Invariance` (`IInv`)
and `Refinement` (`LotRefinement`). The heart is `OneToken`: for each kind, an
announcement not yet taken, an attendant at work and a release not yet taken
together are one if an owner of this kind waits and none otherwise. With the
arrival lock (`Serialized`) it gives that the front of the ring is the vehicle of
the owner who waits (`RingExact`), of the attendant's kind. `MemoryExact` says
where each allocated vehicle is, so that nothing is used after `free`;
`FreeExact` that the free counters equal the empty slots, so that turning away
means a full lot. In `Refinement`, `Arrive`, `Park`, `TurnAway` and `Remove` map to
steps of the same kind, the rest to stutters.

### Pipeline

`Pipeline_proofs`, for any array and pipe sizes: `Invariance` (`IInv`) and
`RightInTime` (a printed result is right unless the sum was early or the array
did not fit). The invariant describes FIFO2 as a window on one stream: the
command, the numbers, the sum. `Taken` says how much child 2 has read, `Total`
how much was written, and `StreamKept` that the FIFO holds what lies between.
`Stages` says how far the three processes may be apart, which is what shows
that child 2 never meets the end of the file (`NextItem`) and exits last
(`LastReader`).

### ServerMain and WaitQueue

`ServerMain_proofs`, for every finite set of clients, every capacity and every
number of killed clients: `Invariance` (`IInv`), `NeverTooMany`
(`WithinCapacity`), `PidListRight` (`PidListExact`), `NoExitMissed`
(`ExitNoticed`), `QueueAwaitsExit` (`QueueHasTrigger`).

`WithinCapacity` is not inductive, as `Dequeue` starts a child without a look at
the number of children. `RoomKept` is the reason that there is room: the
children that run, a place that a raised flag may still be worth, and one for
the pass under way are never more than `Capacity` while somebody waits. A
merged SIGCHLD costs a place for a while and never makes one up. `PidListExact`
needs `WithinCapacity` back: only because there is room does `add_pid_list`,
whose result nobody checks, never fail. Both hold although the ring may be
damaged (finding 1): what comes out of it is a client, NULL or a junk record,
which `IsQueue` allows and the operator lemmas `ResizeKeeps`, `EnqueueKeeps` and
`DequeueKeeps` preserve.

What the ring itself does is in three theorems about the operators, for rings of
any size and any contents: `EnqueueInOrder` and `DequeueInOrder` (`InLine`, the
clients from front to rear, grows at its end and shrinks at its head, as long as
the ring is not full), and `ResizeLoses` (a full one that grows keeps its size
and none of its clients), the general form of finding 1.

`OneMayWait` says when that can happen to the server: not before a client has to
wait behind another. Until then (`LineKept`: the ring has at most one slot) who
is in line is a client that registered, no child is started for a junk record,
and the server ends outside `killChildren` only through the SIGPIPE of a client
that was killed. It rests on `IInv` and on `DequeuesSomebody`: main goes to the queue
only when somebody is in it.

### Session

`Session_proofs`, for every size of pipe, buffer and file: `Invariance` (`IInv`),
`EndsInStep` (`InStep`), `NothingMistaken` (`Framed`), `OnlyThen`
(`StandoffCauses`). The invariant says what may stand in the two FIFOs at each
pair of places of the two programs. `RequestsRight` is about the FIFO from the
client and does without the client, who may be killed at any point: a "no" is
not answered, so the next command may already stand behind it. `TalkRight` is
about both, as long as both live: four ways they can stand to each other, of
which the fourth has the parts of a file on their way and maybe the response
that ends them. `ReadingRight` says that a readF goes on only with something
left of what `fstat` said; that is why it ends with a last response unless the
file has shrunk. Nothing is assumed about the other session.

### MWCp

`MWCp_proofs`, for any number of workers, any buffer and any tree: `Invariance`
(`IInv`) and `OneOwner` (`DescriptorsOwned`) for both programs, and for Homework5,
that is under the hypothesis `UseBarrier`, `NoUseAfterCleanup` (`CleanupLast`),
`EveryFileOnce` (`NothingLost`) and `NobodyLeavesEarly` (the action property
`BarrierHolds`). Without the barrier `CleanupLast` is false, which
`mwcp_hw4` shows.

That no descriptor is closed twice needs that a file is in one place. `BufferRight`
says that the slots between head and tail hold different files, all of them
behind the walk of the manager, so the next file it opens is a new one, also
when a second SIGINT has stopped threads;
`ItemsRight` that a worker's file is in no slot and with no other worker;
`CopiesRight` relates copies to the count of the statistics. `BarrierRight` is
what makes cleanup safe: whoever is at the barrier saw `done`, a worker saw the
empty buffer as well, and nobody is past it before all have come. `MainRight`
says what main may conclude from the joins that have returned; with a signal in
between it concludes nothing from them, and only the barrier is left. A second
SIGINT takes that away too, which is why what main prints and frees is claimed
without one (`Cleaned`); `DescriptorsOwned` and `BarrierHolds` hold in every case.

### PideShop

`PideShop_proofs`, for any chefs, deliverers, customers, numbers of orders and
sizes of oven and bag: `Invariance` (`IInv`), `ArrayNotReplacedInUse`
(`ArrayUnused`) and `KeepsContract` (`ContractKept`: the shop implements
`PideContract`).

The first half of `IInv` holds whatever customers do: `KitchenExact` counts slots,
peels and places by the chefs between taking and giving back, and lets a
chef sleep for a slot or peel only while as many are awake at that step as slots
or peels are free. The other half
holds until something troubles the shop (`Calm`). `CustomerRight`: there is one
customer at most, either still being taken in, step by step of main, or one whose
orders are worked on. A chef at its log line no longer counts as at work
(`AtWork`): its order may be gone. That is the one use of the array that
`ArrayNotReplacedInUse` leaves out, because there the code has none of the protection
that the rest has. `OrdersRight` and `BagsRight`: the orders not yet delivered
are as many as are counted, have different numbers, and each chef and each place
in a bag has one of its own, so two deliverers never hand over the same order and
the last one is known by the count. `NumbersRight`: the numbers handed
out are no more than the customers so far may have brought, so each is one the
contract knows. In `KeepsContract` the installation of a new customer's
orders maps to `Come`, the end of baking to `Bake`, the hand-over to `Deliver`,
what begins a trouble to `Trouble`, and every other step to a stutter; the lemmas
`...Seen` show one each.

### GradeShell

`GradeShell_proofs`, for any students, any file at the start, any sizes of line and
buffers, any numbers of lines, pages and failing forks: `Invariance` (`IInv`),
`LinesOnce` (`EachLineOnce`) and `ShowsRight` (`ShownRight`).

`EachLineOnce` needs to know where everybody stands in the input. `ReadersRight`:
no shell is behind the last line that was read; as long as no child has read from
its own copy of a pipe's buffer, all of them have read every line, so the next one
is new and its number is larger than any in the log. `FileGrows`: students are
only appended, so that those added are the last ones of the file. One lemma each
for the ways a command can end: `RunsKeeps`, `NestsKeeps`, `QuitKeeps`,
`AnsweredKeeps` for the shells, `ExecutesKeeps` and `AddKeeps` for log and file.

`ShownRight` is about what two algorithms compute from the file, a loop each, and
so needs an induction. The induction theorems of the library cannot be used, but
their reason can: a set of numbers that is not empty has a least one
(`NatLeast`, from the well-foundedness of the natural numbers), so what holds of 0 and
passes from each number to the next holds up to any bound (`UpTo`).
`LoopExists` uses it to show that a loop is a function of its rounds: without that,
the recursive definitions of the model could not be unfolded.

* Bubble sort, of any sequence of grades that begins with the file's
  (`StudentsRead`, `ArrangedShows`, `GradesShown`). The invariant of the inner
  loop, round by round (`PassRounds`): the students are all there once
  (`Arranged`), those with the same grade as in the file (`Stable`), what was
  settled before stays settled (`Settled`), and the largest so far is carried
  along (`Carried`). So a pass settles one more (`PassKeeps`), and count - 1
  passes sort (`RoundsKeep`, `BubbleSorts`): the order is right, nobody is lost,
  and it is stable.
* Listings. `TextLines` says which byte of the file belongs to which line.
  `Buffers` and `FirstHoldsText`: the first read gives the beginning of the text.
  `EndIs`, `StartsAre` and `Ranks` find the tokens in it, and `TokensRight` says
  which they are: the students whose lines fit, and behind the last one junk at
  most. `ListSomeRight` follows by the arithmetic of pages; `ListGradesRight`
  needs that no later read takes back what an earlier one has listed.

### What is only model-checked

Liveness under fairness is beyond the prover: `RegionProgress`,
`WriterProgress`, `Shutdown`, `ExitsReaped`, `Answered`, `RegionLeft`,
`ChildFollows`, `Termination`, `OwnersServed`, `Completes`, `CustomerServed`.
Everything else that the passing runs check is proved as well. The two expected
violations are counterexamples of TLC; the first has a general form in
`ResizeLoses`.

## 6. Not modelled, and why

* Server log, text formatting, path handling, argument parsing: no state that
  the rest depends on.
* The descriptors that main never closes (`server.c:152`) are not counted.
* `destroy_queue` and `destroy_pid_list` are never called; neither is
  `bubbleSort` of Homework1.
* Homework1: quoting and cutting of tokens, more students than its array holds
  (those left on the stack included), lines cut at the end of a buffer by a sort,
  `sortName` of a file of `SORT_BUFFER` bytes, which writes behind its buffer
  (`main.c:261`), names and grades longer than their fields, input from a regular
  file, failing reads and writes.
* Homework2: failures of `open`, `fork` and `mkfifo` that end the process at once.
* Homework3 and the final project: SIGINT to the process, which exits at once.
* Final project: routes, delivery times, log files, but for the one line that
  reads the array after the unlock.
* `Session`: the status of readF is taken as success (section 2), so the -1 that
  another build might find there is not in the model. Any `writeT` counts as a cause
  of `StandoffCauses`, whichever way its write went.

## 7. Plan

Done: every program of the repository has a module with an inductive invariant
and its proof. Every invariant and every action property of a passing run has a proof.

What could be added, most wanted first:

1. `PideShop`: what stays true after a trouble, beyond the kitchen.
2. The server's log and the descriptors of `main`, with the bound that the
   kernel puts on the latter.
3. `Session` with two clients instead of one client and another session.
