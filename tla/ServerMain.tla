------------------------------ MODULE ServerMain ------------------------------
(***************************************************************************)
(* How clients of the file server get a child process: the loop of main in *)
(* MidtermProject/server.c with createChildProcess, the start of           *)
(* server_request in the child, the registering half of client.c, and the  *)
(* wait queue and pid list of common.c.                                    *)
(*                                                                         *)
(* main polls: it never blocks reading registrations, only in opening the  *)
(* client's FIFO and in wait.  The handlers of SIGCHLD and SIGINT set a    *)
(* flag at any moment; several exits may meet in one flag.  A client may   *)
(* be killed at any point (MaxLost of them), and the server does not       *)
(* handle SIGPIPE.  SIGTERM is taken to act at once, fork and malloc to    *)
(* succeed, and the order of the pid array, which nothing reads, is left   *)
(* out.                                                                    *)
(***************************************************************************)
EXTENDS Naturals, FiniteSets, Sequences, WaitQueue

CONSTANTS
    Clients,    \* client processes, each connecting once
    Capacity,   \* the max. #ofClients argument
    MaxLost,    \* how many clients may be killed
    Junk        \* the client record found behind a Garbage pointer

ASSUME ClientsAssumption ==
    IsFiniteSet(Clients) /\ {Junk, NULL, Garbage} \cap Clients = {}
ASSUME CapacityAssumption == Capacity \in Nat \ {0}
ASSUME MaxLostAssumption == MaxLost \in Nat

VARIABLES
    client,     \* where each client stands
    waits,      \* "connect" (TRUE) or "tryConnect"
    fifos,      \* clients whose own server FIFO exists
    reg,        \* registrations in the server's FIFO
    main,       \* the server's next step
    cur,        \* the client it is dealing with
    queue,      \* processQueue
    pids,       \* processArray
    child,      \* the child process serving each client
    SIGCHILD, SIGINTT

clientVars == <<client, waits, fifos, reg>>
signals == <<SIGCHILD, SIGINTT>>
mainVars == <<main, cur, queue, pids>>
vars == <<client, waits, fifos, reg, main, cur, queue, pids, child,
          SIGCHILD, SIGINTT>>

ClientStates ==
    {"new", "registered", "accepted", "told", "refused", "opening",
     "session", "gone", "lost"}
ChildStates == {"none", "open_client", "open_server", "session", "zombie"}
MainStates == {"read", "open", "turn", "sigint", "sigchld", "reap", "dequeue",
               "kill", "wait", "exited", "dead"}

Unreaped == {c \in DOMAIN child : child[c] # "none"}
Alive == {c \in Unreaped : child[c] # "zombie"}

Init ==
    /\ client = [c \in Clients |-> "new"]
    /\ waits \in [Clients -> BOOLEAN]
    /\ fifos = {}
    /\ reg = <<>>
    /\ main = "read" /\ cur = NULL
    /\ queue = EmptyQueue
    /\ pids = {}
    /\ child = [c \in Clients \cup {Junk} |-> "none"]
    /\ SIGCHILD = FALSE /\ SIGINTT = FALSE

-----------------------------------------------------------------------------
(* The client, up to its first command.                                    *)
ClientGoes(c, from, to) ==
    /\ client[c] = from
    /\ client' = [client EXCEPT ![c] = to]

(* mkfifo of its own FIFO, then the registration written to the server.    *)
Register(c) ==
    /\ ClientGoes(c, "new", "registered")
    /\ reg' = Append(reg, c)
    /\ UNCHANGED <<waits, fifos, mainVars, child, signals>>

(* It reads its turn and leaves, or makes the FIFO for its requests and    *)
(* blocks opening it.                                                      *)
GiveUp(c) ==
    /\ ClientGoes(c, "refused", "gone")
    /\ UNCHANGED <<waits, fifos, reg, mainVars, child, signals>>

MakeFifo(c) ==
    /\ ClientGoes(c, "told", "opening")
    /\ fifos' = fifos \cup {c}
    /\ UNCHANGED <<waits, reg, mainVars, child, signals>>

(* A client is killed; its FIFOs stay in the directory.                    *)
Lose(c) ==
    /\ client[c] \in {"registered", "accepted", "told", "refused", "opening",
                      "session"}
    /\ Cardinality({d \in Clients : client[d] = "lost"}) < MaxLost
    /\ client' = [client EXCEPT ![c] = "lost"]
    /\ UNCHANGED <<waits, fifos, reg, mainVars, child, signals>>

-----------------------------------------------------------------------------
(* The child: server_request.  Its exit makes a zombie and a SIGCHLD.      *)
Exits(c) ==
    /\ child' = [child EXCEPT ![c] = "zombie"]
    /\ SIGCHILD' = TRUE

(* The open of the client's FIFO waits for a reader, for ever if the       *)
(* client is lost; the FIFO of a record that is junk does not exist.       *)
ChildOpenClient(c) ==
    /\ child[c] = "open_client"
    /\ IF c = Junk
       THEN Exits(c)
       ELSE /\ client[c] # "lost"
            /\ child' = [child EXCEPT ![c] = "open_server"]
            /\ UNCHANGED SIGCHILD
    /\ UNCHANGED <<clientVars, mainVars, SIGINTT>>

(* The open of the client's server FIFO fails when the client has not made *)
(* it yet, and otherwise meets the client's own open.                      *)
ChildOpenServer(c) ==
    /\ child[c] = "open_server"
    /\ \/ /\ c \notin fifos
          /\ Exits(c)
          /\ UNCHANGED client
       \/ /\ c \in fifos
          /\ ClientGoes(c, "opening", "session")
          /\ child' = [child EXCEPT ![c] = "session"]
          /\ UNCHANGED SIGCHILD
    /\ UNCHANGED <<waits, fifos, reg, mainVars, SIGINTT>>

(* The session ends with quit, killServer (a SIGINT to the parent) or the  *)
(* end of file of a lost client.                                           *)
Quit(c) ==
    /\ child[c] = "session"
    /\ ClientGoes(c, "session", "gone")
    /\ Exits(c)
    /\ UNCHANGED <<waits, fifos, reg, mainVars, SIGINTT>>

KillServer(c) ==
    /\ child[c] = "session"
    /\ ClientGoes(c, "session", "gone")
    /\ Exits(c)
    /\ SIGINTT' = TRUE
    /\ UNCHANGED <<waits, fifos, reg, mainVars>>

EndOfFile(c) ==
    /\ child[c] = "session" /\ client[c] = "lost"
    /\ Exits(c)
    /\ UNCHANGED <<clientVars, mainVars, SIGINTT>>

-----------------------------------------------------------------------------
(* Ctrl-C at the server's terminal, at any moment; its children ignore it. *)
Interrupt ==
    /\ main \notin {"exited", "dead"}
    /\ SIGINTT' = TRUE
    /\ UNCHANGED <<clientVars, mainVars, child, SIGCHILD>>

(* The server's loop.                                                      *)
MainGoes(from, to) == main = from /\ main' = to

(* add_pid_list refuses a pid too many, and the caller does not look.      *)
add_pid_list(c) ==
    pids' = IF Cardinality(pids) = Capacity THEN pids ELSE pids \cup {c}

createChildProcess(c) ==
    /\ child' = [child EXCEPT ![c] = "open_client"]
    /\ add_pid_list(c)

ReadRegistration ==
    \/ /\ reg # <<>>
       /\ MainGoes("read", "open")
       /\ cur' = Head(reg) /\ reg' = Tail(reg)
       /\ UNCHANGED <<client, waits, fifos, queue, pids, child, signals>>
    \/ /\ reg = <<>>
       /\ MainGoes("read", "sigint")
       /\ UNCHANGED <<clientVars, cur, queue, pids, child, signals>>

(* Both opens of the client's FIFO return together.                        *)
OpenClient ==
    /\ MainGoes("open", "turn")
    /\ ClientGoes(cur, "registered", "accepted")
    /\ UNCHANGED <<waits, fifos, reg, cur, queue, pids, child, signals>>

(* Mutant: one child too many.                                             *)
HasRoomForOneMore == Cardinality(pids) <= Capacity /\ queue.size = 0

HasRoom == Cardinality(pids) < Capacity /\ queue.size = 0

(* The turn is written to the client: 0, a place in the queue, or a number *)
(* that makes a tryConnect give up.                                        *)
Serve ==
    /\ HasRoom
    /\ MainGoes("turn", "sigint")
    /\ ClientGoes(cur, "accepted", "told")
    /\ createChildProcess(cur)
    /\ UNCHANGED <<waits, fifos, reg, cur, queue, signals>>

Enqueue ==
    /\ ~HasRoom /\ waits[cur]
    /\ MainGoes("turn", "sigint")
    /\ ClientGoes(cur, "accepted", "told")
    /\ queue' = enqueue(queue, cur)
    /\ UNCHANGED <<waits, fifos, reg, cur, pids, child, signals>>

TurnAway ==
    /\ ~HasRoom /\ ~waits[cur]
    /\ MainGoes("turn", "sigint")
    /\ ClientGoes(cur, "accepted", "refused")
    /\ UNCHANGED <<waits, fifos, reg, cur, queue, pids, child, signals>>

(* The write of the turn to a client that is gone raises SIGPIPE.          *)
BrokenPipe ==
    /\ MainGoes("turn", "dead")
    /\ client[cur] = "lost"
    /\ UNCHANGED <<clientVars, cur, queue, pids, child, signals>>

TestSigint ==
    /\ MainGoes("sigint", IF SIGINTT THEN "kill" ELSE "sigchld")
    /\ UNCHANGED <<clientVars, cur, queue, pids, child, signals>>

(* Mutant: exits are handled only when somebody waits for a place.         *)
TestSigchldIfQueued ==
    /\ MainGoes("sigchld", IF SIGCHILD /\ queue.size > 0 THEN "reap" ELSE "read")
    /\ SIGCHILD' = FALSE
    /\ UNCHANGED <<clientVars, cur, queue, pids, child, SIGINTT>>

(* The flag is cleared before the first waitpid, never after it.           *)
TestSigchld ==
    /\ MainGoes("sigchld", IF SIGCHILD THEN "reap" ELSE "read")
    /\ SIGCHILD' = FALSE
    /\ UNCHANGED <<clientVars, cur, queue, pids, child, SIGINTT>>

Reap(c) ==
    /\ child[c] = "zombie"
    /\ child' = [child EXCEPT ![c] = "none"]

(* Mutant: the pid of a reaped child stays in the list.                    *)
ReapOneKeepsPid ==
    /\ main = "reap"
    /\ \E c \in DOMAIN child : Reap(c)
    /\ UNCHANGED <<clientVars, mainVars, signals>>

(* Mutant: one exit for each flag, an if in the place of the while.        *)
ReapOneOnly ==
    /\ MainGoes("reap", IF queue.size > 0 THEN "dequeue" ELSE "read")
    /\ \E c \in DOMAIN child : Reap(c) /\ pids' = pids \ {c}
    /\ UNCHANGED <<clientVars, cur, queue, signals>>

ReapOne ==
    /\ main = "reap"
    /\ \E c \in DOMAIN child : Reap(c) /\ pids' = pids \ {c}
    /\ UNCHANGED <<clientVars, main, cur, queue, signals>>

(* Mutant: the last client of the queue is not looked for.                 *)
ReapNoneSkipsLast ==
    /\ MainGoes("reap", IF queue.size > 1 THEN "dequeue" ELSE "read")
    /\ Unreaped = Alive
    /\ UNCHANGED <<clientVars, cur, queue, pids, child, signals>>

ReapNone ==
    /\ MainGoes("reap", IF queue.size > 0 THEN "dequeue" ELSE "read")
    /\ Unreaped = Alive
    /\ UNCHANGED <<clientVars, cur, queue, pids, child, signals>>

(* One client only is taken from the queue, whatever number of children    *)
(* was reaped.  A Garbage pointer may be NULL, crash the server, or lead   *)
(* to some record (at most one child is modelled for such a record).       *)
Dequeue ==
    /\ main = "dequeue"
    /\ queue' = dequeue(queue)
    /\ \/ /\ dequeued(queue) \in Clients
          /\ createChildProcess(dequeued(queue))
          /\ main' = "read"
       \/ /\ dequeued(queue) = Garbage /\ child[Junk] = "none"
          /\ createChildProcess(Junk)
          /\ main' = "read"
       \/ /\ dequeued(queue) \in {NULL, Garbage}
          /\ main' = "dead"
          /\ UNCHANGED <<pids, child>>
    /\ UNCHANGED <<clientVars, cur, signals>>

(* Mutant: nobody is told to end.                                          *)
KillNobody ==
    /\ MainGoes("kill", "wait")
    /\ UNCHANGED <<clientVars, cur, queue, pids, child, signals>>

(* SIGTERM to every child of the list, then a wait for every child.        *)
KillChildren ==
    /\ MainGoes("kill", "wait")
    /\ child' = [c \in DOMAIN child |->
                   IF c \in pids /\ c \in Alive THEN "zombie" ELSE child[c]]
    /\ SIGCHILD' = (SIGCHILD \/ pids \cap Alive # {})
    /\ UNCHANGED <<clientVars, cur, queue, pids, SIGINTT>>

WaitOne ==
    /\ main = "wait"
    /\ \E c \in DOMAIN child : Reap(c)
    /\ UNCHANGED <<clientVars, mainVars, signals>>

Exit ==
    /\ MainGoes("wait", "exited")
    /\ Unreaped = {}
    /\ UNCHANGED <<clientVars, cur, queue, pids, child, signals>>

-----------------------------------------------------------------------------
Main ==
    \/ ReadRegistration \/ OpenClient \/ Serve \/ Enqueue \/ TurnAway
    \/ BrokenPipe \/ TestSigint \/ TestSigchld \/ ReapOne \/ ReapNone
    \/ Dequeue \/ KillChildren \/ WaitOne \/ Exit

Opens(c) == ChildOpenClient(c) \/ ChildOpenServer(c)

Next ==
    \/ Main
    \/ Interrupt
    \/ Opens(Junk)
    \/ \E c \in Clients :
         \/ Register(c) \/ GiveUp(c) \/ MakeFifo(c) \/ Lose(c)
         \/ Opens(c) \/ Quit(c) \/ KillServer(c) \/ EndOfFile(c)

Spec == Init /\ [][Next]_vars

(* The server's loop never sleeps: the kernel runs it.                     *)
FairSpec == Spec /\ WF_vars(Main)

-----------------------------------------------------------------------------
TypeOK ==
    /\ client \in [Clients -> ClientStates]
    /\ waits \in [Clients -> BOOLEAN]
    /\ fifos \subseteq Clients
    /\ reg \in Seq(Clients)
    /\ main \in MainStates
    /\ cur \in Clients \cup {NULL}
    /\ IsQueue(queue, Clients)
    /\ pids \subseteq Clients \cup {Junk}
    /\ child \in [Clients \cup {Junk} -> ChildStates]
    /\ SIGCHILD \in BOOLEAN /\ SIGINTT \in BOOLEAN

(* The server never runs more children than it was told to, though each    *)
(* pass over a flag starts a child and one exit may be reaped under the    *)
(* flag of another.                                                        *)
WithinCapacity == Cardinality(Unreaped) <= Capacity

(* The pid list names exactly the children to be killed at shutdown: no    *)
(* add_pid_list whose result nobody checks ever fails.                     *)
PidListExact == main \notin {"wait", "exited"} => pids = Unreaped

(* No exit goes unnoticed: as long as there is a zombie, the flag is up or *)
(* the loop that reaps is still running.                                   *)
ExitNoticed ==
    Unreaped # Alive => SIGCHILD \/ main \in {"reap", "wait", "dead", "kill"}

(* A queue that is not empty will be looked at again: some child is still  *)
(* to exit or its exit is still to be handled.                             *)
QueueHasTrigger ==
    queue.size > 0 /\ main \notin {"dequeue", "wait", "exited", "dead"} =>
        \/ Unreaped # {}
        \/ SIGCHILD
        \/ main = "reap"

(* The client that main deals with is one that registered.                 *)
CurrentKnown == main \in {"open", "turn"} => cur \in Clients

(* Why a dequeued client always finds room, though Dequeue does not look:  *)
(* of the Capacity places, those of the children that run, one that a      *)
(* raised flag may still be worth, and one for the pass under way are      *)
(* never more, as long as somebody is in the queue.  When nobody is, a     *)
(* client may be served while a flag is up that an earlier pass has used.  *)
Places(flag, pass) ==
    Cardinality(Alive) + (IF flag THEN 1 ELSE 0) + (IF pass THEN 1 ELSE 0)
        <= Capacity

RoomKept ==
    /\ main \in {"read", "open", "turn"} => Places(SIGCHILD, FALSE)
    /\ main \in {"sigint", "sigchld"} /\ queue.size > 0 => Places(SIGCHILD, FALSE)
    /\ main = "reap" => Places(SIGCHILD, queue.size > 0)
    /\ main = "dequeue" =>
         Places(SIGCHILD, TRUE) /\ Cardinality(Unreaped) < Capacity

(* The inductive invariant.                                                *)
IInv ==
    /\ TypeOK /\ CurrentKnown
    /\ WithinCapacity /\ PidListExact /\ RoomKept
    /\ ExitNoticed /\ QueueHasTrigger

(* main waits for a reader that will never come (server.c:152): the one    *)
(* place where a client that is killed stops it.                           *)
Blocked == main = "open" /\ client[cur] = "lost"

(* killServer and Ctrl-C work: the server ends, whatever its children, the *)
(* clients and the queue are doing.                                        *)
Shutdown == SIGINTT ~> main \in {"exited", "dead"} \/ Blocked

(* No zombie stays: every exit is handled in the end, that of a child with *)
(* a junk record included.                                                 *)
ExitsReaped ==
    \A c \in Clients \cup {Junk} :
        child[c] = "zombie" ~> child[c] # "zombie" \/ main = "dead" \/ Blocked

(* common.c:63, "Size of the queue": after the ring has grown, rear counts *)
(* the clients in it.                                                      *)
RearIsSize ==
    [][queue'.capacity # queue.capacity =>
         resize_queue(queue).rear = queue.size]_vars
===============================================================================
