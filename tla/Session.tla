-------------------------------- MODULE Session --------------------------------
(***************************************************************************)
(* The session of a client of the file server: the request loop of         *)
(* MidtermProject/client.c against the loop of server_request, with the    *)
(* command functions of MidtermProject/server.c, over two FIFOs.  A        *)
(* request is answered by responses until one that is not CONT; upload and *)
(* download may ask a question in between.  All commands are about one     *)
(* file, which another session writes too, under the region lock (as RWLock*)
(* promises it) except that it truncates the file before it takes the lock.*)
(*                                                                         *)
(* A header and its body are one message: each FIFO has one writer, both   *)
(* ends agree on the lengths, and no message is larger than PIPE_BUF.      *)
(* What readF returns for a whole file is never assigned; the program that *)
(* the Makefile builds (gcc, no optimisation) finds the argument count     *)
(* there, which parse_command left on the stack, so it counts as success.  *)
(***************************************************************************)
EXTENDS Naturals, Sequences

CONSTANTS
    PipeSize,   \* responses that the client's FIFO holds before a write blocks
    BuffSize,   \* what readF reads at a time (BUFF_SIZE)
    MaxSize     \* the size of the largest file

ASSUME PipeSizeAssumption == PipeSize \in Nat \ {0}
ASSUME BuffSizeAssumption == BuffSize \in Nat \ {0}
ASSUME MaxSizeAssumption == MaxSize \in Nat

(* "unknown" and "wrong_count" stand for what falls through the tests of   *)
(* server_request, "wrong_argument" for a bad line number or help topic,   *)
(* "read_dir" for readF of the name of a directory.                        *)
Mute     == {"unknown", "wrong_count"}
Plain    == {"help", "list", "archServer"}
Readers  == {"readF", "readLine", "read_dir"}
Copiers  == {"upload", "download"}
Last     == {"quit", "killServer"}
Commands == Mute \cup {"wrong_argument"} \cup Plain \cup Readers
                 \cup {"writeT"} \cup Copiers \cup Last
Answers  == {"yes", "no"}
Statuses == {"OK", "ERROR", "CONT", "APPROVE", "DISCONNECT"}

VARIABLES
    client,     \* where the client stands
    stat,       \* the status it read last (resp.stat)
    requests,   \* FIFO from the client
    responses,  \* FIFO to the client
    child,      \* where the child stands
    cmd,        \* the command it works on
    st_size,    \* the size fstat gave it
    num_read,   \* how much readF has transferred
    file,       \* the size of the file
    other       \* where the other session stands

clientVars == <<client, stat>>
fifos == <<requests, responses>>
reading == <<st_size, num_read>>
vars == <<client, stat, requests, responses, child, cmd, st_size, num_read,
          file, other>>

ClientStates == {"prompt", "waiting", "asked", "left", "killed"}
InRegion == {"in_region", "leaving", "leaving_failed"}
ChildStates == InRegion \cup
    {"request", "handling", "entering", "asking", "copied", "failing",
     "ended", "killed"}

Init ==
    /\ client = "prompt" /\ stat = "none"
    /\ requests = <<>> /\ responses = <<>>
    /\ child = "request" /\ cmd = "none"
    /\ st_size = 0 /\ num_read = 0
    /\ file \in 0 .. MaxSize
    /\ other = "idle"

ClientGone == client \in {"left", "killed"}
ChildGone == child \in {"ended", "killed"}

-----------------------------------------------------------------------------
(* The client.  What it writes to a child that is gone raises SIGPIPE.     *)
Send(c) ==
    /\ client = "prompt"
    /\ IF ChildGone
       THEN client' = "killed" /\ UNCHANGED requests
       ELSE client' = "waiting" /\ requests' = Append(requests, c)
    /\ UNCHANGED <<stat, responses, child, cmd, reading, file, other>>

(* Mutant: the client reads on after a question.                           *)
AfterResponseReadsOn(s) ==
    CASE s \in {"CONT", "APPROVE"} -> "waiting"
      [] s = "DISCONNECT" -> "left"
      [] OTHER -> "prompt"

AfterResponse(s) ==
    CASE s = "CONT" -> "waiting"
      [] s = "APPROVE" -> "asked"
      [] s = "DISCONNECT" -> "left"
      [] OTHER -> "prompt"

Receive ==
    /\ client = "waiting" /\ responses # <<>>
    /\ stat' = Head(responses)
    /\ client' = AfterResponse(stat')
    /\ responses' = Tail(responses)
    /\ UNCHANGED <<requests, child, cmd, reading, file, other>>

(* The end of file comes when the server is gone too: main keeps the       *)
(* client's FIFO open.  The status is then that of an earlier response, or *)
(* anything.                                                               *)
EndOfFile ==
    /\ client = "waiting" /\ responses = <<>> /\ child = "killed"
    /\ \/ client' = "asked" /\ stat \in {"none", "APPROVE"}
       \/ client' = "prompt" /\ stat # "APPROVE"
    /\ UNCHANGED <<stat, fifos, child, cmd, reading, file, other>>

(* Mutant: no response is awaited after a yes.                             *)
ReplyNoSkip(a) ==
    /\ client = "asked"
    /\ IF ChildGone
       THEN client' = "killed" /\ UNCHANGED requests
       ELSE client' = "prompt" /\ requests' = Append(requests, a)
    /\ UNCHANGED <<stat, responses, child, cmd, reading, file, other>>

(* After a yes a response is awaited, after a no (or at the end of stdin)  *)
(* none.                                                                   *)
Reply(a) ==
    /\ client = "asked"
    /\ IF ChildGone
       THEN client' = "killed" /\ UNCHANGED requests
       ELSE /\ client' = IF a = "yes" THEN "waiting" ELSE "prompt"
            /\ requests' = Append(requests, a)
    /\ UNCHANGED <<stat, responses, child, cmd, reading, file, other>>

ClientKilled ==
    /\ ~ClientGone
    /\ client' = "killed"
    /\ UNCHANGED <<stat, fifos, child, cmd, reading, file, other>>

-----------------------------------------------------------------------------
(* The child.                                                              *)
ChildGoes(from, to) == child = from /\ child' = to

(* write_response: blocks when the FIFO is full.                           *)
Respond(s) ==
    /\ ~ClientGone
    /\ Len(responses) < PipeSize
    /\ responses' = Append(responses, s)

ReadRequest ==
    /\ ChildGoes("request", "handling")
    /\ requests # <<>>
    /\ cmd' = Head(requests) /\ requests' = Tail(requests)
    /\ UNCHANGED <<clientVars, responses, reading, file, other>>

EndOfRequests ==
    /\ ChildGoes("request", "ended")
    /\ requests = <<>> /\ ClientGone
    /\ UNCHANGED <<clientVars, fifos, cmd, reading, file, other>>

Handles(C) == child = "handling" /\ cmd \in C

(* No test of server_request fits, status stays 0 and nothing is written.  *)
Ignore ==
    /\ Handles(Mute)
    /\ child' = "request"
    /\ UNCHANGED <<clientVars, fifos, cmd, reading, file, other>>

(* cmd_help, cmd_list, cmd_archServer *)
Tell ==
    /\ Handles(Plain) /\ child' = "request"
    /\ Respond("OK")
    /\ UNCHANGED <<clientVars, requests, cmd, reading, file, other>>

(* cmd_quit, cmd_kill_server *)
Disconnect ==
    /\ Handles(Last) /\ child' = "ended"
    /\ Respond("DISCONNECT")
    /\ UNCHANGED <<clientVars, requests, cmd, reading, file, other>>

(* A wrong argument, a file that cannot be opened or added to the table.   *)
Refuse ==
    /\ Handles({"wrong_argument", "archServer", "writeT"} \cup Readers \cup Copiers)
    /\ child' = "failing"
    /\ UNCHANGED <<clientVars, fifos, cmd, reading, file, other>>

(* Mutant: an error is only logged.                                        *)
FailSilently ==
    /\ ChildGoes("failing", "request")
    /\ UNCHANGED <<clientVars, fifos, cmd, reading, file, other>>

(* status = -1 *)
Fail ==
    /\ ChildGoes("failing", "request")
    /\ Respond("ERROR")
    /\ UNCHANGED <<clientVars, requests, cmd, reading, file, other>>

(* The file is opened, and readF takes its size, before the region.        *)
Open ==
    /\ Handles(Readers \cup {"writeT"})
    /\ child' = "entering"
    /\ st_size' = IF cmd = "readF" THEN file ELSE 0
    /\ num_read' = 0
    /\ UNCHANGED <<clientVars, fifos, cmd, file, other>>

(* Readers and the writers of the other session exclude each other.        *)
Enter ==
    /\ ChildGoes("entering", "in_region")
    /\ other # "in_region"
    /\ UNCHANGED <<clientVars, fifos, cmd, reading, file, other>>

(* Mutant: the size of the buffer is counted and not what was read.        *)
TransferredPast == num_read + BuffSize

Transferred ==
    IF num_read + BuffSize < file THEN num_read + BuffSize ELSE file

(* readF of a whole file, a buffer at a time.                              *)
ReadChunk ==
    /\ child = "in_region" /\ cmd = "readF"
    /\ num_read < file
    /\ num_read' = Transferred
    /\ IF num_read' < st_size
       THEN Respond("CONT") /\ UNCHANGED child
       ELSE Respond("OK") /\ child' = "leaving"
    /\ UNCHANGED <<clientVars, requests, cmd, st_size, file, other>>

(* Mutant: the loop goes on at the end of the file.                        *)
ReadEndGoesOn ==
    /\ cmd = "readF" /\ child = "in_region"
    /\ num_read >= file
    /\ Respond("CONT")
    /\ UNCHANGED <<clientVars, requests, child, cmd, reading, file, other>>

(* The end of the file: nothing is written, whatever came before.          *)
ReadEnd ==
    /\ cmd = "readF"
    /\ ChildGoes("in_region", "leaving")
    /\ num_read >= file
    /\ UNCHANGED <<clientVars, fifos, cmd, reading, file, other>>

(* The read of a directory fails with -1, which is not less than 0 in the  *)
(* unsigned data_size, and the loop goes on.                               *)
ReadError ==
    /\ child = "in_region" /\ cmd = "read_dir"
    /\ Respond("CONT")
    /\ UNCHANGED <<clientVars, requests, child, cmd, reading, file, other>>

(* readF of a line, and writeT, one response each.                         *)
ReadLine ==
    /\ cmd = "readLine"
    /\ ChildGoes("in_region", "leaving")
    /\ Respond("OK")
    /\ UNCHANGED <<clientVars, requests, cmd, reading, file, other>>

Grown == {n \in {file, file + 1} : n <= MaxSize}

WriteT ==
    /\ cmd = "writeT"
    /\ ChildGoes("in_region", "leaving")
    /\ file' \in Grown
    /\ Respond("OK")
    /\ UNCHANGED <<clientVars, requests, cmd, reading, other>>

(* A failed write of writeT: status is set to -1, then to 0.               *)
WriteFails ==
    /\ cmd = "writeT"
    /\ ChildGoes("in_region", "leaving")
    /\ UNCHANGED <<clientVars, fifos, cmd, reading, file, other>>

(* There is no such line.                                                  *)
SeekFails ==
    /\ cmd \in {"readLine", "writeT"}
    /\ ChildGoes("in_region", "leaving_failed")
    /\ UNCHANGED <<clientVars, fifos, cmd, reading, file, other>>

Leave ==
    /\ \/ ChildGoes("leaving", "request")
       \/ ChildGoes("leaving_failed", "failing")
    /\ UNCHANGED <<clientVars, fifos, cmd, reading, file, other>>

-----------------------------------------------------------------------------
(* cmd_copy: an existing destination is opened only after a yes.  A file   *)
(* that does not exist yet counts as empty.                                *)
CreateDestination ==
    /\ Handles(Copiers)
    /\ cmd = "upload" => file = 0
    /\ child' = "entering"
    /\ UNCHANGED <<clientVars, fifos, cmd, reading, file, other>>

Ask ==
    /\ Handles(Copiers)
    /\ Respond("APPROVE")
    /\ child' = "asking"
    /\ UNCHANGED <<clientVars, requests, cmd, reading, file, other>>

(* Mutant: a no is an error.                                               *)
AnswerNoFails ==
    /\ ChildGoes("asking", "failing")
    /\ requests # <<>> /\ Head(requests) = "no"
    /\ requests' = Tail(requests)
    /\ UNCHANGED <<clientVars, responses, cmd, reading, file, other>>

AnswerNo ==
    /\ ChildGoes("asking", "request")
    /\ requests # <<>> /\ Head(requests) = "no"
    /\ requests' = Tail(requests)
    /\ UNCHANGED <<clientVars, responses, cmd, reading, file, other>>

(* An upload truncates the server's file here, outside the region.  The    *)
(* open may fail, or there may be no room in the table afterwards.         *)
AnswerYes ==
    /\ child = "asking"
    /\ \/ /\ child' \in {"entering", "failing"}
          /\ file' = IF cmd = "upload" THEN 0 ELSE file
       \/ /\ child' = "failing"
          /\ UNCHANGED file
    /\ requests # <<>> /\ Head(requests) # "no"
    /\ requests' = Tail(requests)
    /\ UNCHANGED <<clientVars, responses, cmd, reading, other>>

(* Mutant: the child does not notice that nobody will answer.              *)
NoAnswerIgnored ==
    /\ ChildGoes("asking", "asking")
    /\ requests = <<>> /\ ClientGone
    /\ UNCHANGED <<clientVars, fifos, cmd, reading, file, other>>

NoAnswer ==
    /\ ChildGoes("asking", "failing")
    /\ requests = <<>> /\ ClientGone
    /\ UNCHANGED <<clientVars, fifos, cmd, reading, file, other>>

(* The transfer may fail at its end, or in the middle.                     *)
Copy ==
    /\ cmd \in Copiers
    /\ \/ ChildGoes("in_region", "copied")
       \/ ChildGoes("in_region", "failing")
    /\ file' \in IF cmd = "upload" THEN 0 .. MaxSize ELSE {file}
    /\ UNCHANGED <<clientVars, fifos, cmd, reading, other>>

Copied ==
    /\ ChildGoes("copied", "request")
    /\ Respond("OK")
    /\ UNCHANGED <<clientVars, requests, cmd, reading, file, other>>

(* SIGPIPE at any response to a client that is gone.                       *)
BrokenPipe ==
    /\ ClientGone
    /\ \/ child \in {"failing", "copied"}
       \/ Handles(Plain \cup Copiers \cup Last)
       \/ child = "in_region" /\ cmd \notin Copiers
    /\ child' = "killed"
    /\ UNCHANGED <<clientVars, fifos, cmd, reading, file, other>>

(* SIGTERM when the server ends.                                           *)
Terminate ==
    /\ child # "killed"
    /\ child' = "killed"
    /\ UNCHANGED <<clientVars, fifos, cmd, reading, file, other>>

-----------------------------------------------------------------------------
(* The other session's upload, or its writeT.                              *)
OtherTruncates ==
    /\ other = "idle" /\ other' = "truncated"
    /\ file' = 0
    /\ UNCHANGED <<clientVars, fifos, child, cmd, reading>>

OtherEnters ==
    /\ other \in {"idle", "truncated"} /\ other' = "in_region"
    /\ child \notin InRegion
    /\ UNCHANGED <<clientVars, fifos, child, cmd, reading, file>>

OtherLeaves ==
    /\ other = "in_region" /\ other' = "idle"
    /\ file' \in {n \in 0 .. MaxSize : n >= file}
    /\ UNCHANGED <<clientVars, fifos, child, cmd, reading>>

-----------------------------------------------------------------------------
Child ==
    \/ ReadRequest \/ EndOfRequests \/ Ignore \/ Tell \/ Disconnect
    \/ Refuse \/ Fail
    \/ Open \/ Enter \/ ReadChunk \/ ReadEnd \/ ReadError \/ ReadLine
    \/ WriteT \/ WriteFails \/ SeekFails \/ Leave
    \/ CreateDestination \/ Ask \/ AnswerNo \/ AnswerYes \/ NoAnswer
    \/ Copy \/ Copied \/ BrokenPipe

User == (\E c \in Commands : Send(c)) \/ (\E a \in Answers : Reply(a))

Next ==
    \/ User \/ Receive \/ EndOfFile \/ ClientKilled
    \/ Child \/ Terminate
    \/ OtherTruncates \/ OtherEnters \/ OtherLeaves

Spec == Init /\ [][Next]_vars

(* The kernel runs both programs, and the other session leaves the region; *)
(* nobody has to type anything.                                            *)
FairSpec ==
    /\ Spec
    /\ WF_vars(Child) /\ WF_vars(Receive)
    /\ WF_vars(OtherLeaves)

-----------------------------------------------------------------------------
TypeOK ==
    /\ client \in ClientStates
    /\ stat \in Statuses \cup {"none"}
    /\ requests \in Seq(Commands \cup Answers)
    /\ responses \in Seq(Statuses) /\ Len(responses) <= PipeSize
    /\ child \in ChildStates
    /\ cmd \in Commands \cup {"none"}
    /\ st_size \in 0 .. MaxSize /\ num_read \in 0 .. MaxSize
    /\ file \in 0 .. MaxSize
    /\ other \in {"idle", "truncated", "in_region"}

(* The two ends are in step: when the user is asked for the next command,  *)
(* no response is left over to be taken for the answer to it, and the      *)
(* child has none to give any more.                                        *)
InStep ==
    client = "prompt" /\ ~ChildGone =>
        /\ responses = <<>>
        /\ \/ child \in {"request", "leaving"} /\ requests = <<>>
           \/ child = "asking" /\ requests = <<"no">>

(* The child never takes a request for an answer or an answer for a        *)
(* request, which have different lengths.                                  *)
Framed ==
    requests # <<>> =>
        /\ child = "asking" => Head(requests) \in Answers
        /\ child = "request" => Head(requests) \in Commands

(* Client and child wait for each other.                                   *)
Standoff ==
    /\ client = "waiting" /\ child = "request"
    /\ requests = <<>> /\ responses = <<>>

(* Only these commands end without a last response: those that fall        *)
(* through, a writeT whose write fails (server.c:935), and a readF that    *)
(* finds the file shorter than fstat said, or empty.                       *)
EndsUnanswered ==
    \/ cmd \in Mute \cup {"writeT"}
    \/ cmd = "readF" /\ num_read < st_size
    \/ cmd = "readF" /\ st_size = 0 /\ num_read = 0

StandoffCauses == Standoff => EndsUnanswered

-----------------------------------------------------------------------------
(* The parts of the inductive invariant.  What the child may find in the   *)
(* FIFO from the client, who may be gone: at a question an answer and, as  *)
(* a no is not answered, the next command; else one command at most.       *)
Between == child \in {"request", "leaving"}

RequestsRight ==
    /\ child = "asking" =>
         \/ requests \in {<<>>, <<"yes">>, <<"no">>}
         \/ \E c \in Commands : requests = <<"no", c>>
    /\ Between => requests = <<>> \/ \E c \in Commands : requests = <<c>>
    /\ ~Between /\ child # "asking" /\ ~ChildGone => requests = <<>>

(* What the child has written: parts of a file, and maybe the response     *)
(* that ends them.                                                         *)
Continued(s) == \A i \in 1 .. Len(s) : s[i] = "CONT"
EndsIn(s, S) ==
    s # <<>> /\ s[Len(s)] \in S /\ \A i \in 1 .. Len(s) - 1 : s[i] = "CONT"

(* Where the two ends may stand to each other.                             *)
TalkRight ==
    ~ClientGone /\ ~ChildGone =>
        \/ /\ client = "prompt" /\ responses = <<>>
           /\ \/ Between /\ requests = <<>>
              \/ child = "asking" /\ requests = <<"no">>
        \/ /\ client = "asked" /\ responses = <<>>
           /\ child = "asking" /\ requests = <<>>
        \/ /\ client = "waiting" /\ responses = <<>>
           /\ requests \notin {<<>>, <<"no">>}
        \/ /\ client = "waiting" /\ requests = <<>>
           /\ \/ Between /\ EndsIn(responses, {"OK", "ERROR"})
              \/ Between /\ EndsUnanswered /\ Continued(responses)
              \/ child = "asking" /\ EndsIn(responses, {"APPROVE"})
              \/ ~Between /\ child # "asking" /\ Continued(responses)

(* A readF goes on only while it has something left of what fstat said.    *)
ReadingRight ==
    /\ child = "asking" => cmd \in Copiers
    /\ child \in {"entering", "in_region"} /\ cmd = "readF" =>
         num_read < st_size \/ num_read = 0

IInv == TypeOK /\ RequestsRight /\ TalkRight /\ ReadingRight

-----------------------------------------------------------------------------
(* The lock does not promise a place among writers that keep coming.       *)
OthersStop == <>[](other # "in_region")

(* Every command is answered, apart from the standoffs above and from the  *)
(* endless readF of a directory.                                           *)
Answered ==
    OthersStop =>
        (client = "waiting" ~>
            client # "waiting" \/ Standoff \/ ChildGone \/ cmd = "read_dir")

(* A user who types nothing, or a client that dies, keeps nobody out of    *)
(* the file: the child leaves the region (or is killed in it) by itself.   *)
RegionLeft == child \in InRegion ~> child \notin InRegion \/ cmd = "read_dir"

(* No child outlives its client.                                           *)
ChildFollows == OthersStop => (ClientGone ~> ChildGone)
===============================================================================
