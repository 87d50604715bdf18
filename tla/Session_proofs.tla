----------------------------- MODULE Session_proofs -----------------------------
(***************************************************************************)
(* Proofs about Session, for any size of the pipe, of the buffer and of    *)
(* the file.                                                               *)
(***************************************************************************)
EXTENDS Session, SequenceTheorems, TLAPS



LEMMA AppendToOne ==
  ASSUME NEW S, NEW s \in Seq(S), NEW e \in S, Len(s) = 1
  PROVE  Append(s, e) = <<s[1], e>>
  <1> DEFINE r == Append(s, e)
  <1>1. /\ r \in Seq(S) /\ Len(r) = Len(s) + 1
        /\ \A i \in 1 .. Len(s) : r[i] = s[i]
        /\ r[Len(s) + 1] = e
    BY AppendProperties
  <1> HIDE DEF r
  <1>2. Len(r) = 2 /\ r[1] = s[1] /\ r[2] = e
    BY <1>1
  <1>3. r = <<s[1], e>>
    BY <1>1, <1>2
  <1> QED
    BY <1>3 DEF r

(* Sequences of one and of two messages.                                   *)
LEMMA Short ==
  /\ \A c : <<c>> # <<>> /\ Head(<<c>>) = c /\ Tail(<<c>>) = <<>> /\ Append(<<>>, c) = <<c>>
  /\ \A b, c : <<b, c>> # <<>> /\ Head(<<b, c>>) = b /\ Tail(<<b, c>>) = <<c>>
               /\ Append(<<b>>, c) = <<b, c>>
  /\ \A a, b, c : <<b, c>> # <<a>>
  /\ \A a, b : <<a>> = <<b>> => a = b
  <1>1. \A c : <<c>> # <<>> /\ Head(<<c>>) = c /\ Tail(<<c>>) = <<>> /\ Append(<<>>, c) = <<c>>
    OBVIOUS
  <1>2. ASSUME NEW b, NEW c
        PROVE  <<b, c>> # <<>> /\ Head(<<b, c>>) = b /\ Tail(<<b, c>>) = <<c>>
    <2>1. <<b, c>> # <<>> /\ Head(<<b, c>>) = b
      OBVIOUS
    <2>2. Tail(<<b, c>>) = <<c>>
      OBVIOUS
    <2> QED
      BY <2>1, <2>2
  <1>3. ASSUME NEW b, NEW c PROVE Append(<<b>>, c) = <<b, c>>
    <2>1. <<b>> \in Seq({b, c}) /\ c \in {b, c} /\ Len(<<b>>) = 1 /\ <<b>>[1] = b
      OBVIOUS
    <2> QED
      BY <2>1, AppendToOne
  <1>4. \A a, b, c : <<b, c>> # <<a>>
    OBVIOUS
  <1>5. \A a, b : <<a>> = <<b>> => a = b
    OBVIOUS
  <1> QED
    BY <1>1, <1>2, <1>3, <1>4, <1>5

(* How the responses grow, and how they are used up.                       *)
LEMMA Grow ==
  ASSUME NEW T, NEW s \in Seq(T), NEW e \in T, Continued(s)
  PROVE  /\ e = "CONT" => Continued(Append(s, e))
         /\ \A S : e \in S => EndsIn(Append(s, e), S)
  BY DEF Continued, EndsIn

LEMMA UseUp ==
  ASSUME NEW T, NEW s \in Seq(T), s # <<>>
  PROVE  /\ Continued(s) => Head(s) = "CONT" /\ Continued(Tail(s))
         /\ \A S : EndsIn(s, S) => \/ Head(s) \in S /\ Tail(s) = <<>>
                                   \/ Head(s) = "CONT" /\ EndsIn(Tail(s), S)
  <1>1. /\ Len(s) \in Nat \ {0} /\ Head(s) = s[1]
        /\ Tail(s) \in Seq(T) /\ Len(Tail(s)) = Len(s) - 1
        /\ \A i \in 1 .. Len(s) - 1 : Tail(s)[i] = s[i + 1]
    OBVIOUS
  <1>2. Continued(s) => Head(s) = "CONT" /\ Continued(Tail(s))
    BY <1>1 DEF Continued
  <1>3. ASSUME NEW S, EndsIn(s, S)
        PROVE  \/ Head(s) \in S /\ Tail(s) = <<>>
               \/ Head(s) = "CONT" /\ EndsIn(Tail(s), S)
    <2>1. CASE Len(s) = 1
      <3>1. Len(Tail(s)) = 0
        BY <1>1, <2>1
      <3>2. Tail(s) = <<>>
        BY <1>1, <3>1, EmptySeq
      <3> QED
        BY <1>1, <1>3, <2>1, <3>2 DEF EndsIn
    <2>2. CASE Len(s) > 1
      <3>1. Len(Tail(s)) # 0 /\ Len(<<>>) = 0
        BY <1>1, <2>2
      <3>2. Tail(s) # <<>>
        BY <3>1
      <3> QED
        BY <1>1, <1>3, <2>2, <3>2 DEF EndsIn
    <2> QED
      BY <1>1, <2>1, <2>2
  <1> QED
    BY <1>2, <1>3

LEMMA Empty == Continued(<<>>) /\ \A S : ~EndsIn(<<>>, S)
  BY DEF Continued, EndsIn

-----------------------------------------------------------------------------
(* Types.                                                                  *)
LEMMA Responded ==
  ASSUME TypeOK, NEW s \in Statuses, Respond(s)
  PROVE  responses' \in Seq(Statuses) /\ Len(responses') <= PipeSize
  BY PipeSizeAssumption DEF TypeOK, Respond

LEMMA Requested ==
  ASSUME TypeOK, NEW c \in Commands \cup Answers, requests' = Append(requests, c)
  PROVE  requests' \in Seq(Commands \cup Answers)
  BY DEF TypeOK

LEMMA Taken ==
  ASSUME TypeOK
  PROVE  /\ requests # <<>> => /\ Head(requests) \in Commands \cup Answers
                               /\ Tail(requests) \in Seq(Commands \cup Answers)
         /\ responses # <<>> => /\ Head(responses) \in Statuses
                                /\ Tail(responses) \in Seq(Statuses)
                                /\ Len(Tail(responses)) <= PipeSize
  <1>1. /\ requests # <<>> => /\ Head(requests) \in Commands \cup Answers
                              /\ Tail(requests) \in Seq(Commands \cup Answers)
        /\ responses # <<>> => /\ Head(responses) \in Statuses
                               /\ Tail(responses) \in Seq(Statuses)
    BY DEF TypeOK
  <1>2. responses # <<>> => Len(Tail(responses)) <= PipeSize
    BY PipeSizeAssumption DEF TypeOK
  <1> QED
    BY <1>1, <1>2

LEMMA TypeKept ==
  ASSUME TypeOK, RequestsRight, [Next]_vars
  PROVE  TypeOK'
  <1> DEFINE Same == UNCHANGED <<clientVars, fifos, cmd, reading, file, other>>
  <1>1. ASSUME Same, child' \in ChildStates PROVE TypeOK'
    BY <1>1 DEF TypeOK, clientVars, fifos, reading
  <1>2. ASSUME UNCHANGED <<clientVars, requests, cmd, st_size, file, other>>,
               child' \in ChildStates, num_read' \in 0 .. MaxSize,
               NEW s \in Statuses, Respond(s)
        PROVE  TypeOK'
    <2>1. responses' \in Seq(Statuses) /\ Len(responses') <= PipeSize
      BY <1>2, Responded
    <2> QED
      BY <1>2, <2>1 DEF TypeOK, clientVars
  <1>3. ASSUME UNCHANGED <<requests, responses, child, cmd, reading, file, other>>,
               client' \in ClientStates, stat' = stat
        PROVE  TypeOK'
    BY <1>3 DEF TypeOK, reading
  <1>4. CASE User
    <2>1. ASSUME NEW c \in Commands \cup Answers, requests' = Append(requests, c),
                 client' \in ClientStates,
                 UNCHANGED <<stat, responses, child, cmd, reading, file, other>>
          PROVE  TypeOK'
      <3>1. requests' \in Seq(Commands \cup Answers)
        BY <2>1, Requested
      <3> QED
        BY <2>1, <3>1 DEF TypeOK, reading
    <2>2. ASSUME NEW c \in Commands, Send(c) PROVE TypeOK'
      BY <1>3, <2>1, <2>2 DEF Send, ClientStates
    <2>3. ASSUME NEW a \in Answers, Reply(a) PROVE TypeOK'
      BY <1>3, <2>1, <2>3 DEF Reply, ClientStates
    <2> QED
      BY <1>4, <2>2, <2>3 DEF User
  <1>5. CASE Receive
    <2>1. /\ stat' \in Statuses /\ client' \in ClientStates
          /\ responses' \in Seq(Statuses) /\ Len(responses') <= PipeSize
      BY <1>5, Taken DEF Receive, AfterResponse, ClientStates
    <2> QED
      BY <1>5, <2>1 DEF Receive, TypeOK, reading
  <1>6. CASE EndOfFile \/ ClientKilled
    BY <1>3, <1>6 DEF EndOfFile, ClientKilled, ClientStates, fifos
  <1>7. CASE ReadRequest
    <2>1. cmd' \in Commands /\ requests' \in Seq(Commands \cup Answers)
      <3>1. PICK c \in Commands : requests = <<c>>
        BY <1>7 DEF ReadRequest, ChildGoes, RequestsRight, Between
      <3> QED
        BY <1>7, <3>1, Short, Taken DEF ReadRequest
    <2> QED
      BY <1>7, <2>1 DEF ReadRequest, ChildGoes, TypeOK, ChildStates, clientVars, reading
  <1>8. CASE EndOfRequests \/ Ignore \/ Refuse \/ Enter \/ ReadEnd \/ WriteFails
             \/ SeekFails \/ Leave \/ CreateDestination \/ NoAnswer \/ BrokenPipe
             \/ Terminate
    BY <1>1, <1>8
    DEF EndOfRequests, Ignore, Refuse, Enter, ReadEnd, WriteFails, SeekFails, Leave,
        CreateDestination, NoAnswer, BrokenPipe, Terminate, ChildGoes, ChildStates,
        InRegion
  <1>9. CASE Tell \/ Disconnect \/ Fail \/ ReadError \/ ReadLine \/ Ask \/ Copied
    <2>1. /\ child' \in ChildStates /\ num_read' \in 0 .. MaxSize
          /\ UNCHANGED <<clientVars, requests, cmd, st_size, file, other>>
      BY <1>9 DEF Tell, Disconnect, Fail, ReadError, ReadLine, Ask, Copied, ChildGoes,
                  ChildStates, InRegion, reading, TypeOK
    <2>2. \E s \in Statuses : Respond(s)
      BY <1>9 DEF Tell, Disconnect, Fail, ReadError, ReadLine, Ask, Copied, Statuses
    <2> QED
      BY <1>2, <2>1, <2>2
  <1>10. CASE Open
    BY <1>10, MaxSizeAssumption
    DEF Open, TypeOK, ChildStates, clientVars, fifos
  <1>11. CASE ReadChunk
    <2>1. num_read' \in 0 .. MaxSize
      BY <1>11, BuffSizeAssumption, MaxSizeAssumption DEF ReadChunk, Transferred, TypeOK
    <2>2. child' \in ChildStates /\ \E s \in Statuses : Respond(s)
      BY <1>11 DEF ReadChunk, TypeOK, ChildStates, InRegion, Statuses
    <2> QED
      BY <1>2, <1>11, <2>1, <2>2 DEF ReadChunk
  <1>12. CASE WriteT
    <2>1. responses' \in Seq(Statuses) /\ Len(responses') <= PipeSize
      BY <1>12, Responded DEF WriteT, Statuses
    <2>2. file' \in 0 .. MaxSize
      BY <1>12, MaxSizeAssumption DEF WriteT, Grown, TypeOK
    <2> QED
      BY <1>12, <2>1, <2>2
      DEF WriteT, ChildGoes, TypeOK, ChildStates, InRegion, clientVars, reading
  <1>13. CASE AnswerNo \/ AnswerYes
    <2>1. requests' \in Seq(Commands \cup Answers)
      BY <1>13, Taken DEF AnswerNo, AnswerYes
    <2>2. child' \in ChildStates /\ file' \in 0 .. MaxSize
      BY <1>13, MaxSizeAssumption
      DEF AnswerNo, AnswerYes, ChildGoes, ChildStates, TypeOK
    <2> QED
      BY <1>13, <2>1, <2>2 DEF AnswerNo, AnswerYes, TypeOK, clientVars, reading
  <1>14. CASE Copy
    <2>1. child' \in ChildStates /\ file' \in 0 .. MaxSize
      BY <1>14 DEF Copy, ChildGoes, ChildStates, TypeOK
    <2> QED
      BY <1>14, <2>1 DEF Copy, TypeOK, clientVars, fifos, reading
  <1>15. CASE OtherTruncates \/ OtherEnters \/ OtherLeaves \/ UNCHANGED vars
    BY <1>15, MaxSizeAssumption
    DEF OtherTruncates, OtherEnters, OtherLeaves, vars, TypeOK, clientVars, fifos, reading
  <1> QED
    BY <1>4, <1>5, <1>6, <1>7, <1>8, <1>9, <1>10, <1>11, <1>12, <1>13, <1>14, <1>15
    DEF Next, Child

-----------------------------------------------------------------------------
(* A child at work: it owes the client, who waits, the end of its answer.  *)
Working == ~Between /\ child # "asking" /\ ~ChildGone

LEMMA Owes ==
  ASSUME RequestsRight, TalkRight, Working
  PROVE  /\ requests = <<>>
         /\ ~ClientGone => client = "waiting" /\ Continued(responses)
  BY DEF RequestsRight, TalkRight, Working, Between, ClientGone

(* What such a child can do: go on, with a part of the file or without     *)
(* one, ask, end its answer or leave it without an end, or be killed.      *)
GoesOn ==
    Working' /\ (UNCHANGED responses \/ Respond("CONT"))
Asks == child' = "asking" /\ Respond("APPROVE")
Ends ==
    Between' /\ \/ Respond("OK") \/ Respond("ERROR")
                \/ UNCHANGED responses /\ EndsUnanswered'
Gone == ChildGone' /\ child' # "asking" /\ ~Between'

LEMMA WorkKept ==
  ASSUME TypeOK, RequestsRight, TalkRight, Working,
         UNCHANGED <<client, requests>>, GoesOn \/ Asks \/ Ends \/ Gone
  PROVE  RequestsRight' /\ TalkRight'
  <1>1. requests' = <<>> /\ client' = client /\ responses \in Seq(Statuses)
    BY Owes DEF TypeOK
  <1>2. RequestsRight'
    BY <1>1 DEF RequestsRight
  <1>3. ASSUME ~ClientGone', ~ChildGone' PROVE TalkRight'
    <2>1. client' = "waiting" /\ Continued(responses)
      BY <1>1, <1>3, Owes DEF ClientGone
    <2>2. ASSUME NEW s \in Statuses, Respond(s)
          PROVE  /\ s = "CONT" => Continued(responses')
                 /\ \A S : s \in S => EndsIn(responses', S)
      BY <1>1, <2>1, <2>2, Grow DEF Respond
    <2>3. CASE GoesOn
      <3>1. Continued(responses')
        BY <2>1, <2>2, <2>3 DEF GoesOn, Statuses
      <3> QED
        BY <1>1, <2>1, <2>3, <3>1 DEF GoesOn, Working, TalkRight
    <2>4. CASE Asks
      <3>1. EndsIn(responses', {"APPROVE"})
        BY <2>2, <2>4 DEF Asks, Statuses
      <3> QED
        BY <1>1, <2>1, <2>4, <3>1 DEF Asks, TalkRight
    <2>5. CASE Ends
      <3>1. \/ EndsIn(responses', {"OK", "ERROR"})
            \/ EndsUnanswered' /\ Continued(responses')
        BY <2>1, <2>2, <2>5 DEF Ends, Statuses
      <3> QED
        BY <1>1, <2>1, <2>5, <3>1 DEF Ends, TalkRight
    <2> QED
      BY <1>3, <2>3, <2>4, <2>5 DEF Gone
  <1>4. TalkRight'
    BY <1>3 DEF TalkRight
  <1> QED
    BY <1>2, <1>4

(* The steps of such a child.                                              *)
LEMMA WorkingSteps ==
  ASSUME TypeOK, ReadingRight, Child,
         ~ReadRequest, ~EndOfRequests, ~AnswerNo, ~AnswerYes, ~NoAnswer,
         child # "leaving"
  PROVE  /\ Working /\ UNCHANGED <<client, requests>>
         /\ GoesOn \/ Asks \/ Ends \/ Gone
  <1> USE DEF Working, Between, ChildGone, ChildGoes, Handles, clientVars, fifos
  <1>1. CASE Tell \/ Fail \/ ReadLine \/ WriteT \/ Copied
    BY <1>1 DEF Tell, Fail, ReadLine, WriteT, Copied, Ends
  <1>2. CASE Disconnect \/ BrokenPipe
    BY <1>2 DEF Disconnect, BrokenPipe, Gone
  <1>3. CASE Refuse \/ Open \/ Enter \/ SeekFails \/ CreateDestination \/ Copy \/ Leave
    BY <1>3 DEF Refuse, Open, Enter, SeekFails, CreateDestination, Copy, Leave, GoesOn
  <1>4. CASE ReadError
    BY <1>4 DEF ReadError, GoesOn
  <1>5. CASE Ask
    BY <1>5 DEF Ask, Asks
  <1>6. CASE Ignore \/ WriteFails
    <2>1. EndsUnanswered'
      BY <1>6 DEF Ignore, WriteFails, EndsUnanswered
    <2> QED
      BY <1>6, <2>1 DEF Ignore, WriteFails, Ends
  <1>7. CASE ReadEnd
    <2>1. EndsUnanswered'
      BY <1>7, MaxSizeAssumption DEF ReadEnd, ReadingRight, EndsUnanswered, reading, TypeOK
    <2> QED
      BY <1>7, <2>1 DEF ReadEnd, Ends
  <1>8. CASE ReadChunk
    BY <1>8 DEF ReadChunk, GoesOn, Ends
  <1> QED
    BY <1>1, <1>2, <1>3, <1>4, <1>5, <1>6, <1>7, <1>8 DEF Child

LEMMA ReadingKept ==
  ASSUME TypeOK, ReadingRight, [Next]_vars
  PROVE  ReadingRight'
  <1> USE DEF ReadingRight, ChildGoes, Handles, reading
  <1>1. CASE UNCHANGED <<child, cmd, reading>>
    BY <1>1
  <1>2. CASE child' \notin {"asking", "entering", "in_region"}
    BY <1>2
  <1>3. CASE User \/ Receive \/ EndOfFile \/ ClientKilled \/ OtherTruncates
             \/ OtherEnters \/ OtherLeaves \/ UNCHANGED vars
    BY <1>1, <1>3 DEF User, Send, Reply, Receive, EndOfFile, ClientKilled,
                      OtherTruncates, OtherEnters, OtherLeaves, vars
  <1>4. CASE ReadRequest \/ EndOfRequests \/ Ignore \/ Tell \/ Disconnect \/ Refuse
             \/ Fail \/ ReadEnd \/ ReadLine \/ WriteT \/ WriteFails \/ SeekFails \/ Leave
             \/ AnswerNo \/ NoAnswer \/ Copy \/ Copied \/ BrokenPipe \/ Terminate
    BY <1>2, <1>4
    DEF ReadRequest, EndOfRequests, Ignore, Tell, Disconnect, Refuse, Fail, ReadEnd,
        ReadLine, WriteT, WriteFails, SeekFails, Leave, AnswerNo, NoAnswer, Copy,
        Copied, BrokenPipe, Terminate
  <1>5. CASE Open \/ Enter \/ ReadError
    BY <1>5 DEF Open, Enter, ReadError
  <1>6. CASE CreateDestination \/ Ask \/ AnswerYes
    BY <1>6 DEF CreateDestination, Ask, AnswerYes, Copiers
  <1>7. CASE ReadChunk
    BY <1>7 DEF ReadChunk, TypeOK
  <1> QED
    BY <1>3, <1>4, <1>5, <1>6, <1>7 DEF Next, Child

-----------------------------------------------------------------------------
(* The steps of the client.                                                *)
LEMMA AskedOrPrompted ==
  ASSUME RequestsRight, TalkRight, ~ChildGone
  PROVE  /\ client = "prompt" =>
              /\ responses = <<>>
              /\ \/ Between /\ requests = <<>>
                 \/ child = "asking" /\ requests = <<"no">>
         /\ client = "asked" =>
              responses = <<>> /\ child = "asking" /\ requests = <<>>
  BY DEF TalkRight, ClientGone

LEMMA UserKeeps ==
  ASSUME RequestsRight, TalkRight, User
  PROVE  RequestsRight' /\ TalkRight'
  <1> USE DEF Between, ChildGone, ClientGone
  <1>1. ASSUME ChildGone, UNCHANGED child PROVE RequestsRight' /\ TalkRight'
    BY <1>1 DEF RequestsRight, TalkRight
  <1>2. ASSUME NEW c \in Commands, Send(c), ~ChildGone
        PROVE  RequestsRight' /\ TalkRight'
    <2>1. /\ client' = "waiting" /\ responses' = <<>> /\ child' = child
          /\ \/ Between /\ requests' = <<c>>
             \/ child = "asking" /\ requests' = <<"no", c>>
      BY <1>2, AskedOrPrompted, Short DEF Send
    <2>2. c # "no"
      BY DEF Commands, Mute, Plain, Readers, Copiers, Last
    <2>3. requests' \notin {<<>>, <<"no">>}
      BY <2>1, <2>2, Short
    <2>4. RequestsRight'
      BY <2>1 DEF RequestsRight
    <2> QED
      BY <2>1, <2>3, <2>4 DEF TalkRight
  <1>3. ASSUME NEW a \in Answers, Reply(a), ~ChildGone
        PROVE  RequestsRight' /\ TalkRight'
    <2>1. /\ responses' = <<>> /\ child' = "asking" /\ requests' = <<a>>
          /\ client' = IF a = "yes" THEN "waiting" ELSE "prompt"
      BY <1>3, AskedOrPrompted, Short DEF Reply
    <2>2. a \in {"yes", "no"} /\ <<"yes">> \notin {<<>>, <<"no">>}
      BY Short DEF Answers
    <2>3. RequestsRight'
      BY <2>1, <2>2 DEF RequestsRight
    <2> QED
      BY <2>1, <2>2, <2>3 DEF TalkRight
  <1> QED
    BY <1>1, <1>2, <1>3 DEF User, Send, Reply

LEMMA ReceiveKeeps ==
  ASSUME TypeOK, RequestsRight, TalkRight, Receive
  PROVE  RequestsRight' /\ TalkRight'
  <1>1. /\ UNCHANGED <<requests, child, cmd, st_size, num_read>>
        /\ responses \in Seq(Statuses) /\ responses # <<>> /\ client = "waiting"
        /\ responses' = Tail(responses) /\ client' = AfterResponse(Head(responses))
    BY DEF Receive, reading, TypeOK
  <1>2. RequestsRight'
    BY <1>1 DEF RequestsRight, Between, ChildGone
  <1>3. ASSUME ~ChildGone PROVE TalkRight'
    <2>1. /\ requests = <<>>
          /\ \/ Between /\ EndsIn(responses, {"OK", "ERROR"})
             \/ Between /\ EndsUnanswered /\ Continued(responses)
             \/ child = "asking" /\ EndsIn(responses, {"APPROVE"})
             \/ ~Between /\ child # "asking" /\ Continued(responses)
      BY <1>1, <1>3 DEF TalkRight, ClientGone
    <2>2. Head(responses) = "CONT" => client' = "waiting"
      BY <1>1 DEF AfterResponse
    <2>3. CASE Continued(responses)
      <3>1. client' = "waiting" /\ Continued(responses')
        BY <1>1, <2>2, <2>3, UseUp
      <3>2. EndsUnanswered' = EndsUnanswered /\ Between' = Between
        BY <1>1 DEF EndsUnanswered, Between
      <3>3. CASE Between
        <4>1. CASE EndsUnanswered
          BY <1>1, <2>1, <3>1, <3>2, <3>3, <4>1 DEF TalkRight
        <4>2. CASE EndsIn(responses, {"OK", "ERROR"})
          BY <1>1, <2>3, <4>2, UseUp DEF EndsIn, Continued, TypeOK
        <4> QED
          BY <2>1, <3>3, <4>1, <4>2 DEF Between
      <3>4. CASE child = "asking"
        BY <1>1, <2>1, <2>3, <3>4 DEF EndsIn, Continued, Between
      <3> QED
        BY <1>1, <2>1, <3>1, <3>2, <3>3, <3>4 DEF TalkRight
    <2>4. CASE Between /\ EndsIn(responses, {"OK", "ERROR"})
      <3>1. \/ Head(responses) \in {"OK", "ERROR"} /\ responses' = <<>>
            \/ Head(responses) = "CONT" /\ EndsIn(responses', {"OK", "ERROR"})
        BY <1>1, <2>4, UseUp
      <3>2. Head(responses) \in {"OK", "ERROR"} => client' = "prompt"
        BY <1>1 DEF AfterResponse
      <3>3. Between'
        BY <1>1, <2>4 DEF Between
      <3> QED
        BY <1>1, <2>1, <2>2, <3>1, <3>2, <3>3 DEF TalkRight
    <2>5. CASE child = "asking" /\ EndsIn(responses, {"APPROVE"})
      <3>1. \/ Head(responses) = "APPROVE" /\ responses' = <<>>
            \/ Head(responses) = "CONT" /\ EndsIn(responses', {"APPROVE"})
        BY <1>1, <2>5, UseUp
      <3>2. Head(responses) = "APPROVE" => client' = "asked"
        BY <1>1 DEF AfterResponse
      <3> QED
        BY <1>1, <2>1, <2>2, <2>5, <3>1, <3>2 DEF TalkRight
    <2> QED
      BY <2>1, <2>3, <2>4, <2>5
  <1>4. TalkRight'
    BY <1>1, <1>3 DEF TalkRight, ChildGone
  <1> QED
    BY <1>2, <1>4

-----------------------------------------------------------------------------
(* The steps of a child that waits, or is between two requests.            *)
LEMMA IdleKeeps ==
  ASSUME TypeOK, RequestsRight, TalkRight,
         \/ ReadRequest \/ EndOfRequests \/ AnswerNo \/ AnswerYes \/ NoAnswer
         \/ Leave /\ child = "leaving"
  PROVE  RequestsRight' /\ TalkRight'
  <1> USE DEF Between, ChildGone, ClientGone, ChildGoes, clientVars, fifos
  <1>1. CASE ReadRequest
    <2>1. PICK c \in Commands : requests = <<c>>
      BY <1>1 DEF ReadRequest, RequestsRight
    <2>2. requests' = <<>> /\ requests # <<>>
      BY <1>1, <2>1, Short DEF ReadRequest
    <2>3. /\ child = "request" /\ child' = "handling"
          /\ UNCHANGED <<client, responses>>
      BY <1>1 DEF ReadRequest
    <2>4. RequestsRight'
      BY <2>2, <2>3 DEF RequestsRight
    <2>5. ~ClientGone => client = "waiting" /\ responses = <<>>
      BY <2>2, <2>3 DEF TalkRight
    <2> QED
      BY <2>2, <2>3, <2>4, <2>5, Empty DEF TalkRight
  <1>2. CASE EndOfRequests
    BY <1>2 DEF EndOfRequests, RequestsRight, TalkRight
  <1>3. CASE Leave /\ child = "leaving"
    <2>1. /\ child' = "request" /\ UNCHANGED <<client, requests, responses>>
          /\ EndsUnanswered' = EndsUnanswered
      BY <1>3 DEF Leave, EndsUnanswered, reading
    <2>2. RequestsRight'
      BY <1>3, <2>1 DEF RequestsRight
    <2>3. TalkRight'
      BY <1>3, <2>1 DEF TalkRight
    <2> QED
      BY <2>2, <2>3
  <1>4. CASE AnswerNo
    <2>1. /\ child = "asking" /\ child' = "request" /\ UNCHANGED <<client, responses>>
          /\ requests # <<>> /\ Head(requests) = "no" /\ requests' = Tail(requests)
      BY <1>4 DEF AnswerNo
    <2>2. \/ requests = <<"no">> /\ requests' = <<>>
          \/ \E c \in Commands : requests = <<"no", c>> /\ requests' = <<c>>
      <3>1. requests \in {<<"yes">>, <<"no">>} \/ \E c \in Commands : requests = <<"no", c>>
        BY <2>1 DEF RequestsRight
      <3>2. Head(<<"yes">>) = "yes" /\ Tail(<<"no">>) = <<>>
            /\ \A c : Tail(<<"no", c>>) = <<c>>
        BY Short
      <3>3. requests # <<"yes">>
        BY <2>1, <3>2
      <3> QED
        BY <2>1, <3>1, <3>2, <3>3
    <2>3. RequestsRight'
      BY <2>1, <2>2 DEF RequestsRight
    <2>4. CASE requests = <<"no">> /\ requests' = <<>>
      <3>1. ~ClientGone => client = "prompt" /\ responses = <<>>
        BY <2>1, <2>4, Short DEF TalkRight
      <3> QED
        BY <2>1, <2>3, <2>4, <3>1 DEF TalkRight
    <2>5. ASSUME NEW c \in Commands, requests = <<"no", c>>, requests' = <<c>>
          PROVE  TalkRight'
      <3>1. c # "no" /\ requests # <<"no">> /\ requests # <<>>
        BY <2>5, Short DEF Commands, Mute, Plain, Readers, Copiers, Last
      <3>2. ~ClientGone => client = "waiting" /\ responses = <<>>
        BY <2>1, <3>1 DEF TalkRight
      <3>3. requests' \notin {<<>>, <<"no">>}
        BY <2>5, <3>1, Short
      <3> QED
        BY <2>1, <3>2, <3>3 DEF TalkRight
    <2> QED
      BY <2>2, <2>3, <2>4, <2>5
  <1>5. CASE AnswerYes
    <2>1. /\ child = "asking" /\ child' \in {"entering", "failing"}
          /\ UNCHANGED <<client, responses>>
          /\ requests # <<>> /\ Head(requests) # "no" /\ requests' = Tail(requests)
      BY <1>5 DEF AnswerYes
    <2>2. requests = <<"yes">>
      <3>1. requests \in {<<"yes">>, <<"no">>} \/ \E c \in Commands : requests = <<"no", c>>
        BY <2>1 DEF RequestsRight
      <3> QED
        BY <2>1, <3>1, Short
    <2>3. requests' = <<>> /\ requests \notin {<<>>, <<"no">>}
      BY <2>1, <2>2, Short
    <2>4. ~ClientGone => client = "waiting" /\ responses = <<>>
      BY <2>1, <2>3 DEF TalkRight
    <2>5. RequestsRight'
      BY <2>1, <2>3 DEF RequestsRight
    <2> QED
      BY <2>1, <2>3, <2>4, <2>5, Empty DEF TalkRight
  <1>6. CASE NoAnswer
    BY <1>6 DEF NoAnswer, RequestsRight, TalkRight
  <1> QED
    BY <1>1, <1>2, <1>3, <1>4, <1>5, <1>6

LEMMA TalkKept ==
  ASSUME IInv, [Next]_vars
  PROVE  RequestsRight' /\ TalkRight'
  <1> USE DEF IInv
  <1>1. CASE Child
    <2>1. CASE \/ ReadRequest \/ EndOfRequests \/ AnswerNo \/ AnswerYes \/ NoAnswer
               \/ Leave /\ child = "leaving"
      BY <2>1, IdleKeeps
    <2>2. CASE child = "leaving" /\ ~Leave
      BY <1>1, <2>2
      DEF Child, ReadRequest, EndOfRequests, Ignore, Tell, Disconnect, Refuse, Fail,
          Open, Enter, ReadChunk, ReadEnd, ReadError, ReadLine, WriteT, WriteFails,
          SeekFails, CreateDestination, Ask, AnswerNo, AnswerYes, NoAnswer, Copy,
          Copied, BrokenPipe, ChildGoes, Handles
    <2>3. CASE /\ ~ReadRequest /\ ~EndOfRequests /\ ~AnswerNo /\ ~AnswerYes /\ ~NoAnswer
               /\ child # "leaving"
      BY <1>1, <2>3, WorkingSteps, WorkKept
    <2> QED
      BY <2>1, <2>2, <2>3
  <1>2. CASE Terminate
    BY <1>2 DEF Terminate, RequestsRight, TalkRight, ChildGone, Between
  <1>3. CASE ClientKilled \/ EndOfFile
    BY <1>3 DEF ClientKilled, EndOfFile, fifos, RequestsRight, TalkRight, ChildGone,
                ClientGone, Between
  <1>4. CASE OtherTruncates \/ OtherEnters \/ OtherLeaves \/ UNCHANGED vars
    <2>1. UNCHANGED <<client, fifos, child, cmd, reading>>
      BY <1>4 DEF OtherTruncates, OtherEnters, OtherLeaves, vars, clientVars, fifos, reading
    <2>2. EndsUnanswered' = EndsUnanswered /\ Between' = Between
      BY <2>1 DEF EndsUnanswered, Between, reading
    <2> QED
      BY <2>1, <2>2 DEF fifos, RequestsRight, TalkRight, ChildGone, ClientGone
  <1> QED
    BY <1>1, <1>2, <1>3, <1>4, UserKeeps, ReceiveKeeps DEF Next

-----------------------------------------------------------------------------
(* The inductive invariant: what may stand in the two FIFOs together with  *)
(* where the two programs stand, and what a readF has still to read.       *)
THEOREM Invariance == Spec => []IInv
  <1>1. Init => IInv
    <2> SUFFICES ASSUME Init PROVE IInv
      OBVIOUS
    <2>1. TypeOK
      BY PipeSizeAssumption, MaxSizeAssumption, EmptySeq
      DEF Init, TypeOK, ClientStates, ChildStates
    <2>2. RequestsRight /\ TalkRight /\ ReadingRight
      BY DEF Init, RequestsRight, TalkRight, ReadingRight, Between
    <2> QED
      BY <2>1, <2>2 DEF IInv
  <1>2. IInv /\ [Next]_vars => IInv'
    BY TypeKept, TalkKept, ReadingKept DEF IInv
  <1> QED
    BY <1>1, <1>2, PTL DEF Spec

(* At the prompt no response is left over and none is to come: the request *)
(* loops of client and server_request are in step.                         *)
THEOREM EndsInStep == Spec => []InStep
  <1>1. IInv => InStep
    BY DEF IInv, TalkRight, InStep, ClientGone, Between
  <1> QED
    BY <1>1, Invariance, PTL

(* server_request and cmd_copy each read what is meant for them.           *)
THEOREM NothingMistaken == Spec => []Framed
  <1>1. ASSUME IInv, requests # <<>>
        PROVE  /\ child = "asking" => Head(requests) \in Answers
               /\ child = "request" => Head(requests) \in Commands
    <2>1. CASE child = "asking"
      <3>1. requests \in {<<"yes">>, <<"no">>} \/ \E c \in Commands : requests = <<"no", c>>
        BY <1>1, <2>1 DEF IInv, RequestsRight
      <3>2. Head(requests) \in {"yes", "no"}
        BY <3>1, Short
      <3> QED
        BY <2>1, <3>2 DEF Answers
    <2>2. CASE child = "request"
      <3>1. PICK c \in Commands : requests = <<c>>
        BY <1>1, <2>2 DEF IInv, RequestsRight, Between
      <3> QED
        BY <2>2, <3>1, Short
    <2> QED
      BY <2>1, <2>2
  <1>2. IInv => Framed
    BY <1>1 DEF Framed
  <1> QED
    BY <1>2, Invariance, PTL

(* Client and child wait for each other only after the commands that       *)
(* server_request lets fall through, a writeT whose write failed, or a     *)
(* readF of a file that is empty or has become shorter.                    *)
THEOREM OnlyThen == Spec => []StandoffCauses
  <1>1. ASSUME IInv, Standoff PROVE EndsUnanswered
    BY <1>1, Empty DEF IInv, TalkRight, Standoff, ClientGone, ChildGone, Between
  <1>2. IInv => StandoffCauses
    BY <1>1 DEF StandoffCauses
  <1> QED
    BY <1>2, Invariance, PTL
===============================================================================
