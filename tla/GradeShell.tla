------------------------------- MODULE GradeShell -------------------------------
(***************************************************************************)
(* The shell for student grades of Homework1/main.c.  Every command runs   *)
(* in a child that the shell waits for, and that logs the command before   *)
(* it touches the file of grades.  A child that finds no command of its    *)
(* own, or cannot fork a child to log, does not exit: it becomes a shell   *)
(* inside the shell and reads stdin itself, while its parent waits.        *)
(*                                                                         *)
(* From a terminal every fgets takes one line.  From a pipe the first one  *)
(* takes everything into the buffer of stdio, and a child has a copy of    *)
(* that buffer: what it reads its parent will read again.  (A script that  *)
(* is longer than that buffer, or comes from a regular file, is left out.) *)
(* One command is one step, since everybody else waits; sortAll, which     *)
(* asks for an answer, is two.                                             *)
(*                                                                         *)
(* A line of the file has Width characters, the last of them its end; a    *)
(* character is the number of its student.  BUFFER is the 256 bytes that   *)
(* the listings read at once, SORT_BUFFER the 1024 of sortAll.             *)
(***************************************************************************)
EXTENDS Integers, Sequences, FiniteSets, SequencesExt

CONSTANTS
    Students,       \* records [name, grade], as the user may type them
    InitialFiles,   \* what the file of grades may hold before
    Leftovers,      \* the grades of the students that strtok may find in
                    \* what the stack held before, behind the text
    MaxLines,       \* bound: lines on stdin
    MaxFailures,    \* bound: forks that fail
    MaxPage,        \* bound: pages that are asked for, and entries on one
    BUFFER, SORT_BUFFER, Width,
    FIRST,          \* listGrades shows so many entries
    NoFile

ASSUME ShellAssumption ==
    /\ MaxLines \in Nat /\ MaxFailures \in Nat /\ MaxPage \in Nat
    /\ BUFFER \in Nat \ {0} /\ SORT_BUFFER \in Nat \ {0}
    /\ Width \in Nat \ {0, 1} /\ FIRST \in Nat

(* Names and grades are numbers in the order of strcmp; they fit into the  *)
(* fields of a Student.                                                    *)
Rows == [name : Int, grade : Int]
ASSUME RowsAssumption ==
    /\ Students \subseteq Rows
    /\ \A f \in InitialFiles \ {NoFile} : f \in Seq(Rows)
    /\ NoFile \notin Seq(Rows)
    /\ Leftovers \subseteq Seq(Int)

Plain == {"help", "create", "search", "sort", "show", "list", "some",
          "misused", "unknown", "empty", "q", "1", "2", "3", "4"}
Lines == {[cmd |-> c] : c \in Plain}
         \cup {[cmd |-> "add", who |-> s] : s \in Students}

VARIABLES
    lines,      \* the lines of stdin that anybody has read
    closed,     \* nothing follows them
    piped,      \* stdin is a pipe and not a terminal
    shells,     \* the shells, each in the one before it: lines read so far
    asking,     \* the line in which a child looks for the answer to sortAll,
                \* or 0
    log,        \* line numbers of "Executed command", in their order
    grades,     \* the file of grades, or NoFile
    added,      \* history: line numbers of the students that were added
    failures,   \* history: forks that have failed
    nested,     \* history: some child became a shell or read an answer
    shown       \* what the last command showed, and which one it was

input == <<lines, closed, piped, shells, asking>>
effects == <<log, grades, added>>
vars == <<input, effects, failures, nested, shown>>

Nothing == [by |-> "none", entries |-> <<>>, first |-> 0, last |-> 0]

Init ==
    /\ lines = <<>> /\ closed = FALSE /\ piped \in BOOLEAN
    /\ shells = <<0>> /\ asking = 0
    /\ log = <<>> /\ grades \in InitialFiles /\ added = <<>>
    /\ failures = 0 /\ nested = FALSE
    /\ shown = Nothing

-----------------------------------------------------------------------------
(* The line that is read next: by the child that asks, or by the innermost *)
(* shell.                                                                  *)
At == IF asking > 0 THEN asking ELSE Last(shells) + 1

(* fgets and scanf.                                                        *)
Typed(line) ==
    \/ /\ At <= Len(lines) /\ lines[At] = line
       /\ UNCHANGED lines
    \/ /\ At = Len(lines) + 1 /\ ~closed /\ Len(lines) < MaxLines
       /\ lines' = Append(lines, line)

Advanced == IF piped THEN [shells EXCEPT ![Len(shells)] = @ + 1]
                     ELSE [d \in DOMAIN shells |-> At]

Reads(cmd) ==
    /\ shells # <<>> /\ asking = 0
    /\ \E line \in Lines : line.cmd = cmd /\ Typed(line)
    /\ UNCHANGED <<closed, piped>>

ForkFails == failures < MaxFailures /\ failures' = failures + 1

Executes == log' = Append(log, At)

(* A command that ends in a child that exits.                              *)
Runs(cmd) == Reads(cmd) /\ shells' = Advanced /\ UNCHANGED <<asking, nested>>

(* A child that goes on as a shell: it has read what its parent has read.  *)
Nests(cmd) ==
    /\ Reads(cmd)
    /\ shells' = Append(Advanced, At)
    /\ nested' = TRUE
    /\ UNCHANGED asking

(* The first fork of a command failed: it does nothing.                    *)
Skipped ==
    /\ \E cmd \in Plain \cup {"add"} : cmd # "q" /\ Runs(cmd)
    /\ ForkFails
    /\ UNCHANGED <<effects, shown>>

(* Its second fork failed, in the child.                                   *)
SkippedInChild ==
    /\ Nests("create") \/ Nests("add")
    /\ ForkFails
    /\ UNCHANGED <<effects, shown>>

-----------------------------------------------------------------------------
Help ==
    /\ Runs("help") /\ Executes
    /\ shown' = Nothing
    /\ UNCHANGED <<grades, added, failures>>

createfile ==
    /\ Runs("create") /\ Executes
    /\ grades' = IF grades = NoFile THEN <<>> ELSE grades
    /\ shown' = Nothing
    /\ UNCHANGED <<added, failures>>

(* Mutant: the child that adds the student does not log the command.       *)
addStudentGradeUnlogged ==
    /\ Runs("add")
    /\ grades # NoFile
    /\ grades' = Append(grades, lines'[At].who)
    /\ added' = Append(added, At)
    /\ shown' = Nothing
    /\ UNCHANGED <<log, failures>>

addStudentGrade ==
    /\ Runs("add") /\ Executes
    /\ IF grades = NoFile
       THEN UNCHANGED <<grades, added>>
       ELSE /\ grades' = Append(grades, lines'[At].who)
            /\ added' = Append(added, At)
    /\ shown' = Nothing
    /\ UNCHANGED failures

searchStudent ==
    /\ Runs("search") /\ Executes
    /\ shown' = Nothing
    /\ UNCHANGED <<grades, added, failures>>

Misused ==
    /\ Runs("misused") /\ Executes
    /\ shown' = Nothing
    /\ UNCHANGED <<grades, added, failures>>

Empty ==
    /\ Runs("empty")
    /\ shown' = Nothing
    /\ UNCHANGED <<effects, failures>>

(* The child of an unknown command logs it and does not exit.              *)
Unknown ==
    /\ \E cmd \in {"unknown", "1", "2", "3", "4"} : Nests(cmd)
    /\ Executes
    /\ shown' = Nothing
    /\ UNCHANGED <<grades, added, failures>>

(* q ends the innermost shell; its parent comes back from wait.            *)
Quit ==
    /\ Reads("q")
    /\ shells' = Front(Advanced)
    /\ shown' = Nothing
    /\ UNCHANGED <<asking, effects, failures, nested>>

(* At the end of the input fgets fails, the buffer is empty and the shell  *)
(* takes that for an empty command, again and again.                       *)
EndOfInput ==
    /\ shells # <<>> /\ At = Len(lines) + 1
    /\ closed' = TRUE
    /\ UNCHANGED <<lines, piped, shells, asking, effects, failures, nested,
                   shown>>

-----------------------------------------------------------------------------
(* What the listings make of the bytes of the file.                        *)
Newline == 0
NUL == -1
Junk == -2      \* what the stack held before

Text == [p \in 1 .. Len(grades) * Width |->
            IF p % Width = 0 THEN Newline ELSE (p - 1) \div Width + 1]

Chunks == (Len(Text) + BUFFER - 1) \div BUFFER

(* The buffer after each read: behind the new bytes it still holds what    *)
(* the last round, in which strtok has cut the lines, left there.          *)
Buffer(fill) ==
    LET b[k \in 0 .. Chunks] == [i \in 1 .. BUFFER |->
            IF k = 0 THEN fill
            ELSE LET p == (k - 1) * BUFFER + i
                 IN  IF p <= Len(Text) THEN Text[p]
                     ELSE IF b[k - 1][i] = Newline THEN NUL ELSE b[k - 1][i]]
    IN  b

(* strtok: the runs between newlines, up to the first zero byte; each is   *)
(* the student it begins with and its length.                              *)
EndOf(b) ==
    LET zeros == {i \in 1 .. BUFFER : b[i] = NUL}
    IN  IF zeros = {} THEN BUFFER
                      ELSE (CHOOSE i \in zeros : \A j \in zeros : i <= j) - 1
Starts(b) == {i \in 1 .. EndOf(b) : b[i] # Newline /\ (i = 1 \/ b[i - 1] = Newline)}
Start(b, n) == CHOOSE i \in Starts(b) : Cardinality({j \in Starts(b) : j <= i}) = n
Stop(b, i) == CHOOSE j \in i .. EndOf(b) :
                  /\ \A k \in i .. j : b[k] # Newline
                  /\ j = EndOf(b) \/ b[j + 1] = Newline
Tokens(b) == [n \in 1 .. Cardinality(Starts(b)) |->
                 <<b[Start(b, n)], Stop(b, Start(b, n)) - Start(b, n) + 1>>]

Entry(i) == <<i, Width - 1>>
Entries(s) == [n \in DOMAIN s |-> Entry(s[n])]
Numbers(n) == [i \in 1 .. n |-> i]
Upto(s, n) == SubSeq(s, 1, IF n < Len(s) THEN n ELSE Len(s))

ListGrades(fill) ==
    LET b == Buffer(fill)
        listed[k \in 0 .. Chunks] ==
            IF k = 0 THEN <<>> ELSE Upto(listed[k - 1] \o Tokens(b[k]), FIRST)
    IN  listed[Chunks]

(* Mutant: the first entry of the page is left out.                        *)
ListSomeLate(fill, entries, page) ==
    IF Chunks = 0 THEN <<>>
    ELSE LET t == Tokens(Buffer(fill)[1])
         IN  SubSeq(t, (page - 1) * entries + 2,
                    IF page * entries < Len(t) THEN page * entries ELSE Len(t))

(* One read only: entries behind the first buffer are on no page.          *)
ListSome(fill, entries, page) ==
    IF Chunks = 0 THEN <<>>
    ELSE LET t == Tokens(Buffer(fill)[1])
         IN  SubSeq(t, (page - 1) * entries + 1,
                    IF page * entries < Len(t) THEN page * entries ELSE Len(t))

(* The students that readStudentsFromFile counts, by their grades: those   *)
(* of the file, and behind them what strtok finds in the rest of a buffer  *)
(* that nobody terminates.  (read finds nothing in an empty file.)         *)
Grades == [i \in 1 .. Len(grades) |-> grades[i].grade]
readStudentsFromFile ==
    {Grades \o g : g \in IF grades = <<>> THEN {<<>>} ELSE Leftovers}

(* Bubble sort: what is out of order, the body of the inner loop, and the  *)
(* inner loop, which compares the first m neighbours.                      *)
Wrong(g, flag, a, b) == IF flag = 1 THEN g[a] > g[b] ELSE g[a] < g[b]
Swapped(g, flag, s, j) ==
    IF Wrong(g, flag, s[j], s[j + 1])
    THEN [s EXCEPT ![j] = s[j + 1], ![j + 1] = s[j]]
    ELSE s
BubblePass(g, flag, s, m) ==
    LET p[j \in 0 .. m] == IF j = 0 THEN s ELSE Swapped(g, flag, p[j - 1], j)
    IN  p[m]

sortByGrade(g, flag) ==
    LET n == Len(g)
        b[i \in 0 .. n - 1] == IF i = 0 THEN Numbers(n)
                               ELSE BubblePass(g, flag, b[i - 1], n - i)
    IN  IF n = 0 THEN Numbers(n) ELSE b[n - 1]

printStudents(s) ==
    [n \in DOMAIN s |-> IF s[n] <= Len(grades) THEN Entry(s[n]) ELSE <<Junk, 0>>]

(* qsort of the lines by strcmp, in either direction; it need not be       *)
(* stable.                                                                 *)
Before(a, b) == \/ grades[a].name < grades[b].name
                \/ /\ grades[a].name = grades[b].name
                   /\ grades[a].grade < grades[b].grade

sortName(ascending) ==
    {s \in [DOMAIN grades -> DOMAIN grades] :
        \A i, j \in DOMAIN grades : i < j =>
            /\ s[i] # s[j]
            /\ IF ascending THEN ~Before(s[j], s[i]) ELSE ~Before(s[i], s[j])}

Sorted(choice) ==
    CASE choice = "1" -> {Entries(s) : s \in sortName(TRUE)}
      [] choice = "2" -> {Entries(s) : s \in sortName(FALSE)}
      [] choice = "3" -> {printStudents(sortByGrade(g, 1)) : g \in readStudentsFromFile}
      [] choice = "4" -> {printStudents(sortByGrade(g, 0)) : g \in readStudentsFromFile}

Fits(n) == Len(Text) <= n
-----------------------------------------------------------------------------
(* first and last are the numbers of the entries that were asked for.      *)
Shows(cmd, entries, first, last) ==
    shown' = [by |-> cmd, entries |-> entries, first |-> first, last |-> last]

showAll ==
    /\ Runs("show") /\ Executes
    /\ IF grades = NoFile THEN shown' = Nothing
                          ELSE Shows("show", Entries(Numbers(Len(grades))), 1, Len(grades))
    /\ UNCHANGED <<grades, added, failures>>

listGrades ==
    /\ Runs("list") /\ Executes
    /\ IF grades = NoFile THEN shown' = Nothing
       ELSE \E fill \in {NUL, Junk} : Shows("list", ListGrades(fill), 1, FIRST)
    /\ UNCHANGED <<grades, added, failures>>

(* The pages up to MaxPage, of as many entries each.                       *)
listSome ==
    /\ Runs("some") /\ Executes
    /\ IF grades = NoFile THEN shown' = Nothing
       ELSE \E fill \in {NUL, Junk}, entries, page \in 1 .. MaxPage :
              Shows("some", ListSome(fill, entries, page),
                    (page - 1) * entries + 1, page * entries)
    /\ UNCHANGED <<grades, added, failures>>

(* sortAll asks how to sort, if there is a file, and the child reads the   *)
(* answer: from a pipe, out of its own copy of the buffer.  A file that    *)
(* fills the buffer is left out: lines are cut, and sortName writes behind *)
(* its end.                                                                *)
sortAll ==
    /\ Reads("sort") /\ Executes
    /\ shells' = Advanced
    /\ asking' = IF grades = NoFile THEN 0 ELSE At + 1
    /\ shown' = Nothing
    /\ UNCHANGED <<grades, added, failures, nested>>

Answered ==
    /\ shells' = IF piped THEN shells ELSE [d \in DOMAIN shells |-> At]
    /\ nested' = (nested \/ piped)
    /\ UNCHANGED <<closed, piped, effects, failures>>

(* scanf("%d") passes over an empty line.                                  *)
AnswerSkipped ==
    /\ asking > 0 /\ Typed([cmd |-> "empty"])
    /\ asking' = At + 1
    /\ Answered
    /\ UNCHANGED shown

(* What is no number leaves choice unset: it may be anything.              *)
Chosen(cmd) == LET four == {"1", "2", "3", "4"}
               IN  IF cmd \in four THEN {cmd} ELSE four \cup {"none"}

Answer ==
    /\ asking > 0
    /\ \E line \in Lines :
         /\ line.cmd # "empty" /\ Typed(line)
         /\ \E choice \in Chosen(line.cmd) :
              IF choice = "none" \/ ~Fits(SORT_BUFFER - 1) THEN shown' = Nothing
              ELSE \E s \in Sorted(choice) : Shows(choice, s, 1, Len(s))
    /\ asking' = 0
    /\ Answered

Next ==
    \/ Skipped \/ SkippedInChild
    \/ Help \/ createfile \/ addStudentGrade \/ searchStudent \/ Misused
    \/ Empty \/ Unknown \/ Quit \/ EndOfInput
    \/ showAll \/ listGrades \/ listSome \/ sortAll
    \/ AnswerSkipped \/ Answer

Spec == Init /\ [][Next]_vars
-----------------------------------------------------------------------------
Increasing(s) == \A i, j \in DOMAIN s : i < j => s[i] < s[j]

(* The file grows by the students of the lines that were executed, each of *)
(* which is in the log.  On a terminal no line is executed twice or before *)
(* an earlier one, however many shells sit inside each other and whatever  *)
(* forks failed; on a pipe as long as no child has read from its copy of   *)
(* the buffer.                                                             *)
EachLineOnce ==
    /\ \A n \in DOMAIN added :
         /\ lines[added[n]].who = grades[Len(grades) - Len(added) + n]
         /\ \E k \in DOMAIN log : log[k] = added[n]
    /\ ~(piped /\ nested) => Increasing(log) /\ Increasing(added)

(* What sorting shows: all students, each once, in the order that was      *)
(* asked for; by grade, those with the same grade as they are in the file. *)
(* By name there is nothing else; by grade Junk may stand among them, when *)
(* the stack was not empty, and never costs a student or the order.        *)
SortedShown ==
    LET s == shown.entries
        n == Len(grades)
        own == {k \in DOMAIN s : s[k][1] # Junk}
        sorted(R(_, _)) ==
            /\ {s[k] : k \in own} = {Entry(i) : i \in 1 .. n}
            /\ \A i, j \in own : i < j => R(s[i][1], s[j][1])
        inNames(a, b) == ~Before(b, a)
        rising(a, b) == \/ grades[a].grade < grades[b].grade
                        \/ grades[a].grade = grades[b].grade /\ a < b
        falling(a, b) == \/ grades[a].grade > grades[b].grade
                         \/ grades[a].grade = grades[b].grade /\ a < b
    IN  /\ shown.by \in {"1", "2"} => DOMAIN s = 1 .. n
        /\ CASE shown.by = "1" -> sorted(inNames)
             [] shown.by = "2" -> sorted(LAMBDA a, b : inNames(b, a))
             [] shown.by = "3" -> sorted(rising)
             [] shown.by = "4" -> sorted(falling)
             [] OTHER -> TRUE

(* What a listing shows is what its description promises, up to the last   *)
(* entry that fits into the buffer: the first entries, those of a page, or *)
(* all of them.  Only Junk may follow, when the stack was not empty.       *)
ListedShown ==
    LET s == shown.entries
        last == IF shown.last < Len(grades) THEN shown.last ELSE Len(grades)
        asked == IF shown.first <= last THEN last - shown.first + 1 ELSE 0
        inBuffer == Fits(BUFFER) \/ shown.last * Width <= BUFFER
    IN  /\ shown.by = "show" => s = Entries(Numbers(Len(grades)))
        /\ shown.by \in {"list", "some"} /\ inBuffer =>
             /\ asked <= Len(s)
             /\ \A n \in 1 .. Len(s) :
                  IF n <= asked THEN s[n] = Entry(shown.first + n - 1)
                                ELSE s[n][1] = Junk

ShownRight == SortedShown /\ ListedShown

-----------------------------------------------------------------------------
(* The parts of the inductive invariant.                                   *)
TypeOK ==
    /\ lines \in Seq(Lines) /\ shells \in Seq(Nat) /\ asking \in Nat
    /\ closed \in BOOLEAN /\ piped \in BOOLEAN /\ nested \in BOOLEAN
    /\ log \in Seq(1 .. Len(lines)) /\ added \in Seq(1 .. Len(lines))
    /\ grades \in Seq(Rows) \cup {NoFile}
    /\ failures \in Nat

(* Who reads has read no line that does not exist, and as long as no child *)
(* has read from its copy of the buffer, every shell has read them all.    *)
ReadersRight ==
    /\ \A d \in DOMAIN shells : shells[d] <= Len(lines)
    /\ asking <= Len(lines) + 1 /\ (asking > 0 => shells # <<>>)
    /\ ~nested => Len(shells) <= 1
    /\ ~(piped /\ nested) =>
         /\ \A d \in DOMAIN shells : shells[d] = Len(lines)
         /\ asking > 0 => asking = Len(lines) + 1

(* The students that were added are the last ones of the file, and who     *)
(* asks how to sort has one.                                               *)
FileGrows ==
    /\ grades = NoFile => added = <<>> /\ asking = 0
    /\ grades # NoFile => Len(added) <= Len(grades)

IInv == TypeOK /\ ReadersRight /\ FileGrows /\ EachLineOnce /\ ShownRight
===============================================================================
