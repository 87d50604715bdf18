--------------------------- MODULE GradeShell_proofs ---------------------------
(***************************************************************************)
(* Proofs about GradeShell, for any students, files, buffers and number of *)
(* lines and failing forks.                                                *)
(***************************************************************************)
EXTENDS GradeShell, SequenceTheorems, FiniteSetTheorems, WellFoundedInduction, TLAPS

(* A file is there or not.                                                 *)
LEMMA NoFileIsNone == \A f \in Seq(Rows) : f # NoFile
  BY RowsAssumption

-----------------------------------------------------------------------------
(* Reading.  The line that is read next is one that was read already, out  *)
(* of a copy of the buffer, or a new one.                                  *)
LEMMA LineRead ==
  ASSUME TypeOK, ReadersRight, shells # <<>>, NEW line \in Lines, Typed(line)
  PROVE  /\ lines' \in Seq(Lines) /\ Len(lines) <= Len(lines')
         /\ Len(lines) \in Nat /\ Len(lines') \in Nat
         /\ At \in 1 .. Len(lines') /\ lines'[At] = line
         /\ \A i \in 1 .. Len(lines) : lines'[i] = lines[i]
         /\ ~(piped /\ nested) =>
              At = Len(lines) + 1 /\ Len(lines') = Len(lines) + 1
  <1>1. lines \in Seq(Lines) /\ shells \in Seq(Nat) /\ asking \in Nat
    BY DEF TypeOK
  <1>2. Len(lines) \in Nat /\ Len(shells) \in Nat \ {0}
        /\ DOMAIN shells = 1 .. Len(shells)
    BY <1>1
  <1>3. Last(shells) = shells[Len(shells)] /\ Len(shells) \in DOMAIN shells
    BY <1>2 DEF Last
  <1>4. shells[Len(shells)] \in Nat /\ shells[Len(shells)] <= Len(lines)
    BY <1>1, <1>2, <1>3 DEF ReadersRight
  <1>5. At \in 1 .. Len(lines) + 1
    BY <1>1, <1>2, <1>3, <1>4 DEF At, ReadersRight
  <1>6. ~(piped /\ nested) => At = Len(lines) + 1
    BY <1>1, <1>2, <1>3, <1>4 DEF At, ReadersRight
  <1>7. CASE At <= Len(lines) /\ lines[At] = line /\ UNCHANGED lines
    BY <1>1, <1>2, <1>5, <1>6, <1>7
  <1>8. CASE At = Len(lines) + 1 /\ lines' = Append(lines, line)
    BY <1>1, <1>2, <1>5, <1>6, <1>8, AppendProperties
  <1> QED
    BY <1>7, <1>8 DEF Typed

(* Where the shells stand when one of them has read a line.                *)
LEMMA AdvancedRight ==
  ASSUME TypeOK, ReadersRight, shells # <<>>, asking = 0,
         NEW line \in Lines, Typed(line)
  PROVE  /\ Advanced \in Seq(Nat) /\ Len(Advanced) = Len(shells)
         /\ Len(shells) \in Nat \ {0}
         /\ DOMAIN Advanced = 1 .. Len(shells)
         /\ \A d \in 1 .. Len(shells) : Advanced[d] <= Len(lines')
         /\ ~(piped /\ nested) =>
              \A d \in 1 .. Len(shells) : Advanced[d] = Len(lines')
  <1>1. shells \in Seq(Nat) /\ Len(shells) \in Nat \ {0}
        /\ DOMAIN shells = 1 .. Len(shells)
        /\ \A d \in 1 .. Len(shells) : shells[d] \in Nat /\ shells[d] <= Len(lines)
    BY DEF TypeOK, ReadersRight
  <1>2. At = shells[Len(shells)] + 1
    BY <1>1 DEF At, Last
  <1>3. /\ Len(lines) <= Len(lines') /\ Len(lines) \in Nat /\ Len(lines') \in Nat
        /\ At \in 1 .. Len(lines')
        /\ ~(piped /\ nested) => At = Len(lines) + 1 /\ Len(lines') = Len(lines) + 1
    BY LineRead
  <1>4. CASE piped
    <2>1. Advanced = [shells EXCEPT ![Len(shells)] = At]
      BY <1>1, <1>2, <1>4 DEF Advanced
    <2>2. /\ Advanced \in Seq(Nat) /\ Len(Advanced) = Len(shells)
          /\ Advanced[Len(shells)] = At
          /\ \A d \in 1 .. Len(shells) : d # Len(shells) => Advanced[d] = shells[d]
      <3>1. At \in Nat /\ Len(shells) \in 1 .. Len(shells)
        BY <1>1, <1>3
      <3> DEFINE k == Len(shells)
                 t == At
      <3> HIDE DEF k, t
      <3>2. k \in 1 .. Len(shells) /\ t \in Nat /\ Advanced = [shells EXCEPT ![k] = t]
        BY <3>1, <2>1 DEF k, t
      <3>3. /\ Advanced \in Seq(Nat) /\ Len(Advanced) = Len(shells)
            /\ \A d \in 1 .. Len(shells) :
                 Advanced[d] = IF d = k THEN t ELSE shells[d]
        BY <3>2, <1>1, ExceptSeq
      <3> QED
        BY <3>2, <3>3, <1>1 DEF k, t
    <2>3. ~nested => Len(shells) = 1
      BY <1>1 DEF ReadersRight
    <2>4. \A d \in 1 .. Len(shells) : Advanced[d] <= Len(lines')
      BY <2>2, <1>1, <1>3
    <2>5. ~nested => \A d \in 1 .. Len(shells) : Advanced[d] = Len(lines')
      <3>1. SUFFICES ASSUME ~nested, NEW d \in 1 .. Len(shells)
                     PROVE  Advanced[d] = Len(lines')
        OBVIOUS
      <3>2. Len(shells) = 1
        BY <2>3, <3>1, Zenon
      <3>3. d = Len(shells)
        BY <3>1, <3>2
      <3>4. At = Len(lines')
        BY <1>3, <3>1
      <3> QED
        BY <2>2, <3>1, <3>3, <3>4
    <2> QED
      BY <2>2, <2>4, <2>5, <1>1, <1>4
  <1>5. CASE ~piped
    <2>1. Advanced = [d \in 1 .. Len(shells) |-> At]
      BY <1>1, <1>5 DEF Advanced
    <2>2. Advanced \in Seq(Nat) /\ Len(Advanced) = Len(shells)
      BY <2>1, <1>1, <1>3
    <2> QED
      BY <2>1, <2>2, <1>1, <1>3, <1>5
  <1> QED
    BY <1>4, <1>5

-----------------------------------------------------------------------------
(* The invariant in two halves: who reads what, and what commands do to    *)
(* the log and to the file.                                                *)
InputOK ==
    /\ lines \in Seq(Lines) /\ shells \in Seq(Nat) /\ asking \in Nat
    /\ closed \in BOOLEAN /\ piped \in BOOLEAN /\ nested \in BOOLEAN
    /\ ReadersRight

EffectsOK ==
    /\ log \in Seq(1 .. Len(lines)) /\ added \in Seq(1 .. Len(lines))
    /\ grades \in Seq(Rows) \cup {NoFile}
    /\ FileGrows /\ EachLineOnce

(* The lines that are there stay, and so does who has seen a copy.         *)
LinesGrow ==
    /\ lines \in Seq(Lines) /\ lines' \in Seq(Lines)
    /\ Len(lines) \in Nat /\ Len(lines') \in Nat /\ Len(lines) <= Len(lines')
    /\ \A i \in 1 .. Len(lines) : lines'[i] = lines[i]
    /\ piped' = piped /\ (nested => nested')

(* A line was read, and from a copy only if a child had done so before.    *)
LineTaken ==
    /\ LinesGrow
    /\ At \in 1 .. Len(lines') /\ lines'[At] \in Lines
    /\ ~(piped /\ nested) => At = Len(lines) + 1 /\ Len(lines') = Len(lines) + 1

(* What a shell reads: the facts about the line and about where they all   *)
(* stand then.                                                             *)
LEMMA ReadsTakes ==
  ASSUME TypeOK, ReadersRight, nested => nested', NEW cmd, Reads(cmd)
  PROVE  /\ LineTaken /\ lines'[At].cmd = cmd
         /\ Advanced \in Seq(Nat) /\ Len(Advanced) = Len(shells)
         /\ Len(shells) \in Nat \ {0} /\ DOMAIN Advanced = 1 .. Len(shells)
         /\ \A d \in 1 .. Len(shells) : Advanced[d] <= Len(lines')
         /\ ~(piped /\ nested) =>
              \A d \in 1 .. Len(shells) : Advanced[d] = Len(lines')
  <1>1. shells # <<>> /\ asking = 0 /\ UNCHANGED <<closed, piped>>
    BY DEF Reads
  <1>2. PICK line \in Lines : line.cmd = cmd /\ Typed(line)
    BY DEF Reads
  <1>3. /\ lines' \in Seq(Lines) /\ Len(lines) <= Len(lines')
        /\ Len(lines) \in Nat /\ Len(lines') \in Nat
        /\ At \in 1 .. Len(lines') /\ lines'[At] = line
        /\ \A i \in 1 .. Len(lines) : lines'[i] = lines[i]
        /\ ~(piped /\ nested) =>
             At = Len(lines) + 1 /\ Len(lines') = Len(lines) + 1
    BY <1>1, <1>2, LineRead
  <1>4. /\ Advanced \in Seq(Nat) /\ Len(Advanced) = Len(shells)
        /\ Len(shells) \in Nat \ {0} /\ DOMAIN Advanced = 1 .. Len(shells)
        /\ \A d \in 1 .. Len(shells) : Advanced[d] <= Len(lines')
        /\ ~(piped /\ nested) =>
             \A d \in 1 .. Len(shells) : Advanced[d] = Len(lines')
    BY <1>1, <1>2, AdvancedRight
  <1>5. lines \in Seq(Lines)
    BY DEF TypeOK
  <1>6. LinesGrow
    BY <1>1, <1>3, <1>5 DEF LinesGrow
  <1>7. LineTaken /\ lines'[At].cmd = cmd
    BY <1>2, <1>3, <1>6 DEF LineTaken
  <1> QED
    BY <1>4, <1>7

(* A command in a child that exits.                                        *)
LEMMA RunsKeeps ==
  ASSUME TypeOK, ReadersRight, NEW cmd, Reads(cmd), shells' = Advanced,
         nested' = nested, asking' \in {0, At + 1}
  PROVE  InputOK'
  <1>1. /\ LineTaken
        /\ Advanced \in Seq(Nat) /\ Len(Advanced) = Len(shells)
        /\ Len(shells) \in Nat \ {0} /\ DOMAIN Advanced = 1 .. Len(shells)
        /\ \A d \in 1 .. Len(shells) : Advanced[d] <= Len(lines')
        /\ ~(piped /\ nested) =>
             \A d \in 1 .. Len(shells) : Advanced[d] = Len(lines')
    BY ReadsTakes
  <1>2. /\ lines' \in Seq(Lines) /\ Len(lines') \in Nat /\ piped' = piped
        /\ At \in 1 .. Len(lines')
        /\ ~(piped /\ nested) => At = Len(lines')
    BY <1>1 DEF LineTaken, LinesGrow
  <1>3. closed' = closed
    BY DEF Reads
  <1>4. shells' # <<>> /\ DOMAIN shells' = 1 .. Len(shells')
        /\ Len(shells') = Len(shells)
    BY <1>1
  <1>5. /\ \A d \in DOMAIN shells' : shells'[d] <= Len(lines')
        /\ ~(piped' /\ nested') =>
             \A d \in DOMAIN shells' : shells'[d] = Len(lines')
    BY <1>1, <1>2, <1>4
  <1>6. /\ asking' \in Nat /\ asking' <= Len(lines') + 1
        /\ ~(piped' /\ nested') => (asking' > 0 => asking' = Len(lines') + 1)
    BY <1>2
  <1>7. ~nested' => Len(shells') <= 1
    BY <1>4 DEF ReadersRight
  <1>8. ReadersRight'
    BY <1>4, <1>5, <1>6, <1>7 DEF ReadersRight
  <1> QED
    BY <1>1, <1>2, <1>3, <1>6, <1>8 DEF InputOK, TypeOK

(* A command in a child that becomes a shell.                              *)
LEMMA NestsKeeps ==
  ASSUME TypeOK, ReadersRight, NEW cmd, Nests(cmd)
  PROVE  InputOK'
  <1>0. Reads(cmd) /\ shells' = Append(Advanced, At) /\ nested' = TRUE
        /\ asking' = 0
    BY DEF Nests, Reads
  <1>1. /\ LineTaken
        /\ Advanced \in Seq(Nat) /\ Len(Advanced) = Len(shells)
        /\ Len(shells) \in Nat \ {0} /\ DOMAIN Advanced = 1 .. Len(shells)
        /\ \A d \in 1 .. Len(shells) : Advanced[d] <= Len(lines')
        /\ ~(piped /\ nested) =>
             \A d \in 1 .. Len(shells) : Advanced[d] = Len(lines')
    BY <1>0, ReadsTakes
  <1>2. /\ lines' \in Seq(Lines) /\ Len(lines') \in Nat /\ piped' = piped
        /\ At \in 1 .. Len(lines') /\ At \in Nat
        /\ ~(piped /\ nested) => At = Len(lines')
    BY <1>1 DEF LineTaken, LinesGrow
  <1>3. closed' = closed
    BY <1>0 DEF Reads
  <1>4. /\ shells' \in Seq(Nat) /\ Len(shells') = Len(shells) + 1
        /\ DOMAIN shells' = 1 .. Len(shells) + 1
        /\ \A d \in 1 .. Len(shells) : shells'[d] = Advanced[d]
        /\ shells'[Len(shells) + 1] = At
    <2> DEFINE t == At
    <2> HIDE DEF t
    <2>1. shells' = Append(Advanced, t) /\ t \in Nat
      BY <1>0, <1>2 DEF t
    <2> QED
      BY <2>1, <1>1, AppendProperties DEF t
  <1>5. \A d \in DOMAIN shells' : shells'[d] <= Len(lines')
    <2> SUFFICES ASSUME NEW d \in 1 .. Len(shells) + 1
                 PROVE  shells'[d] <= Len(lines')
      BY <1>4
    <2>1. CASE d = Len(shells) + 1
      BY <2>1, <1>2, <1>4
    <2>2. CASE d # Len(shells) + 1
      <3>1. d \in 1 .. Len(shells)
        BY <2>2, <1>1
      <3> QED
        BY <3>1, <1>1, <1>4
    <2> QED
      BY <2>1, <2>2
  <1>6. ~piped => \A d \in DOMAIN shells' : shells'[d] = Len(lines')
    BY <1>1, <1>2, <1>4
  <1>7. ReadersRight'
    BY <1>0, <1>2, <1>5, <1>6 DEF ReadersRight
  <1> QED
    BY <1>0, <1>2, <1>3, <1>4, <1>7 DEF InputOK, TypeOK

(* The innermost shell ends.                                               *)
LEMMA QuitKeeps ==
  ASSUME TypeOK, ReadersRight, Quit
  PROVE  InputOK'
  <1>0. Reads("q") /\ shells' = Front(Advanced) /\ nested' = nested
        /\ asking' = 0
    BY DEF Quit, Reads
  <1>1. /\ LineTaken
        /\ Advanced \in Seq(Nat) /\ Len(Advanced) = Len(shells)
        /\ Len(shells) \in Nat \ {0} /\ DOMAIN Advanced = 1 .. Len(shells)
        /\ \A d \in 1 .. Len(shells) : Advanced[d] <= Len(lines')
        /\ ~(piped /\ nested) =>
             \A d \in 1 .. Len(shells) : Advanced[d] = Len(lines')
    BY <1>0, ReadsTakes
  <1>2. /\ lines' \in Seq(Lines) /\ Len(lines') \in Nat /\ piped' = piped
    BY <1>1 DEF LineTaken, LinesGrow
  <1>3. closed' = closed
    BY <1>0 DEF Reads
  <1>4. /\ shells' \in Seq(Nat) /\ Len(shells') = Len(shells) - 1
        /\ DOMAIN shells' = 1 .. Len(shells) - 1
        /\ \A d \in 1 .. Len(shells) - 1 : shells'[d] = Advanced[d]
    <2> DEFINE a == Advanced
               n == Len(shells) - 1
    <2> HIDE DEF a, n
    <2>1. a \in Seq(Nat) /\ n \in Nat /\ Len(a) = n + 1
          /\ shells' = SubSeq(a, 1, n)
      BY <1>0, <1>1 DEF Front, a, n
    <2>2. \A i \in 1 .. n : a[i] \in Nat
      BY <2>1
    <2>3. /\ SubSeq(a, 1, n) \in Seq(Nat)
          /\ Len(SubSeq(a, 1, n)) = IF 1 <= n THEN n - 1 + 1 ELSE 0
          /\ \A i \in 1 .. n - 1 + 1 : SubSeq(a, 1, n)[i] = a[1 + i - 1]
      BY <2>1, <2>2, SubSeqProperties
    <2>4. /\ shells' \in Seq(Nat) /\ Len(shells') = n
          /\ \A d \in 1 .. n : shells'[d] = a[d]
      BY <2>1, <2>3
    <2> QED
      BY <2>4 DEF a, n
  <1>5. /\ \A d \in DOMAIN shells' : shells'[d] <= Len(lines')
        /\ ~(piped' /\ nested') =>
             \A d \in DOMAIN shells' : shells'[d] = Len(lines')
    <2>1. \A d \in DOMAIN shells' : d \in 1 .. Len(shells) /\ shells'[d] = Advanced[d]
      <3> DEFINE l == Len(shells)
      <3>1. /\ l \in Nat /\ DOMAIN shells' = 1 .. l - 1
            /\ \A d \in 1 .. l - 1 : shells'[d] = Advanced[d]
        BY <1>1, <1>4
      <3> HIDE DEF l
      <3>2. \A d \in 1 .. l - 1 : d \in 1 .. l
        BY <3>1
      <3> QED
        BY <3>1, <3>2 DEF l
    <2> QED
      BY <2>1, <1>0, <1>1, <1>2
  <1>6. ~nested' => Len(shells') <= 1
    BY <1>0, <1>1, <1>4 DEF ReadersRight
  <1>7. ReadersRight'
    BY <1>0, <1>2, <1>5, <1>6 DEF ReadersRight
  <1> QED
    BY <1>0, <1>2, <1>3, <1>4, <1>7 DEF InputOK, TypeOK

(* A child reads an answer: from a pipe, only it moves on.                 *)
LEMMA AnsweredKeeps ==
  ASSUME TypeOK, ReadersRight, asking > 0, NEW line \in Lines, Typed(line),
         Answered, asking' \in {0, At + 1}
  PROVE  LineTaken /\ InputOK'
  <1>0. /\ shells' = IF piped THEN shells ELSE [d \in DOMAIN shells |-> At]
        /\ nested' = (nested \/ piped) /\ UNCHANGED <<closed, piped>>
    BY DEF Answered
  <1>1. /\ shells \in Seq(Nat) /\ shells # <<>> /\ Len(shells) \in Nat \ {0}
        /\ DOMAIN shells = 1 .. Len(shells) /\ asking \in Nat
        /\ lines \in Seq(Lines)
        /\ piped \in BOOLEAN /\ nested \in BOOLEAN /\ closed \in BOOLEAN
        /\ \A d \in 1 .. Len(shells) : shells[d] <= Len(lines)
        /\ \A d \in 1 .. Len(shells) : shells[d] \in Nat
    BY DEF TypeOK, ReadersRight
  <1>2. /\ lines' \in Seq(Lines) /\ Len(lines) <= Len(lines')
        /\ Len(lines) \in Nat /\ Len(lines') \in Nat
        /\ At \in 1 .. Len(lines') /\ lines'[At] = line
        /\ \A i \in 1 .. Len(lines) : lines'[i] = lines[i]
        /\ ~(piped /\ nested) =>
             At = Len(lines) + 1 /\ Len(lines') = Len(lines) + 1
    BY <1>1, LineRead
  <1>3. LineTaken
    BY <1>0, <1>1, <1>2 DEF LineTaken, LinesGrow
  <1>4. /\ shells' \in Seq(Nat) /\ Len(shells') = Len(shells)
        /\ DOMAIN shells' = 1 .. Len(shells)
        /\ \A d \in 1 .. Len(shells) : shells'[d] <= Len(lines')
        /\ ~piped => \A d \in 1 .. Len(shells) : shells'[d] = At
    <2>1. CASE piped
      BY <2>1, <1>0, <1>1, <1>2
    <2>2. CASE ~piped
      <3>1. shells' = [d \in 1 .. Len(shells) |-> At]
        BY <2>2, <1>0, <1>1
      <3> QED
        BY <2>2, <3>1, <1>1, <1>2
    <2> QED
      BY <2>1, <2>2
  <1>5. ~(piped' /\ nested') => ~piped /\ At = Len(lines')
    BY <1>0, <1>1, <1>2
  <1>6. /\ asking' \in Nat /\ asking' <= Len(lines') + 1
        /\ ~(piped' /\ nested') => (asking' > 0 => asking' = Len(lines') + 1)
    BY <1>2, <1>5
  <1>7. ~nested' => Len(shells') <= 1
    BY <1>0, <1>1, <1>4 DEF ReadersRight
  <1>8. shells' # <<>>
    BY <1>1, <1>4
  <1>9. ReadersRight'
    BY <1>4, <1>5, <1>6, <1>7, <1>8 DEF ReadersRight
  <1> QED
    BY <1>0, <1>1, <1>2, <1>3, <1>4, <1>6, <1>9 DEF InputOK

-----------------------------------------------------------------------------
(* The log, the file and the students that were added, when the command    *)
(* touches none of them.                                                   *)
LEMMA EffectsKeep ==
  ASSUME EffectsOK, LinesGrow, UNCHANGED <<log, grades, added>>,
         grades = NoFile => asking' = 0
  PROVE  EffectsOK'
  <1>1. /\ Len(lines) \in Nat /\ Len(lines') \in Nat /\ Len(lines) <= Len(lines')
        /\ \A i \in 1 .. Len(lines) : lines'[i] = lines[i]
        /\ piped' = piped /\ (nested => nested')
    BY DEF LinesGrow
  <1>2. /\ log \in Seq(1 .. Len(lines)) /\ added \in Seq(1 .. Len(lines))
        /\ grades \in Seq(Rows) \cup {NoFile} /\ FileGrows /\ EachLineOnce
    BY DEF EffectsOK
  <1>3. log \in Seq(1 .. Len(lines')) /\ added \in Seq(1 .. Len(lines'))
    <2>1. 1 .. Len(lines) \subseteq 1 .. Len(lines')
      BY <1>1
    <2> QED
      BY <2>1, <1>2, SeqMonotonic
  <1>4. \A n \in DOMAIN added : added[n] \in 1 .. Len(lines)
    BY <1>2
  <1>5. EachLineOnce'
    BY <1>1, <1>2, <1>4 DEF EachLineOnce, Increasing
  <1>6. FileGrows'
    BY <1>2 DEF FileGrows
  <1> QED
    BY <1>2, <1>3, <1>5, <1>6 DEF EffectsOK

(* What a line number at the end of a sequence of them makes of it.        *)
LEMMA AppendIncreasing ==
  ASSUME NEW s, NEW m \in Nat, s \in Seq(1 .. m), NEW n \in Nat, NEW a \in 1 .. n,
         m <= n
  PROVE  /\ Append(s, a) \in Seq(1 .. n)
         /\ Len(s) \in Nat /\ DOMAIN s = 1 .. Len(s)
         /\ Len(Append(s, a)) = Len(s) + 1
         /\ DOMAIN Append(s, a) = 1 .. Len(s) + 1
         /\ \A i \in 1 .. Len(s) : Append(s, a)[i] = s[i] /\ s[i] \in 1 .. m
         /\ Append(s, a)[Len(s) + 1] = a
         /\ a = m + 1 /\ Increasing(s) => Increasing(Append(s, a))
  <1>1. 1 .. m \subseteq 1 .. n
    OBVIOUS
  <1>2. s \in Seq(1 .. n)
    BY <1>1, SeqMonotonic
  <1> DEFINE t == Append(s, a)
  <1>3. /\ t \in Seq(1 .. n) /\ Len(t) = Len(s) + 1 /\ Len(s) \in Nat
        /\ DOMAIN s = 1 .. Len(s) /\ DOMAIN t = 1 .. Len(s) + 1
        /\ \A i \in 1 .. Len(s) : t[i] = s[i]
        /\ t[Len(s) + 1] = a
    BY <1>2, AppendProperties
  <1>4. \A i \in 1 .. Len(s) : s[i] \in 1 .. m
    BY <1>3
  <1> HIDE DEF t
  <1>5. ASSUME a = m + 1, Increasing(s)
        PROVE  Increasing(t)
    <2> SUFFICES ASSUME NEW i \in 1 .. Len(s) + 1, NEW j \in 1 .. Len(s) + 1, i < j
                 PROVE  t[i] < t[j]
      BY <1>3 DEF Increasing
    <2>0. Len(s) \in Nat
      BY <1>3
    <2>1. i \in 1 .. Len(s) /\ t[i] = s[i] /\ s[i] \in 1 .. m
      BY <1>3, <1>4
    <2>2. CASE j = Len(s) + 1
      BY <2>1, <2>2, <1>3, <1>5
    <2>3. CASE j # Len(s) + 1
      <3>1. j \in 1 .. Len(s)
        BY <2>0, <2>3
      <3>2. t[j] = s[j]
        BY <3>1, <1>3
      <3> QED
        BY <2>1, <3>1, <3>2, <1>3, <1>5 DEF Increasing
    <2> QED
      BY <2>2, <2>3
  <1> QED
    BY <1>3, <1>4, <1>5 DEF t

(* A command that is logged and adds nobody.                               *)
LEMMA ExecutesKeeps ==
  ASSUME EffectsOK, LineTaken, Executes, added' = added,
         grades' = grades \/ (grades = NoFile /\ grades' = <<>>),
         grades' = NoFile => asking' = 0
  PROVE  EffectsOK'
  <1>1. /\ Len(lines) \in Nat /\ Len(lines') \in Nat /\ Len(lines) <= Len(lines')
        /\ \A i \in 1 .. Len(lines) : lines'[i] = lines[i]
        /\ piped' = piped /\ (nested => nested')
        /\ At \in 1 .. Len(lines')
        /\ ~(piped /\ nested) => At = Len(lines) + 1
    BY DEF LineTaken, LinesGrow
  <1>2. /\ log \in Seq(1 .. Len(lines)) /\ added \in Seq(1 .. Len(lines))
        /\ grades \in Seq(Rows) \cup {NoFile} /\ FileGrows /\ EachLineOnce
    BY DEF EffectsOK
  <1>3. added \in Seq(1 .. Len(lines'))
    <2>1. 1 .. Len(lines) \subseteq 1 .. Len(lines')
      BY <1>1
    <2> QED
      BY <2>1, <1>2, SeqMonotonic
  <1>4. /\ log' \in Seq(1 .. Len(lines'))
        /\ Len(log) \in Nat /\ DOMAIN log = 1 .. Len(log)
        /\ DOMAIN log' = 1 .. Len(log) + 1
        /\ \A i \in 1 .. Len(log) : log'[i] = log[i]
        /\ At = Len(lines) + 1 /\ Increasing(log) => Increasing(log')
    <2> DEFINE a == At
    <2>1. log' = Append(log, a) /\ a \in 1 .. Len(lines')
      BY <1>1 DEF Executes
    <2> HIDE DEF a
    <2>2. /\ log' \in Seq(1 .. Len(lines'))
          /\ Len(log) \in Nat /\ DOMAIN log = 1 .. Len(log)
          /\ DOMAIN log' = 1 .. Len(log) + 1
          /\ \A i \in 1 .. Len(log) : log'[i] = log[i]
          /\ a = Len(lines) + 1 /\ Increasing(log) => Increasing(log')
      BY <2>1, <1>1, <1>2, AppendIncreasing
    <2> QED
      BY <2>2 DEF a
  <1>5. grades = NoFile => added = <<>> /\ DOMAIN added = {}
    BY <1>2 DEF FileGrows
  <1>6. \A n \in DOMAIN added : added[n] \in 1 .. Len(lines) /\ grades' = grades
    BY <1>2, <1>5
  <1>7. \A n \in DOMAIN added :
           /\ lines'[added[n]].who = grades'[Len(grades') - Len(added) + n]
           /\ \E k \in DOMAIN log' : log'[k] = added[n]
    <2> SUFFICES ASSUME NEW n \in DOMAIN added
                 PROVE  /\ lines'[added[n]].who = grades'[Len(grades') - Len(added) + n]
                        /\ \E k \in DOMAIN log' : log'[k] = added[n]
      OBVIOUS
    <2>1. /\ lines[added[n]].who = grades[Len(grades) - Len(added) + n]
          /\ \E k \in DOMAIN log : log[k] = added[n]
      BY <1>2 DEF EachLineOnce
    <2>2. PICK k \in 1 .. Len(log) : log[k] = added[n]
      BY <2>1, <1>4
    <2>3. k \in DOMAIN log' /\ log'[k] = added[n]
      BY <2>2, <1>4
    <2> QED
      BY <2>1, <2>3, <1>1, <1>6
  <1>8. ~(piped' /\ nested') => Increasing(log') /\ Increasing(added')
    BY <1>1, <1>2, <1>4 DEF EachLineOnce
  <1>9. EachLineOnce'
    BY <1>7, <1>8 DEF EachLineOnce
  <1>10. FileGrows' /\ grades' \in Seq(Rows) \cup {NoFile}
    BY <1>2, <1>5, NoFileIsNone DEF FileGrows
  <1> QED
    BY <1>2, <1>3, <1>4, <1>9, <1>10 DEF EffectsOK

(* A student is added: the line of the command is logged first.            *)
LEMMA AddKeeps ==
  ASSUME EffectsOK, LineTaken, lines'[At].cmd = "add", Executes, grades # NoFile,
         grades' = Append(grades, lines'[At].who), added' = Append(added, At)
  PROVE  EffectsOK'
  <1>1. /\ Len(lines) \in Nat /\ Len(lines') \in Nat /\ Len(lines) <= Len(lines')
        /\ \A i \in 1 .. Len(lines) : lines'[i] = lines[i]
        /\ piped' = piped /\ (nested => nested')
        /\ At \in 1 .. Len(lines') /\ lines'[At] \in Lines
        /\ ~(piped /\ nested) => At = Len(lines) + 1
    BY DEF LineTaken, LinesGrow
  <1>2. /\ log \in Seq(1 .. Len(lines)) /\ added \in Seq(1 .. Len(lines))
        /\ grades \in Seq(Rows) /\ Len(added) <= Len(grades) /\ EachLineOnce
    BY DEF EffectsOK, FileGrows
  <1>3. lines'[At].who \in Rows
    <2>1. PICK line \in Lines : line = lines'[At]
      BY <1>1
    <2>2. line.cmd = "add" /\ "add" \notin Plain
      BY <2>1 DEF Plain
    <2>3. line \in {[cmd |-> c] : c \in Plain}
          \/ line \in {[cmd |-> "add", who |-> st] : st \in Students}
      BY DEF Lines
    <2>4. line \notin {[cmd |-> c] : c \in Plain}
      BY <2>2
    <2>5. PICK st \in Students : line = [cmd |-> "add", who |-> st]
      BY <2>3, <2>4
    <2> QED
      BY <2>1, <2>5, RowsAssumption
  <1> DEFINE a == At
             w == lines'[At].who
  <1>4. /\ log' = Append(log, a) /\ added' = Append(added, a) /\ grades' = Append(grades, w)
        /\ a \in 1 .. Len(lines') /\ w \in Rows /\ lines'[a].who = w
        /\ ~(piped /\ nested) => a = Len(lines) + 1
    BY <1>1, <1>3 DEF Executes
  <1> HIDE DEF a, w
  <1>5. /\ log' \in Seq(1 .. Len(lines'))
        /\ Len(log) \in Nat /\ DOMAIN log = 1 .. Len(log)
        /\ DOMAIN log' = 1 .. Len(log) + 1
        /\ \A i \in 1 .. Len(log) : log'[i] = log[i]
        /\ log'[Len(log) + 1] = a
        /\ a = Len(lines) + 1 /\ Increasing(log) => Increasing(log')
    <2> DEFINE t == Append(log, a)
               m == Len(lines)
               n == Len(lines')
    <2>1. m \in Nat /\ n \in Nat /\ m <= n /\ a \in 1 .. n /\ log \in Seq(1 .. m)
      BY <1>1, <1>2, <1>4
    <2> HIDE DEF m, n
    <2>2. /\ t \in Seq(1 .. n)
          /\ Len(log) \in Nat /\ DOMAIN log = 1 .. Len(log)
          /\ DOMAIN t = 1 .. Len(log) + 1
          /\ \A i \in 1 .. Len(log) : t[i] = log[i]
          /\ t[Len(log) + 1] = a
          /\ a = m + 1 /\ Increasing(log) => Increasing(t)
      BY <2>1, AppendIncreasing
    <2>3. log' = t
      BY <1>4
    <2> HIDE DEF t
    <2> QED
      BY <2>2, <2>3 DEF m, n
  <1>6. /\ added' \in Seq(1 .. Len(lines'))
        /\ Len(added) \in Nat /\ DOMAIN added = 1 .. Len(added)
        /\ Len(added') = Len(added) + 1 /\ DOMAIN added' = 1 .. Len(added) + 1
        /\ \A i \in 1 .. Len(added) : added'[i] = added[i] /\ added[i] \in 1 .. Len(lines)
        /\ added'[Len(added) + 1] = a
        /\ a = Len(lines) + 1 /\ Increasing(added) => Increasing(added')
    <2> DEFINE t == Append(added, a)
               m == Len(lines)
               n == Len(lines')
    <2>1. m \in Nat /\ n \in Nat /\ m <= n /\ a \in 1 .. n /\ added \in Seq(1 .. m)
      BY <1>1, <1>2, <1>4
    <2> HIDE DEF m, n
    <2>2. /\ t \in Seq(1 .. n)
          /\ Len(added) \in Nat /\ DOMAIN added = 1 .. Len(added)
          /\ Len(t) = Len(added) + 1 /\ DOMAIN t = 1 .. Len(added) + 1
          /\ \A i \in 1 .. Len(added) : t[i] = added[i] /\ added[i] \in 1 .. m
          /\ t[Len(added) + 1] = a
          /\ a = m + 1 /\ Increasing(added) => Increasing(t)
      BY <2>1, AppendIncreasing
    <2>3. added' = t
      BY <1>4
    <2> HIDE DEF t
    <2> QED
      BY <2>2, <2>3 DEF m, n
  <1>7. /\ grades' \in Seq(Rows) /\ Len(grades') = Len(grades) + 1
        /\ Len(grades) \in Nat
        /\ \A i \in 1 .. Len(grades) : grades'[i] = grades[i]
        /\ grades'[Len(grades) + 1] = w
    BY <1>2, <1>4, AppendProperties
  <1>8. \A n \in DOMAIN added' :
           /\ lines'[added'[n]].who = grades'[Len(grades') - Len(added') + n]
           /\ \E k \in DOMAIN log' : log'[k] = added'[n]
    <2> SUFFICES ASSUME NEW n \in 1 .. Len(added) + 1
                 PROVE  /\ lines'[added'[n]].who = grades'[Len(grades') - Len(added') + n]
                        /\ \E k \in DOMAIN log' : log'[k] = added'[n]
      BY <1>6
    <2>1. CASE n = Len(added) + 1
      <3>1. Len(grades') - Len(added') + n = Len(grades) + 1
        BY <2>1, <1>6, <1>7
      <3>2. added'[n] = a /\ Len(log) + 1 \in DOMAIN log'
        BY <2>1, <1>5, <1>6
      <3> QED
        BY <3>1, <3>2, <1>4, <1>5, <1>7
    <2>2. CASE n # Len(added) + 1
      <3> DEFINE i == Len(grades) - Len(added) + n
      <3>1. n \in 1 .. Len(added)
        BY <2>2, <1>6
      <3>2. i \in 1 .. Len(grades) /\ Len(grades') - Len(added') + n = i
        BY <3>1, <1>2, <1>6, <1>7
      <3>3. /\ lines[added[n]].who = grades[i]
            /\ \E k \in DOMAIN log : log[k] = added[n]
        BY <3>1, <1>2, <1>6 DEF EachLineOnce
      <3> HIDE DEF i
      <3>4. added'[n] = added[n] /\ lines'[added[n]] = lines[added[n]]
        BY <3>1, <1>1, <1>6
      <3>5. PICK k \in 1 .. Len(log) : log[k] = added[n]
        BY <3>3, <1>5
      <3>6. k \in DOMAIN log' /\ log'[k] = added'[n]
        BY <3>4, <3>5, <1>5
      <3> QED
        BY <3>2, <3>3, <3>4, <3>6, <1>7
    <2> QED
      BY <2>1, <2>2
  <1>9. ~(piped' /\ nested') => Increasing(log') /\ Increasing(added')
    BY <1>1, <1>2, <1>4, <1>5, <1>6 DEF EachLineOnce
  <1>10. EachLineOnce'
    BY <1>8, <1>9 DEF EachLineOnce
  <1>11. FileGrows'
    <2>1. grades' # NoFile
      BY <1>7, NoFileIsNone
    <2>2. Len(added') <= Len(grades')
      BY <1>2, <1>6, <1>7
    <2> QED
      BY <2>1, <2>2 DEF FileGrows
  <1> QED
    BY <1>5, <1>6, <1>7, <1>10, <1>11 DEF EffectsOK

-----------------------------------------------------------------------------
(* Sorting.  Every set of natural numbers has a least one, which stands in *)
(* for induction below.                                                    *)
LEMMA NatLeast ==
  ASSUME NEW S, S \subseteq Nat, S # {}
  PROVE  \E x \in S : \A y \in S : x <= y
  <1> DEFINE R == OpToRel(<, Nat)
  <1>1. IsWellFoundedOn(R, Nat)
    BY NatLessThanWellFounded
  <1>2. \A x, y \in S : y < x => <<y, x>> \in R
    <2> SUFFICES ASSUME NEW x \in S, NEW y \in S, y < x PROVE <<y, x>> \in R
      OBVIOUS
    <2>1. <<y, x>> \in Nat \X Nat /\ <<y, x>>[1] = y /\ <<y, x>>[2] = x
      OBVIOUS
    <2>2. <<y, x>>[1] < <<y, x>>[2]
      BY <2>1
    <2>3. R = {ss \in Nat \X Nat : ss[1] < ss[2]}
      BY DEF OpToRel
    <2> QED
      BY <2>1, <2>2, <2>3
  <1> HIDE DEF R
  <1>3. PICK x \in S : \A y \in S : ~(<<y, x>> \in R)
    BY <1>1, WFMin
  <1>4. \A y \in S : ~(y < x)
    BY <1>2, <1>3
  <1>5. \A y \in S : x <= y
    BY <1>4
  <1> QED
    BY <1>5

(* What holds of 0 and passes from each number to the next one holds up to *)
(* the last; V is the set of the numbers of which it holds.                *)
LEMMA UpTo ==
  ASSUME NEW m \in Nat, NEW V, 0 \in V, \A k \in 1 .. m : k - 1 \in V => k \in V
  PROVE  \A k \in 0 .. m : k \in V
  <1> DEFINE bad == {k \in 0 .. m : k \notin V}
  <1> SUFFICES ASSUME bad # {} PROVE FALSE
    OBVIOUS
  <1>0. bad \subseteq Nat
    OBVIOUS
  <1> HIDE DEF bad
  <1>1. PICK k \in bad : \A y \in bad : k <= y
    BY <1>0, NatLeast
  <1> USE DEF bad
  <1>2. k # 0 /\ k \in 1 .. m
    OBVIOUS
  <1>3. k - 1 \in 0 .. m /\ k - 1 \notin bad
    BY <1>1, <1>2
  <1> QED
    BY <1>2, <1>3

(* A loop of m rounds that starts with base and makes of the value of one  *)
(* round that of the next is described by a function.                      *)
IsLoop(g, S, m, base, st) ==
    /\ g \in [0 .. m -> S] /\ g[0] = base
    /\ \A k \in 1 .. m : g[k] = st[<<g[k - 1], k>>]

LEMMA LoopExists ==
  ASSUME NEW S, NEW m \in Nat, NEW base \in S, NEW st \in [S \X (1 .. m) -> S]
  PROVE  \E g : IsLoop(g, S, m, base, st)
  <1> DEFINE Good(g, l) == /\ g \in [0 .. l -> S] /\ g[0] = base
                           /\ \A k \in 1 .. l : g[k] = st[<<g[k - 1], k>>]
             V == {l \in 0 .. m : \E g \in [0 .. l -> S] : Good(g, l)}
  <1>1. 0 \in V
    <2> DEFINE g == [i \in 0 .. 0 |-> base]
    <2>1. g \in [0 .. 0 -> S] /\ Good(g, 0)
      OBVIOUS
    <2> HIDE DEF g, Good
    <2> QED
      BY <2>1
  <1>2. ASSUME NEW l \in 1 .. m, l - 1 \in V
        PROVE  l \in V
    <2>1. PICK g \in [0 .. l - 1 -> S] : Good(g, l - 1)
      BY <1>2
    <2> DEFINE h == [i \in 0 .. l |-> IF i = l THEN st[<<g[l - 1], l>>] ELSE g[i]]
    <2>2. g[l - 1] \in S /\ <<g[l - 1], l>> \in S \X (1 .. m)
      BY <2>1
    <2>3. h \in [0 .. l -> S]
      BY <2>1, <2>2
    <2>4. h[0] = base
      BY <2>1
    <2>5. ASSUME NEW k \in 1 .. l
          PROVE  h[k] = st[<<h[k - 1], k>>]
      <3>0. k - 1 \in 0 .. l - 1 /\ k - 1 \in 0 .. l /\ k - 1 # l /\ k \in 0 .. l
        OBVIOUS
      <3>1. h[k - 1] = g[k - 1]
        BY <3>0
      <3>2. CASE k = l
        BY <3>0, <3>1, <3>2
      <3>3. CASE k # l
        <4>1. k \in 1 .. l - 1 /\ h[k] = g[k]
          BY <3>3
        <4> QED
          BY <2>1, <3>1, <4>1
      <3> QED
        BY <3>2, <3>3
    <2> HIDE DEF h
    <2>6. Good(h, l)
      BY <2>3, <2>4, <2>5
    <2> QED
      BY <2>3, <2>6
  <1>3. m \in V
    <2> HIDE DEF V
    <2>1. \A l \in 1 .. m : l - 1 \in V => l \in V
      BY <1>2
    <2> QED
      BY <1>1, <2>1, UpTo
  <1> QED
    BY <1>3 DEF IsLoop

-----------------------------------------------------------------------------
(* Arrangements of the students whose grades are gr: each of them once.    *)
Arranged(gr, s) ==
    /\ s \in [1 .. Len(gr) -> 1 .. Len(gr)]
    /\ \A i, j \in 1 .. Len(gr) : i # j => s[i] # s[j]

(* Those with the same grade are as in the file.                           *)
Stable(gr, flag, s) ==
    \A i, j \in 1 .. Len(gr) :
        i < j /\ ~Wrong(gr, flag, s[i], s[j]) /\ ~Wrong(gr, flag, s[j], s[i]) => s[i] < s[j]

(* What stands behind k is where it belongs.                               *)
Settled(gr, flag, s, k) ==
    \A i, j \in 1 .. Len(gr) : i < j /\ k < j => ~Wrong(gr, flag, s[i], s[j])

(* The inner loop carries the one that belongs behind all it has met.      *)
Carried(gr, flag, s, j) == \A i \in 1 .. j : ~Wrong(gr, flag, s[i], s[j + 1])

(* The order of the grades is a weak order.                                *)
LEMMA WrongOrder ==
  ASSUME NEW gr \in Seq(Int), NEW flag
  PROVE  /\ \A a, b \in 1 .. Len(gr) : Wrong(gr, flag, a, b) => ~Wrong(gr, flag, b, a)
         /\ \A a, b, c \in 1 .. Len(gr) :
              ~Wrong(gr, flag, a, b) /\ ~Wrong(gr, flag, b, c) => ~Wrong(gr, flag, a, c)
  <1>1. \A a \in 1 .. Len(gr) : gr[a] \in Int
    BY ElementOfSeq
  <1>2. \A a, b \in 1 .. Len(gr) : Wrong(gr, flag, a, b) => ~Wrong(gr, flag, b, a)
    BY <1>1 DEF Wrong
  <1>3. ASSUME NEW a \in 1 .. Len(gr), NEW b \in 1 .. Len(gr), NEW c \in 1 .. Len(gr),
               ~Wrong(gr, flag, a, b), ~Wrong(gr, flag, b, c)
        PROVE  ~Wrong(gr, flag, a, c)
    <2>1. gr[a] \in Int /\ gr[b] \in Int /\ gr[c] \in Int
      BY <1>1
    <2>2. CASE flag = 1
      <3>1. ~(gr[a] > gr[b]) /\ ~(gr[b] > gr[c])
        BY <1>3, <2>2 DEF Wrong
      <3>2. ~(gr[a] > gr[c])
        BY <2>1, <3>1
      <3> QED
        BY <2>2, <3>2 DEF Wrong
    <2>3. CASE flag # 1
      <3>1. ~(gr[a] < gr[b]) /\ ~(gr[b] < gr[c])
        BY <1>3, <2>3 DEF Wrong
      <3>2. ~(gr[a] < gr[c])
        BY <2>1, <3>1
      <3> QED
        BY <2>3, <3>2 DEF Wrong
    <2> QED
      BY <2>2, <2>3
  <1> QED
    BY <1>2, <1>3

(* One turn of the inner loop.                                             *)
LEMMA SwapKeeps ==
  ASSUME NEW gr \in Seq(Int), NEW flag, NEW s, Arranged(gr, s), Stable(gr, flag, s),
         NEW k \in Nat, Settled(gr, flag, s, k),
         NEW j \in 1 .. Len(gr) - 1, j < k, Carried(gr, flag, s, j - 1)
  PROVE  LET t == Swapped(gr, flag, s, j)
         IN  Arranged(gr, t) /\ Stable(gr, flag, t) /\ Settled(gr, flag, t, k) /\ Carried(gr, flag, t, j)
  <1> DEFINE n == Len(gr)
             W(a, b) == Wrong(gr, flag, a, b)
             t == Swapped(gr, flag, s, j)
  <1>1. n \in Nat /\ s \in [1 .. n -> 1 .. n] /\ j \in 1 .. n /\ j + 1 \in 1 .. n
        /\ \A a, b \in 1 .. n : a # b => s[a] # s[b]
    BY DEF Arranged
  <1>2. /\ \A a, b \in 1 .. n : W(a, b) => ~W(b, a)
        /\ \A a, b, c \in 1 .. n : ~W(a, b) /\ ~W(b, c) => ~W(a, c)
    BY WrongOrder
  <1>3. \A a \in 1 .. n : s[a] \in 1 .. n
    BY <1>1
  <1>4. \A a \in 1 .. j - 1 : ~W(s[a], s[j])
    BY <1>1 DEF Carried
  <1>5. CASE W(s[j], s[j + 1])
    <2>1. t = [s EXCEPT ![j] = s[j + 1], ![j + 1] = s[j]]
      BY <1>5 DEF Swapped
    <2> HIDE DEF t, n, W
    <2>2. /\ t \in [1 .. n -> 1 .. n] /\ t[j] = s[j + 1] /\ t[j + 1] = s[j]
          /\ \A a \in 1 .. n : a # j /\ a # j + 1 => t[a] = s[a]
      BY <2>1, <1>1, <1>3
    <2>3. \A a, b \in 1 .. n : a # b => t[a] # t[b]
      BY <2>2, <1>1
    <2>4. Arranged(gr, t)
      BY <2>2, <2>3 DEF Arranged, n
    <2>5. ASSUME NEW a \in 1 .. n, NEW b \in 1 .. n, a < b, ~W(t[a], t[b]), ~W(t[b], t[a])
          PROVE  t[a] < t[b]
      <3>1. \A c, d \in 1 .. n : c < d /\ ~W(s[c], s[d]) /\ ~W(s[d], s[c]) => s[c] < s[d]
        BY DEF Stable, n, W
      <3>2. CASE a = j /\ b = j + 1
        BY <3>2, <2>2, <2>5, <1>5
      <3>3. CASE a \notin {j, j + 1} /\ b \in {j, j + 1}
        <4>0. a < b /\ j \in 1 .. n
          BY <2>5, <1>1
        <4>1. a < j /\ a < j + 1
          BY <3>3, <4>0
        <4>2. PICK d \in {j, j + 1} : t[b] = s[d] /\ a < d
          BY <3>3, <4>1, <2>2
        <4>3. t[a] = s[a] /\ d \in 1 .. n
          BY <3>3, <4>2, <2>2, <1>1
        <4> QED
          BY <3>1, <4>2, <4>3, <2>5
      <3>4. CASE a \in {j, j + 1} /\ b \notin {j, j + 1}
        <4>0. a < b /\ j \in 1 .. n
          BY <2>5, <1>1
        <4>1. j < b /\ j + 1 < b
          BY <3>4, <4>0
        <4>2. PICK d \in {j, j + 1} : t[a] = s[d] /\ d < b
          BY <3>4, <4>1, <2>2
        <4>3. t[b] = s[b] /\ d \in 1 .. n
          BY <3>4, <4>2, <2>2, <1>1
        <4> QED
          BY <3>1, <4>2, <4>3, <2>5
      <3>5. CASE a \notin {j, j + 1} /\ b \notin {j, j + 1}
        BY <3>1, <3>5, <2>2, <2>5
      <3>6. ~(a = j + 1 /\ b = j)
        BY <2>5, <1>1
      <3> QED
        BY <3>2, <3>3, <3>4, <3>5, <3>6, <2>5
    <2>6. Stable(gr, flag, t)
      BY <2>5 DEF Stable, n, W
    <2>7. ASSUME NEW a \in 1 .. n, NEW b \in 1 .. n, a < b, k < b
          PROVE  ~W(t[a], t[b])
      <3>1. \A c, d \in 1 .. n : c < d /\ k < d => ~W(s[c], s[d])
        BY DEF Settled, n, W
      <3>2. b # j /\ b # j + 1 /\ j < b /\ j + 1 < b
        BY <2>7, <1>1
      <3>3. t[b] = s[b]
        BY <3>2, <2>2
      <3>4. PICK c \in 1 .. n : t[a] = s[c] /\ c < b
        BY <2>2, <2>7, <3>2, <1>1
      <3> QED
        BY <3>1, <3>3, <3>4, <2>7
    <2>8. Settled(gr, flag, t, k)
      BY <2>7 DEF Settled, n, W
    <2>9. ASSUME NEW a \in 1 .. j
          PROVE  ~W(t[a], t[j + 1])
      <3>1. CASE a = j
        BY <3>1, <2>2, <1>1, <1>2, <1>3, <1>5
      <3>2. CASE a # j
        <4>1. a \in 1 .. j - 1 /\ a \in 1 .. n /\ a # j + 1
          BY <3>2, <1>1
        <4> QED
          BY <4>1, <3>2, <2>2, <1>4
      <3> QED
        BY <3>1, <3>2
    <2>10. Carried(gr, flag, t, j)
      BY <2>9 DEF Carried, W
    <2> QED
      BY <2>4, <2>6, <2>8, <2>10 DEF t
  <1>6. CASE ~W(s[j], s[j + 1])
    <2>1. t = s
      BY <1>6 DEF Swapped
    <2>2. ASSUME NEW a \in 1 .. j
          PROVE  ~W(s[a], s[j + 1])
      <3> HIDE DEF W, n
      <3>1. CASE a = j
        BY <3>1, <1>6
      <3>2. CASE a # j
        <4>1. a \in 1 .. j - 1 /\ a \in 1 .. n
          BY <3>2, <1>1
        <4>2. s[a] \in 1 .. n /\ s[j] \in 1 .. n /\ s[j + 1] \in 1 .. n
          BY <4>1, <1>1, <1>3
        <4> QED
          BY <4>1, <4>2, <1>2, <1>4, <1>6
      <3> QED
        BY <3>1, <3>2
    <2>3. Carried(gr, flag, s, j)
      BY <2>2 DEF Carried
    <2> QED
      BY <2>1, <2>3
  <1> QED
    BY <1>5, <1>6

(* The inner loop, round by round.                                         *)
IsPass(gr, p, flag, s, m) ==
    /\ p[0] = s /\ p[m] = BubblePass(gr, flag, s, m)
    /\ \A j \in 1 .. m : p[j] = Swapped(gr, flag, p[j - 1], j)

LEMMA PassRounds ==
  ASSUME NEW gr \in Seq(Int), NEW flag, NEW s, Arranged(gr, s),
         NEW m \in Nat, m < Len(gr)
  PROVE  \E p : IsPass(gr, p, flag, s, m)
  <1> DEFINE S == [1 .. Len(gr) -> 1 .. Len(gr)]
             st == [x \in S \X (1 .. m) |-> Swapped(gr, flag, x[1], x[2])]
             Loop(q) == q = [j \in 0 .. m |->
                               IF j = 0 THEN s ELSE Swapped(gr, flag, q[j - 1], j)]
  <1>1. s \in S /\ Len(gr) \in Nat
    BY DEF Arranged
  <1>2. ASSUME NEW u \in S, NEW j \in 1 .. m
        PROVE  Swapped(gr, flag, u, j) \in S
    <2>1. j \in 1 .. Len(gr) /\ j + 1 \in 1 .. Len(gr)
      BY <1>1
    <2>2. u[j] \in 1 .. Len(gr) /\ u[j + 1] \in 1 .. Len(gr)
      BY <2>1
    <2>3. [u EXCEPT ![j] = u[j + 1], ![j + 1] = u[j]] \in S
      BY <2>1, <2>2
    <2> QED
      BY <2>3 DEF Swapped
  <1>3. st \in [S \X (1 .. m) -> S]
    BY <1>2
  <1>4. \A u \in S, j \in 1 .. m : st[<<u, j>>] = Swapped(gr, flag, u, j)
    OBVIOUS
  <1> HIDE DEF S, st
  <1>5. PICK g : /\ g \in [0 .. m -> S] /\ g[0] = s
                 /\ \A j \in 1 .. m : g[j] = st[<<g[j - 1], j>>]
    <2>1. \E g : IsLoop(g, S, m, s, st)
      BY <1>1, <1>3, LoopExists
    <2> QED
      BY <2>1 DEF IsLoop
  <1>6. \A j \in 1 .. m : g[j] = Swapped(gr, flag, g[j - 1], j)
    <2> SUFFICES ASSUME NEW j \in 1 .. m PROVE g[j] = Swapped(gr, flag, g[j - 1], j)
      OBVIOUS
    <2>1. j - 1 \in 0 .. m /\ g[j - 1] \in S
      BY <1>5
    <2> QED
      BY <2>1, <1>4, <1>5
  <1>7. Loop(g)
    <2> DEFINE h == [j \in 0 .. m |-> IF j = 0 THEN s ELSE Swapped(gr, flag, g[j - 1], j)]
    <2>1. \A j \in 0 .. m : g[j] = h[j]
      BY <1>5, <1>6
    <2>2. DOMAIN g = 0 .. m /\ DOMAIN h = 0 .. m /\ g = [j \in DOMAIN g |-> g[j]]
          /\ h = [j \in DOMAIN h |-> h[j]]
      BY <1>5
    <2> QED
      BY <2>1, <2>2
  <1> DEFINE p == CHOOSE q : Loop(q)
  <1>8. BubblePass(gr, flag, s, m) = p[m]
    BY DEF BubblePass
  <1> HIDE DEF p
  <1>9. Loop(p)
    BY <1>7 DEF p
  <1>10. /\ p[0] = s
         /\ \A j \in 1 .. m : p[j] = Swapped(gr, flag, p[j - 1], j)
    <2>1. \A j \in 0 .. m : p[j] = IF j = 0 THEN s ELSE Swapped(gr, flag, p[j - 1], j)
      BY <1>9
    <2> HIDE DEF Loop
    <2> QED
      BY <2>1
  <1> QED
    BY <1>8, <1>10 DEF IsPass

(* What the inner loop leaves behind it.                                   *)
LEMMA PassKeeps ==
  ASSUME NEW gr \in Seq(Int), NEW flag, NEW s, Arranged(gr, s), Stable(gr, flag, s),
         NEW m \in Nat, m < Len(gr), Settled(gr, flag, s, m + 1)
  PROVE  LET t == BubblePass(gr, flag, s, m)
         IN  Arranged(gr, t) /\ Stable(gr, flag, t) /\ Settled(gr, flag, t, m)
  <1>1. PICK p : /\ p[0] = s /\ p[m] = BubblePass(gr, flag, s, m)
                 /\ \A j \in 1 .. m : p[j] = Swapped(gr, flag, p[j - 1], j)
    <2>1. \E p : IsPass(gr, p, flag, s, m)
      BY PassRounds
    <2> QED
      BY <2>1 DEF IsPass
  <1> DEFINE Inv(j) == /\ Arranged(gr, p[j]) /\ Stable(gr, flag, p[j])
                       /\ Settled(gr, flag, p[j], m + 1) /\ Carried(gr, flag, p[j], j)
             V == {j \in 0 .. m : Inv(j)}
  <1>2. 0 \in V
    BY <1>1 DEF Carried
  <1>3. ASSUME NEW j \in 1 .. m, j - 1 \in V
        PROVE  j \in V
    <2>1. Inv(j - 1)
      BY <1>3
    <2>2. j \in 1 .. Len(gr) - 1 /\ j < m + 1 /\ m + 1 \in Nat
      OBVIOUS
    <2>3. p[j] = Swapped(gr, flag, p[j - 1], j)
      BY <1>1
    <2>4. Inv(j)
      BY <2>1, <2>2, <2>3, SwapKeeps
    <2> QED
      BY <2>4
  <1>4. Inv(m)
    <2> HIDE DEF V, Inv
    <2>1. \A j \in 1 .. m : j - 1 \in V => j \in V
      BY <1>3
    <2>2. \A j \in 0 .. m : j \in V
      BY <1>2, <2>1, UpTo
    <2>3. m \in V
      BY <2>2
    <2> QED
      BY <2>3 DEF V
  <1>5. Settled(gr, flag, p[m], m)
    <2> SUFFICES ASSUME NEW i \in 1 .. Len(gr), NEW j \in 1 .. Len(gr),
                        i < j, m < j
                 PROVE  ~Wrong(gr, flag, p[m][i], p[m][j])
      BY DEF Settled
    <2>1. CASE j = m + 1
      <3>1. i \in 1 .. m
        BY <2>1
      <3> QED
        BY <2>1, <3>1, <1>4 DEF Carried
    <2>2. CASE j # m + 1
      <3>1. m + 1 < j
        BY <2>2
      <3> QED
        BY <3>1, <1>4 DEF Settled
    <2> QED
      BY <2>1, <2>2
  <1> QED
    BY <1>1, <1>4, <1>5

(* Round i of the outer loop settles one student more.                     *)
InOrder(gr, flag, s, k) == Arranged(gr, s) /\ Stable(gr, flag, s) /\ Settled(gr, flag, s, k)

LEMMA NumbersInOrder ==
  ASSUME NEW gr \in Seq(Int), NEW flag
  PROVE  InOrder(gr, flag, Numbers(Len(gr)), Len(gr))
  <1>1. Numbers(Len(gr)) = [i \in 1 .. Len(gr) |-> i]
    BY DEF Numbers
  <1>2. Arranged(gr, Numbers(Len(gr)))
    BY <1>1 DEF Arranged
  <1>3. Stable(gr, flag, Numbers(Len(gr)))
    BY <1>1 DEF Stable
  <1>4. Settled(gr, flag, Numbers(Len(gr)), Len(gr))
    BY DEF Settled
  <1> QED
    BY <1>2, <1>3, <1>4 DEF InOrder

LEMMA RoundsKeep ==
  ASSUME NEW gr \in Seq(Int), NEW flag, NEW m \in Nat, m < Len(gr),
         NEW q, q[0] = Numbers(Len(gr)),
         \A i \in 1 .. m : InOrder(gr, flag, q[i - 1], Len(gr) - (i - 1)) =>
             q[i] = BubblePass(gr, flag, q[i - 1], Len(gr) - i)
  PROVE  \A i \in 0 .. m : InOrder(gr, flag, q[i], Len(gr) - i)
  <1> DEFINE n == Len(gr)
             V == {i \in 0 .. m : InOrder(gr, flag, q[i], n - i)}
  <1>0. n \in Nat /\ n - 0 = n
    OBVIOUS
  <1>1. 0 \in V
    BY <1>0, NumbersInOrder
  <1>2. ASSUME NEW i \in 1 .. m, i - 1 \in V
        PROVE  i \in V
    <2>1. InOrder(gr, flag, q[i - 1], n - (i - 1)) /\ q[i] = BubblePass(gr, flag, q[i - 1], n - i)
      BY <1>2
    <2>2. n - i \in Nat /\ n - i < Len(gr) /\ n - (i - 1) = (n - i) + 1
      BY <1>0
    <2>3. InOrder(gr, flag, q[i], n - i)
      <3> DEFINE k == n - i
                 s == q[i - 1]
      <3> HIDE DEF k, s
      <3>1. /\ k \in Nat /\ k < Len(gr) /\ Arranged(gr, s) /\ Stable(gr, flag, s)
            /\ Settled(gr, flag, s, k + 1)
        BY <2>1, <2>2 DEF k, s, InOrder
      <3>2. LET t == BubblePass(gr, flag, s, k)
            IN  Arranged(gr, t) /\ Stable(gr, flag, t) /\ Settled(gr, flag, t, k)
        BY <3>1, PassKeeps
      <3> QED
        BY <2>1, <3>2 DEF k, s, InOrder
    <2> QED
      BY <2>3
  <1> HIDE DEF V
  <1>3. \A i \in 1 .. m : i - 1 \in V => i \in V
    BY <1>2
  <1>4. \A i \in 0 .. m : i \in V
    BY <1>1, <1>3, UpTo
  <1> QED
    BY <1>4 DEF V

(* Bubble sort sorts, and leaves those with the same grade in their order. *)
LEMMA BubbleSorts ==
  ASSUME NEW gr \in Seq(Int), NEW flag
  PROVE  InOrder(gr, flag, sortByGrade(gr, flag), 1)
  <1> DEFINE n == Len(gr)
  <1>0. n \in Nat
    OBVIOUS
  <1>1. InOrder(gr, flag, Numbers(Len(gr)), n)
    BY NumbersInOrder
  <1>2. CASE n = 0
    <2>1. sortByGrade(gr, flag) = Numbers(Len(gr))
      BY <1>2 DEF sortByGrade
    <2>2. InOrder(gr, flag, Numbers(Len(gr)), 1)
      BY <1>1, <1>2 DEF InOrder, Settled
    <2> QED
      BY <2>1, <2>2
  <1>3. CASE n # 0
    <2> DEFINE m == n - 1
               T == [1 .. n -> 1 .. n]
               st == [x \in T \X (1 .. m) |->
                         IF InOrder(gr, flag, x[1], n - (x[2] - 1))
                         THEN BubblePass(gr, flag, x[1], n - x[2]) ELSE Numbers(Len(gr))]
               Loop(q) == q = [i \in 0 .. m |-> IF i = 0 THEN Numbers(Len(gr))
                                       ELSE BubblePass(gr, flag, q[i - 1], n - i)]
    <2>0. m \in Nat /\ m < Len(gr) /\ n - m = 1
      BY <1>0, <1>3
    <2>1. Numbers(Len(gr)) \in T
      BY <1>1 DEF InOrder, Arranged
    <2>2. ASSUME NEW u \in T, NEW i \in 1 .. m, InOrder(gr, flag, u, n - (i - 1))
          PROVE  BubblePass(gr, flag, u, n - i) \in T
      <3>1. n - i \in Nat /\ n - i < Len(gr) /\ n - (i - 1) = (n - i) + 1
        BY <1>0
      <3> DEFINE k == n - i
      <3> HIDE DEF k
      <3>2. /\ k \in Nat /\ k < Len(gr) /\ Arranged(gr, u) /\ Stable(gr, flag, u)
            /\ Settled(gr, flag, u, k + 1)
        BY <2>2, <3>1 DEF k, InOrder
      <3>3. Arranged(gr, BubblePass(gr, flag, u, k))
        BY <3>2, PassKeeps
      <3> QED
        BY <3>3 DEF k, Arranged
    <2>3. st \in [T \X (1 .. m) -> T]
      BY <2>1, <2>2
    <2>4. \A u \in T, i \in 1 .. m :
             st[<<u, i>>] = IF InOrder(gr, flag, u, n - (i - 1))
                            THEN BubblePass(gr, flag, u, n - i) ELSE Numbers(Len(gr))
      OBVIOUS
    <2>5. PICK g : /\ g \in [0 .. m -> T] /\ g[0] = Numbers(Len(gr))
                   /\ \A i \in 1 .. m : g[i] = st[<<g[i - 1], i>>]
      <3> HIDE DEF T, st, m
      <3>1. \E g : IsLoop(g, T, m, Numbers(Len(gr)), st)
        BY <2>0, <2>1, <2>3, LoopExists
      <3> QED
        BY <3>1 DEF IsLoop
    <2>6. \A i \in 1 .. m : InOrder(gr, flag, g[i - 1], n - (i - 1)) =>
             g[i] = BubblePass(gr, flag, g[i - 1], n - i)
      <3> SUFFICES ASSUME NEW i \in 1 .. m, InOrder(gr, flag, g[i - 1], n - (i - 1))
                   PROVE  g[i] = BubblePass(gr, flag, g[i - 1], n - i)
        OBVIOUS
      <3>1. i - 1 \in 0 .. m /\ g[i - 1] \in T
        BY <2>5
      <3> HIDE DEF T, st
      <3> QED
        BY <3>1, <2>4, <2>5
    <2>7. \A i \in 0 .. m : InOrder(gr, flag, g[i], n - i)
      <3> HIDE DEF m
      <3> QED
        BY <2>0, <2>5, <2>6, RoundsKeep
    <2>8. Loop(g)
      <3> DEFINE h == [i \in 0 .. m |-> IF i = 0 THEN Numbers(Len(gr))
                                   ELSE BubblePass(gr, flag, g[i - 1], n - i)]
      <3>1. ASSUME NEW i \in 1 .. m
            PROVE  g[i] = BubblePass(gr, flag, g[i - 1], n - i)
        <4>1. i - 1 \in 0 .. m
          OBVIOUS
        <4> QED
          BY <4>1, <2>6, <2>7
      <3>2. \A i \in 0 .. m : g[i] = h[i]
        <4>1. g[0] = h[0]
          BY <2>0, <2>5
        <4>2. \A i \in 1 .. m : g[i] = h[i]
          BY <3>1
        <4>3. \A i \in 0 .. m : i = 0 \/ i \in 1 .. m
          BY <2>0
        <4> HIDE DEF h
        <4> QED
          BY <4>1, <4>2, <4>3
      <3>3. DOMAIN g = 0 .. m /\ DOMAIN h = 0 .. m /\ g = [i \in DOMAIN g |-> g[i]]
            /\ h = [i \in DOMAIN h |-> h[i]]
        <4>1. g \in [0 .. m -> T]
          <5> HIDE DEF T, st, m
          <5> QED
            BY <2>5
        <4>2. DOMAIN g = 0 .. m /\ g = [i \in DOMAIN g |-> g[i]]
          BY <4>1
        <4>3. DOMAIN h = 0 .. m
          OBVIOUS
        <4>4. h = [i \in DOMAIN h |-> h[i]]
          OBVIOUS
        <4> QED
          BY <4>2, <4>3, <4>4
      <3> QED
        BY <3>2, <3>3
    <2> DEFINE b == CHOOSE q : Loop(q)
    <2>9. sortByGrade(gr, flag) = b[m]
      BY <1>3 DEF sortByGrade
    <2> HIDE DEF b
    <2>10. Loop(b)
      BY <2>8 DEF b
    <2>11. b[0] = Numbers(Len(gr)) /\ \A i \in 1 .. m : b[i] = BubblePass(gr, flag, b[i - 1], n - i)
      <3>1. \A i \in 0 .. m : b[i] = IF i = 0 THEN Numbers(Len(gr))
                                    ELSE BubblePass(gr, flag, b[i - 1], n - i)
        BY <2>10
      <3> HIDE DEF Loop
      <3> QED
        BY <2>0, <3>1
    <2>12. \A i \in 0 .. m : InOrder(gr, flag, b[i], n - i)
      <3> HIDE DEF m
      <3> QED
        BY <2>0, <2>11, RoundsKeep
    <2> QED
      BY <2>0, <2>9, <2>12
  <1> QED
    BY <1>2, <1>3

(* The places at which students of the file are shown.                     *)
Own(e) == {k \in DOMAIN e : e[k][1] # Junk}

(* All of them are shown, as the arrangement s has them.                   *)
AllShown(e, s) ==
    /\ {e[k] : k \in Own(e)} = {Entry(i) : i \in 1 .. Len(grades)}
    /\ \A k \in Own(e) : s[k] \in 1 .. Len(grades) /\ e[k][1] = s[k]

(* An arrangement has a place for every student, so that what is printed   *)
(* are all students of the file, each of them once, and Junk.              *)
LEMMA ArrangedShows ==
  ASSUME grades \in Seq(Rows), NEW gr \in Seq(Int), Len(grades) <= Len(gr),
         NEW s, Arranged(gr, s), NEW e, e = printStudents(s)
  PROVE  DOMAIN e = 1 .. Len(gr) /\ AllShown(e, s)
  <1> DEFINE n == Len(grades)
             N == Len(gr)
  <1>1. n \in Nat /\ N \in Nat /\ n <= N /\ s \in [1 .. N -> 1 .. N]
        /\ \A a, b \in 1 .. N : s[a] = s[b] => a = b
    BY DEF Arranged
  <1>2. \A i \in 1 .. N : \E k \in 1 .. N : s[k] = i
    <2>1. IsFiniteSet(1 .. N)
      BY <1>1, FS_Interval
    <2> HIDE DEF n, N
    <2>2. s \in Injection(1 .. N, 1 .. N)
      BY <1>1 DEF Injection, IsInjective
    <2>3. s \in Surjection(1 .. N, 1 .. N)
      BY <2>1, <2>2, FS_Injection
    <2> QED
      BY <2>3 DEF Surjection
  <1> DEFINE own == Own(e)
  <1>3. e = [k \in 1 .. N |-> IF s[k] <= n THEN Entry(s[k]) ELSE <<Junk, 0>>]
    BY <1>1 DEF printStudents
  <1> HIDE DEF n, N
  <1>4. DOMAIN e = 1 .. N
        /\ \A k \in 1 .. N : e[k] = IF s[k] <= n THEN Entry(s[k]) ELSE <<Junk, 0>>
    BY <1>3
  <1>5. \A k \in 1 .. N : s[k] \in 1 .. N
    BY <1>1
  <1>6. ASSUME NEW k \in 1 .. N, s[k] <= n
        PROVE  k \in own /\ s[k] \in 1 .. n /\ e[k] = Entry(s[k]) /\ e[k][1] = s[k]
    <2>1. e[k] = Entry(s[k]) /\ s[k] \in 1 .. n
      BY <1>1, <1>4, <1>5, <1>6
    <2>2. e[k][1] = s[k]
      BY <2>1 DEF Entry
    <2>3. s[k] # Junk
      BY <1>1, <2>1 DEF Junk
    <2> QED
      BY <1>4, <2>1, <2>2, <2>3 DEF Own
  <1>7. ASSUME NEW k \in 1 .. N, ~(s[k] <= n)
        PROVE  k \notin own
    BY <1>4, <1>7 DEF Own
  <1>8. \A k \in own : k \in 1 .. N /\ s[k] \in 1 .. n /\ e[k] = Entry(s[k])
                       /\ e[k][1] = s[k]
    <2>1. \A k \in own : k \in 1 .. N
      BY <1>4 DEF Own
    <2> HIDE DEF own
    <2> QED
      BY <1>6, <1>7, <2>1
  <1>9. \A i \in 1 .. n : \E k \in own : e[k] = Entry(i)
    <2> HIDE DEF own
    <2> SUFFICES ASSUME NEW i \in 1 .. n PROVE \E k \in own : e[k] = Entry(i)
      OBVIOUS
    <2>1. PICK k \in 1 .. N : s[k] = i
      BY <1>1, <1>2
    <2>2. s[k] <= n
      BY <1>1, <2>1
    <2> QED
      BY <1>6, <2>1, <2>2
  <1> HIDE DEF own
  <1>10. {e[k] : k \in own} = {Entry(i) : i \in 1 .. n}
    <2>1. {e[k] : k \in own} \subseteq {Entry(i) : i \in 1 .. n}
      BY <1>8
    <2>2. {Entry(i) : i \in 1 .. n} \subseteq {e[k] : k \in own}
      BY <1>9
    <2> QED
      BY <2>1, <2>2
  <1> QED
    BY <1>4, <1>8, <1>10 DEF own, n, N, AllShown

(* The lines that sortName prints are students of the file only.           *)
LEMMA NamesShown ==
  ASSUME grades \in Seq(Rows), NEW s \in [1 .. Len(grades) -> 1 .. Len(grades)]
  PROVE  Entries(s) = printStudents(s)
  <1> DEFINE n == Len(grades)
  <1>1. DOMAIN s = 1 .. n /\ \A k \in 1 .. n : s[k] <= n
    BY SMT
  <1>2. \A k \in 1 .. n : (IF s[k] <= n THEN Entry(s[k]) ELSE <<Junk, 0>>) = Entry(s[k])
    BY <1>1
  <1> HIDE DEF n
  <1> QED
    BY <1>1, <1>2 DEF Entries, printStudents, n

(* The grades that are sorted begin with those of the file.                *)
LEMMA StudentsRead ==
  ASSUME grades \in Seq(Rows), NEW g \in readStudentsFromFile
  PROVE  /\ g \in Seq(Int) /\ Len(grades) <= Len(g)
         /\ \A i \in 1 .. Len(grades) : g[i] = grades[i].grade /\ g[i] \in Int
  <1> DEFINE n == Len(grades)
  <1>1. n \in Nat /\ \A i \in 1 .. n : grades[i].grade \in Int
    <2>1. \A i \in 1 .. n : grades[i] \in Rows
      BY ElementOfSeq
    <2> QED
      BY <2>1 DEF Rows
  <1>2. Grades \in Seq(Int) /\ Len(Grades) = n
        /\ \A i \in 1 .. n : Grades[i] = grades[i].grade
    BY <1>1 DEF Grades
  <1>3. PICK h \in Seq(Int) : g = Grades \o h
    <2>1. <<>> \in Seq(Int) /\ Leftovers \subseteq Seq(Int)
      BY RowsAssumption
    <2> QED
      BY <2>1 DEF readStudentsFromFile
  <1> HIDE DEF n
  <1>4. g \in Seq(Int) /\ n <= Len(g) /\ \A i \in 1 .. n : g[i] = Grades[i]
    BY <1>1, <1>2, <1>3
  <1> QED
    BY <1>1, <1>2, <1>4 DEF n

(* What sorting by grade shows: rising with flag 1 and falling with 0.     *)
AllInOrder(e, flag) ==
    /\ {e[k] : k \in Own(e)} = {Entry(i) : i \in 1 .. Len(grades)}
    /\ \A i, j \in Own(e) : i < j =>
          \/ IF flag = 1 THEN grades[e[i][1]].grade < grades[e[j][1]].grade
                         ELSE grades[e[i][1]].grade > grades[e[j][1]].grade
          \/ /\ grades[e[i][1]].grade = grades[e[j][1]].grade
             /\ e[i][1] < e[j][1]

LEMMA GradesShown ==
  ASSUME grades \in Seq(Rows), NEW g \in readStudentsFromFile, NEW flag \in {0, 1},
         NEW e, e = printStudents(sortByGrade(g, flag))
  PROVE  AllInOrder(e, flag)
  <1> DEFINE n == Len(grades)
             s == sortByGrade(g, flag)
             own == Own(e)
             before(a, b) == IF flag = 1 THEN grades[a].grade < grades[b].grade
                                         ELSE grades[a].grade > grades[b].grade
  <1>1. /\ g \in Seq(Int) /\ n <= Len(g)
        /\ \A i \in 1 .. n : g[i] = grades[i].grade /\ g[i] \in Int
    BY StudentsRead
  <1>2. InOrder(g, flag, s, 1)
    BY <1>1, BubbleSorts
  <1>3. /\ {e[k] : k \in own} = {Entry(i) : i \in 1 .. n}
        /\ \A k \in own : k \in 1 .. Len(g) /\ s[k] \in 1 .. n /\ e[k][1] = s[k]
    <2>1. Arranged(g, s) /\ e = printStudents(s)
      BY <1>2 DEF InOrder
    <2> HIDE DEF s
    <2>2. DOMAIN e = 1 .. Len(g) /\ AllShown(e, s)
      BY <1>1, <2>1, ArrangedShows
    <2> QED
      BY <2>2 DEF AllShown, Own
  <1> HIDE DEF own, s, n
  <1>4. ASSUME NEW i \in own, NEW j \in own, i < j
        PROVE  \/ before(e[i][1], e[j][1])
               \/ grades[e[i][1]].grade = grades[e[j][1]].grade /\ e[i][1] < e[j][1]
    <2> DEFINE a == s[i]
               b == s[j]
    <2>1. /\ i \in 1 .. Len(g) /\ j \in 1 .. Len(g) /\ a \in 1 .. n /\ b \in 1 .. n
          /\ e[i][1] = a /\ e[j][1] = b
      BY <1>3
    <2>2. 1 < j
      BY <1>4, <2>1
    <2>3. ~Wrong(g, flag, a, b) /\ (~Wrong(g, flag, b, a) => a < b)
      BY <1>2, <1>4, <2>1, <2>2 DEF InOrder, Stable, Settled
    <2> HIDE DEF a, b
    <2>4. /\ g[a] = grades[a].grade /\ g[b] = grades[b].grade
          /\ grades[a].grade \in Int /\ grades[b].grade \in Int
      BY <1>1, <2>1
    <2>5. \/ before(a, b)
          \/ grades[a].grade = grades[b].grade /\ a < b
      <3> DEFINE x == grades[a].grade
                 y == grades[b].grade
      <3>1. g[a] = x /\ g[b] = y /\ x \in Int /\ y \in Int
        BY <2>4
      <3> HIDE DEF x, y
      <3>2. CASE flag = 1
        <4>1. ~(x > y) /\ (~(y > x) => a < b)
          BY <2>3, <3>1, <3>2 DEF Wrong
        <4> QED
          BY <3>1, <3>2, <4>1 DEF x, y
      <3>3. CASE flag = 0
        <4>1. ~(x < y) /\ (~(y < x) => a < b)
          BY <2>3, <3>1, <3>3 DEF Wrong
        <4> QED
          BY <3>1, <3>3, <4>1 DEF x, y
      <3> QED
        BY <3>2, <3>3
    <2> QED
      BY <2>1, <2>5
  <1> QED
    BY <1>3, <1>4 DEF own, s, n, AllInOrder

(* What is shown after sorting, for each of the four answers.              *)
LEMMA SortShows ==
  ASSUME grades \in Seq(Rows), NEW choice \in {"1", "2", "3", "4"},
         NEW e \in Sorted(choice), grades' = grades,
         shown'.by = choice, shown'.entries = e
  PROVE  SortedShown'
  <1> DEFINE n == Len(grades)
             own == Own(e)
  <1>0. shown'.entries = e /\ shown'.by = choice /\ Len(grades') = n
    OBVIOUS
  <1>1. CASE choice \in {"1", "2"}
    <2>1. PICK s \in sortName(choice = "1") : e = Entries(s)
      BY <1>1 DEF Sorted
    <2>2. /\ n \in Nat /\ s \in [1 .. n -> 1 .. n]
          /\ \A i, j \in 1 .. n : i < j =>
               /\ s[i] # s[j]
               /\ IF choice = "1" THEN ~Before(s[j], s[i]) ELSE ~Before(s[i], s[j])
      BY <2>1 DEF sortName
    <2>3. \A i, j \in 1 .. n : i # j => s[i] # s[j]
      <3> SUFFICES ASSUME NEW i \in 1 .. n, NEW j \in 1 .. n, i # j PROVE s[i] # s[j]
        OBVIOUS
      <3>1. i < j \/ j < i
        OBVIOUS
      <3> QED
        BY <3>1, <2>2
    <2>4. Grades \in Seq(Int) /\ Len(Grades) = n
      <3>1. \A i \in 1 .. n : grades[i] \in Rows
        BY ElementOfSeq
      <3>2. \A i \in 1 .. n : grades[i].grade \in Int
        BY <3>1 DEF Rows
      <3> QED
        BY <2>2, <3>2 DEF Grades
    <2>5. Arranged(Grades, s)
      BY <2>2, <2>3, <2>4 DEF Arranged
    <2>6. e = printStudents(s)
      BY <2>1, <2>2, NamesShown
    <2>7. /\ DOMAIN e = 1 .. n
          /\ {e[k] : k \in own} = {Entry(i) : i \in 1 .. n}
          /\ \A k \in own : k \in 1 .. n /\ s[k] \in 1 .. n /\ e[k][1] = s[k]
      <3> DEFINE gr == Grades
      <3>1. gr \in Seq(Int) /\ Len(gr) = Len(grades) /\ Len(grades) <= Len(gr)
            /\ Arranged(gr, s)
        BY <2>2, <2>4, <2>5
      <3> HIDE DEF gr
      <3>2. DOMAIN e = 1 .. Len(gr) /\ AllShown(e, s)
        BY <2>6, <3>1, ArrangedShows
      <3> QED
        BY <3>1, <3>2 DEF AllShown, Own
    <2> HIDE DEF own
    <2>8. \A i, j \in own : i < j =>
            IF choice = "1" THEN ~Before(e[j][1], e[i][1]) ELSE ~Before(e[i][1], e[j][1])
      BY <2>2, <2>7
    <2> USE DEF own
    <2>9. CASE choice = "1"
      BY <1>0, <2>7, <2>8, <2>9 DEF SortedShown, Before, Entry, Own
    <2>10. CASE choice = "2"
      BY <1>0, <2>7, <2>8, <2>10 DEF SortedShown, Before, Entry, Own
    <2> QED
      BY <1>1, <2>9, <2>10
  <1>2. CASE choice = "3"
    <2>1. PICK g \in readStudentsFromFile : e = printStudents(sortByGrade(g, 1))
      BY <1>2 DEF Sorted
    <2>2. /\ {e[k] : k \in own} = {Entry(i) : i \in 1 .. n}
          /\ \A i, j \in own : i < j =>
                \/ grades[e[i][1]].grade < grades[e[j][1]].grade
                \/ /\ grades[e[i][1]].grade = grades[e[j][1]].grade
                   /\ e[i][1] < e[j][1]
      <3>1. AllInOrder(e, 1)
        BY <2>1, GradesShown
      <3> QED
        BY <3>1 DEF AllInOrder
    <2> QED
      BY <1>0, <1>2, <2>2 DEF SortedShown, Entry, Own
  <1>3. CASE choice = "4"
    <2>1. PICK g \in readStudentsFromFile : e = printStudents(sortByGrade(g, 0))
      BY <1>3 DEF Sorted
    <2>2. /\ {e[k] : k \in own} = {Entry(i) : i \in 1 .. n}
          /\ \A i, j \in own : i < j =>
                \/ grades[e[i][1]].grade > grades[e[j][1]].grade
                \/ /\ grades[e[i][1]].grade = grades[e[j][1]].grade
                   /\ e[i][1] < e[j][1]
      <3>1. AllInOrder(e, 0)
        BY <2>1, GradesShown
      <3>2. 0 # 1
        OBVIOUS
      <3> QED
        BY <3>1, <3>2 DEF AllInOrder
    <2> QED
      BY <1>0, <1>3, <2>2 DEF SortedShown, Entry, Own
  <1> QED
    BY <1>1, <1>2, <1>3

-----------------------------------------------------------------------------
(* Listing.  The lines of the text and their ends.                         *)
LEMMA Multiples ==
  ASSUME NEW w \in Nat \ {0, 1}
  PROVE  /\ \A a \in Nat : a * w \in Nat /\ (a * w) % w = 0
         /\ \A a, b \in Int : a < b => a * w + w <= b * w
         /\ \A a \in Nat : (a - 1) * w = a * w - w
         /\ \A i \in Nat : /\ i \div w \in Nat /\ i % w \in 0 .. w - 1
                           /\ i = (i \div w) * w + (i % w)
  <1>1. \A a \in Nat : a * w \in Nat
    OBVIOUS
  <1>2. \A a \in Nat : (a * w) % w = 0
    OBVIOUS
  <1>3. \A a, b \in Int : a < b => a * w + w <= b * w
    OBVIOUS
  <1>4. \A a \in Nat : (a - 1) * w = a * w - w
    OBVIOUS
  <1>5. \A i \in Nat : i \div w \in Nat /\ i % w \in 0 .. w - 1
    OBVIOUS
  <1>6. ASSUME NEW i \in Nat
        PROVE  i = (i \div w) * w + (i % w)
    <2>1. i = w * (i \div w) + (i % w)
      OBVIOUS
    <2>2. i \div w \in Nat
      OBVIOUS
    <2> DEFINE q == i \div w
    <2> HIDE DEF q
    <2>3. w * q = q * w
      BY <2>2 DEF q
    <2> QED
      BY <2>1, <2>3 DEF q
  <1> QED
    BY <1>1, <1>2, <1>3, <1>4, <1>5, <1>6

LEMMA TextLines ==
  ASSUME grades \in Seq(Rows)
  PROVE  /\ Len(grades) * Width \in Nat /\ Len(Text) = Len(grades) * Width
         /\ \A p \in 1 .. Len(Text) : Text[p] \in Nat
         /\ \A n \in 1 .. Len(grades), p \in 1 .. Len(Text) :
              /\ p = n * Width => Text[p] = Newline
              /\ (n - 1) * Width < p /\ p < n * Width => Text[p] = n
         /\ \A p \in 1 .. Len(Text) : Text[p] = Newline =>
              \E n \in 1 .. Len(grades) : p = n * Width
  <1> DEFINE l == Len(grades)
             w == Width
  <1>1. l \in Nat /\ w \in Nat \ {0, 1}
    BY ShellAssumption
  <1>2. Text = [p \in 1 .. l * w |-> IF p % w = 0 THEN 0 ELSE (p - 1) \div w + 1]
    BY DEF Text, Newline
  <1> DEFINE t == Text
  <1> HIDE DEF l, w, t
  <1>3. l * w \in Nat
    BY <1>1, Multiples
  <1>4. \A p \in 1 .. l * w : t[p] = IF p % w = 0 THEN 0 ELSE (p - 1) \div w + 1
    BY <1>2 DEF t
  <1>5. \A p \in 1 .. l * w : t[p] \in Nat
    <2> SUFFICES ASSUME NEW p \in 1 .. l * w PROVE t[p] \in Nat
      OBVIOUS
    <2>1. p - 1 \in Nat
      BY <1>3
    <2>2. (p - 1) \div w \in Nat
      BY <2>1, <1>1, Multiples
    <2> QED
      BY <2>2, <1>4
  <1>6. Len(t) = l * w
    <2>1. t \in [1 .. l * w -> Nat]
      BY <1>2, <1>4, <1>5 DEF t
    <2> DEFINE m == l * w
    <2> HIDE DEF m
    <2>2. m \in Nat /\ t \in [1 .. m -> Nat]
      BY <1>3, <2>1 DEF m
    <2>3. Len(t) = m
      BY <2>2
    <2> QED
      BY <2>3 DEF m
  <1>7. ASSUME NEW n \in 1 .. l, NEW p \in 1 .. l * w
        PROVE  /\ p = n * w => t[p] = 0
               /\ (n - 1) * w < p /\ p < n * w => t[p] = n
    <2>1. CASE p = n * w
      <3>1. p % w = 0 /\ ~(p < n * w)
        BY <2>1, <1>1, Multiples
      <3> QED
        BY <3>1, <1>4
    <2>2. CASE (n - 1) * w < p /\ p < n * w
      <3>1. p \in Nat /\ p - 1 \in Nat /\ n \in Nat
        BY <1>1, <1>3
      <3>2. p % w # 0
        <4> SUFFICES ASSUME p % w = 0 PROVE FALSE
          OBVIOUS
        <4> DEFINE q == p \div w
        <4>0. q \in Nat /\ p = q * w + (p % w)
          BY <3>1, <1>1, Multiples
        <4> HIDE DEF q
        <4>1. q \in Nat /\ p = q * w
          BY <4>0, <1>1, Multiples
        <4>2. n - 1 < q
          BY <4>1, <3>1, <2>2, <1>1, Multiples
        <4>3. q < n
          BY <4>1, <3>1, <2>2, <1>1, Multiples
        <4> QED
          BY <4>1, <4>2, <4>3, <3>1
      <3>3. (p - 1) \div w + 1 = n
        BY <3>1, <2>2, <1>1
      <3> QED
        BY <2>2, <3>2, <3>3, <1>4, <3>1
    <2> QED
      BY <2>1, <2>2
  <1>8. ASSUME NEW p \in 1 .. l * w, t[p] = 0
        PROVE  \E n \in 1 .. l : p = n * w
    <2>1. p \in Nat /\ p - 1 \in Nat /\ p > 0
      BY <1>3
    <2>2. p % w = 0
      <3>1. (p - 1) \div w \in Nat
        BY <2>1, <1>1, Multiples
      <3> QED
        BY <3>1, <1>4, <1>8
    <2> DEFINE q == p \div w
    <2>0. q \in Nat /\ p = q * w + (p % w)
      BY <2>1, <1>1, Multiples
    <2> HIDE DEF q
    <2>3. q \in Nat /\ p = q * w
      BY <2>0, <2>2, <1>1, Multiples
    <2>4. q # 0
      BY <2>1, <2>3, <1>1
    <2>5. q <= l
      <3> SUFFICES ASSUME l < q PROVE FALSE
        BY <2>3, <1>1
      <3>1. l * w + w <= q * w
        BY <2>3, <1>1, Multiples
      <3> QED
        BY <3>1, <2>3, <1>1, <1>3
    <2> QED
      BY <2>3, <2>4, <2>5, <1>1
  <1> QED
    BY <1>3, <1>5, <1>6, <1>7, <1>8 DEF l, w, t, Newline

(* The n-th member of a set of numbers is the one with n of them up to it. *)
Ranked(S, n) == CHOOSE i \in S : Cardinality({j \in S : j <= i}) = n

LEMMA Ranks ==
  ASSUME NEW N \in Nat, NEW f \in [1 .. N -> Int],
         \A m, n \in 1 .. N : m < n => f[m] < f[n],
         NEW S, S = {f[n] : n \in 1 .. N}
  PROVE  /\ Cardinality(S) = N
         /\ \A n \in 1 .. N : Ranked(S, n) = f[n]
  <1>1. ASSUME NEW k \in 0 .. N
        PROVE  Cardinality({f[n] : n \in 1 .. k}) = k
    <2> DEFINE g == [n \in 1 .. k |-> f[n]]
               T == {f[n] : n \in 1 .. k}
    <2>1. k \in Nat /\ \A n \in 1 .. k : n \in 1 .. N
      OBVIOUS
    <2>2. \A m, n \in 1 .. k : f[m] = f[n] => m = n
      <3> SUFFICES ASSUME NEW m \in 1 .. k, NEW n \in 1 .. k, m # n PROVE f[m] # f[n]
        OBVIOUS
      <3>1. f[m] \in Int /\ f[n] \in Int /\ (m < n \/ n < m)
        BY <2>1
      <3> QED
        BY <3>1, <2>1
    <2>3. g \in [1 .. k -> T]
      OBVIOUS
    <2>4. g \in Injection(1 .. k, T)
      BY <2>2, <2>3 DEF Injection, IsInjective
    <2>5. g \in Surjection(1 .. k, T)
      BY <2>3 DEF Surjection
    <2>6. ExistsBijection(1 .. k, T)
      BY <2>4, <2>5 DEF ExistsBijection, Bijection
    <2> HIDE DEF T, g
    <2>7. IsFiniteSet(1 .. k) /\ Cardinality(1 .. k) = k
      BY <2>1, FS_Interval
    <2>8. Cardinality(T) = k
      BY <2>6, <2>7, FS_Bijection
    <2> QED
      BY <2>8 DEF T
  <1>2. ASSUME NEW n \in 1 .. N
        PROVE  {j \in S : j <= f[n]} = {f[m] : m \in 1 .. n}
    <2>1. \A m \in 1 .. N : f[m] \in Int
      OBVIOUS
    <2>2. ASSUME NEW m \in 1 .. N PROVE f[m] <= f[n] <=> m \in 1 .. n
      <3>1. m \in Int /\ n \in Int /\ f[m] \in Int /\ f[n] \in Int
        BY <2>1
      <3>2. CASE m < n
        BY <3>1, <3>2
      <3>3. CASE m = n
        BY <3>1, <3>3
      <3>4. CASE n < m
        <4>1. f[n] < f[m]
          BY <3>4
        <4> QED
          BY <4>1, <3>1, <3>4
      <3> QED
        BY <3>1, <3>2, <3>3, <3>4
    <2>3. \A m \in 1 .. n : m \in 1 .. N
      OBVIOUS
    <2>4. \A j \in S : \E m \in 1 .. N : j = f[m]
      OBVIOUS
    <2>5. \A m \in 1 .. N : f[m] \in S
      OBVIOUS
    <2>6. \A j \in {x \in S : x <= f[n]} : j \in {f[m] : m \in 1 .. n}
      BY <2>2, <2>4
    <2>7. \A m \in 1 .. n : f[m] \in {x \in S : x <= f[n]}
      BY <2>2, <2>3, <2>5
    <2> QED
      BY <2>6, <2>7
  <1>3. \A n \in 1 .. N : Cardinality({j \in S : j <= f[n]}) = n
    BY <1>1, <1>2
  <1>4. Cardinality(S) = N
    BY <1>1
  <1>5. ASSUME NEW n \in 1 .. N
        PROVE  Ranked(S, n) = f[n]
    <2> DEFINE C(i) == Cardinality({j \in S : j <= i})
    <2>1. f[n] \in S /\ C(f[n]) = n
      BY <1>3
    <2>2. \A i \in S : C(i) = n => i = f[n]
      BY <1>3
    <2> HIDE DEF C
    <2>3. (CHOOSE i \in S : C(i) = n) = f[n]
      BY <2>1, <2>2
    <2> QED
      BY <2>3 DEF C, Ranked
  <1> QED
    BY <1>4, <1>5

(* The buffers are there, and the first one begins with the text.          *)
LEMMA Buffers ==
  ASSUME grades \in Seq(Rows), NEW fill \in {NUL, Junk}
  PROVE  LET b == Buffer(fill)
         IN  \A i \in 1 .. BUFFER :
                1 <= Chunks => b[1][i] = IF i <= Len(Text) THEN Text[i] ELSE fill
  <1> DEFINE S == [1 .. BUFFER -> Int]
             cell(x, k, i) ==
                 LET p == (k - 1) * BUFFER + i
                 IN  IF p <= Len(Text) THEN Text[p]
                     ELSE IF x[i] = Newline THEN NUL ELSE x[i]
             base == [i \in 1 .. BUFFER |-> fill]
             st == [x \in S \X (1 .. Chunks) |->
                       [i \in 1 .. BUFFER |-> cell(x[1], x[2], i)]]
             Loop(q) == q = [k \in 0 .. Chunks |-> [i \in 1 .. BUFFER |->
                                IF k = 0 THEN fill ELSE cell(q[k - 1], k, i)]]
  <1>1. /\ BUFFER \in Nat \ {0} /\ Len(Text) \in Nat /\ Chunks \in Nat
        /\ \A p \in 1 .. Len(Text) : Text[p] \in Nat
        /\ fill \in Int /\ fill # Newline /\ NUL \in Int
    <2>1. Len(Text) \in Nat /\ \A p \in 1 .. Len(Text) : Text[p] \in Nat
      BY TextLines
    <2>2. BUFFER \in Nat \ {0}
      BY ShellAssumption
    <2>3. Chunks \in Nat
      <3> DEFINE l == Len(Text)
      <3>1. Chunks = (l + BUFFER - 1) \div BUFFER /\ l \in Nat
        BY <2>1 DEF Chunks
      <3> HIDE DEF l
      <3> QED
        BY <2>2, <3>1
    <2> QED
      BY <2>1, <2>2, <2>3 DEF NUL, Junk, Newline
  <1>2. base \in S
    BY <1>1
  <1>3. ASSUME NEW x \in S, NEW k \in 1 .. Chunks, NEW i \in 1 .. BUFFER
        PROVE  cell(x, k, i) \in Int
    <2> DEFINE p == (k - 1) * BUFFER + i
    <2>1. p \in Nat /\ p >= 1
      <3>1. k - 1 \in Nat /\ BUFFER \in Nat /\ i \in Nat \ {0}
        BY <1>1
      <3>2. (k - 1) * BUFFER \in Nat
        BY <3>1
      <3> QED
        BY <3>1, <3>2
    <2> HIDE DEF p
    <2>2. x[i] \in Int /\ (p <= Len(Text) => Text[p] \in Int)
      BY <1>1, <2>1
    <2>3. cell(x, k, i) = IF p <= Len(Text) THEN Text[p]
                          ELSE IF x[i] = Newline THEN NUL ELSE x[i]
      BY DEF p
    <2> QED
      BY <1>1, <2>2, <2>3
  <1>4. st \in [S \X (1 .. Chunks) -> S]
    <2> HIDE DEF cell
    <2> QED
      BY <1>3
  <1>5. \A x \in S, k \in 1 .. Chunks :
           st[<<x, k>>] = [i \in 1 .. BUFFER |-> cell(x, k, i)]
    <2> HIDE DEF cell, S
    <2> QED
      OBVIOUS
  <1>6. PICK g : /\ g \in [0 .. Chunks -> S] /\ g[0] = base
                 /\ \A k \in 1 .. Chunks : g[k] = st[<<g[k - 1], k>>]
    <2> HIDE DEF S, base, st
    <2>1. \E g : IsLoop(g, S, Chunks, base, st)
      BY <1>1, <1>2, <1>4, LoopExists
    <2> QED
      BY <2>1 DEF IsLoop
  <1>7. Loop(g)
    <2> DEFINE h == [k \in 0 .. Chunks |-> [i \in 1 .. BUFFER |->
                                IF k = 0 THEN fill ELSE cell(g[k - 1], k, i)]]
    <2>1. ASSUME NEW k \in 0 .. Chunks
          PROVE  g[k] = h[k]
      <3> HIDE DEF cell, S, st
      <3>1. CASE k = 0
        <4>1. h[0] = [i \in 1 .. BUFFER |-> fill]
          BY <1>1
        <4> QED
          BY <3>1, <4>1, <1>6
      <3>2. CASE k # 0
        <4>1. k \in 1 .. Chunks /\ k - 1 \in 0 .. Chunks
          BY <3>2, <1>1
        <4>2. g[k - 1] \in S
          BY <4>1, <1>6
        <4>3. g[k] = [i \in 1 .. BUFFER |-> cell(g[k - 1], k, i)]
          BY <4>1, <4>2, <1>5, <1>6
        <4>4. h[k] = [i \in 1 .. BUFFER |-> cell(g[k - 1], k, i)]
          BY <3>2
        <4> QED
          BY <4>3, <4>4
      <3> QED
        BY <3>1, <3>2
    <2>2. DOMAIN g = 0 .. Chunks /\ g = [k \in DOMAIN g |-> g[k]]
      <3> HIDE DEF S
      <3> QED
        BY <1>6
    <2>3. DOMAIN h = 0 .. Chunks /\ h = [k \in DOMAIN h |-> h[k]]
      OBVIOUS
    <2>4. g = h
      <3> HIDE DEF h
      <3> QED
        BY <2>1, <2>2, <2>3
    <2> QED
      BY <2>4
  <1> DEFINE b == CHOOSE q : Loop(q)
  <1>8. Buffer(fill) = b
    BY DEF Buffer
  <1> HIDE DEF b
  <1>9. Loop(b)
    BY <1>7 DEF b
  <1>10. ASSUME 1 <= Chunks, NEW i \in 1 .. BUFFER
         PROVE  b[1][i] = IF i <= Len(Text) THEN Text[i] ELSE fill
    <2>1. 1 \in 0 .. Chunks /\ 0 \in 0 .. Chunks
      BY <1>1, <1>10
    <2>2. b[0] = [j \in 1 .. BUFFER |-> fill]
      <3> HIDE DEF cell
      <3> QED
        BY <1>9, <2>1
    <2>3. b[1] = [j \in 1 .. BUFFER |-> cell(b[0], 1, j)]
      <3> HIDE DEF cell
      <3>1. b[1] = [j \in 1 .. BUFFER |-> IF 1 = 0 THEN fill ELSE cell(b[1 - 1], 1, j)]
        BY <1>9, <2>1
      <3>2. 1 - 1 = 0 /\ 1 # 0
        OBVIOUS
      <3> QED
        BY <3>1, <3>2
    <2>4. b[1][i] = cell(b[0], 1, i) /\ b[0][i] = fill
      <3> HIDE DEF cell
      <3> QED
        BY <2>2, <2>3
    <2>5. (1 - 1) * BUFFER + i = i
      BY <1>1
    <2> QED
      BY <1>1, <2>4, <2>5
  <1> QED
    BY <1>8, <1>10

(* A buffer that holds the text from its beginning, and fill behind it.    *)
HoldsText(b, fill) ==
    LET t == Len(grades) * Width
    IN  /\ \A i \in 1 .. BUFFER : t < i => b[i] = fill
        /\ \A n \in 1 .. Len(grades) : n * Width <= BUFFER => b[n * Width] = Newline
        /\ \A n \in 1 .. Len(grades), i \in 1 .. BUFFER :
             (n - 1) * Width < i /\ i < n * Width => b[i] = n
        /\ \A i \in 1 .. BUFFER : b[i] = Newline =>
             \E n \in 1 .. Len(grades) : i = n * Width
        /\ \A i \in 1 .. BUFFER : b[i] = NUL => t < i

LEMMA FirstHoldsText ==
  ASSUME grades \in Seq(Rows), NEW fill \in {NUL, Junk}, 1 <= Chunks
  PROVE  HoldsText(Buffer(fill)[1], fill)
  <1> DEFINE b == Buffer(fill)[1]
             l == Len(grades)
             w == Width
             t == Len(grades) * Width
  <1>1. l \in Nat /\ w \in Nat \ {0, 1} /\ BUFFER \in Nat \ {0} /\ fill # Newline
        /\ ~(NUL \in Nat) /\ Newline = 0
    BY ShellAssumption DEF NUL, Junk, Newline
  <1>2. /\ t \in Nat /\ t = l * w /\ Len(Text) = t
        /\ \A p \in 1 .. t : Text[p] \in Nat
        /\ \A n \in 1 .. l, p \in 1 .. t :
             /\ p = n * w => Text[p] = Newline
             /\ (n - 1) * w < p /\ p < n * w => Text[p] = n
        /\ \A p \in 1 .. t : Text[p] = Newline => \E n \in 1 .. l : p = n * w
    BY TextLines
  <1>3. \A i \in 1 .. BUFFER : b[i] = IF i <= t THEN Text[i] ELSE fill
    BY <1>2, Buffers
  <1> HIDE DEF b, l, w, t
  <1>4. \A n \in 1 .. l : n * w \in Nat /\ 1 <= n * w /\ n * w <= t
    <2> SUFFICES ASSUME NEW n \in 1 .. l PROVE n * w \in Nat /\ 1 <= n * w /\ n * w <= t
      OBVIOUS
    <2>1. n \in Nat /\ n * w \in Nat /\ 0 * w + w <= n * w /\ 0 * w = 0
      BY <1>1, Multiples
    <2>2. n * w <= l * w
      <3>1. CASE n = l
        BY <3>1, <1>2, <2>1
      <3>2. CASE n # l
        <4>1. n * w + w <= l * w
          BY <3>2, <1>1, Multiples
        <4> QED
          BY <4>1, <1>1, <1>2, <2>1
      <3> QED
        BY <3>1, <3>2
    <2> QED
      BY <2>1, <2>2, <1>1, <1>2
  <1>5. \A i \in 1 .. BUFFER : t < i => b[i] = fill
    BY <1>2, <1>3
  <1>6. \A n \in 1 .. l : n * w <= BUFFER => b[n * w] = Newline
    <2> SUFFICES ASSUME NEW n \in 1 .. l, n * w <= BUFFER PROVE b[n * w] = Newline
      OBVIOUS
    <2> DEFINE p == n * w
    <2>1. p \in 1 .. BUFFER /\ p \in 1 .. t /\ p <= t
      BY <1>1, <1>2, <1>4
    <2>2. Text[p] = Newline
      BY <2>1, <1>2
    <2> HIDE DEF p
    <2>3. b[p] = Newline
      BY <2>1, <2>2, <1>3
    <2> QED
      BY <2>3 DEF p
  <1>7. \A n \in 1 .. l, i \in 1 .. BUFFER : (n - 1) * w < i /\ i < n * w => b[i] = n
    <2> SUFFICES ASSUME NEW n \in 1 .. l, NEW i \in 1 .. BUFFER,
                        (n - 1) * w < i, i < n * w
                 PROVE  b[i] = n
      OBVIOUS
    <2>1. i \in 1 .. t /\ i <= t
      <3>1. n * w <= t /\ n * w \in Nat
        BY <1>4
      <3> QED
        BY <3>1, <1>1, <1>2
    <2> QED
      BY <2>1, <1>2, <1>3
  <1>8. \A i \in 1 .. BUFFER : b[i] = Newline => \E n \in 1 .. l : i = n * w
    <2> SUFFICES ASSUME NEW i \in 1 .. BUFFER, b[i] = Newline
                 PROVE  \E n \in 1 .. l : i = n * w
      OBVIOUS
    <2>1. i <= t /\ Text[i] = Newline /\ i \in 1 .. t
      BY <1>1, <1>2, <1>3
    <2> QED
      BY <2>1, <1>2
  <1>9. \A i \in 1 .. BUFFER : b[i] = NUL => t < i
    <2> SUFFICES ASSUME NEW i \in 1 .. BUFFER, i <= t PROVE b[i] # NUL
      BY <1>2
    <2>1. i \in 1 .. t /\ Text[i] \in Nat
      BY <1>2
    <2> QED
      BY <2>1, <1>1, <1>3
  <1> QED
    BY <1>5, <1>6, <1>7, <1>8, <1>9 DEF HoldsText, b, l, w, t

(* What strtok finds in it: where the bytes end, and where the tokens      *)
(* begin and stop.                                                         *)
LEMMA EndIs ==
  ASSUME grades \in Seq(Rows), NEW fill \in {NUL, Junk}, NEW b, HoldsText(b, fill)
  PROVE  LET t == Len(grades) * Width
         IN  EndOf(b) = IF t < BUFFER /\ fill = NUL THEN t ELSE BUFFER
  <1> DEFINE t == Len(grades) * Width
             zeros == {i \in 1 .. BUFFER : b[i] = NUL}
  <1>1. t \in Nat /\ BUFFER \in Nat \ {0} /\ NUL # Junk
    BY TextLines, ShellAssumption DEF NUL, Junk
  <1>2. /\ \A i \in 1 .. BUFFER : t < i => b[i] = fill
        /\ \A i \in 1 .. BUFFER : b[i] = NUL => t < i
    BY DEF HoldsText
  <1> HIDE DEF t
  <1>3. CASE t < BUFFER /\ fill = NUL
    <2>1. t + 1 \in zeros /\ \A j \in zeros : t + 1 <= j
      BY <1>1, <1>2, <1>3
    <2>2. \A i \in zeros : (\A j \in zeros : i <= j) => i = t + 1
      BY <2>1, <1>1
    <2>3. (CHOOSE i \in zeros : \A j \in zeros : i <= j) = t + 1
      <3> HIDE DEF zeros
      <3> QED
        BY <2>1, <2>2
    <2> QED
      <3> DEFINE c == CHOOSE i \in zeros : \A j \in zeros : i <= j
      <3>1. EndOf(b) = IF zeros = {} THEN BUFFER ELSE c - 1
        BY DEF EndOf
      <3>2. zeros # {} /\ c = t + 1
        BY <2>1, <2>3
      <3> HIDE DEF zeros, c
      <3> QED
        BY <3>1, <3>2, <1>1, <1>3 DEF t
  <1>4. CASE ~(t < BUFFER /\ fill = NUL)
    <2>1. zeros = {}
      BY <1>1, <1>2, <1>4
    <2> QED
      BY <2>1, <1>4 DEF EndOf, t
  <1> QED
    BY <1>3, <1>4

LEMMA StartsAre ==
  ASSUME grades \in Seq(Rows), 1 <= Len(grades), NEW fill \in {NUL, Junk},
         NEW b, HoldsText(b, fill)
  PROVE  \E N \in Nat :
           /\ Starts(b) = {(n - 1) * Width + 1 : n \in 1 .. N}
           /\ \A n \in 1 .. Len(grades) : n * Width <= BUFFER => n <= N
           /\ Len(grades) * Width <= BUFFER =>
                /\ N \in {Len(grades), Len(grades) + 1}
                /\ N = Len(grades) + 1 => b[Len(grades) * Width + 1] = Junk
  <1> DEFINE l == Len(grades)
             w == Width
             t == Len(grades) * Width
             N == IF BUFFER <= t THEN (BUFFER - 1) \div w + 1
                  ELSE IF fill = Junk THEN l + 1 ELSE l
             F(n) == (n - 1) * w + 1
  <1>1. /\ l \in Nat /\ 1 <= l /\ w \in Nat \ {0, 1} /\ BUFFER \in Nat \ {0}
        /\ t \in Nat /\ t = l * w
        /\ fill # Newline /\ fill # 0 /\ NUL # Junk /\ Newline = 0 /\ Junk # Newline
    BY TextLines, ShellAssumption DEF NUL, Junk, Newline
  <1>2. EndOf(b) = IF t < BUFFER /\ fill = NUL THEN t ELSE BUFFER
    BY EndIs
  <1>3. /\ \A i \in 1 .. BUFFER : t < i => b[i] = fill
        /\ \A n \in 1 .. l : n * w <= BUFFER => b[n * w] = Newline
        /\ \A n \in 1 .. l, i \in 1 .. BUFFER :
             (n - 1) * w < i /\ i < n * w => b[i] = n
        /\ \A i \in 1 .. BUFFER : b[i] = Newline => \E n \in 1 .. l : i = n * w
    BY DEF HoldsText
  <1> DEFINE q == (BUFFER - 1) \div w
             e == EndOf(b)
  <1>4. /\ q \in Nat /\ q * w \in Nat /\ q * w < BUFFER /\ BUFFER <= q * w + w
    <2>1. BUFFER - 1 \in Nat
      BY <1>1
    <2>2. q \in Nat /\ (BUFFER - 1) % w \in 0 .. w - 1
          /\ BUFFER - 1 = q * w + ((BUFFER - 1) % w)
      BY <2>1, <1>1, Multiples
    <2> DEFINE r == (BUFFER - 1) % w
    <2> HIDE DEF q, r
    <2>3. q \in Nat /\ r \in 0 .. w - 1 /\ BUFFER - 1 = q * w + r
      BY <2>2 DEF r
    <2>4. q * w \in Nat
      BY <2>3, <1>1, Multiples
    <2> QED
      BY <2>3, <2>4, <1>1
  <1>5. N = IF BUFFER <= t THEN q + 1 ELSE IF fill = Junk THEN l + 1 ELSE l
    OBVIOUS
  <1> HIDE DEF q, l, w, t, N, e
  <1>6. N \in Nat
    BY <1>1, <1>4, <1>5
  <1>7. BUFFER <= t => q < l
    <2> SUFFICES ASSUME BUFFER <= t, l <= q PROVE FALSE
      BY <1>1, <1>4
    <2>1. CASE l = q
      BY <2>1, <1>1, <1>4
    <2>2. CASE l < q
      <3>1. l * w + w <= q * w
        BY <2>2, <1>1, <1>4, Multiples
      <3> QED
        BY <3>1, <1>1, <1>4
    <2> QED
      BY <2>1, <2>2, <1>1, <1>4
  <1>8. ASSUME NEW n \in 1 .. N
        PROVE  F(n) \in Starts(b)
    <2>1. n \in Nat /\ n - 1 \in Nat /\ (n - 1) * w \in Nat /\ n * w \in Nat
          /\ n * w = (n - 1) * w + w
      <3>1. n \in Nat /\ n - 1 \in Nat
        BY <1>6
      <3> QED
        BY <3>1, <1>1, Multiples
    <2> DEFINE p == (n - 1) * w
    <2> HIDE DEF p
    <2>2. p \in Nat /\ n * w = p + w /\ F(n) = p + 1
      BY <2>1 DEF p
    <2>3. p + 1 <= e
      <3>1. CASE BUFFER <= t
        <4>1. n - 1 <= q
          BY <3>1, <1>4, <1>5, <2>1
        <4>2. p <= q * w
          <5>1. CASE n - 1 = q
            BY <5>1, <1>4, <2>2 DEF p
          <5>2. CASE n - 1 < q
            <6>1. p + w <= q * w
              BY <5>2, <2>1, <1>1, <1>4, Multiples DEF p
            <6> QED
              BY <6>1, <1>1, <1>4, <2>2
          <5> QED
            BY <4>1, <5>1, <5>2, <1>4, <2>1
        <4> QED
          BY <3>1, <4>2, <1>1, <1>2, <1>4, <2>2 DEF e
      <3>2. CASE t < BUFFER
        <4>1. CASE n <= l
          <5>1. p + w <= t
            <6>1. CASE n = l
              BY <6>1, <1>1, <2>2
            <6>2. CASE n < l
              <7>1. n * w + w <= l * w
                BY <6>2, <2>1, <1>1, Multiples
              <7> QED
                BY <7>1, <1>1, <2>2
            <6> QED
              BY <4>1, <6>1, <6>2, <1>1, <2>1
          <5> QED
            BY <5>1, <3>2, <1>1, <1>2, <2>2 DEF e
        <4>2. CASE l < n
          <5>1. n = l + 1 /\ fill = Junk
            BY <4>2, <3>2, <1>1, <1>5, <2>1
          <5>2. p = t
            BY <5>1, <1>1 DEF p
          <5> QED
            BY <5>1, <5>2, <3>2, <1>1, <1>2 DEF e
        <4> QED
          BY <4>1, <4>2, <1>1, <2>1
      <3> QED
        BY <3>1, <3>2, <1>1
    <2>4. e \in Nat /\ e <= BUFFER /\ p + 1 \in 1 .. e /\ p + 1 \in 1 .. BUFFER
      BY <1>1, <1>2, <2>2, <2>3 DEF e
    <2>5. b[p + 1] # Newline
      <3>1. CASE n <= l
        <4>1. n \in 1 .. l /\ (n - 1) * w < p + 1 /\ p + 1 < n * w
          BY <3>1, <1>1, <2>1, <2>2 DEF p
        <4>2. b[p + 1] = n
          BY <4>1, <2>4, <1>3
        <4> QED
          BY <4>1, <4>2, <1>1
      <3>2. CASE l < n
        <4>1. ~(BUFFER <= t)
          BY <3>2, <1>4, <1>5, <1>7, <1>1, <2>1
        <4>2. n = l + 1
          BY <3>2, <4>1, <1>1, <1>5, <2>1
        <4>3. p = t
          BY <4>2, <1>1 DEF p
        <4> QED
          BY <4>3, <2>4, <1>1, <1>3
      <3> QED
        BY <3>1, <3>2, <1>1, <2>1
    <2>6. p + 1 = 1 \/ b[p + 1 - 1] = Newline
      <3>1. CASE n = 1
        BY <3>1, <1>1, <2>2 DEF p
      <3>2. CASE n # 1
        <4>1. n - 1 \in 1 .. l
          BY <3>2, <1>1, <1>4, <1>5, <1>7, <2>1
        <4>2. (n - 1) * w <= BUFFER /\ p + 1 - 1 = (n - 1) * w
          BY <2>2, <2>4, <1>1 DEF p
        <4> QED
          BY <4>1, <4>2, <1>3
      <3> QED
        BY <3>1, <3>2
    <2> QED
      BY <2>2, <2>4, <2>5, <2>6 DEF Starts, e
  <1>9. ASSUME NEW i \in Starts(b)
        PROVE  \E n \in 1 .. N : i = F(n)
    <2>1. /\ e \in Nat /\ e <= BUFFER /\ i \in 1 .. e /\ b[i] # Newline
          /\ i = 1 \/ b[i - 1] = Newline
      BY <1>1, <1>2 DEF Starts, e
    <2>2. CASE i = 1
      <3>1. 1 \in 1 .. N /\ F(1) = 1
        BY <1>1, <1>4, <1>5
      <3> QED
        BY <2>2, <3>1
    <2>3. CASE i # 1
      <3>1. b[i - 1] = Newline /\ i - 1 \in 1 .. BUFFER
        BY <2>1, <2>3, <1>1
      <3>2. PICK m \in 1 .. l : i - 1 = m * w
        BY <3>1, <1>3
      <3>3. m \in Nat /\ m * w \in Nat /\ i = m * w + 1 /\ F(m + 1) = m * w + 1
        BY <3>2, <1>1, <2>1, Multiples
      <3>4. m + 1 <= N
        <4>1. CASE BUFFER <= t
          <5>1. m <= q
            <6> SUFFICES ASSUME q < m PROVE FALSE
              BY <3>3, <1>4
            <6>1. q * w + w <= m * w
              BY <3>3, <1>1, <1>4, Multiples
            <6> QED
              BY <6>1, <3>3, <2>1, <1>1, <1>4
          <5> QED
            BY <4>1, <5>1, <1>4, <1>5, <3>3
        <4>2. CASE t < BUFFER /\ fill = Junk
          BY <4>2, <1>1, <1>5, <3>2
        <4>3. CASE t < BUFFER /\ fill = NUL
          <5>1. m # l
            BY <4>3, <1>1, <1>2, <2>1, <3>3 DEF e
          <5> QED
            BY <4>3, <5>1, <1>1, <1>5, <3>2
        <4> QED
          BY <4>1, <4>2, <4>3, <1>1
      <3>5. m + 1 \in 1 .. N
        BY <3>3, <3>4, <1>6
      <3> QED
        BY <3>3, <3>5
    <2> QED
      BY <2>2, <2>3
  <1>10. Starts(b) = {F(n) : n \in 1 .. N}
    <2> HIDE DEF F
    <2> QED
      BY <1>8, <1>9
  <1>11. ASSUME NEW n \in 1 .. l, n * w <= BUFFER
         PROVE  n <= N
    <2>1. CASE BUFFER <= t
      <3>1. n <= q + 1
        <4> SUFFICES ASSUME q + 1 < n PROVE FALSE
          BY <1>1, <1>4
        <4>1. (q + 1) * w + w <= n * w /\ (q + 1) * w = q * w + w
          BY <1>1, <1>4, Multiples
        <4>2. n * w \in Nat
          BY <1>1, Multiples
        <4> QED
          BY <4>1, <4>2, <1>1, <1>4, <1>11
      <3> QED
        BY <2>1, <3>1, <1>5
    <2>2. CASE t < BUFFER
      BY <2>2, <1>1, <1>5
    <2> QED
      BY <2>1, <2>2, <1>1
  <1>12. ASSUME t <= BUFFER
         PROVE  N \in {l, l + 1} /\ (N = l + 1 => b[t + 1] = Junk)
    <2>1. CASE t = BUFFER
      <3>1. q + 1 = l
        <4>1. q < l
          BY <2>1, <1>1, <1>7
        <4>2. ~(q + 1 < l)
          <5> SUFFICES ASSUME q + 1 < l PROVE FALSE
            OBVIOUS
          <5>1. (q + 1) * w + w <= l * w /\ (q + 1) * w = q * w + w
            BY <1>1, <1>4, Multiples
          <5> QED
            BY <5>1, <2>1, <1>1, <1>4
        <4> QED
          BY <4>1, <4>2, <1>1, <1>4
      <3>2. BUFFER <= t
        BY <2>1, <1>1
      <3>3. N = l /\ N # l + 1
        BY <3>1, <3>2, <1>1, <1>5
      <3> QED
        BY <3>3
    <2>2. CASE t < BUFFER
      <3>1. t + 1 \in 1 .. BUFFER /\ b[t + 1] = fill
        BY <2>2, <1>1, <1>3
      <3> QED
        BY <2>2, <3>1, <1>1, <1>5
    <2> QED
      BY <2>1, <2>2, <1>1, <1>12
  <1> QED
    BY <1>6, <1>10, <1>11, <1>12 DEF l, w, t

(* The tokens of such a buffer: the students whose line fits into it, and  *)
(* behind the last line of the file at most one token that is junk.        *)
LEMMA TokensRight ==
  ASSUME grades \in Seq(Rows), 1 <= Len(grades), NEW fill \in {NUL, Junk},
         NEW b, HoldsText(b, fill)
  PROVE  LET s == Tokens(b)
         IN  /\ Len(s) \in Nat /\ s = [n \in 1 .. Len(s) |-> s[n]]
             /\ \A n \in 1 .. Len(grades) :
                  n * Width <= BUFFER => n <= Len(s) /\ s[n] = Entry(n)
             /\ Len(grades) * Width <= BUFFER =>
                  /\ Len(s) \in {Len(grades), Len(grades) + 1}
                  /\ Len(s) = Len(grades) + 1 => s[Len(grades) + 1][1] = Junk
  <1> DEFINE l == Len(grades)
             w == Width
             t == Len(grades) * Width
             e == EndOf(b)
  <1>1. PICK N \in Nat :
           /\ Starts(b) = {(n - 1) * w + 1 : n \in 1 .. N}
           /\ \A n \in 1 .. l : n * w <= BUFFER => n <= N
           /\ t <= BUFFER => /\ N \in {l, l + 1}
                             /\ N = l + 1 => b[t + 1] = Junk
    BY StartsAre
  <1>2. /\ l \in Nat /\ 1 <= l /\ w \in Nat \ {0, 1} /\ BUFFER \in Nat \ {0}
        /\ t \in Nat /\ t = l * w
    BY TextLines, ShellAssumption
  <1>3. e = IF t < BUFFER /\ fill = NUL THEN t ELSE BUFFER
    BY EndIs
  <1>4. /\ \A n \in 1 .. l : n * w <= BUFFER => b[n * w] = Newline
        /\ \A n \in 1 .. l, i \in 1 .. BUFFER :
             (n - 1) * w < i /\ i < n * w => b[i] = n
    BY DEF HoldsText
  <1> DEFINE f == [n \in 1 .. N |-> (n - 1) * w + 1]
             S == Starts(b)
  <1> HIDE DEF l, w, t, e
  <1>5. \A n \in 1 .. N : (n - 1) * w \in Nat /\ n * w = (n - 1) * w + w
    <2> SUFFICES ASSUME NEW n \in 1 .. N
                 PROVE  (n - 1) * w \in Nat /\ n * w = (n - 1) * w + w
      OBVIOUS
    <2>1. n \in Nat /\ n - 1 \in Nat
      OBVIOUS
    <2> QED
      BY <2>1, <1>2, Multiples
  <1>6. \A n \in 1 .. N : f[n] = (n - 1) * w + 1
    OBVIOUS
  <1>16. f \in [1 .. N -> Int]
    <2>1. ASSUME NEW n \in 1 .. N
          PROVE  (n - 1) * w + 1 \in Int
      <3> DEFINE x == (n - 1) * w
      <3>1. x \in Nat
        BY <1>5
      <3> HIDE DEF x
      <3>2. x + 1 \in Int
        BY <3>1
      <3> QED
        BY <3>2 DEF x
    <2> QED
      BY <2>1
  <1>7. \A m, n \in 1 .. N : m < n => f[m] < f[n]
    <2> SUFFICES ASSUME NEW m \in 1 .. N, NEW n \in 1 .. N, m < n PROVE f[m] < f[n]
      OBVIOUS
    <2> HIDE DEF f
    <2>1. (m - 1) * w + w <= (n - 1) * w
      <3>1. m - 1 \in Int /\ n - 1 \in Int /\ m - 1 < n - 1
        OBVIOUS
      <3> QED
        BY <3>1, <1>2, Multiples
    <2> DEFINE x == (m - 1) * w
               y == (n - 1) * w
    <2>2. x \in Nat /\ y \in Nat /\ f[m] = x + 1 /\ f[n] = y + 1 /\ x + w <= y
      BY <2>1, <1>5, <1>6
    <2> HIDE DEF x, y
    <2> QED
      BY <2>2, <1>2
  <1>8. S = {f[n] : n \in 1 .. N}
    <2> HIDE DEF f
    <2>1. S = {(n - 1) * w + 1 : n \in 1 .. N}
      BY <1>1
    <2> QED
      BY <2>1, <1>6
  <1>9. /\ Cardinality(S) = N
        /\ \A n \in 1 .. N : Ranked(S, n) = f[n]
    <2> HIDE DEF f, S
    <2> QED
      BY <1>16, <1>7, <1>8, Ranks, ZenonT(30)
  <1>10. \A n \in 1 .. N : Start(b, n) = f[n]
    <2> HIDE DEF f
    <2> QED
      BY <1>9 DEF Start, Ranked
  <1> DEFINE s == Tokens(b)
  <1> HIDE DEF f, S
  <1>11. s = [n \in 1 .. N |-> <<b[f[n]], Stop(b, f[n]) - f[n] + 1>>]
    <2>1. s = [n \in 1 .. N |-> <<b[Start(b, n)], Stop(b, Start(b, n)) - Start(b, n) + 1>>]
      BY <1>9 DEF Tokens, S
    <2> QED
      BY <2>1, <1>10
  <1> HIDE DEF s
  <1>12. Len(s) = N /\ DOMAIN s = 1 .. N
    <2> DEFINE V == {<<b[f[n]], Stop(b, f[n]) - f[n] + 1>> : n \in 1 .. N}
    <2>1. s \in [1 .. N -> V]
      BY <1>11
    <2> HIDE DEF V
    <2> QED
      BY <2>1
  <1>13. \A n \in 1 .. N : s[n] = <<b[f[n]], Stop(b, f[n]) - f[n] + 1>>
    BY <1>11
  <1>14. ASSUME NEW n \in 1 .. l, n * w <= BUFFER
         PROVE  n <= N /\ s[n] = Entry(n)
    <2>1. n \in 1 .. N
      BY <1>1, <1>2, <1>14
    <2> DEFINE p == (n - 1) * w
    <2>2. p \in Nat /\ n * w = p + w /\ f[n] = p + 1
      BY <2>1, <1>5, <1>6
    <2> HIDE DEF p
    <2>3. p + w <= e
      <3>1. p + w <= t
        <4>1. CASE n = l
          BY <4>1, <2>2, <1>2
        <4>2. CASE n # l
          <5>1. n < l /\ n \in Int /\ l \in Int
            BY <4>2, <1>2
          <5>2. n * w + w <= l * w
            BY <5>1, <1>2, Multiples
          <5> QED
            BY <5>2, <2>2, <1>2
        <4> QED
          BY <4>1, <4>2
      <3> QED
        BY <3>1, <2>2, <1>2, <1>3, <1>14
    <2>4. e \in Nat /\ e <= BUFFER
      BY <1>2, <1>3
    <2>5. \A i \in p + 1 .. p + w - 1 : b[i] = n
      <3> SUFFICES ASSUME NEW i \in p + 1 .. p + w - 1 PROVE b[i] = n
        OBVIOUS
      <3>1. i \in 1 .. BUFFER /\ (n - 1) * w < i /\ i < n * w
        BY <2>2, <2>3, <2>4, <1>2 DEF p
      <3> QED
        BY <3>1, <1>4
    <2>6. b[p + w] = Newline /\ n # Newline
      <3>1. b[n * w] = Newline /\ n # 0
        BY <1>4, <1>14
      <3> QED
        BY <3>1, <2>2 DEF Newline
    <2>7. Stop(b, p + 1) = p + w - 1
      <3> DEFINE P(j) == /\ \A k \in p + 1 .. j : b[k] # Newline
                         /\ j = e \/ b[j + 1] = Newline
      <3>1. p + w - 1 \in p + 1 .. e
        BY <2>2, <2>3, <2>4, <1>2
      <3>2. P(p + w - 1)
        <4>1. p + w - 1 + 1 = p + w
          BY <2>2, <1>2
        <4> QED
          BY <4>1, <2>5, <2>6
      <3>3. ASSUME NEW j \in p + 1 .. e, P(j)
            PROVE  j = p + w - 1
        <4>1. ~(p + w <= j)
          <5> SUFFICES ASSUME p + w <= j PROVE FALSE
            OBVIOUS
          <5>1. p + w \in p + 1 .. j
            BY <2>2, <2>4, <1>2
          <5> QED
            BY <5>1, <3>3, <2>6
        <4>2. ~(j < p + w - 1)
          <5> SUFFICES ASSUME j < p + w - 1 PROVE FALSE
            OBVIOUS
          <5>1. j + 1 \in p + 1 .. p + w - 1 /\ j # e
            BY <2>2, <2>3, <2>4, <1>2
          <5>2. b[j + 1] = n
            BY <5>1, <2>5
          <5> QED
            BY <5>1, <5>2, <3>3, <2>6
        <4> QED
          BY <4>1, <4>2, <2>2, <2>4, <1>2
      <3> HIDE DEF P
      <3>4. (CHOOSE j \in p + 1 .. e : P(j)) = p + w - 1
        BY <3>1, <3>2, <3>3
      <3> QED
        BY <3>4 DEF Stop, P, e
    <2>8. b[p + 1] = n
      BY <2>5, <2>2, <1>2
    <2>9. p + w - 1 - (p + 1) + 1 = w - 1
      BY <2>2, <1>2
    <2>10. s[n] = <<n, w - 1>>
      <3>1. s[n] = <<b[f[n]], Stop(b, f[n]) - f[n] + 1>>
        BY <1>13, <2>1
      <3>2. s[n] = <<b[p + 1], Stop(b, p + 1) - (p + 1) + 1>>
        BY <3>1, <2>2
      <3>3. Stop(b, p + 1) - (p + 1) + 1 = w - 1
        BY <2>7, <2>9, <2>2, <1>2
      <3> QED
        BY <3>2, <3>3, <2>8
    <2> QED
      BY <2>1, <2>10 DEF Entry, w
  <1>15. ASSUME t <= BUFFER
         PROVE  N \in {l, l + 1} /\ (N = l + 1 => s[l + 1][1] = Junk)
    <2>1. N \in {l, l + 1} /\ (N = l + 1 => b[t + 1] = Junk)
      BY <1>1, <1>15
    <2>2. ASSUME N = l + 1 PROVE s[l + 1][1] = Junk
      <3>1. l + 1 \in 1 .. N /\ l + 1 - 1 = l
        BY <2>2, <1>2
      <3>2. f[l + 1] = t + 1
        BY <3>1, <1>2, <1>6
      <3> QED
        BY <2>1, <2>2, <3>1, <3>2, <1>13
    <2> QED
      BY <2>1, <2>2
  <1> QED
    BY <1>11, <1>12, <1>14, <1>15 DEF l, w, t, s

(* How many reads a file takes.                                            *)
LEMMA ChunksAre ==
  ASSUME grades \in Seq(Rows)
  PROVE  /\ Chunks \in Nat
         /\ Chunks = 0 <=> Len(grades) = 0
         /\ Len(Text) <= BUFFER => Chunks <= 1
  <1> DEFINE t == Len(Text)
             l == Len(grades)
             w == Width
  <1>1. t \in Nat /\ BUFFER \in Nat \ {0} /\ t = l * w /\ l \in Nat /\ w \in Nat \ {0, 1}
    BY TextLines, ShellAssumption
  <1>2. Chunks = (t + BUFFER - 1) \div BUFFER
    BY DEF Chunks
  <1> HIDE DEF t, l, w
  <1>3. t = 0 <=> l = 0
    BY <1>1
  <1>4. Chunks \in Nat /\ (Chunks = 0 <=> t = 0)
    BY <1>1, <1>2
  <1>5. t <= BUFFER => Chunks <= 1
    BY <1>1, <1>2
  <1> QED
    BY <1>3, <1>4, <1>5 DEF t, l

(* What the first entries of a sequence are.                               *)
LEMMA UptoIs ==
  ASSUME NEW S, NEW s \in Seq(S), NEW n \in Nat
  PROVE  LET u == Upto(s, n)
         IN  /\ u \in Seq(S) /\ Len(u) = IF n < Len(s) THEN n ELSE Len(s)
             /\ \A i \in 1 .. Len(u) : u[i] = s[i]
  <1> DEFINE m == IF n < Len(s) THEN n ELSE Len(s)
  <1>1. m \in Nat /\ m <= Len(s) /\ Upto(s, n) = SubSeq(s, 1, m)
    BY DEF Upto
  <1> HIDE DEF m
  <1>2. \A i \in 1 .. m : s[i] \in S
    BY <1>1
  <1>3. /\ SubSeq(s, 1, m) \in Seq(S)
        /\ Len(SubSeq(s, 1, m)) = IF 1 <= m THEN m - 1 + 1 ELSE 0
        /\ \A i \in 1 .. m - 1 + 1 : SubSeq(s, 1, m)[i] = s[1 + i - 1]
    BY <1>1, <1>2, SubSeqProperties
  <1>4. Len(SubSeq(s, 1, m)) = m /\ \A i \in 1 .. m : SubSeq(s, 1, m)[i] = s[i]
    BY <1>1, <1>3
  <1> QED
    BY <1>1, <1>3, <1>4 DEF m

(* What a listing of the entries from first to last must show, if those    *)
(* that there are fit into the buffer: they, and behind them only junk.    *)
Listed(s, first, last) ==
    LET upto == IF last < Len(grades) THEN last ELSE Len(grades)
        asked == IF first <= upto THEN upto - first + 1 ELSE 0
    IN  /\ asked <= Len(s)
        /\ \A n \in 1 .. Len(s) : IF n <= asked THEN s[n] = Entry(first + n - 1)
                                                ELSE s[n][1] = Junk

(* A page of the tokens of the first buffer.                               *)
LEMMA PageListed ==
  ASSUME grades \in Seq(Rows), 1 <= Len(grades), NEW fill \in {NUL, Junk},
         NEW b, HoldsText(b, fill),
         NEW first \in Nat \ {0}, NEW last \in Nat,
         Len(grades) * Width <= BUFFER \/ last * Width <= BUFFER
  PROVE  LET s == Tokens(b)
             u == SubSeq(s, first, IF last < Len(s) THEN last ELSE Len(s))
         IN  Listed(u, first, last)
  <1> DEFINE s == Tokens(b)
             l == Len(grades)
             w == Width
             m == IF last < Len(s) THEN last ELSE Len(s)
             u == SubSeq(s, first, m)
             S == {s[n] : n \in 1 .. Len(s)}
             upto == IF last < l THEN last ELSE l
             asked == IF first <= upto THEN upto - first + 1 ELSE 0
  <1>1. /\ Len(s) \in Nat /\ s = [n \in 1 .. Len(s) |-> s[n]]
        /\ \A n \in 1 .. l : n * w <= BUFFER => n <= Len(s) /\ s[n] = Entry(n)
        /\ l * w <= BUFFER => /\ Len(s) \in {l, l + 1}
                              /\ Len(s) = l + 1 => s[l + 1][1] = Junk
    BY TokensRight
  <1>2. l \in Nat /\ 1 <= l /\ w \in Nat \ {0, 1} /\ BUFFER \in Nat \ {0}
        /\ l * w \in Nat
    BY TextLines, ShellAssumption
  <1> HIDE DEF s, l, w
  <1>3. ASSUME NEW a \in Nat, NEW c \in Nat, a <= c, c * w <= BUFFER
        PROVE  a * w <= BUFFER
    <2>1. CASE a = c
      BY <2>1, <1>3
    <2>2. CASE a < c
      <3>1. a * w + w <= c * w /\ a * w \in Nat /\ c * w \in Nat
        BY <2>2, <1>2, Multiples
      <3> QED
        BY <3>1, <1>2, <1>3
    <2> QED
      BY <2>1, <2>2, <1>3
  <1>4. upto \in Nat /\ upto <= l /\ upto <= last
    BY <1>2
  <1>5. upto * w <= BUFFER
    <2>1. CASE l * w <= BUFFER
      BY <2>1, <1>2, <1>3, <1>4
    <2>2. CASE last * w <= BUFFER
      BY <2>2, <1>3, <1>4
    <2> QED
      BY <2>1, <2>2 DEF l, w
  <1>6. \A n \in 1 .. upto : n <= Len(s) /\ s[n] = Entry(n)
    <2> SUFFICES ASSUME NEW n \in 1 .. upto PROVE n <= Len(s) /\ s[n] = Entry(n)
      OBVIOUS
    <2>1. n \in 1 .. l /\ n \in Nat /\ n <= upto
      BY <1>4, <1>2
    <2>2. n * w <= BUFFER
      BY <2>1, <1>3, <1>4, <1>5
    <2> QED
      BY <2>1, <2>2, <1>1
  <1>7. upto <= m /\ m \in Nat /\ m <= Len(s)
    <2>1. upto <= Len(s)
      BY <1>1, <1>4, <1>6
    <2> QED
      BY <2>1, <1>1, <1>4
  <1>8. \A n \in upto + 1 .. m : s[n][1] = Junk
    <2>1. CASE upto = last
      BY <2>1, <1>1, <1>4, <1>7
    <2>2. CASE upto # last
      <3>1. upto = l /\ l < last
        BY <2>2, <1>2
      <3>2. l * w <= BUFFER
        BY <3>1, <1>5
      <3> QED
        BY <3>1, <3>2, <1>1, <1>2, <1>7
    <2> QED
      BY <2>1, <2>2
  <1> HIDE DEF m, upto
  <1>9. /\ Len(u) = IF first <= m THEN m - first + 1 ELSE 0
        /\ \A i \in 1 .. m - first + 1 : u[i] = s[first + i - 1]
    <2>1. \A i \in first .. m : s[i] \in S
      <3> SUFFICES ASSUME NEW i \in first .. m PROVE s[i] \in S
        OBVIOUS
      <3>1. i \in 1 .. Len(s)
        BY <1>1, <1>7
      <3> QED
        BY <3>1
    <2> HIDE DEF S
    <2>2. first \in Int /\ m \in Int
      BY <1>7
    <2> QED
      BY <2>1, <2>2, SubSeqProperties
  <1> HIDE DEF u
  <1>10. asked <= Len(u)
    BY <1>4, <1>7, <1>9
  <1>11. ASSUME NEW n \in 1 .. Len(u)
         PROVE  IF n <= asked THEN u[n] = Entry(first + n - 1) ELSE u[n][1] = Junk
    <2>1. n \in 1 .. m - first + 1 /\ first + n - 1 \in 1 .. m
      BY <1>7, <1>9
    <2>2. u[n] = s[first + n - 1]
      BY <2>1, <1>9
    <2>3. CASE n <= asked
      <3>1. first + n - 1 \in 1 .. upto
        BY <2>1, <2>3, <1>4
      <3> QED
        BY <2>2, <2>3, <3>1, <1>6
    <2>4. CASE ~(n <= asked)
      <3>1. first + n - 1 \in upto + 1 .. m
        BY <2>1, <2>4, <1>4
      <3> QED
        BY <2>2, <2>4, <3>1, <1>8
    <2> QED
      BY <2>3, <2>4
  <1> QED
    BY <1>10, <1>11 DEF Listed, asked, upto, m, u, s, l

(* The tokens of any buffer are a sequence.                                *)
LEMMA TokensSeq ==
  ASSUME NEW b
  PROVE  LET s == Tokens(b)
         IN  /\ Len(s) \in Nat
             /\ \A V : (\A n \in 1 .. Len(s) : s[n] \in V) => s \in Seq(V)
  <1> DEFINE zeros == {i \in 1 .. BUFFER : b[i] = NUL}
             c == Cardinality(Starts(b))
             s == Tokens(b)
  <1>1. BUFFER \in Nat
    BY ShellAssumption
  <1>2. EndOf(b) \in Int
    <2>1. CASE zeros = {}
      BY <1>1, <2>1 DEF EndOf
    <2>2. CASE zeros # {}
      <3>1. zeros \subseteq Nat
        OBVIOUS
      <3> DEFINE z == CHOOSE i \in zeros : \A j \in zeros : i <= j
      <3>2. EndOf(b) = z - 1
        BY <2>2 DEF EndOf
      <3> HIDE DEF zeros
      <3>3. \E i \in zeros : \A j \in zeros : i <= j
        BY <2>2, <3>1, NatLeast
      <3>4. z \in zeros
        BY <3>3
      <3> HIDE DEF z
      <3> QED
        BY <3>1, <3>2, <3>4
    <2> QED
      BY <2>1, <2>2
  <1>3. IsFiniteSet(1 .. EndOf(b)) /\ Starts(b) \in SUBSET (1 .. EndOf(b))
    BY <1>2, FS_Interval DEF Starts
  <1>4. IsFiniteSet(Starts(b))
    BY <1>3, FS_Subset
  <1>5. c \in Nat
    BY <1>4, FS_CardinalityType
  <1> DEFINE v(n) == <<b[Start(b, n)], Stop(b, Start(b, n)) - Start(b, n) + 1>>
  <1>6. s = [n \in 1 .. c |-> v(n)]
    BY DEF Tokens
  <1> HIDE DEF c, v, s
  <1>7. Len(s) = c /\ \A n \in 1 .. c : s[n] = v(n)
    <2>1. s \in [1 .. c -> {v(n) : n \in 1 .. c}]
      BY <1>6
    <2> QED
      BY <2>1, <1>5, <1>6
  <1>8. ASSUME NEW V, \A n \in 1 .. Len(s) : s[n] \in V
        PROVE  s \in Seq(V)
    <2>1. s \in [1 .. c -> V]
      BY <1>6, <1>7, <1>8
    <2> QED
      BY <2>1, <1>5
  <1> QED
    BY <1>5, <1>7, <1>8 DEF s

LEMMA EmptyListed ==
  ASSUME grades \in Seq(Rows), Len(grades) = 0, NEW first \in Nat \ {0}, NEW last \in Nat
  PROVE  Listed(<<>>, first, last)
  BY DEF Listed

(* listSome shows its page.                                                *)
LEMMA ListSomeRight ==
  ASSUME grades \in Seq(Rows), NEW fill \in {NUL, Junk},
         NEW entries \in Nat \ {0}, NEW page \in Nat \ {0},
         Len(Text) <= BUFFER \/ (page * entries) * Width <= BUFFER
  PROVE  Listed(ListSome(fill, entries, page), (page - 1) * entries + 1, page * entries)
  <1> DEFINE first == (page - 1) * entries + 1
             last == page * entries
             b == Buffer(fill)[1]
  <1>1. first \in Nat \ {0} /\ last \in Nat
    <2>1. page - 1 \in Nat
      OBVIOUS
    <2>2. \A a, c \in Nat : a * c \in Nat
      OBVIOUS
    <2>3. (page - 1) * entries \in Nat /\ page * entries \in Nat
      BY <2>1, <2>2
    <2> QED
      BY <2>3
  <1>2. Chunks \in Nat /\ (Chunks = 0 <=> Len(grades) = 0) /\ Len(grades) \in Nat
        /\ Len(Text) = Len(grades) * Width
    BY ChunksAre, TextLines
  <1>3. Len(grades) * Width <= BUFFER \/ last * Width <= BUFFER
    BY <1>2
  <1> HIDE DEF first, last, b
  <1>4. CASE Chunks = 0
    <2>1. ListSome(fill, entries, page) = <<>>
      BY <1>4 DEF ListSome
    <2>2. Listed(<<>>, first, last)
      BY <1>1, <1>2, <1>4, EmptyListed
    <2> QED
      BY <2>1, <2>2 DEF first, last
  <1>5. CASE Chunks # 0
    <2> DEFINE s == Tokens(b)
    <2>1. ListSome(fill, entries, page) =
            SubSeq(s, first, IF last < Len(s) THEN last ELSE Len(s))
      BY <1>5 DEF ListSome, first, last, b
    <2>2. HoldsText(b, fill)
      BY <1>2, <1>5, FirstHoldsText DEF b
    <2>3. Listed(SubSeq(s, first, IF last < Len(s) THEN last ELSE Len(s)), first, last)
      BY <1>1, <1>2, <1>3, <1>5, <2>2, PageListed
    <2> QED
      BY <2>1, <2>3 DEF first, last
  <1> QED
    BY <1>4, <1>5

(* listGrades, read by read.                                               *)
IsListing(g, b) ==
    /\ g[0] = <<>>
    /\ \A k \in 1 .. Chunks : g[k] = Upto(g[k - 1] \o Tokens(b[k]), FIRST)

LEMMA ListingExists ==
  ASSUME grades \in Seq(Rows), NEW fill
  PROVE  \E g : IsListing(g, Buffer(fill)) /\ ListGrades(fill) = g[Chunks]
  <1> DEFINE b == Buffer(fill)
             V == {Tokens(b[x[1]])[x[2]] : x \in (1 .. Chunks) \X Nat}
             S == Seq(V)
             st == [x \in S \X (1 .. Chunks) |-> Upto(x[1] \o Tokens(b[x[2]]), FIRST)]
             Loop(q) == q = [k \in 0 .. Chunks |->
                               IF k = 0 THEN <<>> ELSE Upto(q[k - 1] \o Tokens(b[k]), FIRST)]
  <1>1. Chunks \in Nat /\ FIRST \in Nat
    BY ChunksAre, ShellAssumption
  <1> HIDE DEF b
  <1>2. ASSUME NEW k \in 1 .. Chunks
        PROVE  Tokens(b[k]) \in Seq(V)
    <2>1. \A n \in 1 .. Len(Tokens(b[k])) : Tokens(b[k])[n] \in V
      <3> SUFFICES ASSUME NEW n \in 1 .. Len(Tokens(b[k])) PROVE Tokens(b[k])[n] \in V
        OBVIOUS
      <3>1. n \in Nat
        BY TokensSeq
      <3>2. <<k, n>> \in (1 .. Chunks) \X Nat /\ <<k, n>>[1] = k /\ <<k, n>>[2] = n
        BY <3>1
      <3> QED
        BY <3>2
    <2> HIDE DEF V
    <2> QED
      BY <2>1, TokensSeq
  <1> HIDE DEF V
  <1>3. ASSUME NEW x \in S, NEW k \in 1 .. Chunks
        PROVE  Upto(x \o Tokens(b[k]), FIRST) \in S
    <2>1. x \o Tokens(b[k]) \in Seq(V)
      BY <1>2, ConcatProperties
    <2> QED
      BY <2>1, <1>1, UptoIs
  <1>4. <<>> \in S /\ st \in [S \X (1 .. Chunks) -> S]
    <2> HIDE DEF S
    <2>1. st \in [S \X (1 .. Chunks) -> S]
      BY <1>3
    <2> QED
      BY <2>1 DEF S
  <1>5. \A x \in S, k \in 1 .. Chunks :
           st[<<x, k>>] = Upto(x \o Tokens(b[k]), FIRST)
    <2> HIDE DEF S
    <2> QED
      OBVIOUS
  <1> HIDE DEF S, st
  <1>6. PICK g : /\ g \in [0 .. Chunks -> S] /\ g[0] = <<>>
                 /\ \A k \in 1 .. Chunks : g[k] = st[<<g[k - 1], k>>]
    <2>1. \E g : IsLoop(g, S, Chunks, <<>>, st)
      BY <1>1, <1>4, LoopExists
    <2> QED
      BY <2>1 DEF IsLoop
  <1>7. \A k \in 1 .. Chunks : g[k] = Upto(g[k - 1] \o Tokens(b[k]), FIRST)
    <2> SUFFICES ASSUME NEW k \in 1 .. Chunks
                 PROVE  g[k] = Upto(g[k - 1] \o Tokens(b[k]), FIRST)
      OBVIOUS
    <2>1. k - 1 \in 0 .. Chunks /\ g[k - 1] \in S
      BY <1>1, <1>6
    <2> QED
      BY <2>1, <1>5, <1>6
  <1>8. Loop(g)
    <2> DEFINE h == [k \in 0 .. Chunks |->
                       IF k = 0 THEN <<>> ELSE Upto(g[k - 1] \o Tokens(b[k]), FIRST)]
    <2>1. \A k \in 0 .. Chunks : g[k] = h[k]
      BY <1>1, <1>6, <1>7
    <2>2. DOMAIN g = 0 .. Chunks /\ g = [k \in DOMAIN g |-> g[k]]
      BY <1>6
    <2>3. DOMAIN h = 0 .. Chunks /\ h = [k \in DOMAIN h |-> h[k]]
      OBVIOUS
    <2>4. g = h
      <3> HIDE DEF h
      <3> QED
        BY <2>1, <2>2, <2>3
    <2> QED
      BY <2>4
  <1> DEFINE listed == CHOOSE q : Loop(q)
  <1>9. ListGrades(fill) = listed[Chunks]
    BY DEF ListGrades, b
  <1> HIDE DEF listed
  <1>10. Loop(listed)
    BY <1>8 DEF listed
  <1>11. IsListing(listed, b)
    <2>1. \A k \in 0 .. Chunks : listed[k] =
             IF k = 0 THEN <<>> ELSE Upto(listed[k - 1] \o Tokens(b[k]), FIRST)
      BY <1>10
    <2> HIDE DEF Loop
    <2> QED
      BY <2>1, <1>1 DEF IsListing
  <1> QED
    BY <1>9, <1>11 DEF b

(* listGrades shows the first entries.                                     *)
LEMMA ListGradesRight ==
  ASSUME grades \in Seq(Rows), NEW fill \in {NUL, Junk},
         Len(Text) <= BUFFER \/ FIRST * Width <= BUFFER
  PROVE  Listed(ListGrades(fill), 1, FIRST)
  <1> DEFINE b == Buffer(fill)
             l == Len(grades)
             s == Tokens(b[1])
             m == IF FIRST < Len(s) THEN FIRST ELSE Len(s)
             page == SubSeq(s, 1, m)
  <1>1. PICK g : IsListing(g, b) /\ ListGrades(fill) = g[Chunks]
    BY ListingExists
  <1>2. /\ Chunks \in Nat /\ (Chunks = 0 <=> l = 0) /\ l \in Nat
        /\ Len(Text) <= BUFFER => Chunks <= 1
        /\ Len(Text) = l * Width /\ l * Width \in Nat
        /\ FIRST \in Nat /\ BUFFER \in Nat /\ Width \in Nat \ {0, 1}
    BY ChunksAre, TextLines, ShellAssumption
  <1>3. CASE Chunks = 0
    <2>1. ListGrades(fill) = <<>>
      BY <1>1, <1>3 DEF IsListing
    <2> QED
      BY <2>1, <1>2, <1>3, EmptyListed
  <1>4. CASE Chunks # 0
    <2>1. HoldsText(b[1], fill)
      BY <1>2, <1>4, FirstHoldsText
    <2>2. Listed(page, 1, FIRST)
      BY <1>2, <1>4, <2>1, PageListed
    <2>3. 1 \in 1 .. Chunks /\ Chunks \in 1 .. Chunks
      BY <1>2, <1>4
    <2>4. PICK V : s \in Seq(V)
      <3> DEFINE V == {s[n] : n \in 1 .. Len(s)}
      <3> HIDE DEF s
      <3>1. \A n \in 1 .. Len(s) : s[n] \in V
        OBVIOUS
      <3> HIDE DEF V
      <3>2. s \in Seq(V)
        BY <3>1, TokensSeq DEF s
      <3> QED
        BY <3>2
    <2>5. g[1] = page
      <3>1. g[1] = Upto(g[1 - 1] \o s, FIRST) /\ g[0] = <<>>
        BY <1>1, <2>3 DEF IsListing
      <3> HIDE DEF s
      <3>2. 1 - 1 = 0 /\ <<>> \o s = s
        BY <2>4, ConcatEmptySeq
      <3> QED
        BY <3>1, <3>2 DEF Upto
    <2> HIDE DEF page, s, b, l
    <2>6. CASE Chunks = 1
      BY <2>6, <2>2, <2>5, <1>1
    <2>7. CASE Chunks # 1
      <3>1. ~(Len(Text) <= BUFFER) /\ FIRST * Width <= BUFFER
        BY <2>7, <1>2, <1>4
      <3>2. FIRST < l
        <4> SUFFICES ASSUME l <= FIRST PROVE FALSE
          BY <1>2
        <4>1. CASE l = FIRST
          BY <4>1, <3>1, <1>2
        <4>2. CASE l < FIRST
          <5>1. l * Width + Width <= FIRST * Width
            BY <4>2, <1>2, Multiples
          <5>2. FIRST * Width \in Nat
            BY <1>2, Multiples
          <5> QED
            BY <5>1, <5>2, <3>1, <1>2
        <4> QED
          BY <4>1, <4>2, <1>2
      <3>3. FIRST <= Len(s) /\ Len(s) \in Nat
        <4>1. /\ Len(s) \in Nat
              /\ \A n \in 1 .. l : n * Width <= BUFFER => n <= Len(s)
          BY <1>2, <1>4, <2>1, TokensRight DEF s, l
        <4> QED
          BY <4>1, <3>1, <3>2, <1>2
      <3>4. page \in Seq(V) /\ Len(page) = FIRST
        <4>1. page = Upto(s, FIRST)
          BY DEF page, Upto
        <4> QED
          BY <4>1, <3>3, <2>4, <1>2, UptoIs
      <3> DEFINE W == {k \in 0 .. Chunks : k = 0 \/ g[k] = page}
      <3>5. ASSUME NEW k \in 1 .. Chunks, k - 1 \in W
            PROVE  k \in W
        <4>1. CASE k = 1
          BY <4>1, <2>5
        <4>2. CASE k # 1
          <5>1. g[k - 1] = page /\ g[k] = Upto(page \o Tokens(b[k]), FIRST)
            BY <4>2, <3>5, <1>1 DEF IsListing
          <5> DEFINE t == Tokens(b[k])
                     U == V \cup {t[n] : n \in 1 .. Len(t)}
          <5>2. t \in Seq(U) /\ page \in Seq(U)
            <6> HIDE DEF t
            <6>1. \A n \in 1 .. Len(t) : t[n] \in U
              OBVIOUS
            <6>2. V \subseteq U
              OBVIOUS
            <6> HIDE DEF U
            <6>3. t \in Seq(U)
              BY <6>1, TokensSeq DEF t
            <6>4. page \in Seq(U)
              BY <6>2, <3>4, SeqMonotonic
            <6> QED
              BY <6>3, <6>4
          <5> HIDE DEF t, U
          <5>3. /\ page \o t \in Seq(U) /\ Len(page \o t) = FIRST + Len(t) /\ Len(t) \in Nat
                /\ \A i \in 1 .. FIRST : (page \o t)[i] = page[i]
            <6>1. /\ page \o t \in Seq(U) /\ Len(page \o t) = Len(page) + Len(t)
                  /\ \A i \in 1 .. Len(page) + Len(t) :
                       (page \o t)[i] = IF i <= Len(page) THEN page[i] ELSE t[i - Len(page)]
              BY <5>2, ConcatProperties
            <6>2. Len(t) \in Nat
              BY <5>2, LenProperties
            <6> QED
              BY <6>1, <6>2, <3>4, <1>2
          <5> DEFINE x == page \o t
                     u == Upto(x, FIRST)
          <5>4. u \in Seq(U) /\ Len(u) = FIRST /\ \A i \in 1 .. Len(u) : u[i] = x[i]
            <6> HIDE DEF x
            <6>1. x \in Seq(U) /\ FIRST <= Len(x) /\ Len(x) \in Nat
              BY <5>3, <1>2 DEF x
            <6> QED
              BY <6>1, <1>2, UptoIs
          <5> HIDE DEF u
          <5>5. u = page
            BY <5>2, <5>3, <5>4, <3>4, SeqEqual
          <5> QED
            BY <5>1, <5>5 DEF u, t
        <4> QED
          BY <4>1, <4>2
      <3>6. 0 \in W
        BY <1>2
      <3>7. Chunks \in W
        <4> HIDE DEF W
        <4>1. \A k \in 1 .. Chunks : k - 1 \in W => k \in W
          BY <3>5
        <4>2. \A k \in 0 .. Chunks : k \in W
          BY <4>1, <3>6, <1>2, UpTo
        <4> QED
          BY <4>2, <1>2
      <3> QED
        BY <3>7, <2>2, <1>1, <1>4
    <2> QED
      BY <2>6, <2>7
  <1> QED
    BY <1>3, <1>4

-----------------------------------------------------------------------------
(* What was shown stays right as long as the file does, and what shows     *)
(* nothing of the file is right.                                           *)
LEMMA ShownStays ==
  ASSUME ShownRight, shown' = shown, grades' = grades
  PROVE  ShownRight'
  <1>0. SortedShown
    BY DEF ShownRight
  <1>1. SortedShown'
    BY <1>0, SMTT(30) DEF SortedShown, Before, Entry, Junk
  <1>2. ListedShown'
    BY DEF ShownRight, ListedShown, Fits, Text, Entries, Numbers, Entry
  <1> QED
    BY <1>1, <1>2 DEF ShownRight

LEMMA SortedElse ==
  ASSUME shown'.by \notin {"1", "2", "3", "4"}
  PROVE  SortedShown'
  BY DEF SortedShown

LEMMA ListedElse ==
  ASSUME shown'.by \notin {"show", "list", "some"}
  PROVE  ListedShown'
  BY DEF ListedShown

LEMMA NothingShown ==
  ASSUME shown' = Nothing
  PROVE  ShownRight'
  <1>1. shown'.by = "none"
    BY DEF Nothing
  <1> QED
    BY <1>1, SortedElse, ListedElse DEF ShownRight

(* A listing that shows what was asked for.                                *)
LEMMA ListingShows ==
  ASSUME grades \in Seq(Rows), grades' = grades, NEW s, NEW first, NEW last,
         NEW cmd \in {"list", "some"}, Shows(cmd, s, first, last),
         Len(Text) <= BUFFER \/ last * Width <= BUFFER => Listed(s, first, last)
  PROVE  ShownRight'
  <1>1. /\ shown'.by = cmd /\ shown'.entries = s /\ shown'.first = first
        /\ shown'.last = last
    BY DEF Shows
  <1>2. SortedShown'
    BY <1>1, SortedElse
  <1>3. Fits(BUFFER)' <=> Len(Text) <= BUFFER
    BY DEF Fits, Text
  <1>4. ListedShown'
    BY <1>1, <1>3 DEF ListedShown, Listed, Entry
  <1> QED
    BY <1>2, <1>4 DEF ShownRight

(* The invariant is made of the two halves, and of what was shown.         *)
LEMMA Halves ==
  /\ IInv => TypeOK /\ ReadersRight /\ InputOK /\ EffectsOK /\ ShownRight
             /\ failures \in Nat
  /\ InputOK' /\ EffectsOK' /\ failures' \in Nat /\ ShownRight' => IInv'
  BY DEF IInv, TypeOK, InputOK, EffectsOK

(* What the invariant says of a command in a child that exits, and in one  *)
(* that goes on as a shell.                                                *)
LEMMA RunsGives ==
  ASSUME IInv, NEW cmd, Runs(cmd)
  PROVE  InputOK' /\ LineTaken /\ LinesGrow /\ lines'[At].cmd = cmd /\ asking' = 0
  <1>1. Reads(cmd) /\ shells' = Advanced /\ nested' = nested /\ asking' = 0
    BY DEF Runs, Reads
  <1>2. InputOK'
    BY <1>1, Halves, RunsKeeps
  <1>3. LineTaken /\ lines'[At].cmd = cmd
    BY <1>1, Halves, ReadsTakes
  <1> QED
    BY <1>1, <1>2, <1>3 DEF LineTaken

LEMMA NestsGives ==
  ASSUME IInv, NEW cmd, Nests(cmd)
  PROVE  InputOK' /\ LineTaken /\ LinesGrow /\ asking' = 0
  <1>1. Reads(cmd) /\ nested' = TRUE /\ asking' = 0
    BY DEF Nests, Reads
  <1>2. InputOK'
    BY Halves, NestsKeeps
  <1>3. LineTaken
    BY <1>1, Halves, ReadsTakes
  <1> QED
    BY <1>1, <1>2, <1>3 DEF LineTaken

(* A command that is logged and adds nobody.                               *)
LEMMA CommandKeeps ==
  ASSUME IInv, NEW cmd, Runs(cmd), Executes, UNCHANGED <<added, failures>>,
         grades' = grades \/ (grades = NoFile /\ grades' = <<>>),
         ShownRight'
  PROVE  IInv'
  <1>1. InputOK' /\ LineTaken /\ asking' = 0
    BY RunsGives
  <1>2. EffectsOK'
    BY <1>1, Halves, ExecutesKeeps
  <1> QED
    BY <1>1, <1>2, Halves

LEMMA InitHolds == Init => IInv
  <1> SUFFICES ASSUME Init PROVE IInv
    OBVIOUS
  <1>1. TypeOK
    <2>1. grades \in Seq(Rows) \cup {NoFile}
      BY RowsAssumption DEF Init
    <2>2. /\ lines = <<>> /\ log = <<>> /\ added = <<>> /\ shells = <<0>> /\ asking = 0
          /\ closed = FALSE /\ piped \in BOOLEAN /\ nested = FALSE /\ failures = 0
      BY DEF Init
    <2>3. lines \in Seq(Lines) /\ log \in Seq(1 .. Len(lines))
          /\ added \in Seq(1 .. Len(lines)) /\ shells \in Seq(Nat)
      BY <2>2
    <2> QED
      BY <2>1, <2>2, <2>3 DEF TypeOK
  <1>2. ReadersRight
    <2>1. shells = <<0>> /\ lines = <<>> /\ asking = 0 /\ nested = FALSE
      BY DEF Init
    <2>2. Len(shells) = 1 /\ Len(lines) = 0 /\ \A d \in DOMAIN shells : shells[d] = 0
      BY <2>1
    <2> QED
      BY <2>1, <2>2 DEF ReadersRight
  <1>3. FileGrows
    <2>1. added = <<>> /\ asking = 0 /\ Len(added) = 0
      BY DEF Init
    <2>2. grades # NoFile => Len(grades) \in Nat
      BY <1>1 DEF TypeOK
    <2> QED
      BY <2>1, <2>2 DEF FileGrows
  <1>4. EachLineOnce
    BY DEF Init, EachLineOnce, Increasing
  <1>5. ShownRight
    <2>1. shown.by = "none"
      BY DEF Init, Nothing
    <2> QED
      BY <2>1 DEF ShownRight, SortedShown, ListedShown
  <1> QED
    BY <1>1, <1>2, <1>3, <1>4, <1>5 DEF IInv

LEMMA StepKeeps == IInv /\ [Next]_vars => IInv'
  <1> SUFFICES ASSUME IInv, [Next]_vars PROVE IInv'
    OBVIOUS
  <1>0. /\ TypeOK /\ ReadersRight /\ InputOK /\ EffectsOK /\ ShownRight
        /\ failures \in Nat
    BY Halves
  <1>1. CASE Skipped
    <2>1. PICK cmd : Runs(cmd)
      BY <1>1 DEF Skipped
    <2>2. UNCHANGED <<effects, shown>> /\ failures' = failures + 1
      BY <1>1 DEF Skipped, ForkFails
    <2>3. InputOK' /\ LinesGrow /\ asking' = 0
      BY <2>1, RunsGives
    <2>4. EffectsOK'
      BY <1>0, <2>2, <2>3, EffectsKeep DEF effects
    <2>5. ShownRight'
      BY <1>0, <2>2, ShownStays DEF effects
    <2> QED
      BY <1>0, <2>2, <2>3, <2>4, <2>5, Halves
  <1>2. CASE SkippedInChild
    <2>1. PICK cmd : Nests(cmd)
      BY <1>2 DEF SkippedInChild
    <2>2. UNCHANGED <<effects, shown>> /\ failures' = failures + 1
      BY <1>2 DEF SkippedInChild, ForkFails
    <2>3. InputOK' /\ LinesGrow /\ asking' = 0
      BY <2>1, NestsGives
    <2>4. EffectsOK'
      BY <1>0, <2>2, <2>3, EffectsKeep DEF effects
    <2>5. ShownRight'
      BY <1>0, <2>2, ShownStays DEF effects
    <2> QED
      BY <1>0, <2>2, <2>3, <2>4, <2>5, Halves
  <1>3. CASE Help
    BY <1>3, CommandKeeps, NothingShown DEF Help
  <1>4. CASE createfile
    BY <1>4, CommandKeeps, NothingShown DEF createfile
  <1>5. CASE addStudentGrade
    <2>1. Runs("add") /\ Executes /\ shown' = Nothing /\ failures' = failures
      BY <1>5 DEF addStudentGrade
    <2>2. InputOK' /\ LineTaken /\ lines'[At].cmd = "add"
      BY <2>1, RunsGives
    <2>3. CASE grades = NoFile
      <3>1. UNCHANGED <<grades, added>>
        BY <1>5, <2>3 DEF addStudentGrade
      <3> QED
        BY <2>1, <3>1, CommandKeeps, NothingShown
    <2>4. CASE grades # NoFile
      <3>1. grades' = Append(grades, lines'[At].who) /\ added' = Append(added, At)
        BY <1>5, <2>4 DEF addStudentGrade
      <3>2. EffectsOK'
        BY <1>0, <2>1, <2>2, <2>4, <3>1, AddKeeps
      <3> QED
        BY <1>0, <2>1, <2>2, <3>2, Halves, NothingShown
    <2> QED
      BY <2>3, <2>4
  <1>6. CASE searchStudent
    BY <1>6, CommandKeeps, NothingShown DEF searchStudent
  <1>7. CASE Misused
    BY <1>7, CommandKeeps, NothingShown DEF Misused
  <1>8. CASE Empty
    <2>1. Runs("empty") /\ shown' = Nothing /\ UNCHANGED <<log, grades, added, failures>>
      BY <1>8 DEF Empty, effects
    <2>2. InputOK' /\ LinesGrow /\ asking' = 0
      BY <2>1, RunsGives
    <2>3. EffectsOK'
      BY <1>0, <2>1, <2>2, EffectsKeep
    <2> QED
      BY <1>0, <2>1, <2>2, <2>3, Halves, NothingShown
  <1>9. CASE Unknown
    <2>1. PICK cmd : Nests(cmd)
      BY <1>9 DEF Unknown
    <2>2. Executes /\ shown' = Nothing /\ UNCHANGED <<grades, added, failures>>
      BY <1>9 DEF Unknown
    <2>3. InputOK' /\ LineTaken /\ asking' = 0
      BY <2>1, NestsGives
    <2>4. EffectsOK'
      BY <1>0, <2>2, <2>3, ExecutesKeeps
    <2> QED
      BY <1>0, <2>2, <2>3, <2>4, Halves, NothingShown
  <1>10. CASE Quit
    <2>1. Reads("q") /\ nested' = nested /\ asking' = asking /\ asking = 0
          /\ shown' = Nothing /\ UNCHANGED <<log, grades, added, failures>>
      BY <1>10 DEF Quit, Reads, effects
    <2>2. LinesGrow
      BY <1>0, <2>1, ReadsTakes DEF LineTaken
    <2>3. InputOK'
      BY <1>0, <1>10, QuitKeeps
    <2>4. EffectsOK'
      BY <1>0, <2>1, <2>2, EffectsKeep
    <2> QED
      BY <1>0, <2>1, <2>3, <2>4, Halves, NothingShown
  <1>11. CASE EndOfInput
    <2>1. closed' = TRUE /\ UNCHANGED <<lines, piped, shells, asking, log, grades,
                                       added, failures, nested, shown>>
      BY <1>11 DEF EndOfInput, effects
    <2>2. InputOK'
      BY <1>0, <2>1 DEF InputOK, ReadersRight
    <2>3. EffectsOK'
      BY <1>0, <2>1 DEF EffectsOK, FileGrows, EachLineOnce, Increasing
    <2> QED
      BY <1>0, <2>1, <2>2, <2>3, Halves, ShownStays
  <1>12. CASE showAll
    <2>1. /\ Runs("show") /\ Executes /\ UNCHANGED <<grades, added, failures>>
          /\ IF grades = NoFile THEN shown' = Nothing
                                ELSE Shows("show", Entries(Numbers(Len(grades))), 1, Len(grades))
      BY <1>12 DEF showAll
    <2>2. ShownRight'
      <3>1. CASE shown' = Nothing
        BY <3>1, NothingShown
      <3>2. CASE Shows("show", Entries(Numbers(Len(grades))), 1, Len(grades))
        <4>1. shown'.by = "show" /\ shown'.entries = Entries(Numbers(Len(grades)))
          BY <3>2 DEF Shows
        <4>2. SortedShown'
          BY <4>1, SortedElse
        <4>3. ListedShown'
          BY <4>1, <2>1 DEF ListedShown, Entries, Numbers, Entry
        <4> QED
          BY <4>2, <4>3 DEF ShownRight
      <3> QED
        BY <2>1, <3>1, <3>2
    <2> QED
      BY <2>1, <2>2, CommandKeeps
  <1>13. CASE listGrades
    <2>1. /\ Runs("list") /\ Executes /\ UNCHANGED <<grades, added, failures>>
          /\ IF grades = NoFile THEN shown' = Nothing
             ELSE \E fill \in {NUL, Junk} : Shows("list", ListGrades(fill), 1, FIRST)
      BY <1>13 DEF listGrades
    <2>2. ShownRight'
      <3>1. CASE grades = NoFile
        BY <2>1, <3>1, NothingShown
      <3>2. CASE grades # NoFile
        <4>1. PICK fill \in {NUL, Junk} : Shows("list", ListGrades(fill), 1, FIRST)
          BY <2>1, <3>2
        <4>2. grades \in Seq(Rows)
          BY <1>0, <3>2 DEF EffectsOK
        <4>3. Len(Text) <= BUFFER \/ FIRST * Width <= BUFFER =>
                Listed(ListGrades(fill), 1, FIRST)
          BY <4>2, ListGradesRight
        <4> QED
          BY <2>1, <4>1, <4>2, <4>3, ListingShows
      <3> QED
        BY <3>1, <3>2
    <2> QED
      BY <2>1, <2>2, CommandKeeps
  <1>14. CASE listSome
    <2>1. /\ Runs("some") /\ Executes /\ UNCHANGED <<grades, added, failures>>
          /\ IF grades = NoFile THEN shown' = Nothing
             ELSE \E fill \in {NUL, Junk}, entries \in 1 .. MaxPage, page \in 1 .. MaxPage :
                    Shows("some", ListSome(fill, entries, page),
                          (page - 1) * entries + 1, page * entries)
      BY <1>14 DEF listSome
    <2>2. ShownRight'
      <3>1. CASE grades = NoFile
        BY <2>1, <3>1, NothingShown
      <3>2. CASE grades # NoFile
        <4>1. PICK fill \in {NUL, Junk}, entries \in 1 .. MaxPage, page \in 1 .. MaxPage :
                Shows("some", ListSome(fill, entries, page),
                      (page - 1) * entries + 1, page * entries)
          BY <2>1, <3>2
        <4>2. grades \in Seq(Rows)
          BY <1>0, <3>2 DEF EffectsOK
        <4> DEFINE first == (page - 1) * entries + 1
                   last == page * entries
        <4>5. entries \in Nat \ {0} /\ page \in Nat \ {0}
          BY ShellAssumption
        <4>3. Len(Text) <= BUFFER \/ last * Width <= BUFFER =>
                Listed(ListSome(fill, entries, page), first, last)
          BY <4>2, <4>5, ListSomeRight
        <4>4. Shows("some", ListSome(fill, entries, page), first, last)
          BY <4>1
        <4> HIDE DEF first, last
        <4> QED
          BY <2>1, <4>2, <4>3, <4>4, ListingShows
      <3> QED
        BY <3>1, <3>2
    <2> QED
      BY <2>1, <2>2, CommandKeeps
  <1>15. CASE sortAll
    <2>1. /\ Reads("sort") /\ Executes /\ shells' = Advanced /\ nested' = nested
          /\ asking' = IF grades = NoFile THEN 0 ELSE At + 1
          /\ shown' = Nothing /\ UNCHANGED <<grades, added, failures>>
      BY <1>15 DEF sortAll
    <2>2. LineTaken
      BY <1>0, <2>1, ReadsTakes
    <2>3. InputOK'
      <3>1. asking' \in {0, At + 1}
        BY <2>1
      <3> QED
        BY <1>0, <2>1, <3>1, RunsKeeps
    <2>4. EffectsOK'
      BY <1>0, <2>1, <2>2, ExecutesKeeps
    <2> QED
      BY <1>0, <2>1, <2>3, <2>4, Halves, NothingShown
  <1>16. CASE AnswerSkipped
    <2> DEFINE line == [cmd |-> "empty"]
    <2>1. /\ asking > 0 /\ Typed(line) /\ asking' = At + 1 /\ Answered
          /\ shown' = shown /\ UNCHANGED <<log, grades, added, failures>>
      BY <1>16 DEF AnswerSkipped, Answered, effects
    <2>2. line \in Lines
      BY DEF Lines, Plain
    <2>3. grades # NoFile
      BY <1>0, <2>1 DEF EffectsOK, FileGrows
    <2>4. LineTaken /\ InputOK'
      BY <1>0, <2>1, <2>2, AnsweredKeeps
    <2>5. EffectsOK'
      BY <1>0, <2>1, <2>3, <2>4, EffectsKeep DEF LineTaken
    <2> QED
      BY <1>0, <2>1, <2>4, <2>5, Halves, ShownStays
  <1>17. CASE Answer
    <2>1. /\ asking > 0 /\ asking' = 0 /\ Answered
          /\ UNCHANGED <<log, grades, added, failures>>
      BY <1>17 DEF Answer, Answered, effects
    <2>2. PICK line \in Lines :
            /\ Typed(line)
            /\ \E choice \in Chosen(line.cmd) :
                 IF choice = "none" \/ ~Fits(SORT_BUFFER - 1) THEN shown' = Nothing
                 ELSE \E s \in Sorted(choice) : Shows(choice, s, 1, Len(s))
      BY <1>17 DEF Answer
    <2>3. grades \in Seq(Rows)
      BY <1>0, <2>1 DEF EffectsOK, FileGrows
    <2>4. LineTaken /\ InputOK'
      BY <1>0, <2>1, <2>2, AnsweredKeeps
    <2>5. EffectsOK'
      BY <1>0, <2>1, <2>4, EffectsKeep DEF LineTaken
    <2>6. ShownRight'
      <3>1. PICK choice \in Chosen(line.cmd) :
              IF choice = "none" \/ ~Fits(SORT_BUFFER - 1) THEN shown' = Nothing
              ELSE \E s \in Sorted(choice) : Shows(choice, s, 1, Len(s))
        BY <2>2
      <3>2. CASE shown' = Nothing
        BY <3>2, NothingShown
      <3>3. CASE shown' # Nothing
        <4>1. choice \in {"1", "2", "3", "4"}
          BY <3>1, <3>3 DEF Chosen
        <4>2. PICK s \in Sorted(choice) : Shows(choice, s, 1, Len(s))
          BY <3>1, <3>3
        <4>3. shown'.by = choice /\ shown'.entries = s
          BY <4>2 DEF Shows
        <4>4. SortedShown'
          BY <2>1, <2>3, <4>1, <4>3, SortShows
        <4>5. ListedShown'
          BY <4>1, <4>3, ListedElse
        <4> QED
          BY <4>4, <4>5 DEF ShownRight
      <3> QED
        BY <3>2, <3>3
    <2> QED
      BY <1>0, <2>1, <2>4, <2>5, <2>6, Halves
  <1>18. CASE UNCHANGED vars
    <2>1. UNCHANGED <<lines, closed, piped, shells, asking, log, grades, added,
                      failures, nested, shown>>
      BY <1>18 DEF vars, input, effects
    <2>2. InputOK'
      BY <1>0, <2>1 DEF InputOK, ReadersRight
    <2>3. EffectsOK'
      BY <1>0, <2>1 DEF EffectsOK, FileGrows, EachLineOnce, Increasing
    <2> QED
      BY <1>0, <2>1, <2>2, <2>3, Halves, ShownStays
  <1> QED
    BY <1>1, <1>2, <1>3, <1>4, <1>5, <1>6, <1>7, <1>8, <1>9, <1>10, <1>11, <1>12,
       <1>13, <1>14, <1>15, <1>16, <1>17, <1>18 DEF Next

-----------------------------------------------------------------------------
(* The invariant holds: the types, where the shells and the one who asks   *)
(* stand in the input, that the file only grows behind what it held, and   *)
(* the two properties below.                                               *)
THEOREM Invariance == Spec => []IInv
  <1>1. Init => IInv
    BY InitHolds
  <1>2. IInv /\ [Next]_vars => IInv'
    BY StepKeeps
  <1> QED
    BY <1>1, <1>2, PTL DEF Spec

(* The students that were added are those of lines that were executed and  *)
(* logged, in the order of the file; on a terminal, and on a pipe until a  *)
(* child reads from its copy of the buffer, no line is executed twice or   *)
(* before an earlier one.                                                  *)
THEOREM LinesOnce == Spec => []EachLineOnce
  <1>1. IInv => EachLineOnce
    BY DEF IInv
  <1> QED
    BY <1>1, Invariance, PTL

(* Whatever sortAll shows is the whole file, each student once, by name or *)
(* by grade as the answer asked, and the bubble sort by grade is stable;   *)
(* by name nothing else is shown, and by grade only what strtok finds in   *)
(* the stack behind the text stands among the students.  listGrades and    *)
(* listSome show the entries that were asked for as long as their lines    *)
(* fit into the one buffer that is read.                                   *)
THEOREM ShowsRight == Spec => []ShownRight
  <1>1. IInv => ShownRight
    BY DEF IInv
  <1> QED
    BY <1>1, Invariance, PTL
===============================================================================
