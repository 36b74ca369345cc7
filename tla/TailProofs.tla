------------------------------ MODULE TailProofs ------------------------------
(***************************************************************************)
(* The proof that the backwards scan of logs::execute and the splitting of *)
(* get_logs show the same last lines of every log, but for an empty first  *)
(* line.  Both count sets of newlines: where the scan stops, as many lines *)
(* end after that newline as are wanted, and one newline only is like that.*)
(***************************************************************************)
EXTENDS MCFront, FiniteSetTheorems, SequenceTheorems, WellFoundedInduction,
        TLAPS

------------------------------------------------------------------------------

\* A nonempty set of numbers up to a bound has a greatest one: the distances
\* from the bound have a least.
LEMMA Greatest ==
  ASSUME NEW n \in Nat, NEW S, S \subseteq 0 .. n, S # {}
  PROVE  \E x \in S : \A y \in S : y <= x
  <1> DEFINE T == {d \in Nat : n - d \in S}
  <1>1. PICK s \in S : TRUE
    OBVIOUS
  <1>2. n - s \in T
    BY <1>1
  <1>3. PICK d \in T : \A e \in T : <<e, d>> \notin OpToRel(<, Nat)
    <2>1. T \subseteq Nat /\ T # {}
      BY <1>2
    <2> HIDE DEF T
    <2> QED BY <2>1, NatLessThanWellFounded, WFMin
  <1>4. \A e \in T : ~(e < d)
    BY <1>3 DEF OpToRel
  <1>5. ASSUME NEW y \in S PROVE y <= n - d
    <2>1. y \in 0 .. n /\ n - y \in T /\ d \in Nat
      BY <1>5
    <2>2. ~(n - y < d)
      BY <1>4, <2>1
    <2> QED BY <2>1, <2>2
  <1> QED BY <1>5

------------------------------------------------------------------------------
\* Counts of newlines.

Counted(file, position) == {index \in position + 1 .. Len(file) : Counts(file, index)}

EndsAfter(file, index) == {end \in LineEnds(file) : end > index}

\* Lines end in the file.
LEMMA EndsInFile ==
  ASSUME NEW file \in Seq(Byte)
  PROVE  Len(file) \in Nat /\ 0 \in 0 .. Len(file) /\ LineEnds(file) \subseteq 1 .. Len(file)
  BY DEF LineEnds

\* The sets are finite; the counts are naturals.
LEMMA CountTypes ==
  ASSUME NEW file \in Seq(Byte), NEW p \in 0 .. Len(file)
  PROVE  /\ IsFiniteSet(LineEnds(file)) /\ Cardinality(LineEnds(file)) \in Nat
         /\ IsFiniteSet(Counted(file, p)) /\ LineCount(file, p) = Cardinality(Counted(file, p))
         /\ LineCount(file, p) \in Nat
         /\ IsFiniteSet(EndsAfter(file, p)) /\ LinesAfter(file, p) = Cardinality(EndsAfter(file, p))
         /\ LinesAfter(file, p) \in Nat
  <1>1. Len(file) \in Nat /\ LineEnds(file) \subseteq 1 .. Len(file)
    BY EndsInFile
  <1>2. IsFiniteSet(1 .. Len(file))
    BY <1>1, FS_Interval
  <1>3. /\ Counted(file, p) \subseteq 1 .. Len(file)
        /\ EndsAfter(file, p) \subseteq 1 .. Len(file)
    BY <1>1 DEF Counted, EndsAfter
  <1> QED BY <1>1, <1>2, <1>3, FS_Subset, FS_CardinalityType
          DEF Counted, EndsAfter, LineCount, LinesAfter

\* The last byte ends a line and is not counted, every other newline does both.
LEMMA OneMoreLine ==
  ASSUME NEW file \in Seq(Byte), NEW p \in 0 .. Len(file), p < Len(file)
  PROVE  LinesAfter(file, p) = LineCount(file, p) + 1
  <1>1. EndsAfter(file, p) = Counted(file, p) \cup {Len(file)}
    BY DEF EndsAfter, Counted, LineEnds, Counts
  <1>2. Len(file) \notin Counted(file, p)
    BY DEF Counted, Counts
  <1> QED BY <1>1, <1>2, EndsInFile, CountTypes, FS_AddElement

\* Nothing ends after the end.
LEMMA NoneAfterEnd ==
  ASSUME NEW file \in Seq(Byte)
  PROVE  LinesAfter(file, Len(file)) = 0 /\ LineCount(file, Len(file)) = 0
  <1>1. EndsAfter(file, Len(file)) = {} /\ Counted(file, Len(file)) = {}
    BY EndsInFile DEF EndsAfter, Counted
  <1> QED BY <1>1, EndsInFile, CountTypes, FS_EmptySet

\* All lines end after the beginning.
LEMMA AllAfterBeginning ==
  ASSUME NEW file \in Seq(Byte)
  PROVE  LinesAfter(file, 0) = Cardinality(LineEnds(file))
  <1>1. EndsAfter(file, 0) = LineEnds(file)
    BY EndsInFile DEF EndsAfter
  <1> QED BY <1>1, EndsInFile, CountTypes

\* Of two lines, fewer end after the later one.
LEMMA LaterHasFewer ==
  ASSUME NEW file \in Seq(Byte), NEW e \in LineEnds(file), NEW f \in LineEnds(file), e < f
  PROVE  LinesAfter(file, f) < LinesAfter(file, e)
  <1>1. e \in 0 .. Len(file) /\ f \in 0 .. Len(file)
    BY EndsInFile
  <1>2. EndsAfter(file, f) \subseteq EndsAfter(file, e) \ {f} /\ f \in EndsAfter(file, e)
    <2>1. \A end \in LineEnds(file) : end \in Int
      BY EndsInFile
    <2>2. \A end \in LineEnds(file) : end > f => end > e /\ end # f
      BY <2>1
    <2>3. f > e
      BY <2>1
    <2> QED BY <2>2, <2>3 DEF EndsAfter
  <1>3. /\ IsFiniteSet(EndsAfter(file, e) \ {f})
        /\ Cardinality(EndsAfter(file, e) \ {f}) = LinesAfter(file, e) - 1
    BY <1>1, <1>2, EndsInFile, CountTypes, FS_RemoveElement
  <1>4. LinesAfter(file, f) <= LinesAfter(file, e) - 1
    BY <1>1, <1>2, <1>3, EndsInFile, CountTypes, FS_Subset
  <1> QED BY <1>1, <1>4, EndsInFile, CountTypes

\* One step of the scan counts the byte it reads.
LEMMA OneByte ==
  ASSUME NEW file \in Seq(Byte), NEW p \in 0 .. Len(file), p < Len(file)
  PROVE  LineCount(file, p) = LineCount(file, p + 1) + IF Counts(file, p + 1) THEN 1 ELSE 0
  <1>1. p + 1 \in 0 .. Len(file)
    BY EndsInFile, CountTypes
  <1>2. /\ p + 1 \notin Counted(file, p + 1)
        /\ Counted(file, p) = Counted(file, p + 1) \cup (IF Counts(file, p + 1) THEN {p + 1} ELSE {})
    BY EndsInFile, CountTypes DEF Counted
  <1>3. /\ LineCount(file, p) = Cardinality(Counted(file, p))
        /\ LineCount(file, p + 1) = Cardinality(Counted(file, p + 1))
        /\ LineCount(file, p + 1) \in Nat /\ IsFiniteSet(Counted(file, p + 1))
    BY <1>1, CountTypes
  <1>4. CASE Counts(file, p + 1)
    BY <1>2, <1>3, <1>4, FS_AddElement
  <1>5. CASE ~Counts(file, p + 1)
    BY <1>2, <1>3, <1>5
  <1> QED BY <1>4, <1>5

\* The scan counts up.
LEMMA CountsUp ==
  ASSUME NEW file \in Seq(Byte), NEW p \in 0 .. Len(file), NEW q \in 0 .. Len(file), p <= q
  PROVE  LineCount(file, q) <= LineCount(file, p)
  <1>1. Counted(file, q) \subseteq Counted(file, p)
    BY EndsInFile DEF Counted
  <1>2. /\ IsFiniteSet(Counted(file, p))
        /\ LineCount(file, p) = Cardinality(Counted(file, p))
        /\ LineCount(file, q) = Cardinality(Counted(file, q))
    BY CountTypes
  <1> QED BY <1>1, <1>2, FS_Subset

------------------------------------------------------------------------------
\* Where the two begin.

\* The scan stops somewhere, and not earlier.
LEMMA ScanStops ==
  ASSUME NEW file \in Seq(Byte), NEW lines \in Nat
  PROVE  /\ Stop(file, lines) \in 0 .. Len(file)
         /\ ~GoesOn(file, lines, Stop(file, lines))
         /\ \A later \in Stop(file, lines) + 1 .. Len(file) : GoesOn(file, lines, later)
  <1> DEFINE S == {p \in 0 .. Len(file) : ~GoesOn(file, lines, p)}
  <1>1. Len(file) \in Nat /\ 0 \in S /\ S \subseteq 0 .. Len(file)
    BY EndsInFile, CountTypes DEF GoesOn
  <1>2. PICK x \in S : \A y \in S : y <= x
    <2> HIDE DEF S
    <2> QED BY <1>1, Greatest
  <1>3. \A later \in x + 1 .. Len(file) : GoesOn(file, lines, later)
    BY <1>1, <1>2
  <1>4. \E p \in 0 .. Len(file) :
           /\ ~GoesOn(file, lines, p)
           /\ \A later \in p + 1 .. Len(file) : GoesOn(file, lines, later)
    BY <1>2, <1>3
  <1> QED BY <1>4 DEF Stop

\* It stops at the newline before the wanted lines, if there are more lines.
LEMMA StopAtLine ==
  ASSUME NEW file \in Seq(Byte), NEW lines \in Nat \ {0}, Cardinality(LineEnds(file)) > lines
  PROVE  /\ Stop(file, lines) < Len(file)
         /\ Counts(file, Stop(file, lines) + 1)
         /\ Start(file, lines) = Stop(file, lines) + 1
  <1> DEFINE s == Stop(file, lines)
  <1>1. /\ s \in 0 .. Len(file) /\ Len(file) \in Nat
        /\ ~GoesOn(file, lines, s)
        /\ \A later \in s + 1 .. Len(file) : GoesOn(file, lines, later)
    BY ScanStops, EndsInFile, CountTypes
  <1> HIDE DEF s
  <1>2. Len(file) > 0
    BY <1>1, NoneAfterEnd, AllAfterBeginning
  <1>3. LineCount(file, 0) >= lines
    BY <1>1, <1>2, OneMoreLine, AllAfterBeginning, EndsInFile, CountTypes
  <1>4. LineCount(file, s) >= lines
    BY <1>1, <1>3, EndsInFile, CountTypes DEF GoesOn
  <1>5. s < Len(file)
    BY <1>1, <1>4, NoneAfterEnd
  <1>6. s + 1 \in 0 .. Len(file) /\ LineCount(file, s + 1) < lines
    BY <1>1, <1>5 DEF GoesOn
  <1>7. Counts(file, s + 1) /\ LineCount(file, s + 1) = lines - 1
    <2>1. LineCount(file, s) \in Nat /\ LineCount(file, s + 1) \in Nat
      BY <1>1, <1>6, CountTypes
    <2>2. LineCount(file, s) = LineCount(file, s + 1) + IF Counts(file, s + 1) THEN 1 ELSE 0
      BY <1>1, <1>5, OneByte
    <2> QED BY <1>4, <1>6, <2>1, <2>2
  <1>8. s + 1 < Len(file) /\ s + 1 \in LineEnds(file)
    BY <1>1, <1>5, <1>7 DEF Counts, LineEnds
  <1>9. LinesAfter(file, s + 1) = lines
    BY <1>6, <1>7, <1>8, OneMoreLine
  <1>10. ASSUME NEW end \in LineEnds(file), LinesAfter(file, end) = lines PROVE end = s + 1
    <2>1. end \in Nat
      BY EndsInFile, CountTypes
    <2> QED BY <1>1, <1>8, <1>9, <1>10, <2>1, LaterHasFewer
  <1>11. Start(file, lines) = s + 1
    BY <1>8, <1>9, <1>10 DEF Start
  <1> QED BY <1>5, <1>7, <1>11 DEF s

------------------------------------------------------------------------------

\* Whether a text ends with a newline does not depend on the first of its bytes,
\* if there are others.
LEMMA ChompFirst ==
  ASSUME NEW file \in Seq(Byte), Len(file) > 1, IsNewline(file[1])
  PROVE  /\ Chomp(file) = <<"newline">> \o Chomp(Tail(file))
         /\ file # << >> /\ Head(file) = file[1]
  <1> DEFINE rest == Tail(file)
  <1>1. /\ Len(file) \in Nat /\ file # << >> /\ Head(file) = file[1]
        /\ rest \in Seq(Byte) /\ Len(rest) = Len(file) - 1
        /\ \A i \in 1 .. Len(rest) : rest[i] = file[i + 1]
    BY HeadTailProperties
  <1> HIDE DEF rest
  <1>2. rest # << >> /\ rest[Len(rest)] = file[Len(file)]
    BY <1>1
  <1>3. CASE ~IsNewline(file[Len(file)])
    <2>1. Chomp(file) = file /\ Chomp(rest) = rest
      BY <1>2, <1>3 DEF Chomp
    <2>2. file = <<"newline">> \o rest
      BY <1>1 DEF IsNewline
    <2> QED BY <1>1, <2>1, <2>2 DEF rest
  <1>4. CASE IsNewline(file[Len(file)])
    <2>1. /\ Chomp(file) = SubSeq(file, 1, Len(file) - 1)
          /\ Chomp(rest) = SubSeq(rest, 1, Len(file) - 2)
      BY <1>1, <1>2, <1>4 DEF Chomp
    <2>2. SubSeq(file, 1, Len(file) - 1) = <<"newline">> \o SubSeq(rest, 1, Len(file) - 2)
      BY <1>1 DEF IsNewline
    <2> QED BY <1>1, <2>1, <2>2 DEF rest
  <1> QED BY <1>3, <1>4

\* Without an empty first line nothing is lost.
LEMMA SameUnlessFirst ==
  ASSUME NEW file, NEW lines, ~LosesFirstLine(file, lines),
         Joined(file, lines) = Chomp(Scanned(file, lines))
  PROVE  SameTail(file, lines)
  <1> HIDE DEF LosesFirstLine, Joined, Scanned, Chomp
  <1> QED BY DEF SameTail

\* The last lines of a log, however long it is and however many are asked for,
\* are the same from logs::execute and from get_logs, but for the newline of an
\* empty first line.
THEOREM TailsSame == \A file \in Seq(Byte), lines \in Nat : SameTail(file, lines)
  <1> SUFFICES ASSUME NEW file \in Seq(Byte), NEW lines \in Nat PROVE SameTail(file, lines)
    OBVIOUS
  <1> DEFINE n == Len(file)
             s == Stop(file, lines)
             buffer == SubSeq(file, s + 1, n)
  <1>0. n \in Nat /\ s \in 0 .. n /\ \A i \in 1 .. n : file[i] \in Byte
    <2>1. s \in 0 .. n
      BY ScanStops
    <2> QED BY <2>1, EndsInFile, ElementOfSeq
  <1>1. CASE lines = 0
    <2>1. LineCount(file, n) = 0
      BY NoneAfterEnd
    <2>2. s = n
      <3>1. \A p \in 0 .. n : ~GoesOn(file, lines, p)
        BY <1>1, CountTypes DEF GoesOn
      <3>2. \A later \in s + 1 .. n : GoesOn(file, lines, later)
        BY ScanStops
      <3>3. n \in 0 .. n
        BY <1>0
      <3> QED BY <1>0, <3>1, <3>2, <3>3
    <2>3. Scanned(file, lines) = << >>
      BY <1>0, <2>2 DEF Scanned
    <2>4. SubSeq(file, Start(file, lines) + 1, n) = << >>
      <3>1. CASE n = 0
        <4>1. LineEnds(file) = {}
          <5>1. 1 .. 0 = {}
            OBVIOUS
          <5> QED BY <3>1, <5>1, EndsInFile
        <4> QED BY <1>1, <3>1, <4>1, FS_EmptySet DEF Start
      <3>2. CASE n > 0
        <4>1. n \in LineEnds(file) /\ LinesAfter(file, n) = 0
          BY <3>2, NoneAfterEnd DEF LineEnds
        <4>2. Cardinality(LineEnds(file)) > 0
          BY <1>0, <4>1, EndsInFile, CountTypes, FS_EmptySet
        <4>3. ASSUME NEW end \in LineEnds(file), LinesAfter(file, end) = 0 PROVE end = n
          BY <1>0, <4>1, <4>3, EndsInFile, CountTypes, LaterHasFewer
        <4>4. Start(file, lines) = n
          BY <1>1, <4>1, <4>2, <4>3 DEF Start
        <4> QED BY <1>0, <4>4
      <3> QED BY <1>0, <3>1, <3>2
    <2>5. ~LosesFirstLine(file, lines)
      BY <1>1, EndsInFile, CountTypes DEF LosesFirstLine
    <2> QED BY <2>3, <2>4, <2>5 DEF SameTail, Joined
  <1>2. CASE lines # 0 /\ Cardinality(LineEnds(file)) > lines
    <2>1. s < n /\ Counts(file, s + 1) /\ Start(file, lines) = s + 1
      BY <1>2, StopAtLine
    <2>2. buffer # << >> /\ IsNewline(Head(buffer)) /\ Tail(buffer) = SubSeq(file, s + 2, n)
      <3>1. SubSeq(file, s + 1, n) # << >>
        <4>1. SubSeq(file, s + 1, n) \in Seq(Byte) /\ Len(SubSeq(file, s + 1, n)) = n - s
          BY <1>0, <2>1, SubSeqProperties
        <4>2. n - s # 0
          BY <1>0, <2>1
        <4> QED BY <4>1, <4>2
      <3>2. Head(SubSeq(file, s + 1, n)) = file[s + 1]
        BY <1>0, <2>1
      <3>3. Tail(SubSeq(file, s + 1, n)) = SubSeq(file, s + 2, n)
        BY <1>0, <2>1, HeadTailOfSubSeq
      <3> QED BY <2>1, <3>1, <3>2, <3>3 DEF Counts
    <2>3. Scanned(file, lines) = SubSeq(file, s + 2, n)
      BY <2>2 DEF Scanned
    <2>4. ~LosesFirstLine(file, lines)
      <3>1. LineCount(file, 0) >= lines
        BY <1>0, <1>2, <2>1, OneMoreLine, AllAfterBeginning, EndsInFile, CountTypes
      <3> QED BY <3>1, EndsInFile, CountTypes DEF LosesFirstLine
    <2> QED BY <1>0, <2>1, <2>3, <2>4 DEF SameTail, Joined
  <1>3. CASE lines # 0 /\ ~(Cardinality(LineEnds(file)) > lines)
    <2>1. Start(file, lines) = 0
      BY <1>3 DEF Start
    <2>2. n > 0 => LineCount(file, 0) < lines
      BY <1>0, <1>3, OneMoreLine, AllAfterBeginning, EndsInFile, CountTypes
    <2>3. s = 0
      <3>1. ~GoesOn(file, lines, s)
        BY ScanStops
      <3>2. LineCount(file, s) <= LineCount(file, 0)
        BY <1>0, CountsUp, EndsInFile
      <3>3. LineCount(file, s) \in Nat /\ LineCount(file, 0) \in Nat
        BY <1>0, EndsInFile, CountTypes
      <3> QED BY <1>0, <2>2, <3>1, <3>2, <3>3 DEF GoesOn
    <2>4. SubSeq(file, 1, n) = file
      BY SubSeqFull
    <2>5. /\ Joined(file, lines) = Chomp(file)
          /\ Scanned(file, lines) = IF file # << >> /\ IsNewline(Head(file)) THEN Tail(file) ELSE file
      <3>1. Start(file, lines) + 1 = 1 /\ Stop(file, lines) + 1 = 1
        BY <2>1, <2>3
      <3> QED BY <2>4, <3>1 DEF Joined, Scanned
    <2>6. LosesFirstLine(file, lines) <=> n > 1 /\ IsNewline(file[1])
      BY <2>2 DEF LosesFirstLine
    <2>7. CASE n > 1 /\ IsNewline(file[1])
      BY <2>5, <2>6, <2>7, ChompFirst DEF SameTail
    <2>8. CASE n = 1 /\ IsNewline(file[1])
      <3>0. file \in Seq(Byte) /\ Len(file) = 1
        BY <2>8
      <3>1. file # << >> /\ Head(file) = file[1]
        BY <3>0
      <3>2. Tail(file) = << >>
        BY <3>0, <3>1, HeadTailProperties
      <3>3. Chomp(file) = << >> /\ Chomp(<< >>) = << >>
        <4>1. SubSeq(file, 1, 0) = << >>
          BY SubSeqEmpty
        <4> QED BY <2>8, <3>1, <4>1 DEF Chomp
      <3>4. Scanned(file, lines) = << >> /\ Joined(file, lines) = << >>
        BY <2>5, <2>8, <3>1, <3>2, <3>3
      <3>5. ~LosesFirstLine(file, lines)
        BY <2>6, <2>8
      <3> QED BY <3>3, <3>4, <3>5 DEF SameTail
    <2>9. CASE n = 0 \/ ~IsNewline(file[1])
      <3>1. file # << >> => Head(file) = file[1] /\ n > 0
        BY <1>0
      <3>2. Scanned(file, lines) = file
        BY <2>5, <2>9, <3>1
      <3>3. ~LosesFirstLine(file, lines)
        BY <2>6, <2>9
      <3>4. Joined(file, lines) = Chomp(file)
        BY <2>5
      <3>5. Joined(file, lines) = Chomp(Scanned(file, lines))
        BY <3>2, <3>4
      <3> QED BY <3>3, <3>5, SameUnlessFirst
    <2>10. \/ n > 1 /\ IsNewline(file[1])
           \/ n = 1 /\ IsNewline(file[1])
           \/ n = 0 \/ ~IsNewline(file[1])
      <3> HIDE DEF n
      <3>1. n = 0 \/ n = 1 \/ n > 1
        BY <1>0
      <3> QED BY <3>1
    <2> HIDE DEF SameTail
    <2> QED BY <2>7, <2>8, <2>9, <2>10
  <1> QED BY <1>1, <1>2, <1>3, EndsInFile, CountTypes

\* So it is for the logs that the run lists.
THEOREM TailsAgree == ProxySpec => []TailAgrees
  <1>1. MaxLines \in Nat /\ 0 .. MaxLines \subseteq Nat /\ Files \subseteq Seq(Byte)
    <2>1. \A n \in 0 .. MaxBytes : n \in Nat
      BY DEF MaxBytes
    <2> QED BY <2>1, SeqDef DEF MaxLines, Files
  <1>2. SameTails
    <2> HIDE DEF SameTail
    <2> QED BY <1>1, TailsSame DEF SameTails
  <1>3. TailAgrees
    BY <1>2 DEF TailAgrees
  <1> QED BY <1>3, PTL

==============================================================================
