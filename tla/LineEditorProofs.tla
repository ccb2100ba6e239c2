--------------------------- MODULE LineEditorProofs ---------------------------
(***************************************************************************)
(* Proofs about LineEditor, for bytes and characters of any kind, lines of *)
(* any length and any text in the history.                                 *)
(***************************************************************************)
EXTENDS LineEditor, FiniteSetTheorems, SequenceTheorems, WellFoundedInduction, TLAPS

-----------------------------------------------------------------------------
(* Least and greatest                                                      *)

LEMMA MinOf ==
  ASSUME NEW n \in Nat, NEW S, S \subseteq 0 .. n, S # {}
  PROVE  Min(S) \in S /\ \A i \in S : Min(S) <= i
<1>1. S \subseteq Nat
  OBVIOUS
<1>2. \E x \in S : \A y \in S : ~(<<y, x>> \in OpToRel(<, Nat))
  BY <1>1, WFMin, NatLessThanWellFounded
<1>3. OpToRel(<, Nat) = {ss \in Nat \X Nat : ss[1] < ss[2]}
  BY Zenon DEF OpToRel
<1>4. PICK x \in S : \A y \in S : <<y, x>> \notin {ss \in Nat \X Nat : ss[1] < ss[2]}
  BY <1>2, <1>3
<1>5. \A y \in S : x =< y
  <2>1. ASSUME NEW y \in S, y < x PROVE FALSE
    <3> DEFINE pair == <<y, x>>
    <3>1. pair \in Nat \X Nat /\ pair[1] < pair[2]
      BY <1>1, <2>1
    <3> QED
      BY <1>4, <3>1
  <2> QED
    BY <1>1, <2>1
<1> QED
  BY <1>5 DEF Min

LEMMA MaxOf ==
  ASSUME NEW n \in Nat, NEW S, S \subseteq 0 .. n, S # {}
  PROVE  Max(S) \in S /\ \A i \in S : i <= Max(S)
<1> DEFINE T == {i \in 0 .. n : n - i \in S}
<1>1. T \subseteq 0 .. n /\ T # {}
  <2>1. PICK i \in S : TRUE
    OBVIOUS
  <2>2. n - i \in T
    BY <2>1
  <2> QED
    BY <2>2
<1> HIDE DEF T
<1>2. Min(T) \in T /\ \A i \in T : Min(T) <= i
  BY <1>1, MinOf
<1>3. n - Min(T) \in S /\ \A i \in S : n - i \in T
  BY <1>2 DEF T
<1>4. ASSUME NEW i \in S PROVE i <= n - Min(T)
  <2>1. i \in 0 .. n /\ Min(T) \in 0 .. n /\ Min(T) <= n - i
    BY <1>1, <1>2, <1>3
  <2> QED
    BY <2>1
<1> QED
  BY <1>3, <1>4 DEF Max

-----------------------------------------------------------------------------
(* Motions end between two characters                                      *)

LEMMA StopsAreBorders ==
  ASSUME NEW b \in Seq(Byte), NEW i \in Stops(b)
  PROVE  i \in 0 .. Len(b) - 1 /\ Border(b, i)
BY DEF Stops, Border

LEMMA LeftIsBorder ==
  ASSUME NEW b \in Seq(Byte), NEW s \in 0 .. Len(b)
  PROVE  /\ LeftOf(b, s) \in 0 .. Len(b) /\ Border(b, LeftOf(b, s))
         /\ s > 0 => LeftOf(b, s) \in Stops(b) /\ LeftOf(b, s) < s
<1> DEFINE S == {i \in Stops(b) : i < s}
<1>1. Len(b) \in Nat /\ S \subseteq 0 .. Len(b) /\ (s > 0 => 0 \in S)
  BY LenProperties DEF Stops
<1>2. CASE s = 0
  BY <1>2 DEF LeftOf, Border
<1>3. CASE s > 0
  <2>1. Max(S) \in S
    BY <1>1, <1>3, MaxOf
  <2> QED
    BY <1>3, <2>1, StopsAreBorders DEF LeftOf
<1> QED
  BY <1>2, <1>3

LEMMA ShiftIsBorder ==
  ASSUME NEW b \in Seq(Byte), NEW to \in Int, Len(b) > 0 \/ to >= 0
  PROVE  /\ ShiftedTo(b, Len(b), to) \in 0 .. Len(b)
         /\ Border(b, ShiftedTo(b, Len(b), to))
         /\ to \in 0 .. Len(b) /\ Border(b, to) => ShiftedTo(b, Len(b), to) = to
<1> DEFINE S == {i \in Stops(b) : i = 0 \/ i <= to}
<1>1. CASE to >= Len(b)
  BY <1>1 DEF ShiftedTo, Border
<1>2. CASE to < Len(b)
  <2>1. Len(b) \in Nat /\ S \subseteq 0 .. Len(b) /\ 0 \in S
    BY <1>2, LenProperties DEF Stops
  <2>2. Max(S) \in S /\ \A i \in S : i <= Max(S)
    BY <2>1, MaxOf
  <2>3. ShiftedTo(b, Len(b), to) = Max(S)
    BY <1>2 DEF ShiftedTo
  <2>4. to \in 0 .. Len(b) /\ Border(b, to) => to \in S
    BY <1>2 DEF Stops, Border
  <2>5. Max(S) \in Stops(b) /\ (Max(S) = 0 \/ Max(S) <= to)
    BY <2>2
  <2>6. to \in 0 .. Len(b) /\ Border(b, to) => Max(S) = to
    <3>1. Max(S) \in 0 .. Len(b) /\ \A i \in S : i <= Max(S)
      BY <2>1, <2>2
    <3> HIDE DEF S
    <3> QED
      BY <2>1, <2>4, <2>5, <3>1
  <2> QED
    BY <2>3, <2>5, <2>6, StopsAreBorders
<1> QED
  BY <1>1, <1>2

\* What the loop to the right goes through are borders, if it starts at one.
LEMMA AheadAreBorders ==
  ASSUME NEW b \in Seq(Byte), NEW s \in 0 .. Len(b)
  PROVE  /\ Ahead(b, s) \subseteq s .. Len(b) /\ s \in Ahead(b, s) /\ Len(b) \in Ahead(b, s)
         /\ Whole(b) /\ Border(b, s) => \A i \in Ahead(b, s) : Border(b, i)
<1>1. Ahead(b, s) \subseteq s .. Len(b) /\ s \in Ahead(b, s) /\ Len(b) \in Ahead(b, s)
  BY DEF Ahead
<1>2. ASSUME Whole(b), Border(b, s), NEW i \in Ahead(b, s), ~Border(b, i) PROVE FALSE
  <2>1. i \in s + 1 .. Len(b) - 1 /\ b[i + 1] \in Cont /\ ~Inside(b, s, i)
    BY <1>1, <1>2 DEF Ahead, Border
  <2> DEFINE S == {j \in 0 .. i : j > 0 /\ b[j] \notin Cont}
             j == Max(S)
  <2>2. b[s + 1] \notin Cont
    BY <1>2, <2>1 DEF Border, Whole
  <2>3. i \in Nat /\ S \subseteq 0 .. i /\ s + 1 \in S
    BY <2>1, <2>2
  <2>4. j \in S /\ \A k \in S : k <= j
    BY <2>1, <2>3, MaxOf
  <2> HIDE DEF j
  <2>5. \A k \in j + 1 .. i + 1 : b[k] \in Cont
    BY <2>1, <2>4
  <2>6. b[j] \in Lead
    <3>1. j + 1 \in 1 .. Len(b) /\ b[j + 1] \in Cont
      BY <2>1, <2>4, <2>5
    <3> QED
      BY <1>2, <2>4, <3>1 DEF Whole
  <2> QED
    BY <2>1, <2>3, <2>4, <2>5, <2>6 DEF Inside
<1> QED
  BY <1>1, <1>2

LEMMA RightIsBorder ==
  ASSUME NEW b \in Seq(Byte), NEW s \in 0 .. Len(b)
  PROVE  RightOf(b, s) \in Ahead(b, s)
<1>1. CASE s >= Len(b)
  BY <1>1, AheadAreBorders DEF RightOf
<1>2. CASE s < Len(b)
  <2>1. /\ Len(b) \in Nat
        /\ Ahead(b, s) \ {s} \subseteq 0 .. Len(b) /\ Ahead(b, s) \ {s} # {}
    BY <1>2, AheadAreBorders, LenProperties
  <2> QED
    BY <1>2, <2>1, MinOf DEF RightOf
<1> QED
  BY <1>1, <1>2

LEMMA WordIsBorder ==
  ASSUME NEW b \in Seq(Byte), NEW s \in 0 .. Len(b)
  PROVE  /\ s > 0 => BegWord(b, s) \in Stops(b)
         /\ EndWord(b, s) \in 0 .. Len(b)
         /\ Whole(b) /\ Border(b, s) => Border(b, EndWord(b, s))
<1>1. s > 0 => BegWord(b, s) \in Stops(b)
  <2> SUFFICES ASSUME s > 0 PROVE BegWord(b, s) \in Stops(b)
    OBVIOUS
  <2> DEFINE one == LeftOf(b, s)
             S == {i \in Stops(b) : i <= one /\ (i = 0 \/ b[i + 1] \notin Blank)}
             in == Max(S)
             T == {i \in Stops(b) : i <= in /\ (i = 0 \/ b[i] \in Blank)}
  <2>1. /\ one \in 0 .. Len(b) /\ 0 \in Stops(b) /\ Stops(b) \subseteq 0 .. Len(b)
        /\ Len(b) \in Nat
    BY LeftIsBorder, LenProperties DEF Stops
  <2>2. in \in S
    <3>1. S \subseteq 0 .. Len(b) /\ 0 \in S
      BY <2>1
    <3> QED
      BY <2>1, <3>1, MaxOf
  <2>3. Max(T) \in T
    <3>1. T \subseteq 0 .. Len(b) /\ 0 \in T
      BY <2>1, <2>2
    <3> QED
      BY <2>1, <3>1, MaxOf
  <2> QED
    BY <2>3 DEF BegWord
<1>2. /\ EndWord(b, s) \in 0 .. Len(b)
      /\ Whole(b) /\ Border(b, s) => Border(b, EndWord(b, s))
  <2> DEFINE one == RightOf(b, s)
             S == {i \in Ahead(b, one) : i = Len(b) \/ b[i + 1] \notin Blank}
             in == Min(S)
             T == {i \in Ahead(b, in) : i = Len(b) \/ b[i + 1] \in Blank}
  <2>1. one \in Ahead(b, s) /\ one \in 0 .. Len(b) /\ Len(b) \in Nat
    BY RightIsBorder, AheadAreBorders, LenProperties
  <2>2. S \subseteq 0 .. Len(b) /\ Len(b) \in S
    BY <2>1, AheadAreBorders
  <2>3. in \in S /\ in \in 0 .. Len(b)
    BY <2>1, <2>2, MinOf
  <2> HIDE DEF in
  <2>4. T \subseteq 0 .. Len(b) /\ Len(b) \in T
    BY <2>3, AheadAreBorders
  <2>5. Min(T) \in T /\ Min(T) \in 0 .. Len(b)
    BY <2>1, <2>4, MinOf
  <2>6. EndWord(b, s) = Min(T)
    BY DEF EndWord, in
  <2> HIDE DEF one, S, T
  <2>7. in \in Ahead(b, one) /\ Min(T) \in Ahead(b, in)
    BY <2>3, <2>5 DEF S, T
  <2>8. ASSUME Whole(b), Border(b, s) PROVE Border(b, Min(T))
    <3>1. Border(b, one)
      BY <2>1, <2>8, AheadAreBorders
    <3>2. Border(b, in)
      BY <2>1, <2>7, <2>8, <3>1, AheadAreBorders
    <3> QED
      BY <2>3, <2>7, <2>8, <3>2, AheadAreBorders
  <2> QED
    BY <2>5, <2>6, <2>8
<1> QED
  BY <1>1, <1>2

-----------------------------------------------------------------------------
(* Cutting and joining whole characters                                    *)

LEMMA CutIsWhole ==
  ASSUME NEW b \in Seq(Byte), NEW s \in 0 .. Len(b), NEW t \in s .. Len(b)
  PROVE  /\ SubSeq(b, s + 1, t) \in Seq(Byte) /\ Len(SubSeq(b, s + 1, t)) = t - s
         /\ Whole(b) /\ Border(b, s) /\ Border(b, t) => Whole(SubSeq(b, s + 1, t))
<1> DEFINE c == SubSeq(b, s + 1, t)
<1>1. /\ c \in Seq(Byte) /\ Len(c) = t - s
      /\ \A i \in 1 .. t - s : c[i] = b[s + i]
  <2>1. \A i \in s + 1 .. t : b[i] \in Byte
    BY ElementOfSeq
  <2>2. /\ c \in Seq(Byte) /\ Len(c) = IF s + 1 <= t THEN t - (s + 1) + 1 ELSE 0
        /\ \A i \in 1 .. t - (s + 1) + 1 : c[i] = b[(s + 1) + i - 1]
    BY <2>1, SubSeqProperties
  <2> QED
    BY <2>2
<1> HIDE DEF c
<1>2. ASSUME Whole(b), Border(b, s), Border(b, t) PROVE Whole(c)
  <2> SUFFICES ASSUME NEW i \in 1 .. Len(c)
               PROVE  /\ c[i] \in Cont => i > 1 /\ c[i - 1] \in Lead \cup Cont
                      /\ c[i] \in Lead => i < Len(c) /\ c[i + 1] \in Cont
    BY DEF Whole
  <2>1. i \in 1 .. t - s /\ s + i \in 1 .. Len(b) /\ c[i] = b[s + i]
    BY <1>1
  <2>2. ASSUME c[i] \in Cont PROVE i > 1 /\ c[i - 1] \in Lead \cup Cont
    <3>1. i # 1
      BY <1>2, <2>1, <2>2 DEF Border, Whole
    <3>2. c[i - 1] = b[s + i - 1]
      BY <1>1, <2>1, <3>1
    <3> QED
      BY <1>2, <2>1, <2>2, <3>1, <3>2 DEF Whole
  <2>3. ASSUME c[i] \in Lead PROVE i < Len(c) /\ c[i + 1] \in Cont
    <3>1. s + i < Len(b) /\ b[s + i + 1] \in Cont
      BY <1>2, <2>1, <2>3 DEF Whole
    <3>2. s + i # t
      BY <1>2, <3>1 DEF Border
    <3> QED
      BY <1>1, <2>1, <3>1, <3>2
  <2> QED
    BY <2>2, <2>3
<1> QED
  BY <1>1, <1>2 DEF c

LEMMA JoinIsWhole ==
  ASSUME NEW b \in Seq(Byte), NEW c \in Seq(Byte)
  PROVE  /\ b \o c \in Seq(Byte) /\ Len(b \o c) = Len(b) + Len(c)
         /\ Whole(b) /\ Whole(c) => Whole(b \o c) /\ Border(b \o c, Len(b))
<1> DEFINE d == b \o c
<1>1. /\ d \in Seq(Byte) /\ Len(d) = Len(b) + Len(c)
      /\ \A i \in 1 .. Len(b) + Len(c) : d[i] = IF i <= Len(b) THEN b[i] ELSE c[i - Len(b)]
  BY ConcatProperties
<1> HIDE DEF d
<1>2. ASSUME Whole(b), Whole(c) PROVE Whole(d)
  <2> SUFFICES ASSUME NEW i \in 1 .. Len(d)
               PROVE  /\ d[i] \in Cont => i > 1 /\ d[i - 1] \in Lead \cup Cont
                      /\ d[i] \in Lead => i < Len(d) /\ d[i + 1] \in Cont
    BY DEF Whole
  <2>1. CASE i <= Len(b)
    <3>1. d[i] = b[i] /\ (i > 1 => d[i - 1] = b[i - 1]) /\ (i < Len(b) => d[i + 1] = b[i + 1])
      BY <1>1, <2>1
    <3> QED
      BY <1>1, <1>2, <2>1, <3>1 DEF Whole
  <2>2. CASE i > Len(b)
    <3> DEFINE j == i - Len(b)
    <3>1. /\ j \in 1 .. Len(c) /\ d[i] = c[j]
          /\ j > 1 => d[i - 1] = c[j - 1]
          /\ j < Len(c) => d[i + 1] = c[j + 1]
      BY <1>1, <2>2
    <3>2. /\ c[j] \in Cont => j > 1 /\ c[j - 1] \in Lead \cup Cont
          /\ c[j] \in Lead => j < Len(c) /\ c[j + 1] \in Cont
      BY <1>2, <3>1 DEF Whole
    <3> QED
      BY <1>1, <2>2, <3>1, <3>2
  <2> QED
    BY <2>1, <2>2
<1>3. ASSUME Whole(c), Len(c) > 0 PROVE Border(d, Len(b))
  <2>1. d[Len(b) + 1] = c[1] /\ c[1] \notin Cont
    BY <1>1, <1>3 DEF Whole
  <2> QED
    BY <2>1 DEF Border
<1>4. Len(c) = 0 => Border(d, Len(b))
  BY <1>1 DEF Border
<1> QED
  BY <1>1, <1>2, <1>3, <1>4 DEF d

\* A line without what lies between two borders.
LEMMA RestIsWhole ==
  ASSUME NEW b \in Seq(Byte), NEW s \in 0 .. Len(b), NEW t \in s .. Len(b)
  PROVE  LET c == SubSeq(b, 1, s) \o SubSeq(b, t + 1, Len(b))
         IN /\ c \in Seq(Byte) /\ Len(c) = Len(b) - (t - s)
            /\ Whole(b) /\ Border(b, s) /\ Border(b, t) => Whole(c) /\ Border(c, s)
<1> DEFINE x == SubSeq(b, 1, s)
           y == SubSeq(b, t + 1, Len(b))
<1>1. /\ x \in Seq(Byte) /\ Len(x) = s
      /\ Whole(b) /\ Border(b, s) => Whole(x)
  <2>1. Border(b, 0) /\ 0 \in 0 .. Len(b) /\ s \in 0 .. Len(b) /\ 0 + 1 = 1 /\ s - 0 = s
    BY DEF Border
  <2> QED
    BY <2>1, CutIsWhole
<1>2. /\ y \in Seq(Byte) /\ Len(y) = Len(b) - t
      /\ Whole(b) /\ Border(b, t) => Whole(y)
  <2>1. Border(b, Len(b)) /\ Len(b) \in t .. Len(b) /\ t \in 0 .. Len(b)
    BY DEF Border
  <2> QED
    BY <2>1, CutIsWhole
<1> HIDE DEF x, y
<1>3. /\ x \o y \in Seq(Byte) /\ Len(x \o y) = Len(x) + Len(y)
      /\ Whole(x) /\ Whole(y) => Whole(x \o y) /\ Border(x \o y, Len(x))
  BY <1>1, <1>2, JoinIsWhole
<1>4. /\ x \o y \in Seq(Byte) /\ Len(x \o y) = Len(b) - (t - s)
      /\ Whole(b) /\ Border(b, s) /\ Border(b, t) => Whole(x \o y) /\ Border(x \o y, s)
  BY <1>1, <1>2, <1>3
<1> QED
  BY <1>4 DEF x, y

\* A line with something more in it.
LEMMA JoinedIsWhole ==
  ASSUME buffer \in Seq(Byte), seek \in 0 .. Len(buffer), NEW l \in Seq(Byte)
  PROVE  /\ Joined(l) \in Seq(Byte) /\ Len(Joined(l)) = Len(buffer) + Len(l)
         /\ Whole(buffer) /\ Border(buffer, seek) /\ Whole(l) => Whole(Joined(l))
<1> DEFINE x == SubSeq(buffer, 1, seek)
           y == SubSeq(buffer, seek + 1, Len(buffer))
<1>1. /\ x \in Seq(Byte) /\ Len(x) = seek
      /\ Whole(buffer) /\ Border(buffer, seek) => Whole(x)
  <2>1. Border(buffer, 0) /\ 0 \in 0 .. Len(buffer) /\ 0 + 1 = 1 /\ seek - 0 = seek
    BY DEF Border
  <2> QED
    BY <2>1, CutIsWhole
<1>2. /\ y \in Seq(Byte) /\ Len(y) = Len(buffer) - seek
      /\ Whole(buffer) /\ Border(buffer, seek) => Whole(y)
  <2>1. Border(buffer, Len(buffer)) /\ Len(buffer) \in seek .. Len(buffer)
    BY DEF Border
  <2> QED
    BY <2>1, CutIsWhole
<1> HIDE DEF x, y
<1>3. /\ x \o l \in Seq(Byte) /\ Len(x \o l) = seek + Len(l)
      /\ Whole(x) /\ Whole(l) => Whole(x \o l)
  BY <1>1, JoinIsWhole
<1>4. /\ x \o l \o y \in Seq(Byte) /\ Len(x \o l \o y) = Len(buffer) + Len(l)
      /\ Whole(x \o l) /\ Whole(y) => Whole(x \o l \o y)
  <2>1. /\ (x \o l) \o y \in Seq(Byte) /\ Len((x \o l) \o y) = Len(x \o l) + Len(y)
        /\ Whole(x \o l) /\ Whole(y) => Whole((x \o l) \o y)
    BY <1>2, <1>3, JoinIsWhole
  <2>2. seek \in Nat /\ Len(buffer) \in Nat /\ Len(l) \in Nat
    OBVIOUS
  <2> QED
    BY <1>2, <1>3, <2>1, <2>2
<1>5. Joined(l) = x \o l \o y
  BY DEF Joined, x, y
<1> QED
  BY <1>1, <1>2, <1>3, <1>4, <1>5

LEMMA LetterIsWhole ==
  ASSUME NEW l \in Letter
  PROVE  l \in Seq(Byte) /\ Whole(l)
BY ByteAssumption DEF IsCharacter, Whole

-----------------------------------------------------------------------------
(* The inductive invariant                                                 *)

\* The ends of a selection are in the line, and the cursor is where printing the
\* line has left it for the moving end.
SelectionInv ==
  IF selectedmode /\ ~Broken
  THEN /\ selected[0] \in 0 .. Len(buffer) /\ selected[1] \in 0 .. Len(buffer)
       /\ seek = ShiftedTo(buffer, Len(buffer), selected[0])
  ELSE selected = NoSelection

EditorInv == TypeOK /\ SelectionInv /\ WholeCharacters /\ InBounds

LEMMA BufferType ==
  ASSUME TypeOK
  PROVE  /\ buffer \in Seq(Byte) /\ cpbuf \in Seq(Byte) /\ seek \in 0 .. Len(buffer)
         /\ Len(buffer) \in Nat /\ Len(cpbuf) \in Nat /\ MaxLen \in Nat
         /\ NoSelection \in [0 .. 1 -> -1 .. MaxLen]
BY LenProperties, ByteAssumption DEF TypeOK, NoSelection

LEMMA PrintedIsBorder ==
  ASSUME TypeOK, NEW b \in Seq(Byte), NEW offset \in Int, Len(b) > 0 \/ seek + offset >= 0
  PROVE  Printed(b, offset) \in 0 .. Len(b) /\ Border(b, Printed(b, offset))
<1>1. seek + offset \in Int
  BY BufferType
<1> QED
  BY <1>1, ShiftIsBorder DEF Printed

LEMMA UnselectedIsBorder ==
  ASSUME TypeOK
  PROVE  /\ Unselected \in 0 .. Len(buffer)
         /\ Border(buffer, seek) => Border(buffer, Unselected)
<1>1. /\ Printed(buffer, 0) \in 0 .. Len(buffer) /\ Border(buffer, Printed(buffer, 0))
  <2>1. seek + 0 >= 0
    BY BufferType
  <2> QED
    BY <2>1, BufferType, PrintedIsBorder
<1> QED
  BY <1>1, BufferType DEF Unselected

\* No loop runs out of a line that is whole.
LEMMA NoUnderrun ==
  ASSUME NEW b \in Seq(Byte), Whole(b), NEW from \in 0 .. Len(b), NEW to
  PROVE  ~Underruns(b, from, to)
BY DEF Underruns, Whole

LEMMA NoPrintUnderrun ==
  ASSUME TypeOK, Whole(buffer), NEW b \in Seq(Byte), Whole(b), NEW offset
  PROVE  ~PrintUnderruns(b, offset)
<1>1. Len(b) \in 0 .. Len(b)
  BY LenProperties
<1>2. /\ ~Underruns(buffer, seek, 0)
      /\ ~Underruns(b, Len(b), Printed(b, offset))
  BY <1>1, BufferType, NoUnderrun
<1> QED
  BY <1>2 DEF PrintUnderruns

LEMMA NotSelected ==
  ASSUME SelectionInv, ~selectedmode
  PROVE  selected = NoSelection
BY DEF SelectionInv

-----------------------------------------------------------------------------
(* The building blocks keep it                                             *)

LEMMA Moved ==
  ASSUME EditorInv, NEW s \in 0 .. Len(buffer), ~torn => Border(buffer, s), MoveTo(s)
  PROVE  EditorInv'
<1>1. /\ buffer' = buffer /\ cpbuf' = cpbuf /\ torn' = torn /\ seek' = s
      /\ selected' = NoSelection /\ selectedmode' = FALSE
      /\ wild' = (UnselectUnderruns \/ Underruns(buffer, Unselected, s))
  BY NotSelected DEF EditorInv, MoveTo
<1>2. TypeOK'
  BY <1>1, BufferType DEF EditorInv, TypeOK, UnselectUnderruns, PrintUnderruns, Underruns
<1>3. SelectionInv' /\ ~Broken'
  BY <1>1 DEF SelectionInv, Broken
<1>4. WholeCharacters'
  BY <1>1, <1>3 DEF EditorInv, WholeCharacters
<1>5. ASSUME ~torn PROVE ~wild'
  <2>1. Whole(buffer)
    BY <1>5 DEF EditorInv, WholeCharacters
  <2>2. ~UnselectUnderruns
    BY <2>1, NoPrintUnderrun, BufferType DEF EditorInv, UnselectUnderruns
  <2>3. ~Underruns(buffer, Unselected, s)
    BY <2>1, NoUnderrun, BufferType, UnselectedIsBorder DEF EditorInv
  <2> QED
    BY <1>1, <2>2, <2>3
<1> QED
  BY <1>1, <1>2, <1>3, <1>4, <1>5 DEF EditorInv, InBounds

LEMMA Rewritten ==
  ASSUME EditorInv, NEW b \in Seq(Byte), Len(b) <= MaxLen,
         NEW offset \in Int, Len(b) > 0 \/ seek + offset >= 0, Rewrite(b, offset),
         cpbuf' \in Seq(Byte), Len(cpbuf') <= MaxLen, torn' \in BOOLEAN,
         ~torn' => ~torn /\ Whole(b) /\ Whole(cpbuf')
  PROVE  EditorInv'
<1>1. /\ buffer' = b /\ seek' = Printed(b, offset)
      /\ selected' = NoSelection /\ selectedmode' = FALSE
      /\ wild' = PrintUnderruns(b, offset)
  BY DEF Rewrite
<1>2. Printed(b, offset) \in 0 .. Len(b) /\ Border(b, Printed(b, offset))
  BY PrintedIsBorder DEF EditorInv
<1>3. TypeOK'
  BY <1>1, <1>2, BufferType DEF EditorInv, TypeOK, PrintUnderruns, Underruns
<1>4. SelectionInv' /\ ~Broken'
  BY <1>1 DEF SelectionInv, Broken
<1>5. WholeCharacters'
  BY <1>1, <1>2, <1>4 DEF WholeCharacters
<1>6. ~torn' => ~wild'
  BY <1>1, NoPrintUnderrun DEF EditorInv, WholeCharacters
<1> QED
  BY <1>3, <1>4, <1>5, <1>6 DEF EditorInv, InBounds

LEMMA Shifted ==
  ASSUME EditorInv, NEW s \in 0 .. Len(buffer), ~torn => Border(buffer, s), ShiftTo(s)
  PROVE  EditorInv'
<1>0. TypeOK /\ SelectionInv /\ WholeCharacters /\ buffer \in Seq(Byte) /\ s \in Int
  BY BufferType DEF EditorInv
<1>1. /\ buffer' = buffer /\ cpbuf' = cpbuf /\ torn' = torn
      /\ selectedmode' = TRUE /\ seek' = ShiftedTo(buffer, Len(buffer), s)
      /\ selected' = [selected EXCEPT ![0] = s, ![1] = IF @ = -1 THEN seek ELSE @]
      /\ wild' = (Underruns(buffer, seek, s) \/ Underruns(buffer, s, 0)
                  \/ Underruns(buffer, Len(buffer), seek'))
  BY DEF ShiftTo
<1>2. /\ seek' \in 0 .. Len(buffer)
      /\ ~torn => seek' = s
  BY <1>0, <1>1, ShiftIsBorder
<1>3. /\ selected'[0] = s /\ selected'[1] \in 0 .. Len(buffer)
      /\ ~torn => Border(buffer, selected'[1])
      /\ selected' \in [0 .. 1 -> -1 .. MaxLen]
  <2>1. selected'[0] = s /\ selected'[1] = IF selected[1] = -1 THEN seek ELSE selected[1]
    BY <1>0, <1>1 DEF TypeOK
  <2>2. CASE selectedmode /\ ~Broken
    <3>1. selected[1] \in 0 .. Len(buffer) /\ (~torn => Border(buffer, selected[1]))
      BY <1>0, <2>2 DEF SelectionInv, WholeCharacters
    <3> QED
      BY <1>0, <1>1, <2>1, <3>1, BufferType DEF TypeOK
  <2>3. CASE ~(selectedmode /\ ~Broken)
    <3>1. selected[1] = -1
      BY <1>0, <2>3 DEF SelectionInv, NoSelection
    <3>2. ~torn => Border(buffer, seek)
      BY <1>0 DEF WholeCharacters
    <3> QED
      BY <1>0, <1>1, <2>1, <3>1, <3>2, BufferType DEF TypeOK
  <2> QED
    BY <2>2, <2>3
<1>4. ~Broken'
  BY <1>3 DEF Broken, NoSelection
<1>5. TypeOK'
  BY <1>0, <1>1, <1>2, <1>3 DEF TypeOK, Underruns
<1>6. SelectionInv'
  BY <1>1, <1>3, <1>4 DEF SelectionInv
<1>7. WholeCharacters'
  BY <1>0, <1>1, <1>2, <1>3, <1>4 DEF WholeCharacters
<1>8. ASSUME ~torn PROVE ~wild'
  <2>1. Whole(buffer) /\ seek \in 0 .. Len(buffer) /\ Len(buffer) \in 0 .. Len(buffer)
    BY <1>0, <1>8, BufferType DEF WholeCharacters
  <2> QED
    BY <1>0, <1>1, <2>1, NoUnderrun
<1> QED
  BY <1>1, <1>5, <1>6, <1>7, <1>8 DEF EditorInv, InBounds

\* The ends of a selection, from left to right.
LEMMA SelectionEnds ==
  ASSUME EditorInv, selectedmode, ~Broken
  PROVE  /\ Low \in 0 .. Len(buffer) /\ High \in Low .. Len(buffer)
         /\ ~torn => Border(buffer, Low) /\ Border(buffer, High)
         /\ selected[1] < selected[0] => Len(buffer) > High - Low \/ seek + (Low - High) >= 0
<1> DEFINE S == {selected[0], selected[1]}
<1>1. /\ S \subseteq 0 .. Len(buffer) /\ S # {} /\ Len(buffer) \in Nat
      /\ seek = ShiftedTo(buffer, Len(buffer), selected[0]) /\ seek \in 0 .. Len(buffer)
  BY BufferType DEF EditorInv, SelectionInv
<1>2. Low \in S /\ High \in S /\ (\A i \in S : Low <= i) /\ (\A i \in S : i <= High)
  BY <1>1, MinOf, MaxOf DEF Low, High
<1>3. /\ Low \in 0 .. Len(buffer) /\ High \in Low .. Len(buffer)
  BY <1>1, <1>2
<1>4. ASSUME ~torn PROVE Border(buffer, Low) /\ Border(buffer, High)
  BY <1>2, <1>4 DEF EditorInv, WholeCharacters
<1>5. ASSUME selected[1] < selected[0], ~(Len(buffer) > High - Low) PROVE seek + (Low - High) >= 0
  <2>1. High = selected[0] /\ High = Len(buffer) /\ Low = 0
    BY <1>1, <1>2, <1>3, <1>5
  <2>2. seek = Len(buffer)
    BY <1>1, <2>1 DEF ShiftedTo
  <2> QED
    BY <1>1, <2>1, <2>2
<1> QED
  BY <1>3, <1>4, <1>5

-----------------------------------------------------------------------------
(* Every key keeps it                                                      *)

LEMMA KeysMove ==
  ASSUME EditorInv,
         Left \/ Right \/ Home \/ End \/ AltLeft \/ AltRight \/ AltUp \/ AltDown
  PROVE  EditorInv'
<1> DEFINE u == Unselected
<1>1. /\ buffer \in Seq(Byte) /\ u \in 0 .. Len(buffer) /\ Len(buffer) \in Nat
      /\ ~torn => Whole(buffer) /\ Border(buffer, u)
  BY BufferType, UnselectedIsBorder DEF EditorInv, WholeCharacters
<1> HIDE DEF u
<1>2. ASSUME NEW s \in Stops(buffer), MoveTo(s) PROVE EditorInv'
  <2>1. s \in 0 .. Len(buffer) /\ Border(buffer, s)
    BY <1>1, StopsAreBorders
  <2> QED
    BY <1>2, <2>1, Moved
<1>3. ASSUME NEW s \in Ahead(buffer, u), MoveTo(s) PROVE EditorInv'
  <2>1. s \in 0 .. Len(buffer) /\ (~torn => Border(buffer, s))
    BY <1>1, AheadAreBorders
  <2> QED
    BY <1>3, <2>1, Moved
<1>4. CASE Left
  <2>1. LeftOf(buffer, u) \in 0 .. Len(buffer) /\ Border(buffer, LeftOf(buffer, u))
    BY <1>1, LeftIsBorder
  <2> QED
    BY <1>4, <2>1, Moved DEF Left, u
<1>5. CASE Right
  <2>1. RightOf(buffer, u) \in Ahead(buffer, u)
    BY <1>1, RightIsBorder
  <2> QED
    BY <1>3, <1>5, <2>1 DEF Right, u
<1>6. CASE Home \/ End
  <2>1. \A s \in {0, Len(buffer)} : s \in 0 .. Len(buffer) /\ Border(buffer, s)
    BY <1>1 DEF Border
  <2> QED
    BY <1>6, <2>1, Moved DEF Home, End
<1>7. CASE AltLeft
  <2>1. BegWord(buffer, u) \in Stops(buffer)
    BY <1>1, <1>7, WordIsBorder DEF AltLeft, u
  <2> QED
    BY <1>2, <1>7, <2>1 DEF AltLeft, u
<1>8. CASE AltRight
  <2>1. EndWord(buffer, u) \in 0 .. Len(buffer) /\ (~torn => Border(buffer, EndWord(buffer, u)))
    BY <1>1, WordIsBorder
  <2> QED
    BY <1>8, <2>1, Moved DEF AltRight, u
<1>9. CASE AltUp \/ AltDown
  BY <1>2, <1>3, <1>9 DEF AltUp, AltDown, u
<1> QED
  BY <1>4, <1>5, <1>6, <1>7, <1>8, <1>9

LEMMA KeysSelect ==
  ASSUME EditorInv, ShiftLeft \/ ShiftRight
  PROVE  EditorInv'
<1>1. /\ buffer \in Seq(Byte) /\ seek \in 0 .. Len(buffer)
      /\ ~torn => Whole(buffer) /\ Border(buffer, seek)
  BY BufferType DEF EditorInv, WholeCharacters
<1>2. LeftOf(buffer, seek) \in 0 .. Len(buffer) /\ Border(buffer, LeftOf(buffer, seek))
  BY <1>1, LeftIsBorder
<1>3. RightOf(buffer, seek) \in 0 .. Len(buffer) /\ (~torn => Border(buffer, RightOf(buffer, seek)))
  BY <1>1, RightIsBorder, AheadAreBorders
<1> QED
  BY <1>2, <1>3, Shifted DEF ShiftLeft, ShiftRight

LEMMA KeysRemove ==
  ASSUME EditorInv, Backspace \/ BackspaceSelect \/ AltX \/ Delete
  PROVE  EditorInv'
<1>1. /\ buffer \in Seq(Byte) /\ cpbuf \in Seq(Byte) /\ seek \in 0 .. Len(buffer)
      /\ Len(buffer) \in Nat /\ MaxLen \in Nat /\ Len(buffer) <= MaxLen /\ Len(cpbuf) <= MaxLen
      /\ torn \in BOOLEAN /\ wild \in BOOLEAN
      /\ ~torn => Whole(buffer) /\ Whole(cpbuf) /\ Border(buffer, seek)
  BY BufferType DEF EditorInv, WholeCharacters, TypeOK
<1>2. CASE Backspace
  <2> DEFINE s == LeftOf(buffer, seek)
             b == SubSeq(buffer, 1, s) \o SubSeq(buffer, seek + 1, Len(buffer))
  <2>1. s \in 0 .. Len(buffer) /\ Border(buffer, s) /\ s < seek
    BY <1>1, <1>2, LeftIsBorder DEF Backspace
  <2> HIDE DEF s
  <2>2. /\ b \in Seq(Byte) /\ Len(b) = Len(buffer) - (seek - s)
        /\ ~torn => Whole(b)
    <3>1. seek \in s .. Len(buffer)
      BY <1>1, <2>1
    <3> QED
      BY <1>1, <2>1, <3>1, RestIsWhole
  <2>3. Rewrite(b, s - seek) /\ cpbuf' = cpbuf /\ torn' = torn
    BY <1>2 DEF Backspace, s
  <2> HIDE DEF b
  <2>4. s - seek \in Int /\ seek + (s - seek) >= 0 /\ Len(b) <= MaxLen
    BY <1>1, <2>1, <2>2
  <2> QED
    BY <1>1, <2>2, <2>3, <2>4, Rewritten
\* The part of the buffer that a selection leaves.
<1>3. ASSUME selectedmode, ~Broken, RemoveSelected, torn' = torn,
             cpbuf' = cpbuf \/ cpbuf' = SubSeq(buffer, Low + 1, High)
      PROVE  EditorInv'
  <2> DEFINE b == SubSeq(buffer, 1, Low) \o SubSeq(buffer, High + 1, Len(buffer))
             offset == IF selected[1] < selected[0] THEN Low - High ELSE 0
  <2>1. /\ Low \in 0 .. Len(buffer) /\ High \in Low .. Len(buffer)
        /\ ~torn => Border(buffer, Low) /\ Border(buffer, High)
        /\ selected[1] < selected[0] => Len(buffer) > High - Low \/ seek + (Low - High) >= 0
    BY <1>3, SelectionEnds
  <2>2. b \in Seq(Byte) /\ Len(b) = Len(buffer) - (High - Low) /\ (~torn => Whole(b))
    BY <1>1, <2>1, RestIsWhole
  <2>3. Rewrite(b, offset)
    BY <1>3 DEF RemoveSelected
  <2> HIDE DEF b
  <2>4. offset \in Int /\ (Len(b) > 0 \/ seek + offset >= 0) /\ Len(b) <= MaxLen
    BY <1>1, <2>1, <2>2
  <2>5. cpbuf' \in Seq(Byte) /\ Len(cpbuf') <= MaxLen /\ (~torn => Whole(cpbuf'))
    <3>1. /\ SubSeq(buffer, Low + 1, High) \in Seq(Byte)
          /\ Len(SubSeq(buffer, Low + 1, High)) = High - Low
          /\ ~torn => Whole(SubSeq(buffer, Low + 1, High))
      BY <1>1, <2>1, CutIsWhole
    <3>2. High - Low <= MaxLen
      BY <1>1, <2>1
    <3>3. CASE cpbuf' = cpbuf
      BY <1>1, <3>3
    <3>4. CASE cpbuf' = SubSeq(buffer, Low + 1, High)
      BY <3>1, <3>2, <3>4
    <3> QED
      BY <1>3, <3>3, <3>4
  <2> HIDE DEF offset
  <2> QED
    BY <1>1, <1>3, <2>2, <2>3, <2>4, <2>5, Rewritten
\* There is nothing to remove that the code knows the place of.
<1>4. ASSUME GoWild, Broken PROVE EditorInv'
  <2>1. TypeOK' /\ Broken' /\ SelectionInv' /\ WholeCharacters'
    BY <1>4 DEF GoWild, EditorInv, TypeOK, Broken, SelectionInv, WholeCharacters
  <2> QED
    BY <2>1 DEF EditorInv, InBounds
<1>5. CASE BackspaceSelect
  BY <1>3, <1>4, <1>5 DEF BackspaceSelect
<1>6. CASE AltX
  BY <1>3, <1>4, <1>6 DEF AltX
<1>7. CASE Delete
  <2> DEFINE b == SubSeq(buffer, 1, seek) \o SubSeq(buffer, seek + 2, Len(buffer))
  <2>1. /\ seek < Len(buffer) /\ RemoveAt(buffer, seek + 1) = b
        /\ Rewrite(b, 0) /\ cpbuf' = cpbuf
        /\ torn' = (torn \/ buffer[seek + 1] \in Lead \cup Cont)
    <3>1. RemoveAt(buffer, seek + 1) = b
      <4>1. RemoveAt(buffer, seek + 1)
              = SubSeq(buffer, 1, (seek + 1) - 1) \o SubSeq(buffer, (seek + 1) + 1, Len(buffer))
        BY Zenon DEF RemoveAt
      <4>2. (seek + 1) - 1 = seek /\ (seek + 1) + 1 = seek + 2
        BY <1>1
      <4> QED
        BY <4>1, <4>2
    <3> QED
      BY <1>7, <3>1 DEF Delete
  <2>2. ~torn' => ~torn /\ Border(buffer, seek + 1)
    <3> SUFFICES ASSUME ~torn' PROVE Border(buffer, seek + 1)
      BY <2>1
    <3>1. CASE seek + 1 = Len(buffer)
      BY <3>1 DEF Border
    <3>2. CASE seek + 1 # Len(buffer)
      <4>1. seek + 2 \in 1 .. Len(buffer) /\ (seek + 2) - 1 = seek + 1 /\ (seek + 1) + 1 = seek + 2
        BY <1>1, <2>1, <3>2
      <4>2. buffer[seek + 2] \notin Cont
        BY <1>1, <2>1, <4>1 DEF Whole
      <4> QED
        BY <4>1, <4>2 DEF Border
    <3> QED
      BY <3>1, <3>2
  <2>3. b \in Seq(Byte) /\ Len(b) = Len(buffer) - 1 /\ (~torn' => Whole(b))
    <3>1. /\ seek + 1 \in seek .. Len(buffer) /\ (seek + 1) + 1 = seek + 2
          /\ Len(buffer) - ((seek + 1) - seek) = Len(buffer) - 1
      BY <1>1, <2>1
    <3>2. LET c == SubSeq(buffer, 1, seek) \o SubSeq(buffer, (seek + 1) + 1, Len(buffer))
          IN /\ c \in Seq(Byte) /\ Len(c) = Len(buffer) - ((seek + 1) - seek)
             /\ Whole(buffer) /\ Border(buffer, seek) /\ Border(buffer, seek + 1) => Whole(c)
      BY <1>1, <3>1, RestIsWhole
    <3> QED
      BY <1>1, <2>2, <3>1, <3>2
  <2> HIDE DEF b
  <2>4. 0 \in Int /\ seek + 0 >= 0 /\ Len(b) <= MaxLen /\ torn' \in BOOLEAN
    BY <1>1, <2>1, <2>3
  <2> QED
    BY <1>1, <2>1, <2>2, <2>3, <2>4, Rewritten
<1> QED
  BY <1>2, <1>5, <1>6, <1>7

LEMMA KeysWrite ==
  ASSUME EditorInv, Insert \/ Recall \/ AltV
  PROVE  EditorInv'
<1>1. /\ buffer \in Seq(Byte) /\ cpbuf \in Seq(Byte) /\ seek \in 0 .. Len(buffer)
      /\ Len(buffer) \in Nat /\ MaxLen \in Nat /\ Len(buffer) <= MaxLen /\ Len(cpbuf) <= MaxLen
      /\ Len(cpbuf) \in Nat /\ torn \in BOOLEAN /\ wild \in BOOLEAN
      /\ NoSelection \in [0 .. 1 -> -1 .. MaxLen]
      /\ ~torn => Whole(buffer) /\ Whole(cpbuf) /\ Border(buffer, seek)
  BY BufferType DEF EditorInv, WholeCharacters, TypeOK
<1>2. CASE Insert
  <2>1. PICK l \in Letter : /\ Len(buffer) + Len(l) <= MaxLen
                            /\ Rewrite(Joined(l), Len(l)) /\ cpbuf' = cpbuf /\ torn' = torn
    BY <1>2 DEF Insert
  <2>2. l \in Seq(Byte) /\ Whole(l) /\ Len(l) \in Nat
    BY LetterIsWhole, LenProperties
  <2>3. /\ Joined(l) \in Seq(Byte) /\ Len(Joined(l)) <= MaxLen
        /\ ~torn => Whole(Joined(l))
    BY <1>1, <2>1, <2>2, JoinedIsWhole
  <2>4. Len(l) \in Int /\ seek + Len(l) >= 0
    BY <1>1, <2>2
  <2> QED
    BY <1>1, <2>1, <2>3, <2>4, Rewritten
<1>3. CASE Recall
  <2>1. PICK b \in Recalled : /\ buffer' = b /\ seek' = Len(b) /\ torn' = (torn \/ ~Whole(b))
                              /\ selected' = NoSelection /\ selectedmode' = FALSE
                              /\ wild' = Underruns(buffer, seek, 0) /\ cpbuf' = cpbuf
    BY <1>3 DEF Recall
  <2>2. b \in Seq(Byte) /\ Len(b) <= MaxLen /\ Len(b) \in 0 .. Len(b)
    BY ByteAssumption, LenProperties
  <2>3. TypeOK'
    BY <1>1, <2>1, <2>2 DEF TypeOK, Underruns
  <2>4. SelectionInv' /\ ~Broken'
    BY <2>1 DEF SelectionInv, Broken
  <2>5. WholeCharacters'
    BY <1>1, <2>1, <2>4 DEF WholeCharacters, Border
  <2>6. ~torn' => ~wild'
    BY <1>1, <2>1, NoUnderrun
  <2> QED
    BY <2>3, <2>4, <2>5, <2>6 DEF EditorInv, InBounds
<1>4. CASE AltV
  <2> DEFINE b == Joined(cpbuf)
             ahead == Ahead(b, Printed(b, 0))
             last == {i \in ahead : Cardinality({j \in ahead : j <= i}) = Characters(cpbuf) + 1}
  <2>1. /\ buffer' = b /\ seek' = Min(last \cup {Len(b)}) /\ cpbuf' = cpbuf /\ torn' = torn
        /\ selected' = NoSelection /\ selectedmode' = FALSE
        /\ wild' = PrintUnderruns(b, 0) /\ Len(buffer) + Len(cpbuf) <= MaxLen
    BY <1>4 DEF AltV
  <2>2. /\ b \in Seq(Byte) /\ Len(b) <= MaxLen /\ Len(b) \in Nat
        /\ ~torn => Whole(b)
    <3>1. /\ b \in Seq(Byte) /\ Len(b) = Len(buffer) + Len(cpbuf)
          /\ Whole(buffer) /\ Border(buffer, seek) /\ Whole(cpbuf) => Whole(b)
      BY <1>1, JoinedIsWhole
    <3> HIDE DEF b
    <3> QED
      BY <1>1, <2>1, <3>1
  <2> HIDE DEF b
  <2>3. Printed(b, 0) \in 0 .. Len(b) /\ Border(b, Printed(b, 0))
    <3>1. seek + 0 >= 0 /\ 0 \in Int
      BY <1>1
    <3> QED
      BY <2>2, <3>1, PrintedIsBorder DEF EditorInv
  <2>4. /\ ahead \subseteq 0 .. Len(b) /\ Len(b) \in ahead
        /\ ~torn => \A i \in ahead : Border(b, i)
    <3>1. ahead \subseteq Printed(b, 0) .. Len(b) /\ Len(b) \in ahead
          /\ (Whole(b) /\ Border(b, Printed(b, 0)) => \A i \in ahead : Border(b, i))
      BY <2>2, <2>3, AheadAreBorders
    <3> QED
      BY <2>2, <2>3, <3>1
  <2>5. last \cup {Len(b)} \subseteq ahead
    BY <2>4
  <2> HIDE DEF ahead, last
  <2>6. seek' \in ahead
    <3>1. last \cup {Len(b)} \subseteq 0 .. Len(b) /\ last \cup {Len(b)} # {}
      BY <2>4, <2>5
    <3>2. Min(last \cup {Len(b)}) \in last \cup {Len(b)}
      BY <2>2, <3>1, MinOf
    <3> QED
      BY <2>1, <2>5, <3>2
  <2>7. TypeOK'
    BY <1>1, <2>1, <2>2, <2>4, <2>6 DEF TypeOK, PrintUnderruns, Underruns
  <2>8. SelectionInv' /\ ~Broken'
    BY <2>1 DEF SelectionInv, Broken
  <2>9. WholeCharacters'
    BY <1>1, <2>1, <2>2, <2>4, <2>6, <2>8 DEF WholeCharacters
  <2>10. ~torn => ~wild'
    BY <1>1, <2>1, <2>2, NoPrintUnderrun DEF EditorInv
  <2> QED
    BY <2>1, <2>7, <2>8, <2>9, <2>10 DEF EditorInv, InBounds
<1> QED
  BY <1>2, <1>3, <1>4

LEMMA OthersHold ==
  ASSUME EditorInv, AltC \/ Unselect \/ ResizeInEscape \/ Enter \/ UNCHANGED vars
  PROVE  EditorInv'
<1>1. /\ buffer \in Seq(Byte) /\ cpbuf \in Seq(Byte) /\ seek \in 0 .. Len(buffer)
      /\ Len(buffer) \in Nat /\ MaxLen \in Nat /\ Len(buffer) <= MaxLen /\ Len(cpbuf) <= MaxLen
      /\ torn \in BOOLEAN /\ NoSelection \in [0 .. 1 -> -1 .. MaxLen]
      /\ ~torn => Whole(buffer) /\ Whole(cpbuf) /\ Border(buffer, seek)
  BY BufferType DEF EditorInv, WholeCharacters, TypeOK
<1>2. <<>> \in Seq(Byte) /\ Len(<<>>) = 0 /\ Whole(<<>>) /\ Border(<<>>, 0)
  BY DEF Whole, Border
<1>3. CASE AltC
  <2>1. /\ cpbuf' = IF Broken THEN <<>> ELSE SubSeq(buffer, Low + 1, High)
        /\ UNCHANGED <<buffer, seek, selected, selectedmode, torn, wild>> /\ selectedmode
    BY <1>3 DEF AltC
  <2>2. cpbuf' \in Seq(Byte) /\ Len(cpbuf') <= MaxLen /\ (~torn => Whole(cpbuf'))
    <3>1. CASE Broken
      BY <1>1, <1>2, <2>1, <3>1
    <3>2. CASE ~Broken
      <4>1. /\ Low \in 0 .. Len(buffer) /\ High \in Low .. Len(buffer)
            /\ ~torn => Border(buffer, Low) /\ Border(buffer, High)
        BY <2>1, <3>2, SelectionEnds
      <4>2. /\ SubSeq(buffer, Low + 1, High) \in Seq(Byte)
            /\ Len(SubSeq(buffer, Low + 1, High)) = High - Low
            /\ ~torn => Whole(SubSeq(buffer, Low + 1, High))
        BY <1>1, <4>1, CutIsWhole
      <4> QED
        BY <1>1, <2>1, <3>2, <4>1, <4>2
    <3> QED
      BY <3>1, <3>2
  <2>3. TypeOK'
    BY <2>1, <2>2 DEF EditorInv, TypeOK
  <2>4. Broken' = Broken /\ SelectionInv'
    BY <2>1 DEF EditorInv, SelectionInv, Broken
  <2>5. WholeCharacters'
    BY <2>1, <2>2, <2>4 DEF EditorInv, WholeCharacters
  <2> QED
    BY <2>1, <2>3, <2>4, <2>5 DEF EditorInv, InBounds
<1>4. CASE Unselect
  <2>1. CASE Rewrite(buffer, 0) /\ UNCHANGED <<cpbuf, torn>>
    <3>1. 0 \in Int /\ seek + 0 >= 0
      BY <1>1
    <3> QED
      BY <1>1, <2>1, <3>1, Rewritten
  <2>2. CASE /\ Key /\ selected' = NoSelection /\ selectedmode' = FALSE
             /\ UNCHANGED <<buffer, seek, wild, cpbuf, torn>>
    <3>1. SelectionInv' /\ ~Broken' /\ ~wild'
      BY <2>2 DEF SelectionInv, Broken, Key
    <3>2. TypeOK'
      BY <1>1, <2>2 DEF EditorInv, TypeOK
    <3>3. WholeCharacters'
      BY <1>1, <2>2, <3>1 DEF WholeCharacters
    <3> QED
      BY <3>1, <3>2, <3>3 DEF EditorInv, InBounds
  <2> QED
    BY <1>4, <2>1, <2>2 DEF Unselect
<1>5. CASE ResizeInEscape
  <2>1. /\ Key /\ selected' = NoSelection
        /\ UNCHANGED <<buffer, seek, selectedmode, cpbuf, torn, wild>>
    BY <1>5 DEF ResizeInEscape
  <2>2. TypeOK'
    BY <1>1, <2>1 DEF EditorInv, TypeOK
  <2>3. SelectionInv' /\ ~(selectedmode' /\ ~Broken')
    BY <2>1 DEF SelectionInv, Broken
  <2>4. WholeCharacters'
    BY <1>1, <2>1, <2>3 DEF WholeCharacters
  <2> QED
    BY <2>1, <2>2, <2>3, <2>4 DEF EditorInv, InBounds, Key
<1>6. CASE Enter
  <2>1. /\ buffer' = <<>> /\ seek' = 0 /\ cpbuf' = <<>> /\ torn' = FALSE /\ wild' = FALSE
        /\ selected' = NoSelection /\ selectedmode' = FALSE
    BY <1>6 DEF Enter
  <2>2. TypeOK'
    <3>1. /\ buffer' \in Seq(Byte) /\ Len(buffer') = 0 /\ cpbuf' \in Seq(Byte) /\ Len(cpbuf') = 0
      BY <1>2, <2>1
    <3>2. seek' \in 0 .. Len(buffer') /\ Len(buffer') <= MaxLen /\ Len(cpbuf') <= MaxLen
      BY <1>1, <2>1, <3>1
    <3> QED
      BY <1>1, <2>1, <3>1, <3>2 DEF TypeOK
  <2>3. SelectionInv' /\ ~Broken' /\ WholeCharacters'
    BY <1>2, <2>1 DEF SelectionInv, Broken, WholeCharacters
  <2> QED
    BY <2>1, <2>2, <2>3 DEF EditorInv, InBounds
<1>7. CASE UNCHANGED vars
  BY <1>7 DEF vars, EditorInv, TypeOK, SelectionInv, WholeCharacters, InBounds, Broken
<1> QED
  BY <1>3, <1>4, <1>5, <1>6, <1>7

LEMMA EditorInvariant == Spec => []EditorInv
<1>1. Init => EditorInv
  <2> SUFFICES ASSUME Init PROVE EditorInv
    OBVIOUS
  <2>1. /\ buffer = <<>> /\ seek = 0 /\ cpbuf = <<>> /\ torn = FALSE /\ wild = FALSE
        /\ selected = NoSelection /\ selectedmode = FALSE
    BY DEF Init
  <2>2. /\ <<>> \in Seq(Byte) /\ Len(<<>>) = 0 /\ Whole(<<>>) /\ Border(<<>>, 0)
        /\ MaxLen \in Nat /\ NoSelection \in [0 .. 1 -> -1 .. MaxLen]
    BY ByteAssumption DEF Whole, Border, NoSelection
  <2>3. TypeOK
    <3>1. /\ buffer \in Seq(Byte) /\ Len(buffer) = 0 /\ cpbuf \in Seq(Byte) /\ Len(cpbuf) = 0
      BY <2>1, <2>2
    <3>2. seek \in 0 .. Len(buffer) /\ Len(buffer) <= MaxLen /\ Len(cpbuf) <= MaxLen
      BY <2>1, <2>2, <3>1
    <3> QED
      BY <2>1, <2>2, <3>1, <3>2 DEF TypeOK
  <2> QED
    BY <2>1, <2>2, <2>3 DEF EditorInv, SelectionInv, Broken, WholeCharacters, InBounds
<1>2. EditorInv /\ [Next]_vars => EditorInv'
  BY KeysMove, KeysSelect, KeysRemove, KeysWrite, OthersHold DEF Next
<1> QED
  BY <1>1, <1>2, PTL DEF Spec

\* The offsets of the editor stay inside of its line, whatever has been torn: the
\* cursor, and the selection that the cuts are made from.
THEOREM EditorTyped == Spec => []TypeOK
<1>1. EditorInv => TypeOK
  BY DEF EditorInv
<1> QED
  BY <1>1, EditorInvariant, PTL

\* Every motion, cut and join of the editor keeps characters of several bytes
\* together, for lines of any length: the loops over the top bits of the bytes stop
\* at the beginning of a character.
THEOREM CharactersStayWhole == Spec => []WholeCharacters
<1>1. EditorInv => WholeCharacters
  BY DEF EditorInv
<1> QED
  BY <1>1, EditorInvariant, PTL

\* No key reads or writes outside of the buffer as long as no character is torn and
\* the selection has its ends.
THEOREM StaysInBounds == Spec => []InBounds
<1>1. EditorInv => InBounds
  BY DEF EditorInv
<1> QED
  BY <1>1, EditorInvariant, PTL

-----------------------------------------------------------------------------
(* Counting the characters before an offset                                *)

LEMMA IndexStep ==
  ASSUME NEW b \in Seq(Byte), NEW s \in 0 .. Len(b)
  PROVE  /\ Index(b, s) \in Nat /\ Index(b, 0) = 0
         /\ s < Len(b) /\ b[s + 1] \in Cont => Index(b, s + 1) = Index(b, s)
         /\ s < Len(b) /\ b[s + 1] \notin Cont => Index(b, s + 1) = Index(b, s) + 1
<1> DEFINE S == {i \in 1 .. s : b[i] \notin Cont}
           T == {i \in 1 .. s + 1 : b[i] \notin Cont}
<1>1. IsFiniteSet(S) /\ Cardinality(S) \in Nat
  <2>1. IsFiniteSet(1 .. s) /\ S \in SUBSET (1 .. s)
    BY FS_Interval
  <2> QED
    BY <2>1, FS_Subset, FS_CardinalityType
<1>2. Index(b, 0) = 0
  <2>1. {i \in 1 .. 0 : b[i] \notin Cont} = {}
    OBVIOUS
  <2> QED
    BY <2>1, FS_EmptySet DEF Index
<1>3. ASSUME s < Len(b), b[s + 1] \in Cont PROVE T = S
  BY <1>3
<1>4. ASSUME s < Len(b), b[s + 1] \notin Cont PROVE T = S \cup {s + 1} /\ s + 1 \notin S
  BY <1>4
<1>5. Index(b, s) = Cardinality(S) /\ Index(b, s + 1) = Cardinality(T)
  BY DEF Index
<1> HIDE DEF S, T
<1>6. Cardinality(S \cup {s + 1}) = IF s + 1 \in S THEN Cardinality(S) ELSE Cardinality(S) + 1
  BY <1>1, FS_AddElement
<1> QED
  BY <1>1, <1>2, <1>3, <1>4, <1>5, <1>6

LEMMA IndexGrows ==
  ASSUME NEW b \in Seq(Byte), NEW s \in 0 .. Len(b), NEW t \in s .. Len(b)
  PROVE  Index(b, s) \in Nat /\ Index(b, t) \in Nat /\ Index(b, s) <= Index(b, t)
<1>1. Len(b) \in Nat
  BY LenProperties
<1>2. Index(b, s) \in Nat /\ Index(b, t) \in Nat
  BY <1>1, IndexStep
<1> DEFINE S == {i \in 1 .. s : b[i] \notin Cont}
           T == {i \in 1 .. t : b[i] \notin Cont}
<1>3. S \in SUBSET T
  BY <1>1
<1>4. IsFiniteSet(T)
  <2>1. IsFiniteSet(1 .. t) /\ T \in SUBSET (1 .. t)
    BY <1>1, FS_Interval
  <2> QED
    BY <2>1, FS_Subset
<1>5. Index(b, s) = Cardinality(S) /\ Index(b, t) = Cardinality(T)
  BY DEF Index
<1> HIDE DEF S, T
<1>6. Cardinality(S) <= Cardinality(T)
  BY <1>3, <1>4, FS_Subset
<1> QED
  BY <1>2, <1>5, <1>6

\* A border in front of a byte is in front of a first byte.
LEMMA BorderStep ==
  ASSUME NEW b \in Seq(Byte), Whole(b), NEW s \in 0 .. Len(b), Border(b, s), s < Len(b)
  PROVE  b[s + 1] \notin Cont /\ Index(b, s + 1) = Index(b, s) + 1
<1>1. b[s + 1] \notin Cont
  BY DEF Border, Whole
<1> QED
  BY <1>1, IndexStep

LEMMA IndexOrder ==
  ASSUME NEW b \in Seq(Byte), Whole(b), NEW s \in 0 .. Len(b), Border(b, s),
         NEW t \in 0 .. Len(b), Border(b, t)
  PROVE  /\ Index(b, s) \in Nat /\ Index(b, t) \in Nat
         /\ s < t <=> Index(b, s) < Index(b, t)
         /\ s = t <=> Index(b, s) = Index(b, t)
<1>1. Len(b) \in Nat /\ Index(b, s) \in Nat /\ Index(b, t) \in Nat
  BY LenProperties, IndexStep
<1>2. ASSUME s < t PROVE Index(b, s) < Index(b, t)
  <2>1. s < Len(b) /\ t \in s + 1 .. Len(b) /\ s + 1 \in 0 .. Len(b)
    BY <1>1, <1>2
  <2>2. Index(b, s + 1) = Index(b, s) + 1
    BY <2>1, BorderStep
  <2>3. Index(b, s + 1) <= Index(b, t)
    BY <2>1, IndexGrows
  <2> QED
    BY <1>1, <2>2, <2>3
<1>3. ASSUME t < s PROVE Index(b, t) < Index(b, s)
  <2>1. t < Len(b) /\ s \in t + 1 .. Len(b) /\ t + 1 \in 0 .. Len(b)
    BY <1>1, <1>3
  <2>2. Index(b, t + 1) = Index(b, t) + 1
    BY <2>1, BorderStep
  <2>3. Index(b, t + 1) <= Index(b, s)
    BY <2>1, IndexGrows
  <2> QED
    BY <1>1, <2>2, <2>3
<1> QED
  BY <1>1, <1>2, <1>3

-----------------------------------------------------------------------------
(* The borders next to a border                                            *)

\* From one border, the loop to the right goes through all the others.
LEMMA AheadIsBorders ==
  ASSUME NEW b \in Seq(Byte), Whole(b), NEW s \in 0 .. Len(b), Border(b, s)
  PROVE  Ahead(b, s) = {i \in s .. Len(b) : Border(b, i)}
<1>1. \A i \in Ahead(b, s) : i \in s .. Len(b) /\ Border(b, i)
  BY AheadAreBorders
<1>2. ASSUME NEW i \in s .. Len(b), Border(b, i) PROVE i \in Ahead(b, s)
  <2>1. CASE i \in {s, Len(b)}
    BY <2>1 DEF Ahead
  <2>2. CASE i \notin {s, Len(b)}
    <3>1. i \in 1 .. Len(b) - 1 /\ b[i + 1] \notin Cont
      BY <1>2, <2>2 DEF Border
    <3>2. ~Inside(b, s, i)
      BY <3>1 DEF Inside
    <3> QED
      BY <3>2 DEF Ahead
  <2> QED
    BY <2>1, <2>2
<1> QED
  BY <1>1, <1>2

LEMMA StopsAreAll ==
  ASSUME NEW b \in Seq(Byte), Whole(b)
  PROVE  Stops(b) = {i \in 0 .. Len(b) - 1 : Border(b, i)}
BY DEF Stops, Border, Whole

\* The next border counts one character more, and none lies between.
LEMMA RightIsNext ==
  ASSUME NEW b \in Seq(Byte), Whole(b), NEW s \in 0 .. Len(b), Border(b, s), s < Len(b)
  PROVE  /\ RightOf(b, s) \in s + 1 .. Len(b) /\ Border(b, RightOf(b, s))
         /\ Index(b, RightOf(b, s)) = Index(b, s) + 1
         /\ \A i \in s + 1 .. Len(b) : Border(b, i) => RightOf(b, s) <= i
         /\ \A i \in s + 2 .. RightOf(b, s) : b[i] \in Cont
<1> DEFINE r == RightOf(b, s)
           S == Ahead(b, s) \ {s}
<1>1. /\ Len(b) \in Nat /\ S = {i \in s + 1 .. Len(b) : Border(b, i)}
      /\ S \subseteq 0 .. Len(b) /\ Len(b) \in S
  <2>1. Len(b) \in Nat /\ Border(b, Len(b))
    BY LenProperties DEF Border
  <2> QED
    BY <2>1, AheadIsBorders
<1>2. r = Min(S)
  BY DEF RightOf
<1>3. r \in S /\ \A i \in S : r <= i
  BY <1>1, <1>2, MinOf
<1> HIDE DEF r, S
<1>4. r \in s + 1 .. Len(b) /\ Border(b, r) /\ \A i \in s + 1 .. Len(b) : Border(b, i) => r <= i
  BY <1>1, <1>3
<1>5. ASSUME NEW i \in s + 2 .. r PROVE b[i] \in Cont
  <2>1. i - 1 \in s + 1 .. Len(b) /\ ~(r <= i - 1) /\ (i - 1) + 1 = i
    BY <1>1, <1>4
  <2>2. ~Border(b, i - 1)
    BY <1>4, <2>1
  <2> QED
    BY <2>1, <2>2 DEF Border
<1>6. Index(b, r) = Index(b, s) + 1
  <2> DEFINE bad == {i \in 0 .. Len(b) : i \in s + 1 .. r /\ Index(b, i) # Index(b, s) + 1}
  <2>1. ASSUME bad # {} PROVE FALSE
    <3> DEFINE i == Min(bad)
    <3>1. i \in bad /\ \A k \in bad : i <= k
      BY <1>1, <2>1, MinOf
    <3> HIDE DEF i
    <3>2. i # s + 1
      BY <3>1, BorderStep
    <3>3. i - 1 \in 0 .. Len(b) /\ i - 1 \in s + 1 .. r /\ i \in s + 2 .. r /\ (i - 1) + 1 = i
          /\ i - 1 < Len(b) /\ ~(i <= i - 1)
      BY <1>1, <1>4, <3>1, <3>2
    <3>4. Index(b, i - 1) = Index(b, s) + 1
      BY <3>1, <3>3
    <3>5. b[i] \in Cont
      BY <1>5, <3>3
    <3>6. Index(b, i) = Index(b, i - 1)
      BY <3>3, <3>5, IndexStep
    <3> QED
      BY <3>1, <3>4, <3>6
  <2>2. r \in 0 .. Len(b) /\ r \in s + 1 .. r
    BY <1>1, <1>4
  <2> QED
    BY <2>1, <2>2
<1> QED
  BY <1>4, <1>5, <1>6 DEF r

\* The border before counts one character less, and none lies between.
LEMMA LeftIsLast ==
  ASSUME NEW b \in Seq(Byte), Whole(b), NEW s \in 0 .. Len(b), Border(b, s), s > 0
  PROVE  /\ LeftOf(b, s) \in 0 .. s - 1 /\ Border(b, LeftOf(b, s))
         /\ Index(b, LeftOf(b, s)) = Index(b, s) - 1
         /\ \A i \in 0 .. s - 1 : Border(b, i) => i <= LeftOf(b, s)
         /\ RightOf(b, LeftOf(b, s)) = s
<1> DEFINE l == LeftOf(b, s)
           S == {i \in Stops(b) : i < s}
<1>1. /\ Len(b) \in Nat /\ S = {i \in 0 .. s - 1 : Border(b, i)}
      /\ S \subseteq 0 .. Len(b) /\ 0 \in S
  <2>1. Len(b) \in Nat /\ Border(b, 0)
    BY LenProperties DEF Border
  <2> QED
    BY <2>1, StopsAreAll
<1>2. l = Max(S)
  BY DEF LeftOf
<1>3. l \in S /\ \A i \in S : i <= l
  BY <1>1, <1>2, MaxOf
<1> HIDE DEF l, S
<1>4. l \in 0 .. s - 1 /\ Border(b, l) /\ \A i \in 0 .. s - 1 : Border(b, i) => i <= l
  BY <1>1, <1>3
<1> DEFINE r == RightOf(b, l)
<1>5. /\ r \in l + 1 .. Len(b) /\ Border(b, r) /\ Index(b, r) = Index(b, l) + 1
      /\ \A i \in l + 1 .. Len(b) : Border(b, i) => r <= i
  BY <1>1, <1>4, RightIsNext
<1> HIDE DEF r
<1>6. r = s
  BY <1>1, <1>4, <1>5
<1>7. Index(b, l) \in Nat
  BY <1>1, <1>4, IndexStep
<1> QED
  BY <1>4, <1>5, <1>6, <1>7 DEF l, r

-----------------------------------------------------------------------------
(* The characters of a line                                                *)

LEMMA CharOf ==
  ASSUME NEW b \in Seq(Byte), NEW k \in 1 .. Index(b, Len(b))
  PROVE  \E i \in 1 .. Len(b) : b[i] \notin Cont /\ Index(b, i) = k /\ Index(b, i - 1) = k - 1
<1> DEFINE S == {i \in 0 .. Len(b) : Index(b, i) >= k}
           i == Min(S)
<1>1. Len(b) \in Nat /\ Index(b, Len(b)) \in Nat /\ Len(b) \in 0 .. Len(b)
  BY LenProperties, IndexStep
<1>2. S \subseteq 0 .. Len(b) /\ Len(b) \in S
  BY <1>1
<1>3. i \in S /\ \A j \in S : i <= j
  BY <1>1, <1>2, MinOf
<1> HIDE DEF i
<1>4. i \in 0 .. Len(b) /\ Index(b, i) >= k
  BY <1>3
<1>5. i # 0
  BY <1>1, <1>4, IndexStep
<1>6. i - 1 \in 0 .. Len(b) /\ (i - 1) + 1 = i /\ i - 1 < Len(b) /\ ~(i <= i - 1)
  BY <1>1, <1>4, <1>5
<1>7. ~(Index(b, i - 1) >= k)
  BY <1>3, <1>6
<1>8. Index(b, i - 1) \in Nat /\ Index(b, i) \in Nat
  BY <1>4, <1>6, IndexStep
<1>9. b[i] \notin Cont /\ Index(b, i) = Index(b, i - 1) + 1
  BY <1>4, <1>6, <1>7, <1>8, IndexStep
<1> QED
  BY <1>1, <1>4, <1>5, <1>7, <1>8, <1>9

\* Each character has a border in front of it.
LEMMA CharBorder ==
  ASSUME NEW b \in Seq(Byte), NEW k \in 1 .. Index(b, Len(b))
  PROVE  \E s \in 0 .. Len(b) : s < Len(b) /\ Border(b, s) /\ Index(b, s) = k - 1
<1>1. PICK i \in 1 .. Len(b) : b[i] \notin Cont /\ Index(b, i - 1) = k - 1
  BY CharOf
<1>2. i - 1 \in 0 .. Len(b) /\ (i - 1) + 1 = i /\ i - 1 < Len(b)
  BY <1>1
<1>3. Border(b, i - 1)
  BY <1>1, <1>2 DEF Border
<1> QED
  BY <1>1, <1>2, <1>3

\* The character behind a border reaches to the next one.
LEMMA CharAt ==
  ASSUME NEW b \in Seq(Byte), Whole(b), NEW s \in 0 .. Len(b), Border(b, s), s < Len(b)
  PROVE  /\ Index(b, s) + 1 \in 1 .. Index(b, Len(b))
         /\ Chars(b)[Index(b, s) + 1] = SubSeq(b, s + 1, RightOf(b, s))
<1> DEFINE k == Index(b, s) + 1
           r == RightOf(b, s)
           first == CHOOSE i \in 1 .. Len(b) : b[i] \notin Cont /\ Index(b, i) = k
           after == {i \in first + 1 .. Len(b) : b[i] \notin Cont}
<1>1. /\ Len(b) \in Nat /\ Index(b, s) \in Nat /\ Len(b) \in s .. Len(b)
      /\ b[s + 1] \notin Cont /\ Index(b, s + 1) = k /\ s + 1 \in 1 .. Len(b)
  <2>1. Len(b) \in Nat /\ s + 1 \in 1 .. Len(b)
    BY LenProperties
  <2> QED
    BY <2>1, BorderStep, IndexStep
<1>2. k \in 1 .. Index(b, Len(b))
  <2>1. Len(b) \in s + 1 .. Len(b) /\ s + 1 \in 0 .. Len(b)
    BY <1>1
  <2>2. Index(b, Len(b)) \in Nat /\ Index(b, s + 1) <= Index(b, Len(b))
    BY <2>1, IndexGrows
  <2> QED
    BY <1>1, <2>2
<1>3. ASSUME NEW i \in 1 .. Len(b), NEW j \in 1 .. Len(b), b[j] \notin Cont,
             Index(b, i) = Index(b, j), i < j
      PROVE  FALSE
  <2>1. j - 1 \in 0 .. Len(b) /\ (j - 1) + 1 = j /\ j - 1 < Len(b) /\ j - 1 \in i .. Len(b)
        /\ i \in 0 .. Len(b)
    BY <1>1, <1>3
  <2>2. Index(b, j) = Index(b, j - 1) + 1 /\ Index(b, j - 1) \in Nat
    BY <1>3, <2>1, IndexStep
  <2>3. Index(b, i) <= Index(b, j - 1) /\ Index(b, i) \in Nat
    BY <2>1, IndexGrows
  <2> QED
    BY <1>3, <2>2, <2>3
<1>4. first = s + 1
  <2>1. first \in 1 .. Len(b) /\ b[first] \notin Cont /\ Index(b, first) = k
    BY <1>1
  <2> HIDE DEF first, k
  <2>2. ~(first < s + 1) /\ ~(s + 1 < first)
    BY <1>1, <1>3, <2>1
  <2> QED
    BY <1>1, <2>1, <2>2
<1> HIDE DEF first
<1>5. /\ r \in s + 1 .. Len(b) /\ Border(b, r)
      /\ \A i \in s + 2 .. r : b[i] \in Cont
  BY RightIsNext
<1> HIDE DEF r
<1>6. Min(after \cup {Len(b) + 1}) = r + 1
  <2> DEFINE S == after \cup {Len(b) + 1}
  <2>1. S \subseteq 0 .. Len(b) + 1 /\ S # {} /\ Len(b) + 1 \in Nat
    BY <1>1, <1>4
  <2>2. Min(S) \in S /\ \A i \in S : Min(S) <= i
    BY <2>1, MinOf
  <2>3. r + 1 \in S
    BY <1>1, <1>4, <1>5 DEF Border
  <2>4. \A i \in S : i >= r + 1
    BY <1>1, <1>4, <1>5
  <2>5. Min(S) <= r + 1 /\ Min(S) >= r + 1 /\ Min(S) \in Nat
    BY <2>1, <2>2, <2>3, <2>4
  <2> QED
    BY <1>1, <1>5, <2>5
<1>7. Chars(b)[k] = SubSeq(b, first, Min(after \cup {Len(b) + 1}) - 1)
  BY <1>2 DEF Chars, first
<1>8. (r + 1) - 1 = r
  BY <1>5
<1> QED
  BY <1>2, <1>4, <1>6, <1>7, <1>8 DEF r

\* Every character of a line is one; a single byte, if that is its first.
LEMMA CharKind ==
  ASSUME NEW b \in Seq(Byte), Whole(b), NEW s \in 0 .. Len(b), Border(b, s), s < Len(b)
  PROVE  LET c == SubSeq(b, s + 1, RightOf(b, s))
         IN /\ c \in Seq(Byte) /\ Len(c) = RightOf(b, s) - s /\ c[1] = b[s + 1]
            /\ IsCharacter(c)
            /\ Len(c) > 1 <=> b[s + 1] \in Lead
            /\ Len(c) = 1 <=> RightOf(b, s) = s + 1
<1> DEFINE r == RightOf(b, s)
           c == SubSeq(b, s + 1, r)
<1>1. /\ r \in s + 1 .. Len(b) /\ Border(b, r) /\ b[s + 1] \notin Cont
      /\ \A i \in s + 1 .. Len(b) : Border(b, i) => r <= i
      /\ \A i \in s + 2 .. r : b[i] \in Cont
  BY RightIsNext, BorderStep
<1> HIDE DEF r
<1>2. Len(b) \in Nat /\ s + 1 \in 1 .. Len(b)
  BY LenProperties
<1>3. c \in Seq(Byte) /\ Len(c) = r - s /\ \A i \in 1 .. r - s : c[i] = b[s + i]
  <2>1. \A i \in s + 1 .. r : b[i] \in Byte
    BY <1>1, <1>2, ElementOfSeq
  <2>2. /\ c \in Seq(Byte) /\ Len(c) = IF s + 1 <= r THEN r - (s + 1) + 1 ELSE 0
        /\ \A i \in 1 .. r - (s + 1) + 1 : c[i] = b[(s + 1) + i - 1]
    BY <1>1, <1>2, <2>1, SubSeqProperties
  <2> QED
    BY <1>1, <1>2, <2>2
<1> HIDE DEF c
<1>4. c[1] = b[s + 1]
  BY <1>1, <1>2, <1>3
<1>5. CASE b[s + 1] \in Lead
  <2>1. s + 1 < Len(b) /\ b[s + 2] \in Cont
    <3>1. s + 1 < Len(b) /\ b[(s + 1) + 1] \in Cont
      BY <1>2, <1>5 DEF Whole
    <3> QED
      BY <3>1
  <2>2. ~Border(b, s + 1)
    BY <1>2, <2>1 DEF Border
  <2>3. r # s + 1
    BY <1>1, <2>2
  <2>4. Len(c) > 1 /\ Len(c) # 1
    BY <1>1, <1>2, <1>3, <2>3
  <2>5. \A i \in 2 .. Len(c) : c[i] \in Cont
    BY <1>1, <1>2, <1>3
  <2> QED
    BY <1>3, <1>4, <1>5, <2>3, <2>4, <2>5 DEF IsCharacter, c, r
<1>6. CASE b[s + 1] \notin Lead
  <2>1. Border(b, s + 1)
    <3>1. CASE s + 1 = Len(b)
      BY <3>1 DEF Border
    <3>2. CASE s + 1 # Len(b)
      <4>1. s + 2 \in 1 .. Len(b) /\ (s + 2) - 1 = s + 1 /\ (s + 1) + 1 = s + 2
        BY <1>2, <3>2
      <4>2. b[s + 2] \notin Cont
        BY <1>1, <1>6, <4>1 DEF Whole
      <4> QED
        BY <4>1, <4>2 DEF Border
    <3> QED
      BY <3>1, <3>2
  <2>2. r = s + 1
    BY <1>1, <1>2, <2>1
  <2>3. Len(c) = 1
    BY <1>2, <1>3, <2>2
  <2> QED
    BY <1>1, <1>3, <1>4, <1>6, <2>2, <2>3 DEF IsCharacter, c, r
<1> QED
  BY <1>5, <1>6

LEMMA CharsType ==
  ASSUME NEW b \in Seq(Byte), Whole(b)
  PROVE  /\ Chars(b) \in Seq(Seq(Byte)) /\ Len(Chars(b)) = Index(b, Len(b))
         /\ Index(b, Len(b)) \in Nat
         /\ Len(b) <= MaxLen => Chars(b) \in Seq(Character)
<1> DEFINE n == Index(b, Len(b))
<1>1. n \in Nat /\ Len(b) \in Nat
  <2>1. Len(b) \in Nat /\ Len(b) \in 0 .. Len(b)
    BY LenProperties
  <2> QED
    BY <2>1, IndexStep
<1>2. ASSUME NEW k \in 1 .. n
      PROVE  /\ Chars(b)[k] \in Seq(Byte) /\ IsCharacter(Chars(b)[k])
             /\ Len(Chars(b)[k]) \in 1 .. Len(b)
  <2>1. PICK s \in 0 .. Len(b) : s < Len(b) /\ Border(b, s) /\ Index(b, s) = k - 1
    BY CharBorder
  <2>2. Chars(b)[Index(b, s) + 1] = SubSeq(b, s + 1, RightOf(b, s)) /\ Index(b, s) + 1 = k
    BY <1>1, <2>1, CharAt
  <2>3. RightOf(b, s) \in s + 1 .. Len(b)
    BY <2>1, RightIsNext
  <2>4. RightOf(b, s) - s \in 1 .. Len(b)
    BY <1>1, <2>1, <2>3
  <2> DEFINE c == SubSeq(b, s + 1, RightOf(b, s))
  <2>5. c \in Seq(Byte) /\ Len(c) = RightOf(b, s) - s /\ IsCharacter(c)
    BY <2>1, CharKind
  <2> HIDE DEF c
  <2> QED
    BY <2>2, <2>4, <2>5 DEF c
<1>3. \A k \in 1 .. n : Len(b) <= MaxLen => Chars(b)[k] \in Character
  <2> SUFFICES ASSUME NEW k \in 1 .. n, Len(b) <= MaxLen PROVE Chars(b)[k] \in Character
    OBVIOUS
  <2> DEFINE c == Chars(b)[k]
  <2>1. c \in Seq(Byte) /\ IsCharacter(c) /\ Len(c) \in 1 .. MaxLen
    BY <1>1, <1>2, ByteAssumption
  <2> HIDE DEF c
  <2>2. c \in [1 .. Len(c) -> Byte]
    BY <2>1, LenProperties
  <2> QED
    BY <2>1, <2>2 DEF Character, c
<1>4. /\ \A S : (\A k \in 1 .. n : Chars(b)[k] \in S) => Chars(b) \in [1 .. n -> S]
      /\ DOMAIN Chars(b) = 1 .. n
  BY DEF Chars
<1>5. \A S : Chars(b) \in [1 .. n -> S] => Chars(b) \in Seq(S) /\ Len(Chars(b)) = n
  <2> DEFINE f == Chars(b)
  <2> HIDE DEF f, n
  <2>1. \A S : f \in [1 .. n -> S] => f \in Seq(S) /\ Len(f) = n
    BY <1>1
  <2> QED
    BY <2>1 DEF f
<1> HIDE DEF n
<1>6. Chars(b) \in [1 .. n -> Seq(Byte)] /\ (Len(b) <= MaxLen => Chars(b) \in [1 .. n -> Character])
  BY <1>2, <1>3, <1>4
<1> QED
  BY <1>1, <1>5, <1>6 DEF n

-----------------------------------------------------------------------------
(* The characters of what is joined and of what is cut                     *)

LEMMA IndexJoin ==
  ASSUME NEW a \in Seq(Byte), NEW c \in Seq(Byte)
  PROVE  /\ \A s \in 0 .. Len(a) : Index(a \o c, s) = Index(a, s)
         /\ \A s \in 0 .. Len(c) : Index(a \o c, Len(a) + s) = Index(a, Len(a)) + Index(c, s)
<1> DEFINE d == a \o c
<1>1. /\ d \in Seq(Byte) /\ Len(d) = Len(a) + Len(c) /\ Len(a) \in Nat /\ Len(c) \in Nat
      /\ \A i \in 1 .. Len(a) : d[i] = a[i]
      /\ \A i \in 1 .. Len(c) : d[Len(a) + i] = c[i]
  <2>1. /\ d \in Seq(Byte) /\ Len(d) = Len(a) + Len(c) /\ Len(a) \in Nat /\ Len(c) \in Nat
        /\ \A i \in 1 .. Len(a) + Len(c) : d[i] = IF i <= Len(a) THEN a[i] ELSE c[i - Len(a)]
    BY ConcatProperties, LenProperties
  <2> HIDE DEF d
  <2>2. ASSUME NEW i \in 1 .. Len(c) PROVE d[Len(a) + i] = c[i]
    <3>1. Len(a) + i \in 1 .. Len(a) + Len(c) /\ ~(Len(a) + i <= Len(a)) /\ (Len(a) + i) - Len(a) = i
      BY <2>1
    <3> QED
      BY <2>1, <3>1
  <2> QED
    BY <2>1, <2>2
<1> HIDE DEF d
<1>2. ASSUME NEW s \in 0 .. Len(a) PROVE Index(d, s) = Index(a, s)
  <2>1. \A i \in 1 .. s : i \in 1 .. Len(a)
    BY <1>1
  <2>2. \A i \in 1 .. s : d[i] = a[i]
    BY <1>1, <2>1, Zenon
  <2>3. {i \in 1 .. s : d[i] \notin Cont} = {i \in 1 .. s : a[i] \notin Cont}
    BY <2>2, Zenon
  <2> QED
    BY <2>3 DEF Index
<1>3. \A s \in 0 .. Len(c) : Index(d, Len(a) + s) = Index(a, Len(a)) + Index(c, s)
  <2> DEFINE bad == {s \in 0 .. Len(c) : Index(d, Len(a) + s) # Index(a, Len(a)) + Index(c, s)}
  <2>1. ASSUME bad # {} PROVE FALSE
    <3> DEFINE s == Min(bad)
    <3>1. s \in bad /\ \A t \in bad : s <= t
      BY <1>1, <2>1, MinOf
    <3> HIDE DEF s
    <3>2. s # 0
      <4>1. Index(d, Len(a)) = Index(a, Len(a)) /\ Index(c, 0) = 0 /\ Index(a, Len(a)) \in Nat
        BY <1>1, <1>2, IndexStep
      <4> QED
        BY <1>1, <3>1, <4>1
    <3> DEFINE t == s - 1
    <3>3. t \in 0 .. Len(c) /\ t < Len(c) /\ t + 1 = s /\ ~(s <= t) /\ s \in 1 .. Len(c)
          /\ Len(a) + t \in 0 .. Len(d) /\ Len(a) + t < Len(d) /\ (Len(a) + t) + 1 = Len(a) + s
      BY <1>1, <3>1, <3>2
    <3> HIDE DEF t
    <3>4. Index(d, Len(a) + t) = Index(a, Len(a)) + Index(c, t)
      BY <3>1, <3>3
    <3>5. d[Len(a) + s] = c[s]
      BY <1>1, <3>3
    <3>6. /\ Index(c, t) \in Nat /\ Index(a, Len(a)) \in Nat
          /\ c[s] \in Cont => Index(c, s) = Index(c, t)
          /\ c[s] \notin Cont => Index(c, s) = Index(c, t) + 1
      BY <1>1, <3>3, IndexStep
    <3>7. /\ d[Len(a) + s] \in Cont => Index(d, Len(a) + s) = Index(d, Len(a) + t)
          /\ d[Len(a) + s] \notin Cont => Index(d, Len(a) + s) = Index(d, Len(a) + t) + 1
      BY <1>1, <3>3, IndexStep
    <3> QED
      BY <3>1, <3>4, <3>5, <3>6, <3>7
  <2> QED
    BY <2>1
<1> QED
  BY <1>2, <1>3 DEF d

\* Where a line is cut into pieces of whole characters, their borders are its borders.
LEMMA BorderJoin ==
  ASSUME NEW a \in Seq(Byte), NEW c \in Seq(Byte), Whole(a), Whole(c)
  PROVE  /\ \A s \in 0 .. Len(a) : Border(a \o c, s) <=> Border(a, s)
         /\ \A s \in 0 .. Len(c) : Border(a \o c, Len(a) + s) <=> Border(c, s)
<1> DEFINE d == a \o c
<1>1. /\ Whole(d) /\ d \in Seq(Byte) /\ Len(d) = Len(a) + Len(c) /\ Border(d, Len(a))
      /\ Len(a) \in Nat /\ Len(c) \in Nat
      /\ \A i \in 1 .. Len(a) + Len(c) : d[i] = IF i <= Len(a) THEN a[i] ELSE c[i - Len(a)]
  BY ConcatProperties, LenProperties, JoinIsWhole
<1> HIDE DEF d
<1>2. ASSUME NEW s \in 0 .. Len(a) PROVE Border(d, s) <=> Border(a, s)
  <2>1. CASE s \in {0, Len(a)}
    BY <1>1, <2>1 DEF Border
  <2>2. CASE s \notin {0, Len(a)}
    <3>1. s + 1 \in 1 .. Len(a) /\ s # 0 /\ s # Len(d) /\ s # Len(a)
      BY <1>1, <2>2
    <3>2. d[s + 1] = a[s + 1]
      BY <1>1, <3>1
    <3> QED
      BY <3>1, <3>2 DEF Border
  <2> QED
    BY <2>1, <2>2
<1>3. ASSUME NEW s \in 0 .. Len(c) PROVE Border(d, Len(a) + s) <=> Border(c, s)
  <2>1. CASE s = 0
    BY <1>1, <2>1 DEF Border
  <2>2. CASE s = Len(c)
    BY <1>1, <2>2 DEF Border
  <2>3. CASE s # 0 /\ s # Len(c)
    <3> DEFINE i == Len(a) + s
    <3>1. /\ i + 1 \in 1 .. Len(a) + Len(c) /\ i # 0 /\ i # Len(d) /\ ~(i + 1 <= Len(a))
          /\ (i + 1) - Len(a) = s + 1
      BY <1>1, <2>3
    <3> HIDE DEF i
    <3>2. d[i + 1] = c[s + 1]
      BY <1>1, <3>1
    <3>3. Border(d, i) <=> Border(c, s)
      BY <2>3, <3>1, <3>2 DEF Border
    <3> QED
      BY <3>3 DEF i
  <2> QED
    BY <2>1, <2>2, <2>3
<1> QED
  BY <1>2, <1>3 DEF d

\* A piece of a part is a piece of the whole.
LEMMA SubSeqJoin ==
  ASSUME NEW S, NEW a \in Seq(S), NEW c \in Seq(S)
  PROVE  /\ \A s \in 0 .. Len(a) : \A t \in s .. Len(a) :
              SubSeq(a \o c, s + 1, t) = SubSeq(a, s + 1, t)
         /\ \A s \in 0 .. Len(c) : \A t \in s .. Len(c) :
              SubSeq(a \o c, (Len(a) + s) + 1, Len(a) + t) = SubSeq(c, s + 1, t)
<1> DEFINE d == a \o c
<1>1. /\ d \in Seq(S) /\ Len(d) = Len(a) + Len(c)
      /\ Len(a) \in Nat /\ Len(c) \in Nat
      /\ \A i \in 1 .. Len(a) + Len(c) : d[i] = IF i <= Len(a) THEN a[i] ELSE c[i - Len(a)]
  BY ConcatProperties, LenProperties
<1> HIDE DEF d
<1>2. ASSUME NEW e \in Seq(S), NEW s \in 0 .. Len(e), NEW t \in s .. Len(e)
      PROVE  /\ SubSeq(e, s + 1, t) \in Seq(S) /\ Len(SubSeq(e, s + 1, t)) = t - s
             /\ \A i \in 1 .. t - s : SubSeq(e, s + 1, t)[i] = e[s + i]
  <2>1. \A i \in s + 1 .. t : e[i] \in S
    BY ElementOfSeq
  <2>2. /\ SubSeq(e, s + 1, t) \in Seq(S)
        /\ Len(SubSeq(e, s + 1, t)) = IF s + 1 <= t THEN t - (s + 1) + 1 ELSE 0
        /\ \A i \in 1 .. t - (s + 1) + 1 : SubSeq(e, s + 1, t)[i] = e[(s + 1) + i - 1]
    BY <2>1, SubSeqProperties
  <2> QED
    BY <2>2
<1>3. ASSUME NEW s \in 0 .. Len(a), NEW t \in s .. Len(a)
      PROVE  SubSeq(d, s + 1, t) = SubSeq(a, s + 1, t)
  <2>1. s \in 0 .. Len(d) /\ t \in s .. Len(d)
    BY <1>1
  <2> DEFINE x == SubSeq(d, s + 1, t)
             y == SubSeq(a, s + 1, t)
  <2>2. x \in Seq(S) /\ Len(x) = t - s /\ \A i \in 1 .. t - s : x[i] = d[s + i]
    BY <1>1, <1>2, <2>1
  <2>3. y \in Seq(S) /\ Len(y) = t - s /\ \A i \in 1 .. t - s : y[i] = a[s + i]
    BY <1>2
  <2> HIDE DEF x, y
  <2>4. \A i \in 1 .. t - s : d[s + i] = a[s + i]
    BY <1>1, <2>1
  <2>5. \A i \in 1 .. t - s : x[i] = y[i]
    BY <2>2, <2>3, <2>4
  <2>6. x = y
    BY <2>2, <2>3, <2>5, SeqEqual
  <2> QED
    BY <2>6 DEF x, y
<1>4. ASSUME NEW s \in 0 .. Len(c), NEW t \in s .. Len(c)
      PROVE  SubSeq(d, (Len(a) + s) + 1, Len(a) + t) = SubSeq(c, s + 1, t)
  <2> DEFINE u == Len(a) + s
             v == Len(a) + t
  <2>1. u \in 0 .. Len(d) /\ v \in u .. Len(d) /\ v - u = t - s
    BY <1>1
  <2>4. ASSUME NEW i \in 1 .. t - s PROVE d[u + i] = c[s + i]
    <3>1. u + i \in 1 .. Len(a) + Len(c) /\ ~(u + i <= Len(a)) /\ (u + i) - Len(a) = s + i
      BY <1>1, <2>4
    <3> QED
      BY <1>1, <3>1
  <2> HIDE DEF u, v
  <2> DEFINE x == SubSeq(d, u + 1, v)
             y == SubSeq(c, s + 1, t)
  <2>2. x \in Seq(S) /\ Len(x) = v - u /\ \A i \in 1 .. v - u : x[i] = d[u + i]
    BY <1>1, <1>2, <2>1
  <2>3. y \in Seq(S) /\ Len(y) = t - s /\ \A i \in 1 .. t - s : y[i] = c[s + i]
    BY <1>2
  <2> HIDE DEF x, y
  <2>5. \A i \in 1 .. t - s : x[i] = y[i]
    BY <2>1, <2>2, <2>3, <2>4
  <2>6. x = y
    BY <2>1, <2>2, <2>3, <2>5, SeqEqual
  <2> QED
    BY <2>6 DEF x, y, u, v
<1> QED
  BY <1>3, <1>4 DEF d

\* The next border is the only one with nothing in between.
LEMMA RightIsOnly ==
  ASSUME NEW b \in Seq(Byte), Whole(b), NEW s \in 0 .. Len(b), Border(b, s),
         NEW r \in s + 1 .. Len(b), Border(b, r),
         \A i \in s + 1 .. r - 1 : ~Border(b, i)
  PROVE  RightOf(b, s) = r
<1>1. Len(b) \in Nat /\ s < Len(b)
  BY LenProperties
<1>2. /\ RightOf(b, s) \in s + 1 .. Len(b) /\ Border(b, RightOf(b, s))
      /\ \A i \in s + 1 .. Len(b) : Border(b, i) => RightOf(b, s) <= i
  BY <1>1, RightIsNext
<1>3. RightOf(b, s) <= r
  BY <1>2
<1>4. RightOf(b, s) \notin s + 1 .. r - 1
  BY <1>2
<1> QED
  BY <1>1, <1>2, <1>3, <1>4

LEMMA CharsJoin ==
  ASSUME NEW a \in Seq(Byte), NEW c \in Seq(Byte), Whole(a), Whole(c)
  PROVE  Chars(a \o c) = Chars(a) \o Chars(c)
<1> DEFINE d == a \o c
           m == Index(a, Len(a))
           n == Index(c, Len(c))
<1>1. /\ Whole(d) /\ d \in Seq(Byte) /\ Len(d) = Len(a) + Len(c)
      /\ Len(a) \in Nat /\ Len(c) \in Nat
  BY ConcatProperties, LenProperties, JoinIsWhole
<1>2. /\ \A s \in 0 .. Len(a) : Border(d, s) <=> Border(a, s)
      /\ \A s \in 0 .. Len(c) : Border(d, Len(a) + s) <=> Border(c, s)
  BY BorderJoin
<1>3. /\ \A s \in 0 .. Len(a) : Index(d, s) = Index(a, s)
      /\ \A s \in 0 .. Len(c) : Index(d, Len(a) + s) = m + Index(c, s)
  BY IndexJoin
<1>4. /\ \A s \in 0 .. Len(a) : \A t \in s .. Len(a) : SubSeq(d, s + 1, t) = SubSeq(a, s + 1, t)
      /\ \A s \in 0 .. Len(c) : \A t \in s .. Len(c) :
           SubSeq(d, (Len(a) + s) + 1, Len(a) + t) = SubSeq(c, s + 1, t)
  BY SubSeqJoin
<1> HIDE DEF d
<1>5. /\ m \in Nat /\ n \in Nat /\ Index(d, Len(d)) = m + n
      /\ Chars(a) \in Seq(Seq(Byte)) /\ Len(Chars(a)) = m
      /\ Chars(c) \in Seq(Seq(Byte)) /\ Len(Chars(c)) = n
      /\ Chars(d) \in Seq(Seq(Byte)) /\ Len(Chars(d)) = m + n
  <2>1. Index(d, Len(d)) = m + n
    BY <1>1, <1>3
  <2> QED
    BY <1>1, <2>1, CharsType
<1>6. ASSUME NEW k \in 1 .. m PROVE Chars(d)[k] = Chars(a)[k]
  <2>1. PICK s \in 0 .. Len(a) : s < Len(a) /\ Border(a, s) /\ Index(a, s) = k - 1
    BY CharBorder
  <2> DEFINE r == RightOf(a, s)
  <2>2. /\ r \in s + 1 .. Len(a) /\ Border(a, r)
        /\ \A i \in s + 1 .. Len(a) : Border(a, i) => r <= i
    BY <2>1, RightIsNext
  <2>3. Chars(a)[k] = SubSeq(a, s + 1, r)
    <3>1. Chars(a)[Index(a, s) + 1] = SubSeq(a, s + 1, r)
      BY <2>1, CharAt
    <3> QED
      BY <1>5, <2>1, <3>1
  <2> HIDE DEF r
  <2>4. s \in 0 .. Len(d) /\ s < Len(d) /\ r \in s + 1 .. Len(d) /\ r \in s .. Len(a) /\ r \in 0 .. Len(a)
    BY <1>1, <2>1, <2>2
  <2>5. Border(d, s) /\ Border(d, r) /\ Index(d, s) = k - 1
    BY <1>2, <1>3, <2>1, <2>2, <2>4
  <2>6. ASSUME NEW i \in s + 1 .. r - 1 PROVE ~Border(d, i)
    <3>1. i \in 0 .. Len(a) /\ i \in s + 1 .. Len(a) /\ ~(r <= i)
      BY <1>1, <2>1, <2>2
    <3> QED
      BY <1>2, <2>2, <3>1
  <2>7. RightOf(d, s) = r
    BY <1>1, <2>4, <2>5, <2>6, RightIsOnly
  <2>8. Chars(d)[Index(d, s) + 1] = SubSeq(d, s + 1, r)
    BY <1>1, <2>4, <2>5, <2>7, CharAt
  <2>9. SubSeq(d, s + 1, r) = SubSeq(a, s + 1, r)
    BY <1>4, <2>4
  <2>10. Index(d, s) + 1 = k
    BY <1>5, <2>5
  <2> QED
    BY <2>3, <2>8, <2>9, <2>10
<1>7. ASSUME NEW k \in 1 .. n PROVE Chars(d)[m + k] = Chars(c)[k]
  <2>1. PICK s \in 0 .. Len(c) : s < Len(c) /\ Border(c, s) /\ Index(c, s) = k - 1
    BY CharBorder
  <2> DEFINE r == RightOf(c, s)
             u == Len(a) + s
             v == Len(a) + r
  <2>2. /\ r \in s + 1 .. Len(c) /\ Border(c, r)
        /\ \A i \in s + 1 .. Len(c) : Border(c, i) => r <= i
    BY <2>1, RightIsNext
  <2>3. Chars(c)[k] = SubSeq(c, s + 1, r)
    <3>1. Chars(c)[Index(c, s) + 1] = SubSeq(c, s + 1, r)
      BY <2>1, CharAt
    <3> QED
      BY <1>5, <2>1, <3>1
  <2> HIDE DEF r
  <2>4. /\ u \in 0 .. Len(d) /\ u < Len(d) /\ v \in u + 1 .. Len(d)
        /\ r \in s .. Len(c) /\ r \in 0 .. Len(c)
    BY <1>1, <2>1, <2>2
  <2>5. Border(d, u) /\ Border(d, v) /\ Index(d, u) = m + (k - 1)
    BY <1>2, <1>3, <2>1, <2>2, <2>4
  <2>6. ASSUME NEW i \in u + 1 .. v - 1 PROVE ~Border(d, i)
    <3> DEFINE j == i - Len(a)
    <3>1. j \in 0 .. Len(c) /\ j \in s + 1 .. Len(c) /\ ~(r <= j) /\ i = Len(a) + j
      BY <1>1, <2>1, <2>2
    <3> HIDE DEF j
    <3> QED
      BY <1>2, <2>2, <3>1
  <2>9. SubSeq(d, u + 1, v) = SubSeq(c, s + 1, r)
    BY <1>4, <2>4
  <2> HIDE DEF u, v
  <2>7. RightOf(d, u) = v
    BY <1>1, <2>4, <2>5, <2>6, RightIsOnly
  <2>8. Chars(d)[Index(d, u) + 1] = SubSeq(d, u + 1, v)
    BY <1>1, <2>4, <2>5, <2>7, CharAt
  <2>10. Index(d, u) + 1 = m + k
    BY <1>5, <2>5
  <2> QED
    BY <2>3, <2>8, <2>9, <2>10
<1> HIDE DEF m, n
<1> DEFINE e == Chars(a) \o Chars(c)
<1>8. /\ e \in Seq(Seq(Byte)) /\ Len(e) = m + n
      /\ \A i \in 1 .. m + n : e[i] = IF i <= m THEN Chars(a)[i] ELSE Chars(c)[i - m]
  BY <1>5, ConcatProperties
<1> HIDE DEF e
<1>9. ASSUME NEW i \in 1 .. m + n PROVE Chars(d)[i] = e[i]
  <2>1. CASE i <= m
    <3>1. i \in 1 .. m
      BY <1>5, <2>1
    <3> QED
      BY <1>6, <1>8, <2>1, <3>1
  <2>2. CASE ~(i <= m)
    <3>1. i - m \in 1 .. n /\ m + (i - m) = i
      BY <1>5, <2>2
    <3>2. Chars(d)[m + (i - m)] = Chars(c)[i - m]
      BY <1>7, <3>1
    <3> QED
      BY <1>8, <2>2, <3>1, <3>2
  <2> QED
    BY <2>1, <2>2
<1>10. Chars(d) = e
  BY <1>5, <1>8, <1>9, SeqEqual
<1> QED
  BY <1>10 DEF d, e

LEMMA MiddlePart ==
  ASSUME NEW S, NEW x \in Seq(S), NEW y \in Seq(S), NEW z \in Seq(S)
  PROVE  SubSeq((x \o y) \o z, Len(x) + 1, Len(x) + Len(y)) = y
<1> DEFINE xy == x \o y
<1>1. xy \in Seq(S) /\ Len(xy) = Len(x) + Len(y) /\ Len(x) \in Nat /\ Len(y) \in Nat
  BY ConcatProperties, LenProperties
<1>2. \A i \in 0 .. Len(y) : \A j \in i .. Len(y) :
        SubSeq(xy, (Len(x) + i) + 1, Len(x) + j) = SubSeq(y, i + 1, j)
  BY SubSeqJoin
<1> HIDE DEF xy
<1>3. \A i \in 0 .. Len(xy) : \A j \in i .. Len(xy) :
        SubSeq(xy \o z, i + 1, j) = SubSeq(xy, i + 1, j)
  BY <1>1, SubSeqJoin
<1>4. SubSeq(xy \o z, Len(x) + 1, Len(x) + Len(y)) = SubSeq(xy, Len(x) + 1, Len(x) + Len(y))
  <2>1. Len(x) \in 0 .. Len(xy) /\ Len(x) + Len(y) \in Len(x) .. Len(xy)
    BY <1>1
  <2> QED
    BY <1>3, <2>1
<1>5. SubSeq(xy, (Len(x) + 0) + 1, Len(x) + Len(y)) = SubSeq(y, 0 + 1, Len(y))
  <2>1. 0 \in 0 .. Len(y) /\ Len(y) \in 0 .. Len(y)
    BY <1>1
  <2> QED
    BY <1>2, <2>1, Zenon
<1>6. (Len(x) + 0) + 1 = Len(x) + 1 /\ 0 + 1 = 1
  BY <1>1
<1>7. SubSeq(y, 1, Len(y)) = y
  BY SubSeqFull
<1> QED
  BY <1>4, <1>5, <1>6, <1>7 DEF xy

LEMMA CharsCut ==
  ASSUME NEW b \in Seq(Byte), Whole(b), NEW s \in 0 .. Len(b), Border(b, s),
         NEW t \in s .. Len(b), Border(b, t)
  PROVE  LET c == SubSeq(b, s + 1, t)
         IN /\ Index(b, s) \in Nat /\ Index(b, t) \in Nat /\ Index(b, s) <= Index(b, t)
            /\ Index(b, t) <= Index(b, Len(b))
            /\ Chars(c) = SubSeq(Chars(b), Index(b, s) + 1, Index(b, t))
            /\ Index(c, Len(c)) = Index(b, t) - Index(b, s)
<1> DEFINE x == SubSeq(b, 1, s)
           y == SubSeq(b, s + 1, t)
           z == SubSeq(b, t + 1, Len(b))
<1>1. Len(b) \in Nat /\ Border(b, 0) /\ Border(b, Len(b)) /\ s \in Int /\ t \in Int
  BY LenProperties DEF Border
<1>2. x \in Seq(Byte) /\ Len(x) = s /\ Whole(x)
  <2>1. 0 \in 0 .. Len(b) /\ s \in 0 .. Len(b) /\ 0 + 1 = 1 /\ s - 0 = s
    BY <1>1
  <2> QED
    BY <1>1, <2>1, CutIsWhole
<1>3. y \in Seq(Byte) /\ Len(y) = t - s /\ Whole(y)
  BY CutIsWhole
<1>4. z \in Seq(Byte) /\ Len(z) = Len(b) - t /\ Whole(z)
  <2>1. t \in 0 .. Len(b) /\ Len(b) \in t .. Len(b)
    BY <1>1
  <2> QED
    BY <1>1, <2>1, CutIsWhole
<1>5. b = (x \o y) \o z
  <2>1. x \o y = SubSeq(b, 1, t)
    <3>1. 1 \in 1 .. Len(b) + 1 /\ s \in 1 - 1 .. Len(b) /\ t \in s .. Len(b)
      BY <1>1
    <3> QED
      BY <3>1, ConcatAdjacentSubSeq
  <2>2. SubSeq(b, 1, t) \o z = SubSeq(b, 1, Len(b))
    <3>1. 1 \in 1 .. Len(b) + 1 /\ t \in 1 - 1 .. Len(b) /\ Len(b) \in t .. Len(b)
      BY <1>1
    <3> QED
      BY <3>1, ConcatAdjacentSubSeq
  <2>3. SubSeq(b, 1, Len(b)) = b
    BY SubSeqFull
  <2> QED
    BY <2>1, <2>2, <2>3
<1> HIDE DEF x, y, z
<1>6. x \o y \in Seq(Byte) /\ Len(x \o y) = t /\ Whole(x \o y)
  <2>1. x \o y \in Seq(Byte) /\ Len(x \o y) = Len(x) + Len(y) /\ Whole(x \o y)
    BY <1>2, <1>3, JoinIsWhole
  <2> QED
    BY <1>1, <1>2, <1>3, <2>1
<1> DEFINE X == Chars(x)
           Y == Chars(y)
           Z == Chars(z)
<1>7. /\ X \in Seq(Seq(Byte)) /\ Len(X) = Index(x, s) /\ Index(x, s) \in Nat
      /\ Y \in Seq(Seq(Byte)) /\ Len(Y) = Index(y, t - s) /\ Index(y, t - s) \in Nat
      /\ Z \in Seq(Seq(Byte)) /\ Len(Z) = Index(z, Len(z)) /\ Len(Z) \in Nat
  BY <1>2, <1>3, <1>4, CharsType
<1>8. Index(b, s) = Len(X) /\ Index(b, t) = Len(X) + Len(Y) /\ Index(b, Len(b)) = Len(X) + Len(Y) + Len(Z)
  <2>1. /\ s \in 0 .. Len(x) /\ s \in 0 .. Len(x \o y) /\ t \in 0 .. Len(x \o y)
        /\ t - s \in 0 .. Len(y) /\ Len(x) + (t - s) = t
        /\ Len(z) \in 0 .. Len(z) /\ Len(x \o y) + Len(z) = Len(b)
    BY <1>1, <1>2, <1>3, <1>4, <1>6
  <2>2. Index(x \o y, s) = Index(x, s) /\ Index(x \o y, t) = Index(x, s) + Index(y, t - s)
    <3>1. /\ \A i \in 0 .. Len(x) : Index(x \o y, i) = Index(x, i)
          /\ \A i \in 0 .. Len(y) : Index(x \o y, Len(x) + i) = Index(x, Len(x)) + Index(y, i)
      BY <1>2, <1>3, IndexJoin
    <3> QED
      BY <1>2, <2>1, <3>1
  <2>3. /\ Index(b, s) = Index(x \o y, s) /\ Index(b, t) = Index(x \o y, t)
        /\ Index(b, Len(b)) = Index(x \o y, t) + Index(z, Len(z))
    <3> DEFINE a == x \o y
    <3> HIDE DEF a
    <3>1. /\ \A i \in 0 .. Len(a) : Index(a \o z, i) = Index(a, i)
          /\ \A i \in 0 .. Len(z) : Index(a \o z, Len(a) + i) = Index(a, Len(a)) + Index(z, i)
      BY <1>4, <1>6, IndexJoin DEF a
    <3>2. b = a \o z
      BY <1>5 DEF a
    <3>3. s \in 0 .. Len(a) /\ t \in 0 .. Len(a) /\ Len(a) + Len(z) = Len(b) /\ Len(a) = t
          /\ Len(z) \in 0 .. Len(z)
      BY <1>6, <2>1 DEF a
    <3>4. Index(b, s) = Index(a, s) /\ Index(b, t) = Index(a, t)
      BY <3>1, <3>2, <3>3
    <3>5. Index(b, Len(b)) = Index(a, t) + Index(z, Len(z))
      BY <3>1, <3>2, <3>3
    <3> QED
      BY <3>4, <3>5 DEF a
  <2> QED
    BY <1>7, <2>2, <2>3
<1>9. Chars(b) = (X \o Y) \o Z
  <2>1. Chars(x \o y) = X \o Y
    BY <1>2, <1>3, CharsJoin
  <2>2. Chars((x \o y) \o z) = Chars(x \o y) \o Z
    BY <1>4, <1>6, CharsJoin
  <2> QED
    BY <1>5, <2>1, <2>2
<1> HIDE DEF X, Y, Z
<1>10. SubSeq(Chars(b), Len(X) + 1, Len(X) + Len(Y)) = Y
  <2>1. X \in Seq(Seq(Byte)) /\ Y \in Seq(Seq(Byte)) /\ Z \in Seq(Seq(Byte))
    BY <1>7
  <2>2. ASSUME NEW S, X \in Seq(S), Y \in Seq(S), Z \in Seq(S)
        PROVE  SubSeq((X \o Y) \o Z, Len(X) + 1, Len(X) + Len(Y)) = Y
    BY <2>2, MiddlePart
  <2>3. SubSeq((X \o Y) \o Z, Len(X) + 1, Len(X) + Len(Y)) = Y
    BY <2>1, <2>2, Zenon
  <2> QED
    BY <1>9, <2>3, Zenon
<1>11. /\ Chars(y) = SubSeq(Chars(b), Index(b, s) + 1, Index(b, t))
       /\ Index(y, Len(y)) = Index(b, t) - Index(b, s)
  <2>1. Index(y, Len(y)) = Len(Y)
    BY <1>3, <1>7
  <2>2. Len(Y) = Index(b, t) - Index(b, s)
    BY <1>7, <1>8
  <2>3. Y = SubSeq(Chars(b), Index(b, s) + 1, Index(b, t))
    BY <1>8, <1>10
  <2> QED
    BY <2>1, <2>2, <2>3 DEF Y
<1> QED
  BY <1>7, <1>8, <1>11 DEF y

\* A line without what lies between two borders.
LEMMA CharsRest ==
  ASSUME NEW b \in Seq(Byte), Whole(b), NEW s \in 0 .. Len(b), Border(b, s),
         NEW t \in s .. Len(b), Border(b, t)
  PROVE  LET c == SubSeq(b, 1, s) \o SubSeq(b, t + 1, Len(b))
             T == Chars(b)
         IN /\ Chars(c) = SubSeq(T, 1, Index(b, s)) \o SubSeq(T, Index(b, t) + 1, Len(T))
            /\ Index(c, s) = Index(b, s)
            /\ Border(c, s) /\ s \in 0 .. Len(c)
<1> DEFINE x == SubSeq(b, 1, s)
           z == SubSeq(b, t + 1, Len(b))
           T == Chars(b)
<1>1. Len(b) \in Nat /\ Border(b, 0) /\ Border(b, Len(b)) /\ Index(b, 0) = 0
      /\ Len(T) = Index(b, Len(b)) /\ 0 \in 0 .. Len(b) /\ s \in 0 .. Len(b)
      /\ t \in 0 .. Len(b) /\ Len(b) \in t .. Len(b) /\ Index(b, s) \in Nat
  <2>1. Len(b) \in Nat /\ Border(b, 0) /\ Border(b, Len(b))
    BY LenProperties DEF Border
  <2> QED
    BY <2>1, CharsType, IndexStep
<1>2. x \in Seq(Byte) /\ Len(x) = s /\ Whole(x)
  <2>1. s \in 0 .. Len(b) /\ 0 + 1 = 1 /\ s - 0 = s
    BY <1>1
  <2> QED
    BY <1>1, <2>1, CutIsWhole
<1>3. z \in Seq(Byte) /\ Len(z) = Len(b) - t /\ Whole(z)
  BY <1>1, CutIsWhole
<1>4. Chars(x) = SubSeq(T, 1, Index(b, s)) /\ Index(x, s) = Index(b, s)
  <2>1. LET c == SubSeq(b, 0 + 1, s)
        IN /\ Chars(c) = SubSeq(Chars(b), Index(b, 0) + 1, Index(b, s))
           /\ Index(c, Len(c)) = Index(b, s) - Index(b, 0)
    BY <1>1, CharsCut
  <2>2. 0 + 1 = 1
    OBVIOUS
  <2>3. /\ Chars(x) = SubSeq(Chars(b), Index(b, 0) + 1, Index(b, s))
        /\ Index(x, Len(x)) = Index(b, s) - Index(b, 0)
    BY <2>1, <2>2
  <2>4. Index(b, 0) + 1 = 1 /\ Index(b, s) - Index(b, 0) = Index(b, s)
    BY <1>1
  <2> QED
    BY <1>2, <2>3, <2>4, Zenon
<1>5. Chars(z) = SubSeq(T, Index(b, t) + 1, Len(T))
  <2>1. LET c == SubSeq(b, t + 1, Len(b))
        IN Chars(c) = SubSeq(Chars(b), Index(b, t) + 1, Index(b, Len(b)))
    BY <1>1, CharsCut
  <2> QED
    BY <1>1, <2>1
<1> HIDE DEF x, z
<1>6. Chars(x \o z) = Chars(x) \o Chars(z) /\ Border(x \o z, s) /\ Index(x \o z, s) = Index(x, s)
      /\ s \in 0 .. Len(x \o z)
  <2>1. s \in 0 .. Len(x) /\ Len(x \o z) = s + (Len(b) - t)
    <3>1. Len(x \o z) = Len(x) + Len(z)
      BY <1>2, <1>3, JoinIsWhole
    <3> QED
      BY <1>1, <1>2, <1>3, <3>1
  <2>2. \A i \in 0 .. Len(x) : Index(x \o z, i) = Index(x, i)
    BY <1>2, <1>3, IndexJoin
  <2>3. s \in 0 .. Len(x \o z)
    BY <1>1, <2>1
  <2> QED
    BY <1>2, <1>3, <2>1, <2>2, <2>3, CharsJoin, JoinIsWhole
<1> QED
  BY <1>4, <1>5, <1>6 DEF x, z

\* A line with something more in it.
LEMMA CharsMore ==
  ASSUME NEW b \in Seq(Byte), Whole(b), NEW s \in 0 .. Len(b), Border(b, s),
         NEW l \in Seq(Byte), Whole(l)
  PROVE  LET c == SubSeq(b, 1, s) \o l \o SubSeq(b, s + 1, Len(b))
             T == Chars(b)
         IN /\ Chars(c) = SubSeq(T, 1, Index(b, s)) \o Chars(l)
                          \o SubSeq(T, Index(b, s) + 1, Len(T))
            /\ Index(c, s) = Index(b, s) /\ Border(c, s)
            /\ Index(c, s + Len(l)) = Index(b, s) + Index(l, Len(l))
            /\ Border(c, s + Len(l)) /\ s + Len(l) \in s .. Len(c)
<1> DEFINE x == SubSeq(b, 1, s)
           z == SubSeq(b, s + 1, Len(b))
           T == Chars(b)
<1>1. Len(b) \in Nat /\ Border(b, 0) /\ Border(b, Len(b)) /\ Index(b, 0) = 0 /\ Len(l) \in Nat
      /\ Len(T) = Index(b, Len(b)) /\ 0 \in 0 .. Len(b) /\ s \in 0 .. Len(b)
      /\ Len(b) \in s .. Len(b) /\ Index(b, s) \in Nat
  <2>1. Len(b) \in Nat /\ Border(b, 0) /\ Border(b, Len(b)) /\ Len(l) \in Nat
    BY LenProperties DEF Border
  <2> QED
    BY <2>1, CharsType, IndexStep
<1>2. x \in Seq(Byte) /\ Len(x) = s /\ Whole(x)
  <2>1. s \in 0 .. Len(b) /\ 0 + 1 = 1 /\ s - 0 = s
    BY <1>1
  <2> QED
    BY <1>1, <2>1, CutIsWhole
<1>3. z \in Seq(Byte) /\ Len(z) = Len(b) - s /\ Whole(z)
  BY <1>1, CutIsWhole
<1>4. Chars(x) = SubSeq(T, 1, Index(b, s)) /\ Index(x, s) = Index(b, s)
  <2>1. LET c == SubSeq(b, 0 + 1, s)
        IN /\ Chars(c) = SubSeq(Chars(b), Index(b, 0) + 1, Index(b, s))
           /\ Index(c, Len(c)) = Index(b, s) - Index(b, 0)
    BY <1>1, CharsCut
  <2>2. 0 + 1 = 1
    OBVIOUS
  <2>3. /\ Chars(x) = SubSeq(Chars(b), Index(b, 0) + 1, Index(b, s))
        /\ Index(x, Len(x)) = Index(b, s) - Index(b, 0)
    BY <2>1, <2>2
  <2>4. Index(b, 0) + 1 = 1 /\ Index(b, s) - Index(b, 0) = Index(b, s)
    BY <1>1
  <2> QED
    BY <1>2, <2>3, <2>4, Zenon
<1>5. Chars(z) = SubSeq(T, Index(b, s) + 1, Len(T))
  <2>1. LET c == SubSeq(b, s + 1, Len(b))
        IN Chars(c) = SubSeq(Chars(b), Index(b, s) + 1, Index(b, Len(b)))
    BY <1>1, CharsCut
  <2> QED
    BY <1>1, <2>1
<1> HIDE DEF x, z
<1> DEFINE y == x \o l
<1>6. /\ y \in Seq(Byte) /\ Len(y) = s + Len(l) /\ Whole(y)
      /\ Chars(y) = Chars(x) \o Chars(l)
      /\ Index(y, s) = Index(x, s) /\ Index(y, s + Len(l)) = Index(x, s) + Index(l, Len(l))
      /\ Border(y, s)
  <2>1. s \in 0 .. Len(x) /\ Len(l) \in 0 .. Len(l)
    BY <1>1, <1>2
  <2>2. /\ \A i \in 0 .. Len(x) : Index(y, i) = Index(x, i)
        /\ \A i \in 0 .. Len(l) : Index(y, Len(x) + i) = Index(x, Len(x)) + Index(l, i)
    BY <1>2, IndexJoin
  <2>3. y \in Seq(Byte) /\ Len(y) = Len(x) + Len(l) /\ Whole(y) /\ Border(y, Len(x))
    BY <1>2, JoinIsWhole
  <2>4. Chars(y) = Chars(x) \o Chars(l)
    BY <1>2, CharsJoin
  <2> HIDE DEF y
  <2> QED
    BY <1>2, <2>1, <2>2, <2>3, <2>4
<1> HIDE DEF y
<1>7. /\ Chars(y \o z) = Chars(y) \o Chars(z) /\ Len(y \o z) = s + Len(l) + Len(z)
      /\ Index(y \o z, s) = Index(y, s) /\ Index(y \o z, s + Len(l)) = Index(y, s + Len(l))
      /\ Border(y \o z, s) /\ Border(y \o z, s + Len(l))
  <2>1. s \in 0 .. Len(y) /\ s + Len(l) \in 0 .. Len(y)
    BY <1>1, <1>6
  <2>2. \A i \in 0 .. Len(y) : Index(y \o z, i) = Index(y, i)
    BY <1>3, <1>6, IndexJoin
  <2>3. Len(y \o z) = Len(y) + Len(z) /\ Border(y \o z, Len(y))
    BY <1>3, <1>6, JoinIsWhole
  <2>4. \A i \in 0 .. Len(y) : Border(y \o z, i) <=> Border(y, i)
    BY <1>3, <1>6, BorderJoin
  <2>5. Chars(y \o z) = Chars(y) \o Chars(z)
    BY <1>3, <1>6, CharsJoin
  <2> QED
    BY <1>6, <2>1, <2>2, <2>3, <2>4, <2>5
<1>8. s + Len(l) \in s .. Len(y \o z)
  BY <1>1, <1>3, <1>7
<1> QED
  BY <1>4, <1>5, <1>6, <1>7, <1>8 DEF x, y, z

\* A key inserts one character.
LEMMA CharsOfOne ==
  ASSUME NEW l \in Seq(Byte), IsCharacter(l)
  PROVE  Whole(l) /\ Chars(l) = <<l>> /\ Index(l, Len(l)) = 1
<1>1. Len(l) \in Nat /\ Len(l) > 0 /\ Whole(l) /\ Border(l, 0) /\ Border(l, Len(l))
      /\ \A i \in 1 .. Len(l) - 1 : ~Border(l, i)
  <2>1. Len(l) \in Nat /\ Len(l) > 0
    BY LenProperties DEF IsCharacter
  <2>2. \A i \in 2 .. Len(l) : l[i] \in Cont
    BY <2>1 DEF IsCharacter
  <2>3. l[1] \notin Cont /\ (l[1] \in Lead => Len(l) > 1)
    <3>1. Lead \cap Cont = {}
      BY ByteAssumption
    <3> QED
      BY <3>1 DEF IsCharacter
  <2>4. Len(l) > 1 => l[1] \in Lead
    <3>1. \/ Len(l) = 1
          \/ l[1] \in Lead
      BY DEF IsCharacter
    <3>2. \A n \in Nat : n > 1 => n # 1
      OBVIOUS
    <3> QED
      BY <2>1, <3>1, <3>2, Zenon
  <2>5. Whole(l)
    <3> SUFFICES ASSUME NEW i \in 1 .. Len(l)
                 PROVE  /\ l[i] \in Cont => i > 1 /\ l[i - 1] \in Lead \cup Cont
                        /\ l[i] \in Lead => i < Len(l) /\ l[i + 1] \in Cont
      BY DEF Whole
    <3>1. CASE i = 1
      BY <2>1, <2>2, <2>3, <3>1
    <3>2. CASE i # 1
      <4>1. i \in 2 .. Len(l) /\ (i - 1 = 1 \/ i - 1 \in 2 .. Len(l))
        BY <2>1, <3>2
      <4>2. l[i] \in Cont /\ l[i] \notin Lead /\ i > 1
        BY <2>2, <4>1, ByteAssumption
      <4>3. l[i - 1] \in Lead \cup Cont
        BY <2>1, <2>2, <2>4, <4>1
      <4> QED
        BY <4>2, <4>3
    <3> QED
      BY <3>1, <3>2
  <2>6. ASSUME NEW i \in 1 .. Len(l) - 1 PROVE ~Border(l, i)
    <3>1. i + 1 \in 2 .. Len(l) /\ i # 0 /\ i # Len(l)
      BY <2>1
    <3> QED
      BY <2>2, <3>1 DEF Border
  <2> QED
    BY <2>1, <2>5, <2>6 DEF Border
<1>2. RightOf(l, 0) = Len(l)
  <2>1. 0 \in 0 .. Len(l) /\ Len(l) \in 0 + 1 .. Len(l) /\ \A i \in 0 + 1 .. Len(l) - 1 : ~Border(l, i)
    BY <1>1
  <2> QED
    BY <1>1, <2>1, RightIsOnly
<1>3. Index(l, 0) = 0 /\ Index(l, Len(l)) = Index(l, 0) + 1
  <2>1. 0 \in 0 .. Len(l) /\ 0 < Len(l)
    BY <1>1
  <2>2. Index(l, RightOf(l, 0)) = Index(l, 0) + 1
    BY <1>1, <2>1, RightIsNext
  <2>3. Index(l, 0) = 0
    BY <2>1, IndexStep
  <2> QED
    BY <1>2, <2>2, <2>3
<1>4. Chars(l)[1] = l
  <2>1. 0 \in 0 .. Len(l) /\ 0 < Len(l) /\ 0 + 1 = 1
    BY <1>1
  <2>2. Chars(l)[Index(l, 0) + 1] = SubSeq(l, 0 + 1, RightOf(l, 0))
    BY <1>1, <2>1, CharAt
  <2>3. SubSeq(l, 1, Len(l)) = l
    BY SubSeqFull
  <2> QED
    BY <1>2, <1>3, <2>1, <2>2, <2>3
<1>5. Chars(l) \in Seq(Seq(Byte)) /\ Len(Chars(l)) = 1
  <2>1. Whole(l)
    BY <1>1
  <2>2. Chars(l) \in Seq(Seq(Byte)) /\ Len(Chars(l)) = Index(l, Len(l))
    BY <2>1, CharsType
  <2> QED
    BY <1>3, <2>2
<1> DEFINE c == Chars(l)
<1>6. c = <<l>>
  <2> HIDE DEF c
  <2>1. c \in Seq(Seq(Byte)) /\ Len(c) = 1 /\ c[1] = l
    BY <1>4, <1>5 DEF c
  <2>2. <<l>> \in Seq(Seq(Byte)) /\ Len(<<l>>) = 1 /\ <<l>>[1] = l
    OBVIOUS
  <2>3. \A i \in 1 .. Len(c) : c[i] = <<l>>[i]
    BY <2>1, <2>2
  <2> QED
    BY <2>1, <2>2, <2>3, SeqEqual
<1> QED
  BY <1>1, <1>3, <1>6

-----------------------------------------------------------------------------
(* Words                                                                   *)

\* A blank byte behind a border is a character that separates words.
LEMMA BlankAfter ==
  ASSUME NEW b \in Seq(Byte), Whole(b), NEW s \in 0 .. Len(b), Border(b, s), s < Len(b)
  PROVE  /\ Chars(b)[Index(b, s) + 1] \in Space <=> b[s + 1] \in Blank
         /\ b[s + 1] \in Blank => RightOf(b, s) = s + 1
<1> DEFINE c == SubSeq(b, s + 1, RightOf(b, s))
<1>1. /\ c \in Seq(Byte) /\ c[1] = b[s + 1] /\ IsCharacter(c)
      /\ Len(c) > 1 <=> b[s + 1] \in Lead
      /\ Len(c) = 1 <=> RightOf(b, s) = s + 1
  BY CharKind
<1>2. Chars(b)[Index(b, s) + 1] = c
  BY CharAt
<1> HIDE DEF c
<1>3. ASSUME c \in Space PROVE b[s + 1] \in Blank
  <2>1. PICK x \in Blank : c = <<x>>
    BY <1>3 DEF Space
  <2>2. c[1] = x
    BY <2>1
  <2> QED
    BY <1>1, <2>2
<1>4. ASSUME b[s + 1] \in Blank PROVE c \in Space /\ Len(c) = 1
  <2>1. b[s + 1] \notin Lead
    BY <1>4, ByteAssumption
  <2>2. Len(c) = 1 \/ Len(c) > 1
    BY <1>1, Zenon DEF IsCharacter
  <2>3. Len(c) = 1
    BY <1>1, <2>1, <2>2
  <2>4. c = <<b[s + 1]>>
    <3> DEFINE x == b[s + 1]
    <3>1. x \in Byte /\ c[1] = x
      BY <1>1, <1>4, ByteAssumption
    <3> HIDE DEF x
    <3>2. <<x>> \in Seq(Byte) /\ Len(<<x>>) = 1 /\ <<x>>[1] = x
      BY <3>1
    <3>3. \A i \in 1 .. Len(c) : c[i] = <<x>>[i]
      BY <2>3, <3>1, <3>2
    <3>4. c = <<x>>
      BY <1>1, <2>3, <3>2, <3>3, SeqEqual
    <3> QED
      BY <3>4 DEF x
  <2> QED
    BY <1>4, <2>3, <2>4 DEF Space
<1> QED
  BY <1>1, <1>2, <1>3, <1>4

\* So is a blank byte in front of a border.
LEMMA BlankBefore ==
  ASSUME NEW b \in Seq(Byte), Whole(b), NEW s \in 0 .. Len(b), Border(b, s), s > 0
  PROVE  Chars(b)[Index(b, s)] \in Space <=> b[s] \in Blank
<1> DEFINE p == LeftOf(b, s)
<1>1. /\ p \in 0 .. s - 1 /\ Border(b, p) /\ Index(b, p) = Index(b, s) - 1
      /\ \A i \in 0 .. s - 1 : Border(b, i) => i <= p
      /\ RightOf(b, p) = s
  BY LeftIsLast
<1> HIDE DEF p
<1>2. Len(b) \in Nat /\ p \in 0 .. Len(b) /\ p < Len(b) /\ s - 1 \in 0 .. s - 1 /\ (s - 1) + 1 = s
      /\ Index(b, s) \in Nat
  BY <1>1, LenProperties, IndexStep
<1>3. Index(b, p) + 1 = Index(b, s)
  BY <1>1, <1>2
<1>4. /\ Chars(b)[Index(b, s)] \in Space <=> b[p + 1] \in Blank
      /\ b[p + 1] \in Blank => s = p + 1
  BY <1>1, <1>2, <1>3, BlankAfter
<1>5. ASSUME b[s] \in Blank PROVE s = p + 1
  <2>1. b[s] \notin Cont
    BY <1>5, ByteAssumption
  <2>2. Border(b, s - 1)
    BY <1>2, <2>1 DEF Border
  <2>3. s - 1 <= p
    BY <1>1, <1>2, <2>2
  <2> QED
    BY <1>1, <1>2, <2>3
<1> QED
  BY <1>4, <1>5

\* A word begins at a border between a blank and something else.
LEMMA BlankBorder ==
  ASSUME NEW b \in Seq(Byte), NEW i \in 1 .. Len(b), Whole(b), b[i] \in Blank
  PROVE  Border(b, i) /\ Border(b, i - 1)
<1>1. b[i] \notin Lead \cup Cont
  BY ByteAssumption
<1>2. Border(b, i - 1)
  <2>1. (i - 1) + 1 = i
    OBVIOUS
  <2> QED
    BY <1>1, <2>1 DEF Border
<1>3. Border(b, i)
  <2>1. CASE i = Len(b)
    BY <2>1 DEF Border
  <2>2. CASE i # Len(b)
    <3>1. i + 1 \in 1 .. Len(b) /\ (i + 1) - 1 = i
      BY <2>2, LenProperties
    <3>2. b[i + 1] \notin Cont
      BY <1>1, <3>1 DEF Whole
    <3> QED
      BY <3>2 DEF Border
  <2> QED
    BY <2>1, <2>2
<1> QED
  BY <1>2, <1>3

LEMMA MaxIs ==
  ASSUME NEW S, S \subseteq Int, NEW m \in S, \A i \in S : i <= m
  PROVE  Max(S) = m
<1>1. \E x \in S : \A y \in S : x >= y
  <2>1. \A y \in S : m >= y
    OBVIOUS
  <2> QED
    BY <2>1
<1>2. Max(S) \in S /\ \A y \in S : Max(S) >= y
  BY <1>1 DEF Max
<1>3. Max(S) \in Int /\ m \in Int /\ Max(S) >= m /\ Max(S) <= m
  BY <1>2
<1> QED
  BY <1>3

LEMMA MinIs ==
  ASSUME NEW S, S \subseteq Int, NEW m \in S, \A i \in S : m <= i
  PROVE  Min(S) = m
<1>1. \E x \in S : \A y \in S : x <= y
  OBVIOUS
<1>2. Min(S) \in S /\ \A y \in S : Min(S) <= y
  BY <1>1 DEF Min
<1>3. Min(S) \in Int /\ m \in Int /\ Min(S) >= m /\ Min(S) <= m
  BY <1>2
<1> QED
  BY <1>3

\* line_editing_begword finds the nearest beginning of a word.
LEMMA BegWordIsNearest ==
  ASSUME NEW b \in Seq(Byte), Whole(b), NEW s \in 0 .. Len(b), Border(b, s), s > 0
  PROVE  LET T == Chars(b)
             starts == {c \in 1 .. Index(b, s) - 1 : T[c] \in Space /\ T[c + 1] \notin Space}
         IN Index(b, BegWord(b, s)) = Max(starts \cup {0})
<1> DEFINE T == Chars(b)
           starts == {c \in 1 .. Index(b, s) - 1 : T[c] \in Space /\ T[c + 1] \notin Space}
           one == LeftOf(b, s)
           I == {i \in Stops(b) : i <= one /\ (i = 0 \/ b[i + 1] \notin Blank)}
           in == Max(I)
           J == {i \in Stops(b) : i <= in /\ (i = 0 \/ b[i] \in Blank)}
           r == Max(J)
<1>1. /\ Len(b) \in Nat /\ Stops(b) = {i \in 0 .. Len(b) - 1 : Border(b, i)} /\ 0 \in Stops(b)
      /\ Index(b, 0) = 0 /\ Index(b, s) \in Nat
  <2>1. Len(b) \in Nat /\ Border(b, 0)
    BY LenProperties DEF Border
  <2> QED
    BY <2>1, StopsAreAll, IndexStep
<1>2. /\ one \in 0 .. s - 1 /\ \A i \in 0 .. s - 1 : Border(b, i) => i <= one
  BY LeftIsLast
<1> HIDE DEF one
<1>3. in \in I /\ \A i \in I : i <= in
  <2>1. I \subseteq 0 .. Len(b) /\ 0 \in I
    BY <1>1, <1>2
  <2> QED
    BY <1>1, <2>1, MaxOf
<1> HIDE DEF in
<1>4. in \in 0 .. Len(b) - 1 /\ Border(b, in) /\ in <= one /\ (in = 0 \/ b[in + 1] \notin Blank)
  BY <1>1, <1>3
<1>5. r \in J /\ \A i \in J : i <= r
  <2>1. J \subseteq 0 .. Len(b) /\ 0 \in J
    BY <1>1, <1>4
  <2> QED
    BY <1>1, <2>1, MaxOf
<1> HIDE DEF r
<1>6. r \in 0 .. Len(b) - 1 /\ Border(b, r) /\ r <= in /\ (r = 0 \/ b[r] \in Blank)
  BY <1>1, <1>5
<1>7. r # 0 => b[r + 1] \notin Blank
  <2> SUFFICES ASSUME r # 0, b[r + 1] \in Blank PROVE FALSE
    OBVIOUS
  <2>1. r # in
    BY <1>4, <1>6
  <2>2. r + 1 \in 1 .. Len(b) /\ r + 1 \in 0 .. Len(b) - 1 /\ r + 1 <= in
    BY <1>1, <1>4, <1>6, <2>1
  <2>3. Border(b, r + 1)
    BY <2>2, BlankBorder
  <2>4. r + 1 \in J
    BY <1>1, <2>2, <2>3
  <2>5. r + 1 <= r
    BY <1>5, <2>4
  <2> QED
    BY <1>6, <2>5
<1>8. Index(b, r) \in starts \cup {0}
  <2> SUFFICES ASSUME r # 0 PROVE Index(b, r) \in starts
    BY <1>1
  <2>1. r \in 0 .. Len(b) /\ r > 0 /\ r < Len(b) /\ r < s /\ 0 \in 0 .. Len(b) /\ Border(b, 0)
    BY <1>1, <1>2, <1>4, <1>6 DEF Border
  <2>2. T[Index(b, r)] \in Space
    BY <1>6, <2>1, BlankBefore
  <2>3. T[Index(b, r) + 1] \notin Space
    BY <1>6, <1>7, <2>1, BlankAfter
  <2>4. Index(b, r) \in Nat /\ Index(b, 0) < Index(b, r) /\ Index(b, r) < Index(b, s)
    BY <1>6, <2>1, IndexOrder
  <2>5. Index(b, r) \in 1 .. Index(b, s) - 1
    BY <1>1, <2>4
  <2> QED
    BY <2>2, <2>3, <2>5
<1>9. ASSUME NEW c \in starts \cup {0} PROVE c <= Index(b, r)
  <2>0. Index(b, r) \in Nat /\ r \in 0 .. Len(b)
    BY <1>1, <1>6, IndexStep
  <2>1. CASE c = 0
    BY <2>0, <2>1
  <2>2. CASE c \in starts
    <3>1. Index(b, s) <= Index(b, Len(b)) /\ Index(b, Len(b)) \in Nat
      <4>1. Len(b) \in s .. Len(b)
        BY <1>1
      <4> QED
        BY <4>1, IndexGrows
    <3>2. c \in Nat /\ c > 0 /\ c < Index(b, s) /\ c + 1 \in 1 .. Index(b, Len(b)) /\ (c + 1) - 1 = c
          /\ T[c] \in Space /\ T[c + 1] \notin Space
      BY <1>1, <2>2, <3>1
    <3>3. PICK i \in 0 .. Len(b) : i < Len(b) /\ Border(b, i) /\ Index(b, i) = c
      BY <3>2, CharBorder
    <3>4. i < s /\ i > 0
      <4>1. i < s
        BY <3>2, <3>3, IndexOrder
      <4>2. i # 0
        BY <1>1, <3>2, <3>3
      <4> QED
        BY <4>1, <4>2
    <3>5. b[i] \in Blank /\ b[i + 1] \notin Blank
      BY <3>2, <3>3, <3>4, BlankBefore, BlankAfter
    <3>6. i \in Stops(b) /\ i <= one
      BY <1>1, <1>2, <3>3, <3>4
    <3>7. i \in I
      BY <3>5, <3>6
    <3>8. i \in J
      BY <1>3, <3>5, <3>6, <3>7
    <3>9. i <= r
      BY <1>5, <3>8
    <3>10. r \in i .. Len(b)
      BY <2>0, <3>9
    <3> QED
      BY <3>3, <3>10, IndexGrows
  <2> QED
    BY <2>1, <2>2
<1> HIDE DEF T
<1>10. starts \cup {0} \subseteq Int
  BY <1>1
<1> HIDE DEF starts
<1>11. Max(starts \cup {0}) = Index(b, r)
  BY <1>8, <1>9, <1>10, MaxIs
<1>12. BegWord(b, s) = r
  BY DEF BegWord, r, in, one
<1> QED
  BY <1>11, <1>12 DEF starts, T

\* line_editing_endword finds the nearest end of a word that is more than one
\* character away.
LEMMA EndWordIsNearest ==
  ASSUME NEW b \in Seq(Byte), Whole(b), NEW s \in 0 .. Len(b), Border(b, s), s < Len(b)
  PROVE  LET T == Chars(b)
             ends == {c \in Index(b, s) + 2 .. Len(T) - 1 : T[c] \notin Space /\ T[c + 1] \in Space}
         IN Index(b, EndWord(b, s)) = Min(ends \cup {Len(T)})
<1> DEFINE T == Chars(b)
           n == Len(T)
           ends == {c \in Index(b, s) + 2 .. n - 1 : T[c] \notin Space /\ T[c + 1] \in Space}
           one == RightOf(b, s)
           I == {i \in Ahead(b, one) : i = Len(b) \/ b[i + 1] \notin Blank}
           in == Min(I)
           J == {i \in Ahead(b, in) : i = Len(b) \/ b[i + 1] \in Blank}
           r == Min(J)
<1>1. /\ Len(b) \in Nat /\ Border(b, Len(b)) /\ Len(b) \in 0 .. Len(b)
      /\ n = Index(b, Len(b)) /\ n \in Nat /\ Index(b, s) \in Nat
  <2>1. Len(b) \in Nat /\ Border(b, Len(b))
    BY LenProperties DEF Border
  <2> QED
    BY <2>1, CharsType, IndexStep
<1>2. one \in s + 1 .. Len(b) /\ Border(b, one) /\ Index(b, one) = Index(b, s) + 1
  BY RightIsNext
<1> HIDE DEF one
<1>3. one \in 0 .. Len(b) /\ Ahead(b, one) = {i \in one .. Len(b) : Border(b, i)}
  <2>1. one \in 0 .. Len(b)
    BY <1>1, <1>2
  <2> QED
    BY <1>2, <2>1, AheadIsBorders
<1>4. in \in I /\ \A i \in I : in <= i
  <2>1. I \subseteq 0 .. Len(b) /\ Len(b) \in I
    BY <1>1, <1>3
  <2> QED
    BY <1>1, <2>1, MinOf
<1> HIDE DEF in
<1>5. in \in one .. Len(b) /\ Border(b, in) /\ (in = Len(b) \/ b[in + 1] \notin Blank)
  BY <1>3, <1>4
<1>6. in \in 0 .. Len(b) /\ Ahead(b, in) = {i \in in .. Len(b) : Border(b, i)}
  <2>1. in \in 0 .. Len(b)
    BY <1>3, <1>5
  <2> QED
    BY <1>5, <2>1, AheadIsBorders
<1>7. r \in J /\ \A i \in J : r <= i
  <2>1. J \subseteq 0 .. Len(b) /\ Len(b) \in J
    BY <1>1, <1>6
  <2> QED
    BY <1>1, <2>1, MinOf
<1> HIDE DEF r
<1>8. /\ r \in in .. Len(b) /\ Border(b, r) /\ (r = Len(b) \/ b[r + 1] \in Blank)
      /\ r \in 0 .. Len(b)
  BY <1>6, <1>7
<1>9. r < Len(b) => r > in /\ b[r] \notin Blank
  <2> SUFFICES ASSUME r < Len(b) PROVE r > in /\ b[r] \notin Blank
    OBVIOUS
  <2>1. r > in
    BY <1>1, <1>5, <1>8
  <2>2. ASSUME b[r] \in Blank PROVE FALSE
    <3>1. r \in 1 .. Len(b) /\ r - 1 \in in .. Len(b) /\ (r - 1) + 1 = r /\ ~(r <= r - 1)
      BY <1>6, <1>8, <2>1
    <3>2. Border(b, r - 1)
      BY <2>2, <3>1, BlankBorder
    <3>3. r - 1 \in J
      BY <1>6, <2>2, <3>1, <3>2
    <3> QED
      BY <1>7, <3>1, <3>3
  <2> QED
    BY <2>1, <2>2
<1>10. Index(b, r) \in ends \cup {n}
  <2>1. CASE r = Len(b)
    BY <1>1, <2>1
  <2>2. CASE r # Len(b)
    <3>1. r < Len(b) /\ r > 0 /\ r > in /\ b[r + 1] \in Blank /\ b[r] \notin Blank
      BY <1>1, <1>6, <1>8, <1>9, <2>2
    <3>2. T[Index(b, r)] \notin Space /\ T[Index(b, r) + 1] \in Space
      BY <1>8, <3>1, BlankBefore, BlankAfter
    <3>3. Index(b, one) <= Index(b, in) /\ Index(b, in) \in Nat
      BY <1>3, <1>5, IndexGrows
    <3>4. Index(b, in) < Index(b, r) /\ Index(b, r) \in Nat
      BY <1>5, <1>6, <1>8, <3>1, IndexOrder
    <3>5. Index(b, r) < n
      <4>1. Index(b, r) < Index(b, Len(b))
        BY <1>1, <1>8, <3>1, IndexOrder
      <4> QED
        BY <1>1, <4>1
    <3>6. Index(b, r) \in Index(b, s) + 2 .. n - 1
      BY <1>1, <1>2, <3>3, <3>4, <3>5
    <3> QED
      BY <3>2, <3>6
  <2> QED
    BY <2>1, <2>2
<1>11. ASSUME NEW c \in ends \cup {n} PROVE Index(b, r) <= c
  <2>1. CASE c = n
    <3>1. Len(b) \in r .. Len(b)
      BY <1>1, <1>8
    <3>2. Index(b, r) <= Index(b, Len(b))
      BY <1>8, <3>1, IndexGrows
    <3> QED
      BY <1>1, <2>1, <3>2
  <2>2. CASE c \in ends
    <3>1. /\ c \in Nat /\ c > Index(b, s) + 1 /\ c > 0 /\ c + 1 \in 1 .. Index(b, Len(b))
          /\ (c + 1) - 1 = c /\ T[c] \notin Space /\ T[c + 1] \in Space
      BY <1>1, <2>2
    <3>2. PICK i \in 0 .. Len(b) : i < Len(b) /\ Border(b, i) /\ Index(b, i) = c
      BY <3>1, CharBorder
    <3>3. one < i
      BY <1>2, <1>3, <3>1, <3>2, IndexOrder
    <3>4. b[i + 1] \in Blank
      BY <3>1, <3>2, BlankAfter
    <3> DEFINE p == LeftOf(b, i)
    <3>5. /\ p \in 0 .. i - 1 /\ Border(b, p) /\ Index(b, p) = Index(b, i) - 1 /\ one <= p
      <4>1. i > 0 /\ one \in 0 .. i - 1
        BY <1>3, <3>2, <3>3
      <4> QED
        BY <1>2, <3>2, <4>1, LeftIsLast
    <3> HIDE DEF p
    <3>6. p \in 0 .. Len(b) /\ p < Len(b) /\ p \in one .. Len(b) /\ Index(b, p) + 1 = c
      BY <1>1, <1>3, <3>1, <3>2, <3>5
    <3>7. b[p + 1] \notin Blank
      BY <3>1, <3>5, <3>6, BlankAfter
    <3>8. p \in I
      BY <1>3, <3>5, <3>6, <3>7
    <3>9. in <= p
      BY <1>4, <3>8
    <3>10. i \in in .. Len(b)
      BY <1>6, <3>2, <3>5, <3>9
    <3>11. i \in J
      BY <1>6, <3>2, <3>4, <3>10
    <3>12. r <= i
      BY <1>7, <3>11
    <3>13. i \in r .. Len(b)
      BY <1>8, <3>2, <3>12
    <3>14. Index(b, r) <= Index(b, i)
      BY <1>8, <3>13, IndexGrows
    <3> QED
      BY <3>2, <3>14
  <2> QED
    BY <2>1, <2>2
<1>12. ends \cup {n} \subseteq Int
  <2> HIDE DEF n, T
  <2> QED
    BY <1>1
<1>13. EndWord(b, s) = r
  BY DEF EndWord, r, in, one
<1> HIDE DEF n, T, ends
<1>14. Min(ends \cup {n}) = Index(b, r)
  BY <1>10, <1>11, <1>12, MinIs
<1> QED
  BY <1>13, <1>14 DEF ends, n, T

-----------------------------------------------------------------------------
(* Pasting                                                                 *)

\* The steps from one border to another.
LEMMA StepsAhead ==
  ASSUME NEW b \in Seq(Byte), Whole(b), NEW s \in 0 .. Len(b), Border(b, s),
         NEW t \in s .. Len(b), Border(b, t)
  PROVE  Cardinality({j \in Ahead(b, s) : j <= t}) = Index(b, t) - Index(b, s) + 1
<1> DEFINE A == Ahead(b, s)
           U(i) == {j \in A : j <= i}
           bad == {i \in 0 .. Len(b) : /\ i \in A
                                       /\ Cardinality(U(i)) # Index(b, i) - Index(b, s) + 1}
<1>1. Len(b) \in Nat /\ A = {i \in s .. Len(b) : Border(b, i)} /\ t \in A /\ s \in A
      /\ t \in 0 .. Len(b)
  BY AheadIsBorders, LenProperties
<1> HIDE DEF A
<1>2. \A i \in A : IsFiniteSet(U(i)) /\ Cardinality(U(i)) \in Nat
  <2> SUFFICES ASSUME NEW i \in A PROVE IsFiniteSet(U(i)) /\ Cardinality(U(i)) \in Nat
    OBVIOUS
  <2>1. A \subseteq 0 .. Len(b)
    BY <1>1
  <2>2. U(i) \in SUBSET (0 .. Len(b))
    BY <2>1
  <2>3. IsFiniteSet(0 .. Len(b))
    BY <1>1, FS_Interval
  <2> HIDE DEF U
  <2> QED
    BY <2>2, <2>3, FS_Subset, FS_CardinalityType
<1>3. ASSUME bad # {} PROVE FALSE
  <2> DEFINE i == Min(bad)
  <2>1. i \in bad /\ \A j \in bad : i <= j
    BY <1>1, <1>3, MinOf
  <2> HIDE DEF i
  <2>2. i \in s .. Len(b) /\ Border(b, i) /\ i \in A
        /\ Cardinality(U(i)) # Index(b, i) - Index(b, s) + 1
    BY <1>1, <2>1
  <2>3. CASE i = s
    <3>1. U(i) = {s}
      BY <1>1, <2>2, <2>3
    <3>2. Cardinality({s}) = 1 /\ Index(b, s) \in Nat
      BY FS_Singleton, IndexStep
    <3>3. Cardinality(U(i)) = 1 /\ Index(b, i) = Index(b, s)
      BY <2>3, <3>1, <3>2, Zenon
    <3> HIDE DEF U
    <3> QED
      BY <2>2, <3>2, <3>3
  <2>4. CASE i # s
    <3> DEFINE p == LeftOf(b, i)
    <3>1. /\ p \in 0 .. i - 1 /\ Border(b, p) /\ Index(b, p) = Index(b, i) - 1 /\ s <= p
          /\ \A j \in 0 .. i - 1 : Border(b, j) => j <= p
      <4>1. i \in 0 .. Len(b) /\ i > 0 /\ s \in 0 .. i - 1
        BY <1>1, <2>2, <2>4
      <4> QED
        BY <2>2, <4>1, LeftIsLast
    <3> HIDE DEF p
    <3>2. p \in A /\ p \in 0 .. Len(b) /\ ~(i <= p) /\ p < i
      BY <1>1, <2>2, <3>1
    <3>3. Cardinality(U(p)) = Index(b, p) - Index(b, s) + 1
      BY <2>1, <3>2
    <3>4. U(i) = U(p) \cup {i} /\ i \notin U(p)
      <4>1. \A j \in A : j <= i => j = i \/ j <= p
        <5> SUFFICES ASSUME NEW j \in A, j <= i, j # i PROVE j <= p
          OBVIOUS
        <5>1. j \in 0 .. i - 1 /\ Border(b, j)
          BY <1>1, <2>2
        <5> QED
          BY <3>1, <5>1
      <4>2. \A j \in A : j <= p => j <= i
        BY <1>1, <2>2, <3>1
      <4> QED
        BY <2>2, <3>2, <4>1, <4>2, <1>1
    <3>5. IsFiniteSet(U(p))
      BY <1>2, <3>2
    <3> DEFINE V == U(p)
    <3> HIDE DEF V
    <3>6. Cardinality(V \cup {i}) = IF i \in V THEN Cardinality(V) ELSE Cardinality(V) + 1
      BY <3>5, FS_AddElement DEF V
    <3>7. Cardinality(U(i)) = Cardinality(U(p)) + 1
      BY <3>4, <3>6, Zenon DEF V
    <3>8. Index(b, i) \in Nat /\ Index(b, s) \in Nat
      BY <1>1, <2>2, IndexGrows
    <3> HIDE DEF U
    <3> QED
      BY <2>2, <3>1, <3>3, <3>7, <3>8
  <2> QED
    BY <2>3, <2>4
<1>4. Cardinality(U(t)) = Index(b, t) - Index(b, s) + 1
  BY <1>1, <1>3
<1> QED
  BY <1>4 DEF A

LEMMA CharactersIsIndex ==
  ASSUME NEW b \in Seq(Byte), Whole(b)
  PROVE  Characters(b) = Index(b, Len(b)) /\ Index(b, Len(b)) \in Nat
<1>1. /\ Len(b) \in Nat /\ 0 \in 0 .. Len(b) /\ Len(b) \in 0 .. Len(b)
      /\ Border(b, 0) /\ Border(b, Len(b))
  BY LenProperties DEF Border
<1>2. Cardinality({j \in Ahead(b, 0) : j <= Len(b)}) = Index(b, Len(b)) - Index(b, 0) + 1
  BY <1>1, StepsAhead
<1>3. {j \in Ahead(b, 0) : j <= Len(b)} = Ahead(b, 0)
  <2>1. Ahead(b, 0) \subseteq 0 .. Len(b)
    BY <1>1, AheadAreBorders
  <2> QED
    BY <1>1, <2>1
<1>4. Index(b, 0) = 0 /\ Index(b, Len(b)) \in Nat
  BY <1>1, IndexStep
<1>5. Characters(b) = Cardinality(Ahead(b, 0)) - 1
  BY DEF Characters
<1>6. Cardinality(Ahead(b, 0)) = Index(b, Len(b)) - Index(b, 0) + 1
  BY <1>2, <1>3, Zenon
<1> QED
  BY <1>4, <1>5, <1>6

-----------------------------------------------------------------------------
(* The editor that the user sees                                           *)

LEMMA SameExtremes ==
  ASSUME NEW S
  PROVE  Promise!Max(S) = Max(S) /\ Promise!Min(S) = Min(S)
BY DEF Promise!Max, Promise!Min, Max, Min

LEMMA SoundState ==
  ASSUME EditorInv, Sound
  PROVE  /\ buffer \in Seq(Byte) /\ Whole(buffer) /\ Len(buffer) \in Nat
         /\ cpbuf \in Seq(Byte) /\ Whole(cpbuf) /\ Len(cpbuf) \in Nat
         /\ seek \in 0 .. Len(buffer) /\ Border(buffer, seek)
         /\ Unselected = seek
<1>1. /\ buffer \in Seq(Byte) /\ Len(buffer) \in Nat /\ cpbuf \in Seq(Byte) /\ Len(cpbuf) \in Nat
      /\ seek \in 0 .. Len(buffer)
  BY BufferType DEF EditorInv
<1>2. Whole(buffer) /\ Whole(cpbuf) /\ Border(buffer, seek)
  BY DEF EditorInv, WholeCharacters, Sound
<1>3. Printed(buffer, 0) = seek
  <2>1. seek + 0 = seek /\ seek \in Int /\ (Len(buffer) > 0 \/ seek >= 0)
    BY <1>1
  <2>2. ShiftedTo(buffer, Len(buffer), seek) = seek
    BY <1>1, <1>2, <2>1, ShiftIsBorder
  <2> QED
    BY <2>1, <2>2 DEF Printed
<1> QED
  BY <1>1, <1>2, <1>3 DEF Unselected

LEMMA SoundText ==
  ASSUME EditorInv, Sound
  PROVE  /\ Text = Chars(buffer) /\ Text \in Seq(Seq(Byte)) /\ Clip = Chars(cpbuf)
         /\ Len(Text) = Index(buffer, Len(buffer)) /\ Len(Text) \in Nat
         /\ Place = Index(buffer, seek) /\ Place \in 0 .. Len(Text)
         /\ Len(Clip) = Index(cpbuf, Len(cpbuf)) /\ Len(Clip) \in Nat
<1>1. /\ buffer \in Seq(Byte) /\ Whole(buffer) /\ Len(buffer) \in Nat
      /\ cpbuf \in Seq(Byte) /\ Whole(cpbuf) /\ seek \in 0 .. Len(buffer)
  BY SoundState
<1>2. /\ Text = Chars(buffer) /\ Clip = Chars(cpbuf) /\ Place = Index(buffer, seek)
  BY DEF Text, Clip, Place
<1>3. /\ Chars(buffer) \in Seq(Seq(Byte)) /\ Len(Chars(buffer)) = Index(buffer, Len(buffer))
      /\ Index(buffer, Len(buffer)) \in Nat
      /\ Len(Chars(cpbuf)) = Index(cpbuf, Len(cpbuf)) /\ Index(cpbuf, Len(cpbuf)) \in Nat
  BY <1>1, CharsType
<1>4. Index(buffer, seek) \in Nat /\ Index(buffer, seek) <= Index(buffer, Len(buffer))
  <2>1. Len(buffer) \in seek .. Len(buffer)
    BY <1>1
  <2> QED
    BY <1>1, <2>1, IndexGrows
<1>5. Index(buffer, seek) \in 0 .. Index(buffer, Len(buffer))
  BY <1>3, <1>4
<1> QED
  BY <1>2, <1>3, <1>5, Zenon

\* The selection, if it has its ends, has them at characters.
LEMMA SoundSelection ==
  ASSUME EditorInv, Sound
  PROVE  /\ ~selectedmode => Anchor = -1 /\ selected = NoSelection
         /\ selectedmode /\ Broken => Anchor = -2 /\ selected = NoSelection
         /\ selectedmode /\ ~Broken =>
              /\ selected[0] = seek /\ selected[1] \in 0 .. Len(buffer)
              /\ Border(buffer, selected[1])
              /\ Anchor = Index(buffer, selected[1]) /\ Anchor \in Nat
<1>1. ~selectedmode => Anchor = -1 /\ selected = NoSelection
  BY NotSelected DEF Anchor, EditorInv
<1>2. selectedmode /\ Broken => Anchor = -2 /\ selected = NoSelection
  BY DEF Anchor, Broken
<1>3. ASSUME selectedmode, ~Broken
      PROVE  /\ selected[0] = seek /\ selected[1] \in 0 .. Len(buffer)
             /\ Border(buffer, selected[1])
             /\ Anchor = Index(buffer, selected[1]) /\ Anchor \in Nat
  <2>1. selected[1] \in 0 .. Len(buffer)
    BY <1>3 DEF EditorInv, SelectionInv
  <2>2. selected[0] = seek /\ Border(buffer, selected[1])
    BY <1>3 DEF EditorInv, WholeCharacters, Sound
  <2>3. Anchor = Index(buffer, selected[1])
    BY <1>3 DEF Anchor
  <2>4. Index(buffer, selected[1]) \in Nat
    BY <2>1, SoundState, IndexStep
  <2> QED
    BY <2>1, <2>2, <2>3, <2>4
<1> QED
  BY <1>1, <1>2, <1>3

\* What is seen after a step that leaves no selection.
LEMMA SoundNext ==
  ASSUME EditorInv', ~torn', ~selectedmode'
  PROVE  /\ Sound' /\ Text' = Chars(buffer') /\ Clip' = Chars(cpbuf')
         /\ Place' = Index(buffer', seek') /\ Anchor' = -1
<1>1. ~Broken'
  BY DEF Broken
<1>2. ~wild'
  BY <1>1 DEF EditorInv, InBounds
<1>3. Sound'
  BY <1>2 DEF Sound
<1> QED
  BY <1>3 DEF Text, Clip, Place, Anchor

\* Once a character is torn, the text is gone until the line ends.
LEMMA Unsound ==
  ASSUME ~Sound'
  PROVE  ~Sound' /\ Text' = <<>> /\ Clip' = <<>> /\ Place' = 0 /\ Anchor' = -1
BY DEF Text, Clip, Place, Anchor

-----------------------------------------------------------------------------
(* Every key does what it promises                                         *)

LEMMA MoveSeen ==
  ASSUME EditorInv, EditorInv', Sound, NEW s, MoveTo(s)
  PROVE  Promise!MoveTo(Index(buffer, s))
<1>1. /\ buffer' = buffer /\ cpbuf' = cpbuf /\ torn' = torn /\ seek' = s
      /\ ~selectedmode' /\ ~torn
  BY DEF MoveTo, Sound
<1>2. /\ Sound' /\ Text' = Chars(buffer) /\ Clip' = Chars(cpbuf)
      /\ Place' = Index(buffer, s) /\ Anchor' = -1
  BY <1>1, SoundNext
<1>3. Text' = Text /\ Clip' = Clip /\ Sound' = Sound
  <2>1. Sound' = Sound
    BY <1>2 DEF Sound
  <2> QED
    BY <1>2, <2>1, SoundText
<1> QED
  BY <1>2, <1>3 DEF Promise!MoveTo, Promise!None

LEMMA KeysMoveAsPromised ==
  ASSUME EditorInv, EditorInv', Sound
  PROVE  /\ Left => Promise!Left
         /\ Right => Promise!Right
         /\ Home => Promise!Home
         /\ End => Promise!End
         /\ AltUp => Promise!RowUp
         /\ AltDown => Promise!RowDown
<1>1. /\ buffer \in Seq(Byte) /\ Whole(buffer) /\ Len(buffer) \in Nat
      /\ seek \in 0 .. Len(buffer) /\ Border(buffer, seek) /\ Unselected = seek
  BY SoundState
<1>2. /\ Len(Text) = Index(buffer, Len(buffer)) /\ Len(Text) \in Nat
      /\ Place = Index(buffer, seek) /\ Place \in 0 .. Len(Text)
  BY SoundText
<1>3. Index(buffer, 0) = 0 /\ Border(buffer, 0) /\ Border(buffer, Len(buffer))
      /\ 0 \in 0 .. Len(buffer) /\ Len(buffer) \in 0 .. Len(buffer)
  <2>1. 0 \in 0 .. Len(buffer) /\ Len(buffer) \in 0 .. Len(buffer)
    BY <1>1
  <2> QED
    BY <1>1, <2>1, IndexStep DEF Border
<1>4. \A s : MoveTo(s) => Promise!MoveTo(Index(buffer, s))
  BY MoveSeen
<1>5. ASSUME Left PROVE Promise!Left
  <2>1. MoveTo(LeftOf(buffer, seek))
    BY <1>1, <1>5 DEF Left
  <2>2. Index(buffer, LeftOf(buffer, seek)) = Max({0, Place - 1})
    <3>1. CASE seek = 0
      <4>1. Index(buffer, LeftOf(buffer, seek)) = 0 /\ Place = 0
        BY <1>2, <1>3, <3>1 DEF LeftOf
      <4> DEFINE S == {0, Place - 1}
      <4>2. S \subseteq Int /\ 0 \in S /\ \A i \in S : i <= 0
        BY <4>1
      <4> HIDE DEF S
      <4>3. Max(S) = 0
        BY <4>2, MaxIs
      <4> QED
        BY <4>1, <4>3 DEF S
    <3>2. CASE seek # 0
      <4>1. seek > 0
        BY <1>1, <3>2
      <4>2. Index(buffer, LeftOf(buffer, seek)) = Place - 1
        BY <1>1, <1>2, <4>1, LeftIsLast
      <4>3. Place > 0
        <5>1. Index(buffer, 0) < Index(buffer, seek)
          BY <1>1, <1>3, <4>1, IndexOrder
        <5> QED
          BY <1>2, <1>3, <5>1
      <4> DEFINE S == {0, Place - 1}
      <4>4. S \subseteq Int /\ Place - 1 \in S /\ \A i \in S : i <= Place - 1
        BY <1>2, <4>3
      <4> HIDE DEF S
      <4>5. Max(S) = Place - 1
        BY <4>4, MaxIs
      <4> QED
        BY <4>2, <4>5 DEF S
    <3> QED
      BY <3>1, <3>2
  <2>3. Promise!MoveTo(Max({0, Place - 1}))
    BY <1>4, <2>1, <2>2
  <2> QED
    BY <2>3, SameExtremes DEF Promise!Left
<1>6. ASSUME Right PROVE Promise!Right
  <2>1. MoveTo(RightOf(buffer, seek))
    BY <1>1, <1>6 DEF Right
  <2>2. Index(buffer, RightOf(buffer, seek)) = Min({Len(Text), Place + 1})
    <3> DEFINE S == {Len(Text), Place + 1}
    <3>1. S \subseteq Int /\ Len(Text) \in S /\ Place + 1 \in S
      BY <1>2
    <3>2. CASE seek = Len(buffer)
      <4>1. RightOf(buffer, seek) = seek /\ Place = Len(Text)
        BY <1>1, <1>2, <3>2 DEF RightOf
      <4>2. \A i \in S : Len(Text) <= i
        BY <1>2, <4>1
      <4> HIDE DEF S
      <4>3. Min(S) = Len(Text)
        BY <3>1, <4>2, MinIs
      <4> QED
        BY <1>2, <4>1, <4>3 DEF S
    <3>3. CASE seek # Len(buffer)
      <4>1. seek < Len(buffer)
        BY <1>1, <3>3
      <4>2. Index(buffer, RightOf(buffer, seek)) = Place + 1
        BY <1>1, <1>2, <4>1, RightIsNext
      <4>3. Place < Len(Text)
        <5>1. Index(buffer, seek) < Index(buffer, Len(buffer))
          BY <1>1, <1>3, <4>1, IndexOrder
        <5> QED
          BY <1>2, <5>1
      <4>4. \A i \in S : Place + 1 <= i
        BY <1>2, <4>3
      <4> HIDE DEF S
      <4>5. Min(S) = Place + 1
        BY <3>1, <4>4, MinIs
      <4> QED
        BY <4>2, <4>5 DEF S
    <3> QED
      BY <3>2, <3>3
  <2>3. Promise!MoveTo(Min({Len(Text), Place + 1}))
    BY <1>4, <2>1, <2>2
  <2> QED
    BY <2>3, SameExtremes DEF Promise!Right
<1>7. (Home => Promise!Home) /\ (End => Promise!End)
  BY <1>2, <1>3, <1>4 DEF Home, End, Promise!Home, Promise!End
<1>8. ASSUME AltUp PROVE Promise!RowUp
  <2>1. PICK s \in Stops(buffer) : s < seek /\ MoveTo(s)
    BY <1>1, <1>8 DEF AltUp
  <2>2. s \in 0 .. Len(buffer) /\ seek \in s .. Len(buffer)
    BY <1>1, <2>1, StopsAreBorders
  <2>3. Index(buffer, s) \in Nat /\ Index(buffer, s) <= Index(buffer, seek)
    BY <1>1, <2>2, IndexGrows
  <2>4. Index(buffer, s) \in 0 .. Place
    BY <1>2, <2>3
  <2> QED
    BY <1>4, <2>1, <2>4 DEF Promise!RowUp
<1>9. ASSUME AltDown PROVE Promise!RowDown
  <2>1. PICK s \in Ahead(buffer, seek) : s > seek /\ MoveTo(s)
    BY <1>1, <1>9 DEF AltDown
  <2>2. s \in seek .. Len(buffer) /\ Len(buffer) \in s .. Len(buffer) /\ s \in 0 .. Len(buffer)
    <3>1. s \in seek .. Len(buffer)
      BY <1>1, AheadAreBorders
    <3> QED
      BY <1>1, <3>1
  <2>3. /\ Index(buffer, s) \in Nat /\ Index(buffer, seek) <= Index(buffer, s)
        /\ Index(buffer, s) <= Index(buffer, Len(buffer))
    BY <1>1, <2>2, IndexGrows
  <2>4. Index(buffer, s) \in Place .. Len(Text)
    BY <1>2, <2>3
  <2> QED
    BY <1>4, <2>1, <2>4 DEF Promise!RowDown
<1> QED
  BY <1>5, <1>6, <1>7, <1>8, <1>9

LEMMA WordsAsPromised ==
  ASSUME EditorInv, EditorInv', Sound
  PROVE  /\ AltLeft => Promise!WordLeft
         /\ AltRight => Promise!WordRight
<1>1. /\ buffer \in Seq(Byte) /\ Whole(buffer) /\ Len(buffer) \in Nat
      /\ seek \in 0 .. Len(buffer) /\ Border(buffer, seek) /\ Unselected = seek
  BY SoundState
<1>2. Text = Chars(buffer) /\ Place = Index(buffer, seek)
  BY SoundText
<1>3. ASSUME AltLeft PROVE Promise!WordLeft
  <2>1. seek > 0 /\ MoveTo(BegWord(buffer, seek))
    BY <1>1, <1>3 DEF AltLeft
  <2> DEFINE starts == {c \in 1 .. Place - 1 : Text[c] \in Space /\ Text[c + 1] \notin Space}
  <2>2. Index(buffer, BegWord(buffer, seek)) = Max(starts \cup {0})
    BY <1>1, <1>2, <2>1, BegWordIsNearest
  <2>3. Promise!MoveTo(Max(starts \cup {0}))
    BY <2>1, <2>2, MoveSeen
  <2> QED
    BY <2>3, SameExtremes DEF Promise!WordLeft
<1>4. ASSUME AltRight PROVE Promise!WordRight
  <2>1. seek < Len(buffer) /\ MoveTo(EndWord(buffer, seek))
    BY <1>1, <1>4 DEF AltRight
  <2> DEFINE ends == {c \in Place + 2 .. Len(Text) - 1 : Text[c] \notin Space /\ Text[c + 1] \in Space}
  <2>2. Index(buffer, EndWord(buffer, seek)) = Min(ends \cup {Len(Text)})
    BY <1>1, <1>2, <2>1, EndWordIsNearest
  <2>3. Promise!MoveTo(Min(ends \cup {Len(Text)}))
    BY <2>1, <2>2, MoveSeen
  <2> QED
    BY <2>3, SameExtremes DEF Promise!WordRight
<1> QED
  BY <1>3, <1>4

LEMMA RewriteSeen ==
  ASSUME EditorInv', NEW b, NEW offset, Rewrite(b, offset), ~torn'
  PROVE  /\ Sound' /\ Text' = Chars(b) /\ Place' = Index(b, Printed(b, offset))
         /\ Anchor' = -1 /\ Clip' = Chars(cpbuf')
<1>1. buffer' = b /\ seek' = Printed(b, offset) /\ ~selectedmode'
  BY DEF Rewrite
<1>2. /\ Sound' /\ Text' = Chars(buffer') /\ Clip' = Chars(cpbuf')
      /\ Place' = Index(buffer', seek') /\ Anchor' = -1
  BY <1>1, SoundNext
<1> QED
  BY <1>1, <1>2

LEMMA PrintedAt ==
  ASSUME NEW b \in Seq(Byte), NEW offset \in Int, seek + offset \in 0 .. Len(b),
         Border(b, seek + offset)
  PROVE  Printed(b, offset) = seek + offset
<1>1. seek + offset \in Int /\ (Len(b) > 0 \/ seek + offset >= 0)
  OBVIOUS
<1>2. ShiftedTo(b, Len(b), seek + offset) = seek + offset
  BY <1>1, ShiftIsBorder
<1> QED
  BY <1>2 DEF Printed

\* A line is rewritten as the editor promises.
LEMMA BecomeSeen ==
  ASSUME EditorInv, Sound, EditorInv', NEW b, NEW offset, Rewrite(b, offset),
         NEW t, NEW c, Chars(b) = t, Index(b, Printed(b, offset)) = c,
         torn' = torn, cpbuf' = cpbuf
  PROVE  Promise!Become(t, c)
<1>1. ~torn' /\ Sound
  BY DEF Sound
<1>2. /\ Sound' /\ Text' = t /\ Place' = c /\ Anchor' = -1 /\ Clip' = Chars(cpbuf)
  BY <1>1, RewriteSeen
<1>3. Clip' = Clip
  BY <1>2, SoundText
<1>4. Sound' = Sound
  BY <1>1, <1>2 DEF Sound
<1> QED
  BY <1>2, <1>3, <1>4 DEF Promise!Become, Promise!None

LEMMA BreakSeen ==
  ASSUME ~Sound'
  PROVE  Promise!Break
<1>1. Sound' = FALSE
  BY DEF Sound
<1> QED
  BY <1>1, Unsound DEF Promise!Break, Promise!None

LEMMA InsertAsPromised ==
  ASSUME EditorInv, EditorInv', Sound, Insert
  PROVE  Promise!Insert
<1>1. /\ buffer \in Seq(Byte) /\ Whole(buffer) /\ Len(buffer) \in Nat
      /\ seek \in 0 .. Len(buffer) /\ Border(buffer, seek)
  BY SoundState
<1>2. PICK l \in Letter : /\ Len(buffer) + Len(l) <= MaxLen
                          /\ Rewrite(Joined(l), Len(l)) /\ cpbuf' = cpbuf /\ torn' = torn
  BY DEF Insert
<1>3. /\ l \in Seq(Byte) /\ IsCharacter(l) /\ Len(l) \in Nat /\ Whole(l)
      /\ Chars(l) = <<l>> /\ Index(l, Len(l)) = 1
  <2>1. l \in Seq(Byte) /\ IsCharacter(l)
    BY ByteAssumption
  <2> QED
    BY <2>1, CharsOfOne, LenProperties
<1>4. l \in Character
  <2>1. l \in [1 .. Len(l) -> Byte] /\ Len(l) \in 1 .. MaxLen
    <3>1. Len(l) = 1 \/ Len(l) > 1
      BY <1>3, Zenon DEF IsCharacter
    <3>2. MaxLen \in Nat
      BY ByteAssumption
    <3>3. \A n \in Nat : (n = 1 \/ n > 1) /\ Len(buffer) + n <= MaxLen => n \in 1 .. MaxLen
      BY <1>1, <3>2
    <3>4. Len(l) \in 1 .. MaxLen
      BY <1>2, <1>3, <3>1, <3>3, Zenon
    <3> QED
      BY <1>3, <3>4, LenProperties
  <2> QED
    BY <1>3, <2>1 DEF Character
<1> DEFINE b == Joined(l)
           x == SubSeq(Text, 1, Place)
           z == SubSeq(Text, Place + 1, Len(Text))
<1>5. /\ Chars(b) = x \o <<l>> \o z
      /\ Index(b, seek + Len(l)) = Place + 1
      /\ Border(b, seek + Len(l)) /\ seek + Len(l) \in 0 .. Len(b) /\ b \in Seq(Byte)
  <2>1. /\ Chars(b) = SubSeq(Chars(buffer), 1, Index(buffer, seek)) \o Chars(l)
                      \o SubSeq(Chars(buffer), Index(buffer, seek) + 1, Len(Chars(buffer)))
        /\ Index(b, seek + Len(l)) = Index(buffer, seek) + Index(l, Len(l))
        /\ Border(b, seek + Len(l)) /\ seek + Len(l) \in seek .. Len(b)
    BY <1>1, <1>3, CharsMore DEF Joined
  <2>2. b \in Seq(Byte)
    BY <1>1, <1>3, JoinedIsWhole
  <2>3. seek + Len(l) \in 0 .. Len(b)
    BY <1>1, <1>3, <2>1
  <2> HIDE DEF b
  <2> QED
    BY <1>3, <2>1, <2>2, <2>3, SoundText
<1> HIDE DEF b
<1>6. Printed(b, Len(l)) = seek + Len(l)
  BY <1>3, <1>5, PrintedAt
<1>7. Promise!Become(x \o <<l>> \o z, Place + 1)
  <2>1. Rewrite(b, Len(l)) /\ Chars(b) = x \o <<l>> \o z
        /\ Index(b, Printed(b, Len(l))) = Place + 1
    BY <1>2, <1>5, <1>6 DEF b
  <2> QED
    BY <1>2, <2>1, BecomeSeen
<1> QED
  BY <1>4, <1>7 DEF Promise!Insert, Promise!Before, Promise!After

LEMMA RecallAsPromised ==
  ASSUME EditorInv, EditorInv', Sound, Recall
  PROVE  IF torn' THEN Promise!RecallTorn ELSE Promise!Recall
<1>1. PICK b \in Recalled : buffer' = b /\ seek' = Len(b) /\ torn' = (torn \/ ~Whole(b))
  BY DEF Recall
<1>2. ~selectedmode' /\ cpbuf' = cpbuf
  BY DEF Recall
<1>3. CASE torn'
  <2>1. ~Sound'
    BY <1>3 DEF Sound
  <2> QED
    BY <1>3, <2>1, BreakSeen DEF Promise!RecallTorn
<1>4. CASE ~torn'
  <2>1. Whole(b)
    BY <1>1, <1>4
  <2>2. b \in Seq(Byte) /\ Len(b) <= MaxLen
    BY ByteAssumption
  <2>3. Chars(b) \in Seq(Character) /\ Len(Chars(b)) = Index(b, Len(b))
    BY <2>1, <2>2, CharsType
  <2>4. /\ Sound' /\ Text' = Chars(b) /\ Clip' = Chars(cpbuf)
        /\ Place' = Index(b, Len(b)) /\ Anchor' = -1
    BY <1>1, <1>2, <1>4, SoundNext
  <2>5. Clip' = Clip
    BY <2>4, SoundText
  <2>6. Sound' = Sound
    BY <2>4 DEF Sound
  <2>7. Promise!Recall
    BY <2>3, <2>4, <2>5, <2>6 DEF Promise!Recall, Promise!None
  <2> QED
    BY <1>4, <2>7
<1> QED
  BY <1>3, <1>4

LEMMA BackspaceAsPromised ==
  ASSUME EditorInv, EditorInv', Sound, Backspace
  PROVE  Promise!Backspace
<1>1. /\ buffer \in Seq(Byte) /\ Whole(buffer) /\ Len(buffer) \in Nat
      /\ seek \in 0 .. Len(buffer) /\ Border(buffer, seek)
  BY SoundState
<1>2. ~selectedmode /\ seek > 0
  BY DEF Backspace
<1> DEFINE s == LeftOf(buffer, seek)
           b == SubSeq(buffer, 1, s) \o SubSeq(buffer, seek + 1, Len(buffer))
<1>3. Rewrite(b, s - seek) /\ cpbuf' = cpbuf /\ torn' = torn
  BY DEF Backspace
<1>4. s \in 0 .. seek - 1 /\ Border(buffer, s) /\ Index(buffer, s) = Index(buffer, seek) - 1
  BY <1>1, <1>2, LeftIsLast
<1> HIDE DEF s
<1>5. s \in 0 .. Len(buffer) /\ seek \in s .. Len(buffer) /\ s - seek \in Int /\ seek + (s - seek) = s
  BY <1>1, <1>4
<1>6. /\ Chars(b) = SubSeq(Text, 1, Place - 1) \o SubSeq(Text, Place + 1, Len(Text))
      /\ Index(b, s) = Place - 1 /\ Border(b, s) /\ s \in 0 .. Len(b) /\ b \in Seq(Byte)
  <2>1. /\ Chars(b) = SubSeq(Chars(buffer), 1, Index(buffer, s))
                      \o SubSeq(Chars(buffer), Index(buffer, seek) + 1, Len(Chars(buffer)))
        /\ Index(b, s) = Index(buffer, s) /\ Border(b, s) /\ s \in 0 .. Len(b)
    BY <1>1, <1>4, <1>5, CharsRest
  <2>2. b \in Seq(Byte)
    BY <1>1, <1>5, RestIsWhole
  <2> HIDE DEF b
  <2> QED
    BY <1>4, <2>1, <2>2, SoundText
<1> HIDE DEF b
<1>7. Printed(b, s - seek) = s
  <2>1. seek + (s - seek) \in 0 .. Len(b) /\ Border(b, seek + (s - seek))
    BY <1>5, <1>6
  <2> QED
    BY <1>5, <1>6, <2>1, PrintedAt
<1>8. Promise!Become(SubSeq(Text, 1, Place - 1) \o SubSeq(Text, Place + 1, Len(Text)), Place - 1)
  <2>1. Index(b, Printed(b, s - seek)) = Place - 1
    BY <1>6, <1>7
  <2> QED
    BY <1>3, <1>6, <2>1, BecomeSeen
<1>9. Anchor = -1 /\ Place > 0
  <2>1. Anchor = -1
    BY <1>2, SoundSelection
  <2>2. Index(buffer, s) \in Nat /\ Place = Index(buffer, seek) /\ Place \in Nat
    BY <1>1, <1>5, SoundText, IndexStep
  <2> QED
    BY <1>4, <2>1, <2>2
<1> QED
  BY <1>8, <1>9 DEF Promise!Backspace, Promise!After, Promise!None

LEMMA DeleteAsPromised ==
  ASSUME EditorInv, EditorInv', Sound, Delete
  PROVE  Promise!Delete
<1>1. /\ buffer \in Seq(Byte) /\ Whole(buffer) /\ Len(buffer) \in Nat /\ Len(buffer) <= MaxLen
      /\ seek \in 0 .. Len(buffer) /\ Border(buffer, seek)
  BY SoundState DEF EditorInv, TypeOK
<1>2. /\ Text = Chars(buffer) /\ Text \in Seq(Seq(Byte)) /\ Text \in Seq(Character)
      /\ Len(Text) = Index(buffer, Len(buffer)) /\ Len(Text) \in Nat
      /\ Place = Index(buffer, seek) /\ Place \in 0 .. Len(Text)
  BY <1>1, SoundText, CharsType
<1>3. /\ seek < Len(buffer) /\ Rewrite(RemoveAt(buffer, seek + 1), 0) /\ cpbuf' = cpbuf
      /\ torn' = (torn \/ buffer[seek + 1] \in Lead \cup Cont) /\ ~torn
  BY DEF Delete, Sound
<1>4. buffer[seek + 1] \notin Cont
  BY <1>1, <1>3, BorderStep
<1>5. Place + 1 \in 1 .. Len(Text) /\ Place < Len(Text)
  <2>1. Place + 1 \in 1 .. Len(Text)
    BY <1>1, <1>2, <1>3, CharAt
  <2> QED
    BY <1>2, <2>1
<1> DEFINE c == SubSeq(buffer, seek + 1, RightOf(buffer, seek))
<1>6. /\ Text[Place + 1] = c
      /\ Len(c) > 1 <=> buffer[seek + 1] \in Lead
      /\ Len(c) = 1 <=> RightOf(buffer, seek) = seek + 1
      /\ IsCharacter(c)
  BY <1>1, <1>2, <1>3, CharAt, CharKind
<1> HIDE DEF c
<1>7. Text[Place + 1] \in WideCharacter <=> buffer[seek + 1] \in Lead
  <2>1. Text[Place + 1] \in Character
    BY <1>2, <1>5, ElementOfSeq
  <2> QED
    BY <1>6, <2>1 DEF WideCharacter
<1>8. CASE buffer[seek + 1] \in Lead
  <2>1. ~Sound'
    BY <1>3, <1>8 DEF Sound
  <2>2. Promise!Break
    BY <2>1, BreakSeen
  <2> QED
    BY <1>5, <1>7, <1>8, <2>2 DEF Promise!Delete, Promise!Here
<1>9. CASE buffer[seek + 1] \notin Lead
  <2>1. torn' = torn
    <3>1. buffer[seek + 1] \notin Lead \cup Cont
      BY <1>4, <1>9
    <3>2. torn = FALSE
      BY <1>3, Zenon DEF EditorInv, TypeOK
    <3> QED
      BY <1>3, <3>1, <3>2, Zenon
  <2> DEFINE t == seek + 1
             b == SubSeq(buffer, 1, seek) \o SubSeq(buffer, t + 1, Len(buffer))
             rest == SubSeq(Text, Place + 2, Len(Text))
  <2>2. t = RightOf(buffer, seek)
    <3>1. Len(c) = 1 \/ Len(c) > 1
      BY <1>6, Zenon DEF IsCharacter
    <3> QED
      BY <1>6, <1>9, <3>1
  <2>3. /\ t \in seek .. Len(buffer) /\ Border(buffer, t) /\ Index(buffer, t) = Place + 1
    <3>1. /\ t \in seek + 1 .. Len(buffer) /\ Border(buffer, t)
          /\ Index(buffer, t) = Index(buffer, seek) + 1
      BY <1>1, <1>3, <2>2, RightIsNext
    <3> QED
      BY <1>1, <1>2, <3>1
  <2>4. RemoveAt(buffer, seek + 1) = b
    <3>1. RemoveAt(buffer, seek + 1)
            = SubSeq(buffer, 1, (seek + 1) - 1) \o SubSeq(buffer, (seek + 1) + 1, Len(buffer))
      BY Zenon DEF RemoveAt
    <3>2. (seek + 1) - 1 = seek
      BY <1>1
    <3> QED
      BY <3>1, <3>2
  <2> HIDE DEF t
  <2>5. /\ Chars(b) = SubSeq(Text, 1, Place) \o rest
        /\ Index(b, seek) = Place /\ Border(b, seek) /\ seek \in 0 .. Len(b) /\ b \in Seq(Byte)
    <3>1. /\ Chars(b) = SubSeq(Chars(buffer), 1, Index(buffer, seek))
                        \o SubSeq(Chars(buffer), Index(buffer, t) + 1, Len(Chars(buffer)))
          /\ Index(b, seek) = Index(buffer, seek) /\ Border(b, seek) /\ seek \in 0 .. Len(b)
      BY <1>1, <2>3, CharsRest
    <3>2. b \in Seq(Byte)
      BY <1>1, <2>3, RestIsWhole
    <3>3. Index(buffer, t) + 1 = Place + 2
      BY <1>2, <2>3
    <3> HIDE DEF b
    <3> QED
      BY <1>2, <3>1, <3>2, <3>3
  <2> HIDE DEF b
  <2>6. Printed(b, 0) = seek
    <3>1. seek + 0 = seek
      BY <1>1
    <3>2. seek + 0 \in 0 .. Len(b) /\ Border(b, seek + 0)
      BY <2>5, <3>1
    <3> QED
      BY <2>5, <3>1, <3>2, PrintedAt
  <2>7. Tail(SubSeq(Text, Place + 1, Len(Text))) = rest
    <3>1. Len(Text) \in Place + 1 .. Len(Text) /\ (Place + 1) + 1 = Place + 2
      BY <1>2, <1>5
    <3>2. Tail(SubSeq(Text, Place + 1, Len(Text))) = SubSeq(Text, (Place + 1) + 1, Len(Text))
      BY <1>2, <1>5, <3>1, HeadTailOfSubSeq
    <3> QED
      BY <3>1, <3>2
  <2>8. Promise!Become(SubSeq(Text, 1, Place) \o rest, Place)
    <3>1. Rewrite(b, 0) /\ Index(b, Printed(b, 0)) = Place
      BY <1>3, <2>4, <2>5, <2>6
    <3> QED
      BY <1>3, <2>1, <2>5, <3>1, BecomeSeen
  <2> QED
    BY <1>5, <1>7, <1>9, <2>7, <2>8 DEF Promise!Delete, Promise!Here, Promise!Before, Promise!After
<1> QED
  BY <1>8, <1>9


LEMMA PairExtremes ==
  ASSUME NEW x \in Int, NEW y \in Int, x <= y
  PROVE  Min({x, y}) = x /\ Max({x, y}) = y /\ Min({y, x}) = x /\ Max({y, x}) = y
<1> DEFINE S == {x, y}
<1>1. S \subseteq Int /\ x \in S /\ y \in S /\ {y, x} = S
  OBVIOUS
<1>2. (\A i \in S : x <= i) /\ (\A i \in S : i <= y)
  OBVIOUS
<1> HIDE DEF S
<1>3. Min(S) = x /\ Max(S) = y
  BY <1>1, <1>2, MinIs, MaxIs
<1> QED
  BY <1>1, <1>3 DEF S

\* The ends of the selection are those of the characters it covers.
LEMMA SelectionSeen ==
  ASSUME EditorInv, Sound, selectedmode, ~Broken
  PROVE  /\ Low \in 0 .. Len(buffer) /\ Border(buffer, Low)
         /\ High \in Low .. Len(buffer) /\ Border(buffer, High)
         /\ Promise!Low = Index(buffer, Low) /\ Promise!High = Index(buffer, High)
         /\ seek + (IF selected[1] < selected[0] THEN Low - High ELSE 0) = Low
         /\ (IF selected[1] < selected[0] THEN Low - High ELSE 0) \in Int
<1> DEFINE p == selected[1]
<1>1. /\ selected[0] = seek /\ p \in 0 .. Len(buffer) /\ Border(buffer, p)
      /\ Anchor = Index(buffer, p) /\ Anchor \in Nat
  BY SoundSelection
<1>2. /\ buffer \in Seq(Byte) /\ Whole(buffer) /\ Len(buffer) \in Nat
      /\ seek \in 0 .. Len(buffer) /\ Border(buffer, seek)
  BY SoundState
<1>3. Place = Index(buffer, seek) /\ Place \in Nat
  <2>1. Index(buffer, seek) \in Nat
    BY <1>2, IndexStep
  <2> QED
    BY <2>1, SoundText
<1>4. Promise!Low = Min({Anchor, Place}) /\ Promise!High = Max({Anchor, Place})
  BY SameExtremes DEF Promise!Low, Promise!High
<1>5. Low = Min({seek, p}) /\ High = Max({seek, p})
  BY <1>1 DEF Low, High
<1> HIDE DEF p
<1>6. CASE p < seek
  <2>1. Low = p /\ High = seek
    BY <1>1, <1>2, <1>5, <1>6, PairExtremes
  <2>2. Anchor <= Place
    <3>1. seek \in p .. Len(buffer)
      BY <1>1, <1>2, <1>6
    <3> QED
      BY <1>1, <1>2, <1>3, <3>1, IndexGrows
  <2>3. Promise!Low = Anchor /\ Promise!High = Place
    BY <1>1, <1>3, <1>4, <2>2, PairExtremes
  <2>4. seek + (p - seek) = p /\ p - seek \in Int /\ seek \in p .. Len(buffer)
    BY <1>1, <1>2, <1>6
  <2> QED
    BY <1>1, <1>2, <1>3, <1>6, <2>1, <2>3, <2>4 DEF p
<1>7. CASE ~(p < seek)
  <2>1. Low = seek /\ High = p
    BY <1>1, <1>2, <1>5, <1>7, PairExtremes
  <2>2. Place <= Anchor
    <3>1. p \in seek .. Len(buffer)
      BY <1>1, <1>2, <1>7
    <3> QED
      BY <1>1, <1>2, <1>3, <3>1, IndexGrows
  <2>3. Promise!Low = Place /\ Promise!High = Anchor
    BY <1>1, <1>3, <1>4, <2>2, PairExtremes
  <2>4. seek + 0 = seek /\ 0 \in Int /\ p \in seek .. Len(buffer)
    BY <1>1, <1>2, <1>7
  <2> QED
    BY <1>1, <1>2, <1>3, <1>7, <2>1, <2>3, <2>4 DEF p
<1> QED
  BY <1>6, <1>7

\* What is left of a line without its selection, and what is taken.
LEMMA SelectedSeen ==
  ASSUME EditorInv, Sound, selectedmode, ~Broken
  PROVE  /\ Chars(SubSeq(buffer, Low + 1, High)) = Promise!Selected
         /\ SubSeq(buffer, Low + 1, High) \in Seq(Byte)
<1>1. /\ Low \in 0 .. Len(buffer) /\ Border(buffer, Low)
      /\ High \in Low .. Len(buffer) /\ Border(buffer, High)
      /\ Promise!Low = Index(buffer, Low) /\ Promise!High = Index(buffer, High)
  BY SelectionSeen
<1>2. buffer \in Seq(Byte) /\ Whole(buffer) /\ Text = Chars(buffer)
  BY SoundState, SoundText
<1>3. Chars(SubSeq(buffer, Low + 1, High))
        = SubSeq(Chars(buffer), Index(buffer, Low) + 1, Index(buffer, High))
  BY <1>1, <1>2, CharsCut
<1>4. SubSeq(buffer, Low + 1, High) \in Seq(Byte)
  BY <1>1, <1>2, CutIsWhole
<1> QED
  BY <1>1, <1>2, <1>3, <1>4 DEF Promise!Selected

LEMMA RemoveSeen ==
  ASSUME EditorInv, EditorInv', Sound, selectedmode, ~Broken, RemoveSelected, torn' = torn
  PROVE  /\ Sound' = Sound /\ Text' = Promise!WithoutSelected /\ Place' = Promise!Low
         /\ Anchor' = -1 /\ Clip' = Chars(cpbuf')
<1> DEFINE offset == IF selected[1] < selected[0] THEN Low - High ELSE 0
           b == SubSeq(buffer, 1, Low) \o SubSeq(buffer, High + 1, Len(buffer))
<1>1. /\ Low \in 0 .. Len(buffer) /\ Border(buffer, Low)
      /\ High \in Low .. Len(buffer) /\ Border(buffer, High)
      /\ Promise!Low = Index(buffer, Low) /\ Promise!High = Index(buffer, High)
      /\ seek + offset = Low /\ offset \in Int
  BY SelectionSeen
<1>2. buffer \in Seq(Byte) /\ Whole(buffer) /\ Text = Chars(buffer)
  BY SoundState, SoundText
<1>3. Rewrite(b, offset)
  BY DEF RemoveSelected
<1> HIDE DEF offset
<1>4. /\ Chars(b) = SubSeq(Chars(buffer), 1, Index(buffer, Low))
                    \o SubSeq(Chars(buffer), Index(buffer, High) + 1, Len(Chars(buffer)))
      /\ Index(b, Low) = Index(buffer, Low) /\ Border(b, Low) /\ Low \in 0 .. Len(b)
  BY <1>1, <1>2, CharsRest
<1>5. b \in Seq(Byte)
  BY <1>1, <1>2, RestIsWhole
<1> HIDE DEF b
<1>6. Printed(b, offset) = Low
  <2>1. seek + offset \in 0 .. Len(b) /\ Border(b, seek + offset)
    BY <1>1, <1>4
  <2> QED
    BY <1>1, <1>5, <2>1, PrintedAt
<1>7. ~torn'
  BY DEF Sound
<1>8. /\ Sound' /\ Text' = Chars(b) /\ Place' = Index(b, Printed(b, offset))
      /\ Anchor' = -1 /\ Clip' = Chars(cpbuf')
  BY <1>3, <1>7, RewriteSeen
<1>9. Sound' = Sound
  BY <1>8 DEF Sound
<1> QED
  BY <1>1, <1>2, <1>4, <1>6, <1>8, <1>9 DEF Promise!WithoutSelected

LEMMA RemoveAsPromised ==
  ASSUME EditorInv, EditorInv', Sound
  PROVE  /\ BackspaceSelect => Promise!Remove
         /\ AltX => Promise!Cut
<1>1. ASSUME selectedmode PROVE Anchor # -1 /\ (Broken <=> Anchor = -2)
  <2>1. Broken => Anchor = -2
    BY <1>1, SoundSelection
  <2>2. ~Broken => Anchor \in Nat
    BY <1>1, SoundSelection
  <2> QED
    BY <2>1, <2>2
<1>2. ASSUME BackspaceSelect \/ AltX, Broken PROVE Promise!Break
  <2>1. wild'
    BY <1>2 DEF BackspaceSelect, AltX, GoWild
  <2>2. ~Sound'
    BY <2>1 DEF Sound
  <2> QED
    BY <2>2, BreakSeen
<1>3. ASSUME BackspaceSelect PROVE Promise!Remove
  <2>1. selectedmode
    BY <1>3 DEF BackspaceSelect
  <2>2. CASE Broken
    BY <1>1, <1>2, <1>3, <2>1, <2>2 DEF Promise!Remove, Promise!None, Promise!Lost
  <2>3. CASE ~Broken
    <3>1. RemoveSelected /\ cpbuf' = cpbuf /\ torn' = torn
      BY <1>3, <2>3 DEF BackspaceSelect
    <3>2. /\ Sound' = Sound /\ Text' = Promise!WithoutSelected /\ Place' = Promise!Low
          /\ Anchor' = -1 /\ Clip' = Chars(cpbuf)
      BY <2>1, <2>3, <3>1, RemoveSeen
    <3>3. Clip' = Clip
      BY <3>2, SoundText
    <3>4. Promise!Become(Promise!WithoutSelected, Promise!Low)
      BY <3>2, <3>3 DEF Promise!Become, Promise!None
    <3> QED
      BY <1>1, <2>1, <2>3, <3>4 DEF Promise!Remove, Promise!None, Promise!Lost
  <2> QED
    BY <2>2, <2>3
<1>4. ASSUME AltX PROVE Promise!Cut
  <2>1. selectedmode
    BY <1>4 DEF AltX
  <2>2. CASE Broken
    BY <1>1, <1>2, <1>4, <2>1, <2>2 DEF Promise!Cut, Promise!None, Promise!Lost
  <2>3. CASE ~Broken
    <3>1. RemoveSelected /\ cpbuf' = SubSeq(buffer, Low + 1, High) /\ torn' = torn
      BY <1>4, <2>3 DEF AltX
    <3>2. /\ Sound' = Sound /\ Text' = Promise!WithoutSelected /\ Place' = Promise!Low
          /\ Anchor' = -1 /\ Clip' = Chars(cpbuf')
      BY <2>1, <2>3, <3>1, RemoveSeen
    <3>3. Clip' = Promise!Selected
      BY <2>1, <2>3, <3>1, <3>2, SelectedSeen
    <3> QED
      BY <1>1, <2>1, <2>3, <3>2, <3>3 DEF Promise!Cut, Promise!None, Promise!Lost
  <2> QED
    BY <2>2, <2>3
<1> QED
  BY <1>3, <1>4

LEMMA CharsOfNone == Chars(<<>>) = <<>>
<1>1. <<>> \in Seq(Byte) /\ Whole(<<>>) /\ Len(<<>>) = 0 /\ 0 \in 0 .. Len(<<>>)
  BY DEF Whole
<1>2. Index(<<>>, Len(<<>>)) = 0
  BY <1>1, IndexStep
<1>3. Chars(<<>>) \in Seq(Seq(Byte)) /\ Len(Chars(<<>>)) = 0
  BY <1>1, <1>2, CharsType
<1> QED
  BY <1>3, EmptySeq

LEMMA CopyAsPromised ==
  ASSUME EditorInv, EditorInv', Sound, AltC
  PROVE  Promise!Copy
<1>1. /\ selectedmode /\ cpbuf' = IF Broken THEN <<>> ELSE SubSeq(buffer, Low + 1, High)
      /\ UNCHANGED <<buffer, seek, selected, selectedmode, torn, wild>>
  BY DEF AltC
<1>2. Sound' = Sound /\ Broken' = Broken
  BY <1>1 DEF Sound, Broken, NoSelection
<1>3. Text' = Text /\ Place' = Place /\ Anchor' = Anchor
  BY <1>1, <1>2 DEF Text, Place, Anchor
<1>4. Clip' = Chars(cpbuf')
  BY <1>2 DEF Clip
<1>5. CASE Broken
  <2>1. Clip' = <<>> /\ Anchor = -2
    BY <1>1, <1>4, <1>5, CharsOfNone, SoundSelection
  <2> QED
    BY <1>2, <1>3, <2>1 DEF Promise!Copy, Promise!None, Promise!Lost
<1>6. CASE ~Broken
  <2>1. Clip' = Promise!Selected
    BY <1>1, <1>4, <1>6, SelectedSeen
  <2>2. Anchor \in Nat
    BY <1>1, <1>6, SoundSelection
  <2>3. Anchor # -1 /\ Anchor # -2
    BY <2>2
  <2> QED
    BY <1>2, <1>3, <2>1, <2>3 DEF Promise!Copy, Promise!None, Promise!Lost
<1> QED
  BY <1>5, <1>6

LEMMA SelectSeen ==
  ASSUME EditorInv, EditorInv', Sound, NEW s \in 0 .. Len(buffer), Border(buffer, s), ShiftTo(s)
  PROVE  Promise!SelectTo(Index(buffer, s))
<1>1. /\ buffer \in Seq(Byte) /\ Whole(buffer) /\ Len(buffer) \in Nat
      /\ seek \in 0 .. Len(buffer) /\ selected \in [0 .. 1 -> -1 .. MaxLen] /\ MaxLen \in Nat
  BY SoundState, BufferType DEF EditorInv, TypeOK
<1>2. /\ selectedmode' /\ seek' = ShiftedTo(buffer, Len(buffer), s)
      /\ selected' = [selected EXCEPT ![0] = s, ![1] = IF @ = -1 THEN seek ELSE @]
      /\ buffer' = buffer /\ cpbuf' = cpbuf /\ torn' = torn /\ ~torn
  BY DEF ShiftTo, Sound
<1>3. seek' = s
  <2>1. s \in Int /\ (Len(buffer) > 0 \/ s >= 0)
    BY <1>1
  <2> QED
    BY <1>1, <1>2, <2>1, ShiftIsBorder
<1>4. selected'[0] = s /\ selected'[1] = IF selected[1] = -1 THEN seek ELSE selected[1]
  BY <1>1, <1>2
<1>5. ~Broken'
  <2>1. NoSelection[0] = -1 /\ s # -1
    BY <1>1 DEF NoSelection
  <2>2. selected' # NoSelection
    BY <1>4, <2>1, Zenon
  <2> QED
    BY <2>2 DEF Broken, NoSelection
<1>6. Sound'
  <2>1. ~wild'
    BY <1>2, <1>5 DEF EditorInv, InBounds
  <2> QED
    BY <1>2, <2>1 DEF Sound
<1>7. Sound' = Sound
  BY <1>6 DEF Sound
<1>8. /\ Text' = Chars(buffer) /\ Clip' = Chars(cpbuf) /\ Place' = Index(buffer, s)
      /\ Anchor' = Index(buffer, selected'[1])
  BY <1>2, <1>3, <1>5, <1>6 DEF Text, Clip, Place, Anchor
<1>9. Text' = Text /\ Clip' = Clip /\ Place = Index(buffer, seek)
  BY <1>8, SoundText
<1>10. Anchor' = IF Anchor \in {-1, -2} THEN Place ELSE Anchor
  <2>1. CASE selectedmode /\ ~Broken
    <3>1. /\ selected[1] \in 0 .. Len(buffer)
          /\ Anchor = Index(buffer, selected[1]) /\ Anchor \in Nat
      BY <2>1, SoundSelection
    <3>2. selected'[1] = selected[1]
      BY <1>1, <1>4, <3>1
    <3>3. Anchor \notin {-1, -2}
      BY <3>1
    <3> QED
      BY <1>8, <3>1, <3>2, <3>3
  <2>2. CASE ~(selectedmode /\ ~Broken)
    <3>1. Anchor \in {-1, -2} /\ selected = NoSelection
      BY <2>2, SoundSelection
    <3>2. selected[1] = -1
      BY <3>1 DEF NoSelection
    <3>3. Anchor' = Place
      BY <1>4, <1>8, <1>9, <3>2
    <3> QED
      BY <3>1, <3>3
  <2> QED
    BY <2>1, <2>2
<1> QED
  BY <1>7, <1>8, <1>9, <1>10 DEF Promise!SelectTo, Promise!None, Promise!Lost

LEMMA SelectAsPromised ==
  ASSUME EditorInv, EditorInv', Sound
  PROVE  /\ ShiftLeft => Promise!SelectLeft
         /\ ShiftRight => Promise!SelectRight
<1>1. /\ buffer \in Seq(Byte) /\ Whole(buffer) /\ Len(buffer) \in Nat
      /\ seek \in 0 .. Len(buffer) /\ Border(buffer, seek)
  BY SoundState
<1>2. /\ Len(Text) = Index(buffer, Len(buffer)) /\ Len(Text) \in Nat
      /\ Place = Index(buffer, seek) /\ Place \in 0 .. Len(Text)
  BY SoundText
<1>3. ASSUME ShiftLeft PROVE Promise!SelectLeft
  <2> DEFINE s == LeftOf(buffer, seek)
  <2>1. seek > 0 /\ ShiftTo(s)
    BY <1>3 DEF ShiftLeft
  <2>2. s \in 0 .. seek - 1 /\ Border(buffer, s) /\ Index(buffer, s) = Index(buffer, seek) - 1
    BY <1>1, <2>1, LeftIsLast
  <2> HIDE DEF s
  <2>3. s \in 0 .. Len(buffer)
    BY <1>1, <2>2
  <2>4. Index(buffer, s) \in Nat
    BY <1>1, <2>3, IndexStep
  <2>5. Place > 0 /\ Index(buffer, s) = Place - 1
    BY <1>2, <2>2, <2>4
  <2>6. Promise!SelectTo(Index(buffer, s))
    BY <2>1, <2>2, <2>3, SelectSeen
  <2> QED
    BY <2>5, <2>6 DEF Promise!SelectLeft
<1>4. ASSUME ShiftRight PROVE Promise!SelectRight
  <2> DEFINE s == RightOf(buffer, seek)
  <2>1. seek # Len(buffer) /\ ShiftTo(s)
    BY <1>4 DEF ShiftRight
  <2>2. seek < Len(buffer)
    BY <1>1, <2>1
  <2>3. s \in seek + 1 .. Len(buffer) /\ Border(buffer, s)
        /\ Index(buffer, s) = Index(buffer, seek) + 1
    BY <1>1, <2>2, RightIsNext
  <2> HIDE DEF s
  <2>4. s \in 0 .. Len(buffer) /\ Len(buffer) \in s .. Len(buffer)
    BY <1>1, <2>3
  <2>5. Index(buffer, s) <= Index(buffer, Len(buffer))
    BY <1>1, <2>4, IndexGrows
  <2>6. Place < Len(Text) /\ Index(buffer, s) = Place + 1
    BY <1>2, <2>3, <2>5
  <2>7. Promise!SelectTo(Index(buffer, s))
    BY <2>1, <2>3, <2>4, SelectSeen
  <2> QED
    BY <2>6, <2>7 DEF Promise!SelectRight
<1> QED
  BY <1>3, <1>4

LEMMA PasteAsPromised ==
  ASSUME EditorInv, EditorInv', Sound, AltV
  PROVE  Promise!Paste
<1>1. /\ buffer \in Seq(Byte) /\ Whole(buffer) /\ Len(buffer) \in Nat
      /\ cpbuf \in Seq(Byte) /\ Whole(cpbuf) /\ Len(cpbuf) \in Nat
      /\ seek \in 0 .. Len(buffer) /\ Border(buffer, seek)
  BY SoundState
<1>2. /\ Text = Chars(buffer) /\ Clip = Chars(cpbuf) /\ Place = Index(buffer, seek)
      /\ Len(Clip) = Index(cpbuf, Len(cpbuf)) /\ Len(Clip) \in Nat /\ Place \in Nat
  BY <1>1, SoundText, IndexStep
<1> DEFINE b == Joined(cpbuf)
           steps == Characters(cpbuf)
           ahead == Ahead(b, Printed(b, 0))
           last == {i \in ahead : Cardinality({j \in ahead : j <= i}) = steps + 1}
           past == seek + Len(cpbuf)
<1>3. /\ cpbuf # <<>> /\ buffer' = b /\ seek' = Min(last \cup {Len(b)})
      /\ ~selectedmode' /\ cpbuf' = cpbuf /\ torn' = torn /\ ~torn
  BY DEF AltV, Sound
<1>4. steps = Len(Clip)
  BY <1>1, <1>2, CharactersIsIndex
<1>5. /\ Chars(b) = SubSeq(Text, 1, Place) \o Clip \o SubSeq(Text, Place + 1, Len(Text))
      /\ Index(b, seek) = Place /\ Border(b, seek)
      /\ Index(b, past) = Place + Len(Clip)
      /\ Border(b, past) /\ past \in seek .. Len(b)
  <2>1. /\ Chars(b) = SubSeq(Chars(buffer), 1, Index(buffer, seek)) \o Chars(cpbuf)
                      \o SubSeq(Chars(buffer), Index(buffer, seek) + 1, Len(Chars(buffer)))
        /\ Index(b, seek) = Index(buffer, seek) /\ Border(b, seek)
        /\ Index(b, past) = Index(buffer, seek) + Index(cpbuf, Len(cpbuf))
        /\ Border(b, past) /\ past \in seek .. Len(b)
    BY <1>1, CharsMore DEF Joined
  <2> HIDE DEF b, past
  <2> QED
    BY <1>2, <2>1
<1>6. b \in Seq(Byte) /\ Whole(b)
  BY <1>1, JoinedIsWhole
<1> HIDE DEF b
<1>7. Len(b) \in Nat /\ seek \in 0 .. Len(b) /\ past \in 0 .. Len(b) /\ past \in Nat
  BY <1>1, <1>5, <1>6
<1>8. Printed(b, 0) = seek
  <2>1. seek + 0 = seek
    BY <1>1
  <2>2. seek + 0 \in 0 .. Len(b) /\ Border(b, seek + 0)
    BY <1>5, <1>7, <2>1
  <2> QED
    BY <1>6, <2>1, <2>2, PrintedAt
<1>9. ahead = {i \in seek .. Len(b) : Border(b, i)}
  BY <1>5, <1>6, <1>7, <1>8, AheadIsBorders
<1>10. \A i \in ahead : i \in seek .. Len(b) /\ Border(b, i)
                        /\ Cardinality({j \in ahead : j <= i}) = Index(b, i) - Place + 1
  <2> TAKE i \in ahead
  <2>1. i \in seek .. Len(b) /\ Border(b, i)
    BY <1>9
  <2> QED
    BY <1>5, <1>6, <1>7, <1>8, <2>1, StepsAhead
<1> HIDE DEF steps, past
<1>11. past \in last
  <2>1. past \in ahead
    BY <1>5, <1>9
  <2>2. Cardinality({j \in ahead : j <= past}) = Index(b, past) - Place + 1
    BY <1>10, <2>1
  <2>3. Index(b, past) - Place + 1 = steps + 1
    BY <1>2, <1>4, <1>5
  <2> QED
    BY <2>1, <2>2, <2>3
<1>12. \A i \in last : i = past
  <2> TAKE i \in last
  <2>1. i \in ahead /\ Cardinality({j \in ahead : j <= i}) = steps + 1
    OBVIOUS
  <2>2. i \in seek .. Len(b) /\ Border(b, i) /\ Index(b, i) - Place + 1 = steps + 1
    BY <1>10, <2>1
  <2>3. i \in 0 .. Len(b)
    BY <1>1, <2>2
  <2>4. Index(b, i) \in Nat
    BY <1>6, <2>3, IndexStep
  <2>5. Index(b, i) = Index(b, past)
    <3>1. \A n \in Nat : n - Place + 1 = Len(Clip) + 1 => n = Place + Len(Clip)
      BY <1>2
    <3>2. Index(b, i) - Place + 1 = Len(Clip) + 1
      BY <1>4, <2>2
    <3> QED
      BY <1>5, <2>4, <3>1, <3>2
  <2> QED
    BY <1>5, <1>6, <1>7, <2>2, <2>3, <2>5, IndexOrder
<1> HIDE DEF last
<1>13. seek' = past
  <2> DEFINE S == last \cup {Len(b)}
  <2>1. S = {past, Len(b)}
    BY <1>11, <1>12
  <2>2. S \subseteq Int /\ past \in S /\ \A i \in S : past <= i
    BY <1>5, <1>7, <2>1
  <2>3. seek' = Min(S)
    BY <1>3
  <2> HIDE DEF S
  <2> QED
    BY <2>2, <2>3, MinIs
<1>14. /\ Sound' /\ Text' = Chars(b) /\ Clip' = Chars(cpbuf)
       /\ Place' = Index(b, past) /\ Anchor' = -1
  BY <1>3, <1>13, SoundNext
<1>15. Sound' = Sound
  BY <1>14 DEF Sound
<1>16. Clip # <<>>
  <2>1. Len(cpbuf) > 0
    BY <1>1, <1>3, EmptySeq
  <2>2. 0 \in 0 .. Len(cpbuf) /\ Len(cpbuf) \in 0 .. Len(cpbuf)
        /\ Border(cpbuf, 0) /\ Border(cpbuf, Len(cpbuf))
    BY <1>1 DEF Border
  <2>3. Index(cpbuf, 0) < Index(cpbuf, Len(cpbuf)) /\ Index(cpbuf, 0) = 0
    BY <1>1, <2>1, <2>2, IndexOrder, IndexStep
  <2>4. Len(Clip) > 0
    BY <1>2, <2>3
  <2> QED
    BY <2>4
<1> QED
  BY <1>2, <1>5, <1>14, <1>15, <1>16
     DEF Promise!Paste, Promise!Become, Promise!Before, Promise!After, Promise!None

-----------------------------------------------------------------------------
(* The bytes implement the characters                                      *)

LEMMA EnterAsPromised ==
  ASSUME Enter
  PROVE  Promise!NewLine
<1>1. /\ buffer' = <<>> /\ seek' = 0 /\ ~selectedmode' /\ cpbuf' = <<>> /\ ~torn' /\ ~wild'
  BY DEF Enter
<1>2. Sound' = TRUE
  BY <1>1 DEF Sound
<1>3. <<>> \in Seq(Byte) /\ Len(<<>>) = 0 /\ 0 \in 0 .. Len(<<>>)
  OBVIOUS
<1>4. Index(<<>>, 0) = 0
  BY <1>3, IndexStep
<1>5. /\ Text' = Chars(buffer') /\ Clip' = Chars(cpbuf')
      /\ Place' = Index(buffer', seek') /\ Anchor' = -1
  BY <1>1, <1>2 DEF Text, Clip, Place, Anchor
<1>6. Text' = <<>> /\ Clip' = <<>> /\ Place' = 0
  BY <1>1, <1>4, <1>5, CharsOfNone
<1> QED
  BY <1>2, <1>5, <1>6 DEF Promise!NewLine, Promise!None

LEMMA UnselectAsPromised ==
  ASSUME EditorInv, EditorInv', Sound, Unselect
  PROVE  Promise!RowUp
<1>1. selectedmode /\ cpbuf' = cpbuf /\ torn' = torn /\ ~torn
  BY DEF Unselect, Sound
<1>2. Unselected = seek /\ Printed(buffer, 0) = seek
  BY <1>1, SoundState DEF Unselected
<1>3. buffer' = buffer /\ seek' = seek /\ ~selectedmode'
  BY <1>2 DEF Unselect, Rewrite
<1>4. /\ Sound' /\ Text' = Chars(buffer) /\ Clip' = Chars(cpbuf)
      /\ Place' = Index(buffer, seek) /\ Anchor' = -1
  BY <1>1, <1>3, SoundNext
<1>5. Sound' = Sound
  BY <1>4 DEF Sound
<1>6. Promise!MoveTo(Place)
  BY <1>4, <1>5, SoundText DEF Promise!MoveTo, Promise!None
<1>7. Place \in Nat
  BY SoundText
<1>8. Place \in 0 .. Place
  BY <1>7
<1> QED
  BY <1>6, <1>8 DEF Promise!RowUp

LEMMA ResizeAsPromised ==
  ASSUME EditorInv, Sound, ResizeInEscape
  PROVE  Promise!LoseSelection \/ UNCHANGED Promise!vars
<1>1. /\ selected' = NoSelection
      /\ UNCHANGED <<buffer, seek, selectedmode, cpbuf, torn, wild>>
  BY DEF ResizeInEscape
<1>2. Sound' = Sound
  BY <1>1 DEF Sound
<1>3. Text' = Text /\ Clip' = Clip /\ Place' = Place
  BY <1>1, <1>2 DEF Text, Clip, Place
<1>4. CASE ~selectedmode
  <2>1. Anchor' = Anchor
    BY <1>1, <1>4 DEF Anchor
  <2> QED
    BY <1>2, <1>3, <2>1 DEF Promise!vars
<1>5. CASE selectedmode
  <2>1. Broken'
    BY <1>1, <1>5 DEF Broken, NoSelection
  <2>2. Anchor' = -2
    BY <1>1, <1>2, <1>5, <2>1 DEF Anchor
  <2>3. Anchor = -2 \/ Anchor \in Nat
    BY <1>5, SoundSelection
  <2>4. Anchor # -1
    BY <2>3
  <2> QED
    BY <1>2, <1>3, <2>2, <2>4 DEF Promise!LoseSelection, Promise!None, Promise!Lost
<1> QED
  BY <1>4, <1>5

\* Until the line ends, what is broken stays so, and shows nothing.
LEMMA UnsoundStays ==
  ASSUME ~Sound, [Next]_vars
  PROVE  Enter \/ UNCHANGED Promise!vars
<1>1. SUFFICES ASSUME ~Enter PROVE UNCHANGED Promise!vars
  OBVIOUS
<1>2. torn \/ wild
  BY DEF Sound
<1>3. CASE UNCHANGED vars
  <2>1. UNCHANGED <<torn, wild>>
    BY <1>3 DEF vars
  <2> QED
    BY <2>1, <1>2 DEF Promise!vars, Text, Clip, Place, Anchor, Sound
<1>4. CASE Next
  <2>1. ~wild
    BY <1>1, <1>4 DEF Next, Insert, Recall, Left, Right, Home, End, AltLeft, AltRight, AltUp,
      AltDown, ShiftLeft, ShiftRight, Backspace, BackspaceSelect, AltX, AltC, AltV, Delete,
      Unselect, ResizeInEscape, MoveTo, ShiftTo, Rewrite, Key
  <2>2. torn'
    <3>1. torn
      BY <1>2, <2>1
    <3>2. CASE Recall \/ Delete
      BY <3>1, <3>2, Zenon DEF Recall, Delete
    <3>3. CASE ~(Recall \/ Delete)
      <4>1. torn' = torn
        BY <1>1, <1>4, <3>3 DEF Next, Insert, Left, Right, Home, End, AltLeft, AltRight, AltUp,
          AltDown, ShiftLeft, ShiftRight, Backspace, BackspaceSelect, AltX, AltC, AltV,
          Unselect, ResizeInEscape, MoveTo, ShiftTo, GoWild
      <4> QED
        BY <3>1, <4>1
    <3> QED
      BY <3>2, <3>3
  <2> QED
    BY <2>2 DEF Promise!vars, Text, Clip, Place, Anchor, Sound
<1> QED
  BY <1>3, <1>4

LEMMA KeyDoesAsPromised ==
  ASSUME EditorInv, EditorInv'
  PROVE  KeyAsPromised
BY KeysMoveAsPromised, WordsAsPromised, InsertAsPromised, RecallAsPromised,
   BackspaceAsPromised, DeleteAsPromised, RemoveAsPromised, CopyAsPromised,
   SelectAsPromised, PasteAsPromised
   DEF KeyAsPromised

LEMMA StepAsPromised ==
  ASSUME EditorInv, EditorInv', [Next]_vars
  PROVE  [Promise!Next]_(Promise!vars)
<1>1. CASE ~Sound
  <2>1. CASE Enter
    BY <2>1, EnterAsPromised DEF Promise!Next
  <2>2. CASE ~Enter
    BY <1>1, <2>2, UnsoundStays
  <2> QED
    BY <2>1, <2>2
<1>2. CASE Sound /\ UNCHANGED vars
  BY <1>2 DEF vars, Promise!vars, Text, Clip, Place, Anchor, Sound, Broken, NoSelection
<1>3. CASE Sound /\ Next
  <2>1. CASE Enter
    BY <2>1, EnterAsPromised DEF Promise!Next
  <2>2. CASE Unselect
    BY <1>3, <2>2, UnselectAsPromised DEF Promise!Next, Promise!Keys
  <2>3. CASE ResizeInEscape
    BY <1>3, <2>3, ResizeAsPromised DEF Promise!Next, Promise!Keys
  <2>4. CASE ~(Enter \/ Unselect \/ ResizeInEscape)
    <3>1. KeyAsPromised
      BY KeyDoesAsPromised
    <3>2. Promise!Keys
      BY <1>3, <2>4, <3>1 DEF Next, KeyAsPromised, Promise!Keys
    <3> QED
      BY <1>3, <3>2 DEF Promise!Next
  <2> QED
    BY <2>1, <2>2, <2>3, <2>4
<1> QED
  BY <1>1, <1>2, <1>3

\* The bytes implement the editor of characters: on a line of any length, with any
\* characters and any clipboard, every key does to the characters what it promises to,
\* until a character is torn.
THEOREM ImplementsEditor == Spec => Promised
<1>1. Init => Promise!Init
  <2> SUFFICES ASSUME Init PROVE Promise!Init
    OBVIOUS
  <2>1. /\ buffer = <<>> /\ seek = 0 /\ ~selectedmode /\ cpbuf = <<>> /\ ~torn /\ ~wild
    BY DEF Init
  <2>2. Sound = TRUE
    BY <2>1 DEF Sound
  <2>3. <<>> \in Seq(Byte) /\ Len(<<>>) = 0 /\ 0 \in 0 .. Len(<<>>)
    OBVIOUS
  <2>4. Index(<<>>, 0) = 0
    BY <2>3, IndexStep
  <2>5. Text = <<>> /\ Clip = <<>> /\ Place = 0 /\ Anchor = -1
    BY <2>1, <2>2, <2>4, CharsOfNone DEF Text, Clip, Place, Anchor
  <2> QED
    BY <2>2, <2>5 DEF Promise!Init, Promise!None
<1>2. EditorInv /\ EditorInv' /\ [Next]_vars => KeyAsPromised /\ [Promise!Next]_(Promise!vars)
  BY KeyDoesAsPromised, StepAsPromised
<1> QED
  BY <1>1, <1>2, EditorInvariant, PTL DEF Spec, Promised, KeysAsPromised, Promise!Spec

=============================================================================
