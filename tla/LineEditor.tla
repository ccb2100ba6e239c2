------------------------------ MODULE LineEditor ------------------------------
(***************************************************************************)
(* The line editor of 21sh: the buffer as bytes, the seek position, the    *)
(* selection and the clipboard, under every key of g_esc and under a       *)
(* window change.  Characters have one or several bytes, and each motion   *)
(* is a loop that finds their borders by the top bits of the bytes.        *)
(*                                                                         *)
(* Offsets count from 0, as in C: the byte at offset i is buffer[i + 1].   *)
(* The cursor on the screen is in Screen; here the two keys that compare   *)
(* its columns stop at a choice of places.  What the history does is in    *)
(* History; here a line comes from it ready made.                          *)
(***************************************************************************)
EXTENDS Integers, Sequences, FiniteSetsExt, SequencesExt

CONSTANTS
  Byte,
  Lead,     \* first bytes of a character of several: 110xxxxx, 1110xxxx ...
  Cont,     \* the bytes that follow it: 10xxxxxx
  Blank,    \* " " and "\n"
  Letter,   \* what one key inserts: all the bytes of a character
  Recalled, \* lines that Up and Down may bring
  MaxLen    \* bound: bytes in the buffer

IsCharacter(c) ==
  \/ Len(c) = 1 /\ c[1] \notin Lead \cup Cont
  \/ Len(c) > 1 /\ c[1] \in Lead /\ \A i \in 2 .. Len(c) : c[i] \in Cont

ASSUME ByteAssumption ==
  /\ Lead \subseteq Byte /\ Cont \subseteq Byte /\ Blank \subseteq Byte
  /\ Lead \cap Cont = {} /\ Blank \cap (Lead \cup Cont) = {}
  /\ Letter \subseteq Seq(Byte)
  /\ \A l \in Letter : IsCharacter(l)
  /\ \A b \in Recalled : b \in Seq(Byte) /\ Len(b) <= MaxLen
  /\ MaxLen \in Nat

VARIABLES
  buffer,
  seek,
  selected,      \* selected[0], the moving end, and selected[1], the anchor
  selectedmode,
  cpbuf,         \* the clipboard; NULL is empty
  torn,          \* auxiliary: Delete has taken a part of a character, or the line
                 \* that was recalled is one where it had
  wild           \* auxiliary: memory outside of the buffer was touched

vars == <<buffer, seek, selected, selectedmode, cpbuf, torn, wild>>

NoSelection == [i \in 0 .. 1 |-> -1]

TypeOK ==
  /\ buffer \in Seq(Byte) /\ Len(buffer) <= MaxLen
  /\ seek \in 0 .. Len(buffer)
  /\ selected \in [0 .. 1 -> -1 .. MaxLen]
  /\ selectedmode \in BOOLEAN
  /\ cpbuf \in Seq(Byte) /\ Len(cpbuf) <= MaxLen
  /\ torn \in BOOLEAN
  /\ wild \in BOOLEAN

Init ==
  /\ buffer = <<>>
  /\ seek = 0
  /\ selected = NoSelection
  /\ selectedmode = FALSE
  /\ cpbuf = <<>>
  /\ torn = FALSE
  /\ wild = FALSE

-----------------------------------------------------------------------------
(* Motions over bytes                                                      *)

\* Offsets where the loop "while the byte before is 10xxxxxx" may stop.
Stops(b) == {i \in 0 .. Len(b) - 1 : i = 0 \/ b[i + 1] \notin Cont}

\* line_editing_left
LeftOf(b, s) == IF s = 0 THEN 0 ELSE Max({i \in Stops(b) : i < s})

\* Offset i is among the 10xxxxxx bytes of a character that begins at s or later.
Inside(b, s, i) ==
  \E j \in s + 1 .. i : b[j] \in Lead /\ \A k \in j + 1 .. i + 1 : b[k] \in Cont

\* The offsets that line_editing_right goes through from s.
Ahead(b, s) == {i \in s .. Len(b) : i \in {s, Len(b)} \/ ~Inside(b, s, i)}

\* line_editing_right and line_editing_right_incrseek
RightOf(b, s) == IF s >= Len(b) THEN s ELSE Min(Ahead(b, s) \ {s})

\* left_shift_cursor(s - to) from s: whole characters, so it may go further.
ShiftedTo(b, s, to) ==
  IF to >= s THEN s ELSE Max({i \in Stops(b) : i = 0 \/ i <= to})

\* Going left to the beginning runs out of the buffer if what is there is not
\* the beginning of a character.
Underruns(b, from, to) == to = 0 /\ from > 0 /\ b[1] \in Cont

\* print_buffer: to the beginning, write the line, and back to seek + offset.
Printed(b, offset) == ShiftedTo(b, Len(b), seek + offset)
PrintUnderruns(b, offset) ==
  Underruns(buffer, seek, 0) \/ Underruns(b, Len(b), Printed(b, offset))

\* le_unselect reprints the line if the key is not going to.
Unselected == IF selectedmode THEN Printed(buffer, 0) ELSE seek
UnselectUnderruns == selectedmode /\ PrintUnderruns(buffer, 0)

\* line_editing_begword
BegWord(b, s) ==
  LET one == LeftOf(b, s)
      in == Max({i \in Stops(b) : i <= one /\ (i = 0 \/ b[i + 1] \notin Blank)})
  IN Max({i \in Stops(b) : i <= in /\ (i = 0 \/ b[i] \in Blank)})

\* line_editing_endword
EndWord(b, s) ==
  LET one == RightOf(b, s)
      in == Min({i \in Ahead(b, one) : i = Len(b) \/ b[i + 1] \notin Blank})
  IN Min({i \in Ahead(b, in) : i = Len(b) \/ b[i + 1] \in Blank})

Low == Min({selected[0], selected[1]})
High == Max({selected[0], selected[1]})

\* ft_strjoin_inner at the cursor.
Joined(l) == SubSeq(buffer, 1, seek) \o l \o SubSeq(buffer, seek + 1, Len(buffer))

\* ft_ustrlen: the steps to the right that it takes to pass b.
Characters(b) == Cardinality(Ahead(b, 0)) - 1

\* Only whole characters: each has all its bytes.
Whole(b) ==
  \A i \in 1 .. Len(b) :
    /\ b[i] \in Cont => i > 1 /\ b[i - 1] \in Lead \cup Cont
    /\ b[i] \in Lead => i < Len(b) /\ b[i + 1] \in Cont

\* A window change has taken the ends of the selection away, not the mode.
Broken == selectedmode /\ selected = NoSelection

-----------------------------------------------------------------------------
(* Building blocks of the actions                                          *)

\* Any key, as long as the program has not left its memory.
Key == ~wild

\* A motion to the offset s, after le_unselect.
MoveTo(s) ==
  /\ Key
  /\ seek' = s
  /\ selected' = IF selectedmode THEN NoSelection ELSE selected
  /\ selectedmode' = FALSE
  /\ wild' = (UnselectUnderruns \/ Underruns(buffer, Unselected, s))
  /\ UNCHANGED <<buffer, cpbuf, torn>>

\* The buffer is replaced and printed; the selection is over.
Rewrite(b, offset) ==
  /\ Key
  /\ buffer' = b
  /\ seek' = Printed(b, offset)
  /\ selected' = NoSelection
  /\ selectedmode' = FALSE
  /\ wild' = PrintUnderruns(b, offset)

\* ft_strsub with a length of -1.
GoWild ==
  /\ wild' = TRUE
  /\ UNCHANGED <<buffer, seek, selected, selectedmode, cpbuf, torn>>

-----------------------------------------------------------------------------
(* The keys                                                                *)

\* input_command_print_buffer
Insert ==
  \E l \in Letter :
    /\ Len(buffer) + Len(l) <= MaxLen
    /\ Rewrite(Joined(l), Len(l))
    /\ UNCHANGED <<cpbuf, torn>>

\* Up and Down, when they find a line.
Recall ==
  /\ Key
  /\ \E b \in Recalled : buffer' = b /\ seek' = Len(b) /\ torn' = (torn \/ ~Whole(b))
  /\ selected' = NoSelection
  /\ selectedmode' = FALSE
  /\ wild' = Underruns(buffer, seek, 0)
  /\ UNCHANGED cpbuf

\* Fault: one byte to the left.
LeftByte == MoveTo(Max({Unselected - 1, 0}))

Left == MoveTo(LeftOf(buffer, Unselected))
Right == MoveTo(RightOf(buffer, Unselected))
Home == MoveTo(0)

\* line_editing_end
End == MoveTo(Len(buffer))

AltLeft ==
  /\ Unselected > 0
  /\ MoveTo(BegWord(buffer, Unselected))

AltRight ==
  /\ Unselected < Len(buffer)
  /\ MoveTo(EndWord(buffer, Unselected))

\* line_editing_altup: left until the column of the screen is the same again.
AltUp ==
  /\ Unselected > 0
  /\ \E s \in Stops(buffer) : s < Unselected /\ MoveTo(s)

AltDown ==
  /\ Unselected < Len(buffer)
  /\ \E s \in Ahead(buffer, Unselected) : s > Unselected /\ MoveTo(s)

\* line_editing_shiftleft, _shiftright: the line is printed with the selection.
ShiftTo(s) ==
  /\ Key
  /\ selectedmode' = TRUE
  /\ selected' = [selected EXCEPT ![0] = s, ![1] = IF @ = -1 THEN seek ELSE @]
  /\ seek' = ShiftedTo(buffer, Len(buffer), s)
  /\ wild' = (Underruns(buffer, seek, s) \/ Underruns(buffer, s, 0)
              \/ Underruns(buffer, Len(buffer), seek'))
  /\ UNCHANGED <<buffer, cpbuf, torn>>

ShiftLeft == seek > 0 /\ ShiftTo(LeftOf(buffer, seek))
ShiftRight == seek # Len(buffer) /\ ShiftTo(RightOf(buffer, seek))

\* Fault: line_editing_backspace takes one byte.
BackspaceByte ==
  /\ ~selectedmode /\ seek > 0
  /\ Rewrite(RemoveAt(buffer, seek), -1)
  /\ UNCHANGED <<cpbuf, torn>>

\* line_editing_backspace without a selection.
Backspace ==
  /\ ~selectedmode /\ seek > 0
  /\ LET s == LeftOf(buffer, seek)
     IN Rewrite(SubSeq(buffer, 1, s) \o SubSeq(buffer, seek + 1, Len(buffer)), s - seek)
  /\ UNCHANGED <<cpbuf, torn>>

\* Fault: the offset does not depend on the direction of the selection.
RemoveSelectedInPlace ==
  Rewrite(SubSeq(buffer, 1, Low) \o SubSeq(buffer, High + 1, Len(buffer)), 0)

\* The buffer without the selection, the cursor where it was.
RemoveSelected ==
  Rewrite(SubSeq(buffer, 1, Low) \o SubSeq(buffer, High + 1, Len(buffer)),
          IF selected[1] < selected[0] THEN Low - High ELSE 0)

\* line_editing_backspace_select
BackspaceSelect ==
  /\ Key
  /\ selectedmode
  /\ IF Broken THEN GoWild ELSE RemoveSelected /\ UNCHANGED <<cpbuf, torn>>

\* line_editing_altx
AltX ==
  /\ Key
  /\ selectedmode
  /\ IF Broken THEN GoWild
     ELSE /\ RemoveSelected
          /\ cpbuf' = SubSeq(buffer, Low + 1, High)
          /\ UNCHANGED torn

\* line_editing_altc: ft_strsub of length 0 is NULL.
AltC ==
  /\ Key
  /\ selectedmode
  /\ cpbuf' = IF Broken THEN <<>> ELSE SubSeq(buffer, Low + 1, High)
  /\ UNCHANGED <<buffer, seek, selected, selectedmode, torn, wild>>

\* line_editing_altv: insert, then one step to the right for each character.
AltV ==
  /\ cpbuf # <<>>
  /\ Len(buffer) + Len(cpbuf) <= MaxLen
  /\ LET b == Joined(cpbuf)
         steps == Characters(cpbuf)
         ahead == Ahead(b, Printed(b, 0))
         last == {i \in ahead : Cardinality({j \in ahead : j <= i}) = steps + 1}
     IN /\ Key
        /\ buffer' = b
        /\ seek' = Min(last \cup {Len(b)})
        /\ wild' = PrintUnderruns(b, 0)
  /\ selected' = NoSelection
  /\ selectedmode' = FALSE
  /\ UNCHANGED <<cpbuf, torn>>

\* line_editing_del, and line_editing_eot on a buffer that is not empty: one byte.
Delete ==
  /\ seek < Len(buffer)
  /\ Rewrite(RemoveAt(buffer, seek + 1), 0)
  /\ torn' = (torn \/ buffer[seek + 1] \in Lead \cup Cont)
  /\ UNCHANGED cpbuf

-----------------------------------------------------------------------------
(* Signals, and the end of the line                                        *)

\* Giving up the selection and nothing else: SIGWINCH between two keys, or a key
\* that finds nothing to do, with or without printing the line again.
Unselect ==
  /\ selectedmode
  /\ \/ Rewrite(buffer, 0)
     \/ /\ Key
        /\ selected' = NoSelection /\ selectedmode' = FALSE
        /\ UNCHANGED <<buffer, seek, wild>>
  /\ UNCHANGED <<cpbuf, torn>>

\* SIGWINCH between the bytes of an escape sequence: the ends of the selection
\* are forgotten and the escape is dropped before le_unselect.
ResizeInEscape ==
  /\ Key
  /\ selected' = NoSelection
  /\ UNCHANGED <<buffer, seek, selectedmode, cpbuf, torn, wild>>

\* Enter, Ctrl-C, or Ctrl-D on an empty buffer: the next line starts afresh.
Enter ==
  /\ Key
  /\ buffer' = <<>> /\ seek' = 0
  /\ selected' = NoSelection /\ selectedmode' = FALSE
  /\ cpbuf' = <<>>
  /\ torn' = FALSE /\ wild' = FALSE

Next ==
  \/ Insert \/ Recall \/ Left \/ Right \/ Home \/ End \/ AltLeft \/ AltRight
  \/ AltUp \/ AltDown \/ ShiftLeft \/ ShiftRight \/ Backspace \/ BackspaceSelect
  \/ AltX \/ AltC \/ AltV \/ Delete \/ Unselect \/ ResizeInEscape \/ Enter

Spec == Init /\ [][Next]_vars

-----------------------------------------------------------------------------
(* Properties                                                              *)

\* The characters that begin before the offset s.
Index(b, s) == Cardinality({i \in 1 .. s : b[i] \notin Cont})

Border(b, s) == s \in {0, Len(b)} \/ b[s + 1] \notin Cont

\* The buffer and the clipboard are made of whole characters, and the cursor and
\* both ends of a selection lie between two of them, with the moving end at the
\* cursor, until a Delete tears a character or a torn line is recalled.
WholeCharacters ==
  ~torn =>
    /\ Whole(buffer) /\ Whole(cpbuf)
    /\ Border(buffer, seek)
    /\ IF selectedmode /\ ~Broken
       THEN selected[0] = seek /\ Border(buffer, selected[1])
       ELSE selected = NoSelection

\* The buffer is never read or written outside of its bounds, by no loop and by
\* no cut, but for a torn character or a selection that has lost its ends.
InBounds == wild => torn \/ Broken

\* The editor the user sees.
Sound == ~torn /\ ~wild

Chars(b) ==
  [k \in 1 .. Index(b, Len(b)) |->
     LET first == CHOOSE i \in 1 .. Len(b) : b[i] \notin Cont /\ Index(b, i) = k
         after == {i \in first + 1 .. Len(b) : b[i] \notin Cont}
     IN SubSeq(b, first, Min(after \cup {Len(b) + 1}) - 1)]

\* Also those that no key inserts: Delete may leave a whole character of a torn one,
\* and it comes back with the line.
Character == {c \in UNION {[1 .. n -> Byte] : n \in 1 .. MaxLen} : IsCharacter(c)}

WideCharacter == {c \in Character : Len(c) > 1}

Space == {<<c>> : c \in Blank}

Text == IF Sound THEN Chars(buffer) ELSE <<>>

Place == IF Sound THEN Index(buffer, seek) ELSE 0

Anchor ==
  IF ~Sound \/ ~selectedmode THEN -1
  ELSE IF Broken THEN -2 ELSE Index(buffer, selected[1])

Clip == IF Sound THEN Chars(cpbuf) ELSE <<>>

Promise == INSTANCE Editor WITH
  Char <- Character, Wide <- WideCharacter, Space <- Space,
  text <- Text, cursor <- Place, sel <- Anchor, clip <- Clip, ok <- Sound

\* Each key does what its own promise says, not just what some key might.
KeyAsPromised ==
  Sound =>
    /\ Insert => Promise!Insert
    /\ Recall => IF torn' THEN Promise!RecallTorn ELSE Promise!Recall
    /\ Left => Promise!Left
    /\ Right => Promise!Right
    /\ Home => Promise!Home
    /\ End => Promise!End
    /\ AltLeft => Promise!WordLeft
    /\ AltRight => Promise!WordRight
    /\ AltUp => Promise!RowUp
    /\ AltDown => Promise!RowDown
    /\ ShiftLeft => Promise!SelectLeft
    /\ ShiftRight => Promise!SelectRight
    /\ Backspace => Promise!Backspace
    /\ BackspaceSelect => Promise!Remove
    /\ AltX => Promise!Cut
    /\ AltC => Promise!Copy
    /\ AltV => Promise!Paste
    /\ Delete => Promise!Delete

KeysAsPromised == [][KeyAsPromised]_vars

\* The bytes implement the editor of characters, as a whole and key by key, until a
\* Delete tears a character or a torn line is recalled.
Promised == Promise!Spec /\ KeysAsPromised

=============================================================================
