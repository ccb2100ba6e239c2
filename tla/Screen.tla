-------------------------------- MODULE Screen --------------------------------
(***************************************************************************)
(* Where 21sh believes the cursor to be: curpos, kept by write_line and by *)
(* each step to the left or the right, against where a terminal puts it.   *)
(*                                                                         *)
(* Rows and columns count from 0.  A terminal that has written in its last *)
(* column wraps only for the next character; until then the cursor is said *)
(* to be in column ws_col.                                                 *)
(*                                                                         *)
(* The line is a sequence of whole characters, seek the number of those    *)
(* before the cursor: that the bytes keep them whole is LineEditor's.      *)
(***************************************************************************)
EXTENDS Integers, Sequences, FiniteSetsExt, SequencesExt

CONSTANTS
  Char,
  Wide,       \* characters of several bytes
  Newline,
  ws_col, ws_row,
  Recalled,   \* lines that Up and Down may bring
  PromptCols, \* columns in which a line may begin, behind what a program wrote
  MaxLen,     \* bound: characters of the line
  MaxDrift    \* bound: rows that curpos may get outside of the screen

PromptWidth == 3

ASSUME ScreenAssumption ==
  /\ Wide \subseteq Char /\ Newline \in Char \ Wide
  /\ ws_row \in Nat \ {0} /\ MaxLen \in Nat /\ MaxDrift \in Nat
  /\ PromptCols \subseteq PromptWidth .. ws_col - 1
  /\ \A t \in Recalled : t \in Seq(Char) /\ Len(t) <= MaxLen

VARIABLES
  text, seek,
  row, col,   \* curpos[0] and curpos[1]
  cursor,     \* the terminal's cursor
  start,      \* the place on the screen where the line begins
  lost        \* auxiliary: curpos has gone wrong and the line was not printed since

vars == <<text, seek, row, col, cursor, start, lost>>

At(r, c) == [row |-> r, col |-> c]

TypeOK ==
  /\ text \in Seq(Char) /\ Len(text) <= MaxLen
  /\ seek \in 0 .. Len(text)
  /\ row \in -MaxDrift .. ws_row - 1 + MaxDrift /\ col \in Nat
  /\ cursor \in [row : 0 .. ws_row - 1, col : 0 .. ws_col]
  /\ start.row < ws_row /\ start.col \in PromptWidth .. ws_col - 1
  /\ lost \in BOOLEAN

-----------------------------------------------------------------------------
(* The terminal                                                            *)

Newlines(t) == {i \in DOMAIN t : t[i] = Newline}

\* What stands before character s + 1 in its line: a line of the text begins
\* behind each newline.
LineStart(t, s) == Max({0} \cup {i \in Newlines(t) : i <= s})
Width(t, first, s) == s - LineStart(t, s) + IF LineStart(t, s) = 0 THEN first ELSE 0

\* The rows of a line of this width.
Rows(width) == IF width = 0 THEN 1 ELSE (width + ws_col - 1) \div ws_col

EndsLine(t, s) == s = Len(t) \/ t[s + 1] = Newline

\* Where the cursor stands between the characters s and s + 1.
PlaceOf(t, from, s) ==
  LET width == Width(t, from.col, s)
      above == MapThenSumSet(LAMBDA i : Rows(Width(t, from.col, i - 1)),
                             {i \in Newlines(t) : i <= s})
      full == width > 0 /\ width % ws_col = 0 /\ EndsLine(t, s)
  IN IF full THEN At(from.row + above + width \div ws_col - 1, ws_col)
     ELSE At(from.row + above + width \div ws_col, width % ws_col)

\* Writing text at a place: the screen scrolls by so many rows.
Scrolled(t, from) == Max({0, PlaceOf(t, from, Len(t)).row - (ws_row - 1)})

Within(n, size) == Max({0, Min({n, size - 1})})

\* "cm" goes to the nearest place on the screen.
Shown(p) == At(Within(p.row, ws_row), Within(p.col, ws_col))

-----------------------------------------------------------------------------
(* One step, on a position p of the line and of curpos                     *)

Pos(s, r, c, l) == [seek |-> s, row |-> r, col |-> c, lost |-> l]
Here == Pos(seek, row, col, lost)

\* line_editing_left_notmove_lbreak counts the line that the newline at s ends; the
\* prompt is taken to begin its row.
WidthBefore(t, s) == Width(t, PromptWidth, s - 1)

StepLeft(t, p) ==
  LET width == WidthBefore(t, p.seek)
      rest == width % ws_col
      s == p.seek - 1
  IN CASE p.seek = 0 -> p
       [] p.seek > 0 /\ p.col > 0 -> Pos(s, p.row, p.col - 1, p.lost)
       [] p.seek > 0 /\ p.col = 0 /\ t[p.seek] # Newline ->
            Pos(s, p.row - 1, ws_col - 1, p.lost)
       [] OTHER ->
            Pos(s, p.row - 1,
                IF width >= ws_col /\ rest = 0 THEN ws_col ELSE rest,
                p.lost \/ (LineStart(t, s) = 0 /\ start.col # PromptWidth))

\* line_editing_right looks at the next byte, that of the same character if it has
\* several; and a newline in the last column, with nothing behind it in its line,
\* is not taken for one.
NextByteEnds(t, s) == t[s + 1] \notin Wide /\ EndsLine(t, s + 1)

\* Fault: the end of the line is not looked for.
StepRightWraps(t, p) ==
  LET c == t[p.seek + 1]
      s == p.seek + 1
  IN CASE p.seek = Len(t) -> p
       [] p.seek < Len(t) /\ (p.col >= ws_col - 1 \/ c = Newline) ->
            Pos(s, p.row + 1, 0, p.lost)
       [] OTHER -> Pos(s, p.row, p.col + 1, p.lost)

StepRight(t, p) ==
  LET c == t[p.seek + 1]
      s == p.seek + 1
      last == p.col >= ws_col - 1
  IN CASE p.seek = Len(t) -> p
       [] p.seek < Len(t) /\ last /\ NextByteEnds(t, p.seek) ->
            Pos(s, p.row, p.col + 1, p.lost \/ c = Newline)
       [] p.seek < Len(t) /\ ~(last /\ NextByteEnds(t, p.seek)) /\ (last \/ c = Newline) ->
            Pos(s, p.row + 1, 0, p.lost \/ (c \in Wide /\ EndsLine(t, s)))
       [] OTHER -> Pos(s, p.row, p.col + 1, p.lost)

\* n steps.
Lefts(t, p, n) == FoldLeft(LAMBDA q, i : StepLeft(t, q), p, [i \in 1 .. n |-> i])
Rights(t, p, n) == FoldLeft(LAMBDA q, i : StepRight(t, q), p, [i \in 1 .. n |-> i])

\* left_shift_cursor
Shift(t, p, n) ==
  LET q == Lefts(t, p, n)
  IN IF n > 0 /\ q.row < 0 THEN Pos(q.seek, 0, PromptWidth, TRUE) ELSE q

-----------------------------------------------------------------------------
(* write_line_chcurpos                                                     *)

\* Fault: a full row is always left.
WriteNextRow(t, p, i) ==
  LET width == Width(t, p.col, i)
  IN At(Min({p.row + width \div ws_col, ws_row - 1}), width % ws_col)

\* The line of the text that ends at i.  A line that fills its rows stays in the
\* last of them.
WriteLine(t, p, i) ==
  LET width == Width(t, p.col, i)
      full == width > 0 /\ width % ws_col = 0
      r == p.row + width \div ws_col - IF full THEN 1 ELSE 0
  IN At(Min({r, ws_row - 1}), IF full THEN ws_col ELSE width % ws_col)

\* Each further line begins in the next row.
Written(t, p) ==
  LET ends == SelectSeq([i \in 1 .. Len(t) + 1 |-> i - 1], LAMBDA i : EndsLine(t, i))
      next(q, i) == WriteLine(t, IF LineStart(t, i) = 0 THEN q ELSE At(q.row + 1, 0), i)
  IN FoldLeft(next, p, ends)

-----------------------------------------------------------------------------
(* print_buffer: back to the beginning, the prompt and the new text, and   *)
(* back to its character s.  left_shift_cursor moves the terminal's cursor *)
(* only if there is something to go back; before, it is shown.             *)

Rewrite(p, shown, t, s) ==
  LET home == Shift(text, p, p.seek)
      at == IF p.seek > 0 THEN Shown(home) ELSE shown
      \* three times "le", and the prompt
      from == At(at.row, Max({at.col, PromptWidth}))
      wrote == At(from.row - Scrolled(t, from), from.col)
      end == Written(t, At(home.row, home.col))
      back == Shift(t, Pos(Len(t), end.row, end.col, FALSE), Len(t) - s)
  IN /\ text' = t /\ seek' = s
     /\ row' = back.row /\ col' = back.col
     /\ start' = wrote
     /\ cursor' = IF s < Len(t) THEN Shown(back) ELSE PlaceOf(t, wrote, Len(t))
     /\ lost' = (back.lost \/ At(home.row, home.col) # from)

\* A motion to p.
MoveTo(p) ==
  /\ p.row \in -MaxDrift .. ws_row - 1 + MaxDrift
  /\ seek' = p.seek /\ row' = p.row /\ col' = p.col
  /\ cursor' = Shown(p)
  /\ lost' = p.lost
  /\ UNCHANGED <<text, start>>

\* get_cursor_position takes the number of rows for that of the columns.
Reported(c) == Min({c + 1, ws_row}) - 1

\* input_command_prep, after the prompt was written somewhere.
Fresh(r, c) ==
  /\ text = <<>> /\ seek = 0
  /\ cursor = At(r, c) /\ start = At(r, c)
  /\ row = r /\ col = Reported(c)
  /\ lost = (Reported(c) # c)

Init == \E r \in 0 .. ws_row - 1, c \in PromptCols : Fresh(r, c)

-----------------------------------------------------------------------------
(* The keys                                                                *)

Insert(c) ==
  /\ Len(text) < MaxLen /\ c # Newline
  /\ Rewrite(Here, cursor, InsertAt(text, seek + 1, c), seek + 1)

Backspace == seek > 0 /\ Rewrite(Here, cursor, RemoveAt(text, seek), seek - 1)

\* Without the characters that a part of would stay behind.
Delete ==
  /\ seek < Len(text) /\ text[seek + 1] \notin Wide
  /\ Rewrite(Here, cursor, RemoveAt(text, seek + 1), seek)

\* A selection is between the cursor and an anchor on either side of it.
Cut ==
  \E a \in 0 .. Len(text) :
    LET from == Min({a, seek})
        to == Max({a, seek})
    IN Rewrite(Here, cursor, SubSeq(text, 1, from) \o SubSeq(text, to + 1, Len(text)), from)

\* Up and Down go back, write the line and stay at its end.
Recall == \E t \in Recalled : Rewrite(Here, cursor, t, Len(t))

\* line_editing_shiftleft and _shiftright, and le_unselect
SelectLeft ==
  LET p == StepLeft(text, Here)
  IN seek > 0 /\ Rewrite(p, Shown(p), text, p.seek)

SelectRight ==
  LET p == StepRight(text, Here)
  IN seek < Len(text) /\ Rewrite(p, Shown(p), text, p.seek)

Unselect == Rewrite(Here, cursor, text, seek)

Printing ==
  \/ \E c \in Char : Insert(c)
  \/ Backspace \/ Delete \/ Cut \/ Recall \/ SelectLeft \/ SelectRight \/ Unselect

Left == MoveTo(StepLeft(text, Here))
Right == seek < Len(text) /\ MoveTo(StepRight(text, Here))
Home == seek > 0 /\ MoveTo(Shift(text, Here, seek))
End == seek < Len(text) /\ MoveTo(Rights(text, Here, Len(text) - seek))

\* Fault: a column further left will do.
UpToAny(p) == p.seek = 0 \/ p.col <= col

\* Left, until the column is the same again.
UpTo(p) == p.seek = 0 \/ p.col = col

AltUp ==
  /\ seek > 0
  /\ LET after(n) == Lefts(text, Here, n)
     IN MoveTo(after(Min({n \in 1 .. seek : UpTo(after(n))})))

DownTo(p) == p.seek = Len(text) \/ p.col = col

AltDown ==
  /\ seek < Len(text)
  /\ LET after(n) == Rights(text, Here, n)
     IN MoveTo(after(Min({n \in 1 .. Len(text) - seek : DownTo(after(n))})))

Moving == Left \/ Right \/ Home \/ End \/ AltUp \/ AltDown

Next == Printing \/ Moving

Spec == Init /\ [][Next]_vars

-----------------------------------------------------------------------------
(* Properties                                                              *)

\* curpos is the place of the cursor in the text, wherever rows are full, and so
\* is the terminal's cursor.  lost excuses five things: a line that does not begin
\* with the prompt's row, a position in a window with fewer rows than the column of
\* the prompt, a line taller than the window, and line_editing_right in the last
\* column, before a wide character or over a newline.
CursorTrue ==
  ~lost =>
    /\ At(row, col) = PlaceOf(text, start, seek)
    /\ cursor \in {At(row, col), Shown(At(row, col))}

\* Printing the line again, with whatever has been done to it, begins where the line
\* began, scrolled as far as the new text needs: neither the output above is
\* overwritten nor a part of the old line left behind.  Not so if the way back leads
\* over a newline to a line that does not begin with the prompt's row.
PrintsInPlace ==
  [][Printing /\ ~lost /\ start.row >= 0
     /\ (start.col = PromptWidth \/ Newlines(text) = {}) =>
       start' = At(start.row - Scrolled(text', start), start.col)]_vars

\* Alt-Up and Alt-Down go to the nearest place in the same column of the screen,
\* and to the end of the line if there is none.
Same(s) == PlaceOf(text, start, s).col = PlaceOf(text, start, seek).col
RowsKeepColumn ==
  [][~lost /\ ~lost' =>
       /\ AltUp => seek' = Max({0} \cup {s \in 0 .. seek - 1 : Same(s)})
       /\ AltDown => seek' = Min({Len(text)} \cup {s \in seek + 1 .. Len(text) : Same(s)})]_vars

=============================================================================
