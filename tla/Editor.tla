------------------------------- MODULE Editor -------------------------------
(***************************************************************************)
(* What the line editor of 21sh promises its user: a text of characters, a *)
(* cursor between two of them, a selection from an anchor to the cursor    *)
(* and a clipboard.  LineEditor, where characters have several bytes and   *)
(* every motion is a loop over bytes, implements it.                       *)
(*                                                                         *)
(* Two defects are part of the promise, as the points where it ends: the   *)
(* Delete key on a character of several bytes, then or when the line comes *)
(* back from the history, and cutting a selection whose ends were lost     *)
(* when the window changed in the middle of a key.                         *)
(***************************************************************************)
EXTENDS Integers, Sequences, FiniteSetsExt

CONSTANTS
  Char,    \* the characters
  Wide,    \* those of them that have several bytes
  Space    \* those of them that separate words

VARIABLES
  text,    \* the characters of the line
  cursor,  \* how many of them are left of the cursor
  sel,     \* the anchor of the selection, a place like cursor, or None, or Lost
  clip,    \* what was last cut or copied
  ok       \* the promise still holds

vars == <<text, cursor, sel, clip, ok>>

None == -1
Lost == -2

Init == text = <<>> /\ cursor = 0 /\ sel = None /\ clip = <<>> /\ ok = TRUE

-----------------------------------------------------------------------------
Before == SubSeq(text, 1, cursor)
After == SubSeq(text, cursor + 1, Len(text))
Here == text[cursor + 1]

Low == Min({sel, cursor})
High == Max({sel, cursor})
Selected == SubSeq(text, Low + 1, High)
WithoutSelected == SubSeq(text, 1, Low) \o SubSeq(text, High + 1, Len(text))

\* Most keys give up the selection.
MoveTo(c) == cursor' = c /\ sel' = None /\ UNCHANGED <<text, clip, ok>>

Become(t, c) == cursor' = c /\ sel' = None /\ text' = t /\ UNCHANGED <<clip, ok>>

Break ==
  /\ ok' = FALSE
  /\ text' = <<>> /\ cursor' = 0 /\ sel' = None /\ clip' = <<>>

-----------------------------------------------------------------------------
Insert == \E c \in Char : Become(Before \o <<c>> \o After, cursor + 1)

\* Up or Down in the history.
Recall ==
  /\ sel' = None
  /\ text' \in Seq(Char) /\ cursor' = Len(text')
  /\ UNCHANGED <<clip, ok>>

\* The line that comes is one that Delete had torn before it was entered.
RecallTorn == Break

Delete ==
  /\ cursor < Len(text)
  /\ IF Here \in Wide THEN Break ELSE Become(Before \o Tail(After), cursor)

Backspace ==
  /\ sel = None /\ cursor > 0
  /\ Become(SubSeq(text, 1, cursor - 1) \o After, cursor - 1)

Left == MoveTo(Max({0, cursor - 1}))
Right == MoveTo(Min({Len(text), cursor + 1}))
Home == MoveTo(0)
End == MoveTo(Len(text))

\* Alt-Up and Alt-Down go to some place on another row of the screen.
RowUp == \E c \in 0 .. cursor : MoveTo(c)
RowDown == \E c \in cursor .. Len(text) : MoveTo(c)

\* To the nearest beginning of a word on the left of the cursor.
WordLeft ==
  LET starts == {c \in 1 .. cursor - 1 :
                   text[c] \in Space /\ text[c + 1] \notin Space}
  IN MoveTo(Max(starts \cup {0}))

\* To the nearest end of a word that is more than one character away.
WordRight ==
  LET ends == {c \in cursor + 2 .. Len(text) - 1 :
                 text[c] \notin Space /\ text[c + 1] \in Space}
  IN MoveTo(Min(ends \cup {Len(text)}))

SelectTo(c) ==
  /\ cursor' = c
  /\ sel' = IF sel \in {None, Lost} THEN cursor ELSE sel
  /\ UNCHANGED <<text, clip, ok>>

SelectLeft == cursor > 0 /\ SelectTo(cursor - 1)
SelectRight == cursor < Len(text) /\ SelectTo(cursor + 1)

Copy ==
  /\ sel # None
  /\ clip' = IF sel = Lost THEN <<>> ELSE Selected
  /\ UNCHANGED <<text, cursor, sel, ok>>

\* Backspace on a selection, and Alt-X, which keeps what it removes.
Remove ==
  /\ sel # None
  /\ IF sel = Lost THEN Break ELSE Become(WithoutSelected, Low)

Cut ==
  /\ sel # None
  /\ IF sel = Lost THEN Break
     ELSE /\ cursor' = Low /\ sel' = None /\ text' = WithoutSelected
          /\ clip' = Selected /\ UNCHANGED ok

Paste ==
  /\ clip # <<>>
  /\ Become(Before \o clip \o After, cursor + Len(clip))

LoseSelection == sel # None /\ sel' = Lost /\ UNCHANGED <<text, cursor, clip, ok>>

\* Enter, and a new line.
NewLine == text' = <<>> /\ cursor' = 0 /\ sel' = None /\ clip' = <<>> /\ ok' = TRUE

Keys ==
  \/ Insert \/ Recall \/ RecallTorn \/ Delete \/ Backspace
  \/ Left \/ Right \/ Home \/ End \/ RowUp \/ RowDown \/ WordLeft \/ WordRight
  \/ SelectLeft \/ SelectRight \/ Copy \/ Remove \/ Cut \/ Paste \/ LoseSelection

Next == (ok /\ Keys) \/ NewLine

Spec == Init /\ [][Next]_vars

=============================================================================
