------------------------------- MODULE History -------------------------------
(***************************************************************************)
(* The command history of 21sh, and the prompts that read and write it:    *)
(* input_command under main's prompt, under the "q> " and "|> " prompts of *)
(* an unfinished line and under the "h> " prompt of a here-document.       *)
(*                                                                         *)
(* Pressing Up puts the line being typed, the draft, at the end of the     *)
(* history itself; the keys that end the search take it off again.         *)
(*                                                                         *)
(* A line is a non-empty sequence of pieces, the texts between its         *)
(* newlines; a piece is known only by how the lexer takes it.              *)
(***************************************************************************)
EXTENDS Integers, Sequences, FiniteSets

CONSTANTS
  Text,        \* the pieces a line is made of
  Empty,       \* the piece with no character
  nature,      \* how the lexer takes a piece
  MaxHistory,  \* AM_HISTORY
  MaxPieces,   \* bound: pieces in a line
  MaxDocs,     \* bound: here-documents of a command
  MaxPrompts   \* bound: main's prompts in a session

Natures ==
  {"blank",    \* no token
   "plain",
   "quote",    \* opens or closes a quotation
   "pipe",     \* ends with a "|"
   "heredoc"}  \* has one "<<" or more

ASSUME TextAssumption ==
  /\ Empty \in Text
  /\ nature \in [Text -> Natures]
  /\ nature[Empty] = "blank"

ASSUME BoundAssumption ==
  /\ MaxHistory \in Nat /\ MaxHistory >= 2
  /\ MaxPieces \in Nat
  /\ MaxDocs \in Nat /\ MaxDocs >= 1
  /\ MaxPrompts \in Nat

VARIABLES
  commands,  \* history->commands[0 .. last - 1], so that last is Len(commands)
  current,   \* history->current, an index from 0
  searched,  \* lineeditor->is_history_searched
  buffer,    \* lineeditor->buffer
  mode,      \* shell->reading_mode, or "exit" once the shell has exited
  line,      \* what lexer_creating has read of the command so far
  docs,      \* here-documents of the command begun so far
  prompts,   \* number of main's prompts so far, for the bound
  saved,     \* auxiliary: the commands when main last prompted
  draft,     \* auxiliary: during a search, the buffer when it began
  leaked,    \* auxiliary: a search was cut short, its draft left behind
  behind     \* auxiliary: how many drafts that befell under the "h> " prompts
             \* of the present command, which they lie above

vars == <<commands, current, searched, buffer, mode, line, docs, prompts,
          saved, draft, leaked, behind>>

aux == <<saved, leaked, behind>>

Lines == Seq(Text) \ {<<>>}

Modes == {"basic", "quote", "pipe", "heredoc", "exit"}

\* The prompts for more of a command.
Continuation == {"quote", "pipe", "heredoc"}

TypeOK ==
  /\ commands \in Seq(Lines)
  /\ current \in Nat
  /\ searched \in BOOLEAN
  /\ buffer \in Lines
  /\ mode \in Modes
  /\ line \in Seq(Text)
  /\ docs \in 0 .. MaxDocs
  /\ prompts \in 0 .. MaxPrompts
  /\ saved \in Seq(Lines)
  /\ draft \in Lines
  /\ leaked \in BOOLEAN
  /\ behind \in Nat

EmptyLine == <<Empty>>

Init ==
  /\ commands = <<>>
  /\ current = 0
  /\ searched = FALSE
  /\ buffer = EmptyLine
  /\ mode = "basic"
  /\ line = <<>>
  /\ docs = 0
  /\ prompts = 0
  /\ saved = <<>>
  /\ draft = EmptyLine
  /\ leaked = FALSE
  /\ behind = 0

-----------------------------------------------------------------------------
(* history.c                                                               *)

\* Fault: nothing is evicted.
HistoryAppendAlways(cmds, l) == Append(cmds, l)

\* history_append without appendmode: when the array is full the oldest goes.
HistoryAppend(cmds, l) ==
  Append(IF Len(cmds) = MaxHistory THEN Tail(cmds) ELSE cmds, l)

\* history_append with appendmode, once with "\n" and once with l: the last
\* command grows.
HistoryJoin(cmds, l) == [cmds EXCEPT ![Len(cmds)] = @ \o l]

DropLast(cmds) == SubSeq(cmds, 1, Len(cmds) - 1)

\* le_zero_hist_research: the end of a search, which every caller guards with
\* is_history_searched.
Settled == IF searched THEN DropLast(commands) ELSE commands
SettledCurrent == IF searched THEN Len(commands) - 1 ELSE current

-----------------------------------------------------------------------------
(* Keys under any prompt                                                   *)

Editing == mode # "exit"

SearchOver ==
  /\ searched' = FALSE
  /\ draft' = EmptyLine

\* Typing or deleting some characters.
ChangeBuffer ==
  \E k \in 1 .. Len(buffer), t \in Text : buffer' = SubSeq(buffer, 1, k - 1) \o <<t>>

\* Fault: le_zero_hist_research is called without testing is_history_searched.
EditUnguarded ==
  /\ Editing
  /\ ChangeBuffer \/ UNCHANGED buffer
  /\ commands' = IF commands = <<>> THEN commands ELSE DropLast(commands)
  /\ current' = Len(commands')
  /\ SearchOver
  /\ UNCHANGED <<mode, line, docs, prompts, aux>>

\* A character is inserted, or Backspace, cut or paste pressed: the search ends
\* with the draft taken off the history, whatever the key did to the buffer.
Edit ==
  /\ Editing
  /\ ChangeBuffer \/ UNCHANGED buffer
  /\ commands' = Settled
  /\ current' = SettledCurrent
  /\ SearchOver
  /\ UNCHANGED <<mode, line, docs, prompts, aux>>

\* Delete, or Ctrl-D on a buffer that is not empty: missing among the keys that
\* end the search.
Delete ==
  /\ Editing
  /\ buffer # EmptyLine
  /\ ChangeBuffer
  /\ UNCHANGED <<commands, current, searched, mode, line, docs, prompts, draft, aux>>

\* The first Up of a search: the draft is appended and current set to it.
UpFirst ==
  /\ Editing
  /\ ~searched /\ commands # <<>>
  /\ commands' = HistoryAppend(commands, buffer)
  /\ current' = Len(commands') - 2
  /\ buffer' = commands'[current' + 1]
  /\ searched' = TRUE
  /\ draft' = buffer
  /\ UNCHANGED <<mode, line, docs, prompts, saved, leaked, behind>>

\* Fault: line_editing_up appends whether or not a search is on.
UpAppendsAgain ==
  /\ Editing
  /\ searched \/ commands = <<>>
  /\ current > 0
  /\ commands' = HistoryAppend(commands, buffer)
  /\ current' = current - 1
  /\ buffer' = commands'[current' + 1]
  /\ searched' = TRUE
  /\ UNCHANGED <<mode, line, docs, prompts, draft, aux>>

\* The next ones; also an Up on an empty history, if current has gone astray.
UpAgain ==
  /\ Editing
  /\ searched \/ commands = <<>>
  /\ current > 0
  /\ current' = current - 1
  /\ buffer' = commands[current' + 1]
  /\ searched' = TRUE
  /\ UNCHANGED <<commands, mode, line, docs, prompts, draft, aux>>

\* line_editing_down does not look at is_history_searched.
Down ==
  /\ Editing
  /\ current < Len(commands) - 1
  /\ current' = current + 1
  /\ buffer' = commands[current' + 1]
  /\ UNCHANGED <<commands, searched, mode, line, docs, prompts, draft, aux>>

\* SIGWINCH while a key is awaited: le_reading returns no letter, which ends a
\* search like a key that inserts nothing.
Resize ==
  /\ Editing
  /\ commands' = Settled
  /\ current' = SettledCurrent
  /\ SearchOver
  /\ UNCHANGED <<buffer, mode, line, docs, prompts, aux>>

-----------------------------------------------------------------------------
(* Enter and the end of a line                                             *)

\* input_command_prep: a new line editor.
NewEditor ==
  /\ buffer' = EmptyLine
  /\ SearchOver

\* main's loop comes round to its prompt.
MainPrompt ==
  /\ NewEditor
  /\ prompts < MaxPrompts
  /\ prompts' = prompts + 1
  /\ mode' = "basic"
  /\ line' = <<>>
  /\ docs' = 0
  /\ saved' = commands'
  /\ behind' = 0

Quotes(l) == {i \in DOMAIN l : nature[l[i]] = "quote"}

QuoteOpen(l) == Cardinality(Quotes(l)) % 2 = 1

Blank(l) == \A i \in DOMAIN l : nature[l[i]] = "blank"

\* The last token is "|".
EndsInPipe(l) ==
  \E i \in DOMAIN l :
    /\ nature[l[i]] = "pipe"
    /\ \A j \in DOMAIN l : j > i => nature[l[j]] = "blank"

\* A "<<" outside quotations.
HasHeredoc(l) ==
  \E i \in DOMAIN l :
    /\ nature[l[i]] = "heredoc"
    /\ Cardinality({j \in Quotes(l) : j < i}) % 2 = 0

ContinuePrompt(m, l) ==
  /\ NewEditor
  /\ Len(l) <= MaxPieces
  /\ mode' = m
  /\ line' = l
  /\ UNCHANGED <<prompts, aux>>

\* create_redirection_ast comes to the command's next "<<", which prompts with
\* a line editor of its own.
NextDocument ==
  /\ docs < MaxDocs
  /\ docs' = docs + 1
  /\ NewEditor
  /\ UNCHANGED <<mode, line, prompts, saved>>

\* lexer_creating at the end of what it has read: an unfinished command prompts
\* for more.  A complete one goes to creating_ast, which reads its
\* here-documents unless it finds a syntax error first, and to the parser.
Lex(l) ==
  \/ QuoteOpen(l) /\ ContinuePrompt("quote", l) /\ UNCHANGED docs
  \/ ~QuoteOpen(l) /\ EndsInPipe(l) /\ ContinuePrompt("pipe", l) /\ UNCHANGED docs
  \/ /\ ~QuoteOpen(l) /\ ~EndsInPipe(l)
     /\ \/ MainPrompt /\ UNCHANGED leaked
        \/ HasHeredoc(l) /\ ContinuePrompt("heredoc", l) /\ docs' = 1

\* Enter on an empty buffer: lineediting returns NULL.
EnterEmpty ==
  /\ mode = "basic" /\ buffer = EmptyLine
  /\ commands' = Settled
  /\ current' = SettledCurrent
  /\ MainPrompt
  /\ UNCHANGED leaked

\* Fault: lexing leaves the line in the history.
EnterBlankKept ==
  /\ mode = "basic" /\ buffer # EmptyLine
  /\ Blank(buffer)
  /\ commands' = HistoryAppend(Settled, buffer)
  /\ current' = SettledCurrent
  /\ MainPrompt
  /\ UNCHANGED leaked

\* Enter on a line with no token: lexing takes it off the history again.
EnterBlank ==
  /\ mode = "basic" /\ buffer # EmptyLine
  /\ Blank(buffer)
  /\ commands' = DropLast(HistoryAppend(Settled, buffer))
  /\ current' = SettledCurrent
  /\ MainPrompt
  /\ UNCHANGED leaked

Enter ==
  /\ mode = "basic" /\ buffer # EmptyLine
  /\ ~Blank(buffer)
  /\ commands' = HistoryAppend(Settled, buffer)
  /\ current' = SettledCurrent
  /\ Lex(buffer)

\* Enter under "q> ": the line is joined to the last command of the history.
EnterQuote ==
  /\ mode = "quote"
  /\ commands' = HistoryJoin(Settled, buffer)
  /\ current' = SettledCurrent
  /\ Lex(line \o buffer)

\* Enter under "|> ": the line is not recorded.
EnterPipe ==
  /\ mode = "pipe"
  /\ commands' = Settled
  /\ current' = SettledCurrent
  /\ Lex(line \o buffer)

\* Enter under "h> ": a line that is not the delimiter goes on with the
\* here-document, the delimiter ends it, and the next one begins if there is one.
EnterHeredoc ==
  /\ mode = "heredoc"
  /\ commands' = Settled
  /\ current' = SettledCurrent
  /\ \/ MainPrompt /\ UNCHANGED leaked
     \/ NewEditor /\ UNCHANGED <<mode, line, docs, prompts, aux>>
     \/ NextDocument /\ UNCHANGED <<leaked, behind>>

\* Ctrl-D on an empty buffer under "h> " ends the here-document as well, without
\* ending a search first.
EndDocument ==
  /\ mode = "heredoc" /\ buffer = EmptyLine
  /\ UNCHANGED <<commands, current>>
  /\ leaked' = (leaked \/ searched)
  /\ \/ MainPrompt
     \/ NextDocument /\ behind' = behind + (IF searched THEN 1 ELSE 0)

\* Ctrl-C: read fails with EINTR and input_command returns NULL at once; under
\* "q> " and "|> " Ctrl-D on an empty buffer gives up the command as well.  A
\* search is not ended first.
Abandon ==
  /\ Editing
  /\ UNCHANGED <<commands, current>>
  /\ leaked' = (leaked \/ searched)
  /\ MainPrompt

\* Ctrl-D on an empty buffer under main's prompt.
Exit ==
  /\ mode = "basic" /\ buffer = EmptyLine
  /\ mode' = "exit"
  /\ UNCHANGED <<commands, current, searched, buffer, line, docs, prompts, draft, aux>>

Next ==
  \/ Edit \/ Delete \/ UpFirst \/ UpAgain \/ Down \/ Resize
  \/ EnterEmpty \/ EnterBlank \/ Enter \/ EnterQuote \/ EnterPipe
  \/ EnterHeredoc \/ EndDocument \/ Abandon \/ Exit

Spec == Init /\ [][Next]_vars

-----------------------------------------------------------------------------
(* Properties                                                              *)

\* The array of commands is never overrun, and every index from which Up or
\* Down may read a command is one of a live entry.  current outlives searches,
\* prompts, evictions and blank lines without being reset.
IndicesInRange ==
  /\ Len(commands) <= MaxHistory
  /\ current <= Len(commands)
  /\ searched => current < Len(commands) /\ Len(commands) >= 2
  /\ commands = <<>> => current = 0

\* During a search the last entry of the history is the draft and nothing else,
\* whatever was recalled, deleted or resized meanwhile: taking it off loses no
\* command, and coming back down to it restores what was being typed.
DraftIsLast ==
  searched => commands[Len(commands)] = draft

\* Under a continuation prompt the command being continued is the last of the
\* history, below the draft of a search and, under "h> ", below the drafts that
\* Ctrl-D has left there, which may in the end push it out.  So the next line of a
\* quotation is joined to its own command.  It holds all lines read so far, but for
\* those typed at "|> ", which are never recorded.
JoinsOwnCommand ==
  mode \in Continuation =>
    LET place == Len(Settled) - behind
        own == Settled[place]
    IN /\ mode # "heredoc" => behind = 0 /\ place > 0
       /\ place > 0 =>
            /\ own[1] = line[1]
            /\ (\A i \in DOMAIN line : nature[line[i]] # "pipe") => own = line

\* The entries that the command being continued and the drafts left above it make.
Added == (IF mode \in Continuation THEN 1 ELSE 0) + behind

\* Editing, browsing and continuing lose nothing but the oldest commands, and these
\* only once the history is full but for the place of a draft: what main's prompt
\* found there is still below what was added since.
LosesOldestOnly ==
  LET lost == Len(saved) + Added - Len(Settled)
  IN /\ lost >= 0
     /\ SubSeq(Settled, 1, Len(Settled) - Added) = SubSeq(saved, lost + 1, Len(saved))
     /\ lost > 0 => Len(Settled) >= MaxHistory - 1

\* A line of blanks never stays in the history, unless as the draft of a search
\* that was cut short.
NoBlankCommand ==
  ~leaked => \A i \in DOMAIN Settled : ~Blank(Settled[i])

=============================================================================
