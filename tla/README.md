# 21sh in TLA+

A verification project for 21sh, an interactive Unix shell in C: a line editor
on a raw terminal, a lexer, an AST creator and an evaluator that forks.  The
TLA+ modules are translated from the C source; TLC checks them on small
instances and TLAPS proves the theorems listed below for every instance.

The repository has no tests and no documentation besides a few comments, so the
code itself is the reference.

## Inventory

| Component | Code | State it keeps | Operations |
|---|---|---|---|
| Main loop | `source/main.c` | `shell`, alive over all lines | prompt, read, lex, build the tree, evaluate, free |
| Execution | `source/parser/*.c`, `source/msh/msh_exec.c`, `msh_exit.c` | processes, their call stacks, `pid[2]` of a pipeline | evaluate `;`, `\|`, a redirection, a command; fork, exec, exit, wait |
| History | `source/history.c`, Up and Down, `le_zero_hist_research` | `commands[AM_HISTORY]`, `last`, `current`, `is_history_searched` | append, join, search up and down, end a search |
| Line editor | `source/lineeditor/` | buffer, seek, selection, clipboard, `curpos`, window size | insert, delete, move, select, cut, copy, paste |
| Key reader | `le_reading.c`, `le_input_command*.c`, signal handler | letter, trash, `g_sigwinch` | read a key or an escape sequence, keep the bytes behind it, be interrupted |
| Lexer | `source/lexer/` | tokens, the token under construction | cut a line into tokens, ask for more at an open quote or a final pipe |
| AST creator | `source/ast_creator/` | the tree, the marks on tokens | recursive descent over `;`, `\|`, redirections; read here-documents |
| Expansions | `source/expansions.c`, `msh_replace_env_variable.c` | words of a command | `~`, `$NAME`, quote removal |
| Environment | `msh_setenv.c`, `msh_unsetenv.c`, `msh_get_printenv.c`, `msh_filler.c` | the `env` array | get, set, unset, copy |
| Other builtins | `msh_cd.c`, `msh_echo.c`, `msh_print_pwd.c` | working directory | cd, echo, pwd |
| Terminal | `init_term.c`, `preparation` in `main.c` | termios, the saved descriptors `initfd` | raw mode on and off, 0, 1 and 2 put back |
| Libraries | `libft/`, `ftprintf/` | none | strings, memory, formatted output |

How they interact: main calls the line editor, which reads keys and reads and
writes the history; its line goes to the lexer, which may call the line editor
again (`q> `, `|> `); the tokens go to the AST creator, which may call it a third
time (`h> `); the tree goes to the evaluator, which forks copies of the whole
program.  Signals reach the key reader through `g_sigwinch` and EINTR.

What is hard in it:

 - a forked child runs on in the parent's call stack.  Whether it exits or climbs
   back to main's loop hangs on values that are inverted in one place
   (`parser_redirection.c:78`) and mixed up in another (`msh_exec.c:122`), so
   *nested shells* are a normal thing in this program;
 - every `wait` loop spins if there is no child;
 - the draft of a history search is stored in the history;
 - Ctrl-C and a window change interrupt a read at any moment, and the four
   prompts nest;
 - fixed-size arrays (history, letter, trash) at their limits.

PROJECT.json lists each hazard at its line, with the properties that cover it.

## Modules

### ShellExec: evaluating a line with several processes

`ShellExec.tla` models main's loop, `parse_ast` and everything below it that
creates, ends or waits for a process.  A process has a `status` (what it is
doing), and `ctl`, the `parse_ast` call it is in: the node, `needfork`, the value
being returned and the stack of callers that still have something to do.
`base` is where the outermost call returns to: main's loop or the `exit(0)` of a
pipeline's child.  `pid0` and `pid1` are the array `pid[2]` of `parse_ast_pipe`.
`parent` belongs to the kernel.  A fork copies `ctl` and `base`: that is how a
child becomes a nested shell.

Each action is one step of the C code between two points where another process
can be noticed: a fork, an exec, an exit, a wait, or the entry and return of a
call.  `EvalX` actions are the branches of `parse_ast` and of the functions it
calls, up to the next such point; `ReturnX` is what a caller does with the
result; `Redirect` and `RedirectFails` stand for the opening of the file and the
pipe of a here-document.  fork, exit, wait and the programs themselves are
external (`Fork`, `Die`, `Release`, `ProgramExit`).

`depth` and `pipeForkFailed` are auxiliary.  `typed` bounds the number of lines.

`ShellsNest` says that it implements `Nest`, below.

The tree is a constant (functions on a set of nodes), and so are the lines that
can be typed.  A word of a command is known only as a builtin, `exit`, an
external program or a `fault`: a command whose evaluation dereferences NULL
(`> f`, which has no `args[0]`, and `unsetenv` without an argument).

`MCShellExec.tla` gives a forest of twenty-two nodes and thirteen lines, and says of each
redirection what it does.  The redirection written first is the outermost node, as
`create_redirection_ast` looks for the first, and is therefore applied first.

### Nest: what the processes are to the user

`Nest.tla` is the abstract specification of ShellExec, in three actions: a shell
begins another one inside of itself and rests, the innermost ends (or becomes
something that is not a shell), and then the one around it goes on.  `level` is how
many shells there are around each shell, `active` the one that does something.
The refinement mapping of ShellExec takes for shells the live processes whose `base`
is main's loop and which are no program, for `level` their `depth`, and for `active`
those that are not in `wait(0)`.  A child of a pipeline is no shell: it exits whatever
happens in it.  The promise is given up (`ok <- ~pipeForkFailed`) once a pipeline has
lost its second fork.

### Descriptors: tables and the mode of the terminal

`Descriptors.tla` extends ShellExec with what each step does to the descriptor table
of its process (`fds`), to the copies that `parse_ast_redirection_child` keeps
(`oldfds`: for each redirection the process is in, the `fd` and the `oldfd` or -1) and to
the terminal (`tty`).  Every action is the conjunction of an action of ShellExec and of its
effect on the tables, so that `DNext` has the steps of `Next` and no others; what
ShellExec leaves open, whether a redirection or a pipe can be made, depends here on
the room in the table.  `BackToPrompt` is `change_termios(&initfd, 0)`, `QuitShell` the one of
Ctrl-D, `WithFile`, `OldFd`, `Redirected` and `PutBack` are the functions of
`parser_redirection.c` in their order, `Plumbed` and `Unpiped` the two sides of
`parse_ast_pipe`.

It matters for nested shells.  `parse_ast_redirection_child` returns early when the
command has succeeded and then puts nothing back; a process that has climbed out of
redirections prompts with what they have left.  `lost` is auxiliary: the
descriptors that were replaced and not put back.  What `TablesAtPrompt` says is that
`change_termios` makes up for it as long as 3, 4 and 5 are not lost themselves.

### Reruns: how often a part of a line is run

`Reruns.tla` adds two history variables to Descriptors: the `line` that each process is
in, and a `log` with, for each line and each `;` of it, how often its right part was
begun (`runs`) and how many forked children came back from its left part instead of
exiting (`stayed`).  A nested shell goes on with the rest of the line it was forked
in and so does its parent later; `EachOnce` relates the two numbers.  `SemiAssumption`
is how `create_separator_ast` builds a line: it cuts at the last `;`, so that the right part
has none and the left part has the earlier ones.

### Pipeline: the descriptors of a pipeline

`Pipeline.tla` is the other half of `parse_ast_pipe`: not who waits for whom to
return what, which is ShellExec's, but who holds which end of which pipe.
`Evaluator(k)` is the call of `parse_ast_pipe` for the commands 1 .. k, the
outermost being the shell's own, and `Member(k)` the process of command k; an
evaluator forks the evaluator of the commands on its left (or command 1) and its
own right command.  `fds` has a descriptor table for each process, with 0 to 5
the terminal as `preparation` leaves them; `fdpipe` is the array of the call, which
fork copies along with the table.  `pc` is the place in `parse_ast_pipe`,
`parse_ast_pipe_child` (`plumb`, `dup`) and `parse_ast_redirection_child`
(`redirect`, `hereWrite`), where `oldfd` is opened and kept.  The kernel's part is
`Opened`, `Dup2`, `Close`, `Piped` and `Fork`.

Commands are external and taken for filters: they read items from descriptor 0,
write them to descriptor 1, and stop at the end of file, at a broken pipe or when
they like.  A pipe holds `Capacity` items.  A here-document is assumed to fit
(`PipelineAssumption`), because the code writes it before anybody can read it; one
that does not fit blocks the command for ever, as the hazard at
`parser_redirection.c:51` says.

`failed` notes that a pipe, a fork or the dup of the descriptor that a redirection
is about to replace has failed: without its copy in `oldfd` a command may lose its end
of a pipe.  The numbers of a here-document's pipe may be those that it redirects: if
`fd` is that of `pipefd[1]` the document is written nowhere (`HereEnd`), and if it is
that of `pipefd[0]` the close after dup2 takes the read end away and the shell's own
write gets SIGPIPE (`HereBroken`).

`MCPipeline.tla` gives seven sets of redirections for three commands, both of those
cases among them.

### History: the history and the prompts that use it

`History.tla` models `history_append` in both its modes, Up and Down, the end of
a search, and all that `input_command`'s callers do to the history: main's
`lineediting` and `lexing`, the `q> `, `|> ` and `h> ` prompts, and the ways a
prompt is given up.  `commands` is `history->commands[0 .. last-1]`, so `last` is
its length; `current` is an index from 0, as in C.  A line is a sequence of
pieces, the texts between newlines, and a piece is known by how the lexer takes
it: blank, plain, a quote, a final pipe, a here-document.  The string operations
that matter here are then appending sequences.  `saved`, `draft` and `leaked` are
auxiliary, and so is `behind`, the number of drafts left above the command being
continued.  `docs` counts the here-documents of the command.

The keys: `Edit` is every key that inserts or that is Backspace, cut or paste;
`Delete` the one that forgets to end a search; `Resize` is an interrupted read
with `g_sigwinch` set.  `Abandon` is one without, on which the command is given up,
and Ctrl-D under `q> ` and `|> `.  Under `h> ` Ctrl-D only ends the here-document
(`EndDocument`): `input_command` returns at once, without ending a search, and
`create_redirection_ast` goes on to the next `<<`, whose prompt has a line editor of
its own (`NextDocument`).  Whether a line with a `<<` gets to its here-document, and
to how many, depends on its syntax and is a choice.

`MCHistory.tla` gives one piece of each nature but plain: a line with a `<<` may do
all that a plain one does.

### LineEditor and Editor: the line being edited

`Editor.tla` is what the editor promises its user: a `text` of characters, a
`cursor` between two of them, a selection from an anchor to the cursor and a
clipboard; one action per key, each a line or two.  It is the abstract
specification.

`LineEditor.tla` is the code: `buffer` holds bytes, `seek` is an offset in bytes,
`selected[0]` and `selected[1]` are the two ends with -1 for none, `selectedmode`
is a flag of its own, and `cpbuf` a copy of bytes.  Each motion of the code is a
loop that looks for the border of a character, or of a word, by the top bits of
the bytes; `Stops` and `Ahead` are the offsets such a loop may halt at, and the
helpers named after the functions (`LeftOf`, `RightOf`, `ShiftedTo`, `BegWord`,
`EndWord`, `Printed`) choose among them as the loop does.  `ShiftedTo` deserves its
name: `left_shift_cursor` counts whole characters against a distance in bytes and
so may go past its goal.  Alt-Up and Alt-Down stop where a column of the screen is
the same again; columns are in `Screen`, so here they may stop anywhere.

Two auxiliary variables: `torn`, since a Delete took one byte of a character that
has several (`line_editing_del` always takes one byte) or Up or Down brought back a
line that had been torn before, and `wild`, since a loop or a copy left the buffer.
`Broken` is a window change in the middle of an escape sequence, which resets
`selected` but not `selectedmode`.  The refinement mapping counts characters: `Text` is
`Chars(buffer)`, `Place` is `Index(buffer, seek)`, and it gives up (`ok <- FALSE`) when
one of the two auxiliary variables is set (`RecallTorn` is the key of Editor for the
recalled line).  The `Char` of Editor are all well-formed characters (`Character`) and not
only those that a key inserts (`Letter`): two Deletes may leave a whole character that
was never typed, which the history then brings back.

### Screen: the cursor on the terminal

`Screen.tla` sets `curpos` (`row`, `col`), which the editor keeps by arithmetic,
against `cursor`, where the terminal really is.  `StepLeft` and `StepRight` are
`line_editing_left` and `line_editing_right` with their wraps, `Shift` is
`left_shift_cursor`, `WriteLine` and `Written` are `write_line_chcurpos`, and
`Rewrite` is `print_buffer`: back to the beginning, the prompt, the new text, and
back to the seek position.  Each key is a rewrite with another text or a motion.
The terminal is external: `PlaceOf` says where a character of the text stands,
`Scrolled` how far writing it scrolls, and `Shown` where a "cm" ends up that
points off the screen.  Rows and columns count from 0, and a terminal that has
filled a row waits in it (column `ws_col`) for the next character.

Lines are whole characters here; that the bytes keep them whole is LineEditor's, and
so a Delete of one byte of several is left out.  `start` is where the line begins,
any column in `PromptCols`, since a program may have left its last line open.  A
new prompt is an initial state again.  `lost` is auxiliary: `curpos` has gone wrong
by one of five defects, each a hazard in PROJECT.json, and the line was not
printed since.

### KeyReader: from bytes to keys

`KeyReader.tla` is `input_command_kernel` with `le_reading`, `after_read_unicode`,
`le_is_trash_exist` and `check_trash`, and `get_cursor_position` with its two callers.
`queue` holds what the terminal has for the shell: keys and the answers to
`ESC[6n`, in one queue, which is where the trouble comes from.  `letter` and `trash`
are the arrays up to their first 0.  `pc` is `between` two prompts, in the `read` of
a first byte or of the `rest`, or in the three places of `get_cursor_position`
(`query`, `skip`, `answer`); `from` says who called it.  `ws` and `curpos` are
abstracted to how old they are.

The actions of the user and of the terminal (`Press`, `Rest`, `Answered`) are
external; a key may arrive in two pieces.  A signal comes in a read (`WindowChange`,
`CtrlC`, `CtrlCForResize`, `CrossFirst`, `CrossSecond`) or outside of one
(`WindowChangeUnseen`).  `temp[0]`, which `get_cursor_position` reads before
anything is in it if its first read fails, is a choice.

`keys`, `prompts` and `interrupts` bound what the user does.  Six variables are
auxiliary: `delivered` and `acted` are the history of keys that mean something (`Effective`)
and of strings acted on;
`disturbed`, `crossed`, `outdated` and `swallowed` mark what the properties
except, as the comments at the properties say.  `disturbed` does not outlast a pause: if a key comes
when all that was sent before is read (`Calm`), `delivered` and `acted` begin anew, and
from then on keys are again acted on in order, whatever has gone wrong before.  They
begin anew with each prompt too, where a prompt that begins while something is still on
its way is disturbed and its question crossed (`Pursued`).

### Words: expansions and quote removal

`Words.tla` runs `tilde_expansion`, `env_expansion` and `quote_removing` over one
word: `word` is changed in place, `j` is the offset of the pass, `squotemode` and
`dquotemode` the flags of `env_expansion`.  `Reference` says the same by looking once at
each character of the word as it was typed, in the quotation the lexer sees it in.
Two places where the code does not agree with that are excepted by name: `Misleads`,
a double quote inside of single quotes (`msh_replace_env_variable.c:73`), and
`HomeReread`, a HOME with a dollar or a quote, which the next pass reads again.

### Environment and Variables: setenv, unsetenv, cd

`Variables.tla` is the abstract specification: variables are a function from names
to values, and PWD and OLDPWD follow the directory.  `Environment.tla` is the
array of strings, searched as the code does, with `ft_strcmp(entry, name) == '='`.
That test also succeeds for two bytes which lie 61 apart, so bytes are numbers in
this module, and `confused` records that a name was taken for another.
`ChangeTo(d)` is what `change_dir` does at last, for any directory or for none: the
text in the array comes from `getcwd`.  `previous` and `told` are auxiliary.

### Lexer: from a line to tokens

`Lexer.tla` is `lexer_creating`: `rest` is the text under the pointer `last`,
`token` the token being built, `tokens` the vector, `delim` the open quotation.
Each action is one turn of `lexer_creating_cycle`, or of the loop inside
`lexing_handling_quotes`; the guard `Fresh` says that the turn has found no further
character of an operator, and `Finished` and `Current` are what
`lexing_divide_operator` has left in that case.  `status` is `quote` or `pipe` at a
prompt for more, which may be answered (`More`) or given up (`GiveUp`).
`Reference` defines the same tokens without a loop over states: the role of each
character in the text, and the maximal runs of roles.

### AstCreator: from tokens to a tree

`AstCreator.tla` is the recursive descent, as recursive operators with the names of
the functions.  What it changes on the way, the types of the tokens and the
here-documents read from the terminal, is threaded through the calls.  `stop` is
the here-document the user breaks off with Ctrl-C.  `ListTree` is the reference: it
splits the tokens at `;`, then at `|`, and says of each simple command which words,
files and descriptors it has.

### Proofs

`ShellProofs.tla` (ShellExec, and Descriptors on top of it), `PipelineProofs.tla`,
`HistoryProofs.tla`, `LineEditorProofs.tla`, `KeyReaderProofs.tla`, `LexerProofs.tla`,
`WordsProofs.tla` and `EnvironmentProofs.tla`; see below.

## Runs

| Run | What it asks | Bounds | Size |
|---|---|---|---|
| `ShellExec` | the invariants of ShellExec, Descriptors and Reruns, that ShellExec implements Nest, deadlock | 5 processes, 10 descriptors, 2 lines of thirteen shapes | 144 thousand states, symmetry on the processes but the first |
| `ShellExecLive` | `Responsive`, `ZombiesReaped` | 4 processes, 2 lines of 6 shapes | 6 thousand states, no symmetry |
| `Pipeline` | its invariants, `Completes`, deadlock | 3 commands, 7 sets of redirections, 3 items, pipes of 2, 9 descriptors | 62 thousand states |
| `History` | all invariants of History | history of 3, 3 prompts of main, one line per continuation, 2 here-documents of a command | 4.3 million states |
| `LineEditor` | its invariants, that it implements `Editor`, and that each key implements its own action of it (`Promised`) | lines of 4 bytes, characters of 1 and 2 bytes, a blank, a torn line in the history | 436 thousand states |
| `Screen` | its invariant and action properties | window of 5 columns and 4 rows, lines of 5 characters, some of them higher than the window, the line begins in column 3 or 4 | 9 thousand states |
| `KeyReader` | all invariants of KeyReader | 2 prompts, 3 of 8 keys, 2 window changes, 1 Ctrl-C, letter of 5 bytes | 9.3 million states |
| `KeyReaderLive` | `QuestionEnds` | 2 prompts, 2 of 8 keys, 2 window changes, 1 Ctrl-C | 448 thousand states |
| `Words` | `ExpandsOnce`, `MeansWhatIsTyped`, `Finishes` | all words of 6 characters from 7, 3 environments | 730 thousand states |
| `Environment` | `NamesUnique`, `DirectoriesKnown`, `AsPromised` | 3 entries, 5 names of which two are taken for each other, 2 directories | 16 thousand states |
| `Lexer` | the lexer against `Reference`, and when it prompts | all texts of 5 characters from 10 classes, on any number of lines | 1.7 million states |
| `AstCreator` | the descent against the grammar, the order of here-documents | all sequences of 6 tokens, any here-document broken off | 475 thousand states |

Why the bounds are enough for the interesting cases.  Five processes are a
shell, a nested shell it waits for, and a pipeline with a redirected or external
member under it; two lines let the second meet what the first has left behind.
Fork may fail at any time in the model, so running out of processes adds no
behaviour.  Ten descriptors are the six of the prompt and four: the file and the
copy of one redirection and those of a second inside it, or a pipe under one of
them, and any more is a full table, which must be survived too.  Redirections
name descriptors 0 to 5: a higher one is at most another free one.  The lines have
each kind of redirection, two of the same command in either order, one of a
descriptor that is itself a copy of the terminal (3), a here-document, and `;`
nested on both sides.  Three commands are one evaluator inside another, whose child
inherits the ends of two pipes.  Nine descriptors are few enough for a table
to fill up under a redirection, so that `pipe` and `open` fail for this reason
too.  A history of three with three prompts and drafts is full, evicts on
a command, on a draft, and on both, and loses a third command to a second draft if
Ctrl-D has left the first; AM_HISTORY only has to be reached.
`MaxPieces` bounds what is read at the continuation prompts, `MaxPrompts` the
session; `CHECK_DEADLOCK FALSE` in the run of History is for its end, and for
the exit of the shell.  `Lexer` and `AstCreator` stop when the command is done,
and so do their runs.  Four bytes hold two characters of two bytes, or one with a
blank and a letter on its sides: the smallest lines on which a motion by bytes, by
characters and by words differ, with a selection in either direction and a
clipboard to paste in between.  Five characters hold an operator of two
characters between a number and a word, or a quotation with the other quote in
it, closed on a later line.  Six tokens hold two redirections of one command, the
file of the first being a number, or a here-document on each side of a separator.
A window of five columns leaves room for one or two characters behind the prompt, so that
five characters fill the first row and begin or end in a second, and six lines in four rows
scroll.  There are fewer rows than columns, so that the reported column is cut
(`le_reading.c:31`).  `MaxDrift` lets
`curpos` run three rows off the screen.  A letter of five bytes is filled by an
escape sequence and two bytes behind it; three keys are one that goes wrong, one that comes behind it,
and one after a pause that must go right, or a key left over from the prompt before;
two window changes are a change during the question that another has led to.
`CHECK_DEADLOCK FALSE` in the runs of KeyReader is for a user who stops typing.  Six
characters are a name in double quotes with something in front or behind, or two quotations
side by side; three entries are the three variables of `cd`, or one of them and
the two names that are confused.
ShellExec runs check for deadlock: the only state without
a step is the one where everybody has exited (`Done`).

Each module states a `TypeOK`.  Those of ShellExec and History are proved (`TypeCorrect`,
`HistoryTyped`).  The others describe the variables to the reader; they hold
with the configurations above, but the runs ask more telling questions.

### Safety

 - `ShellsNest`: ShellExec implements Nest.  Shells come and go like brackets, and one
   at a time is not blocked in `wait(0)` (`ForegroundExclusive`, which is proved but
   in no run of its own).  The exception is a pipeline whose second fork failed.
 - `PromptAlone`: at a prompt every other live process is a waiting shell further
   out; no member of a pipeline or command is left.
 - `WaitHasChild`: no wait loop is without its child.
 - `ReturnsAsBigStep`: what a redirection sees of the command below it is what a
   big-step reading of the tree allows.  This is the only source of nested
   shells besides a failed execve.
 - `TablesAtPrompt`: at its prompt a shell has the terminal on 0, 1 and 2 whatever
   redirections it has climbed out of; the first shell has nothing else open and a
   nested one no end of a pipe.  `SeesRedirections`: a command finds on its
   descriptors what its redirections say of those it was forked with, applied in the
   order in which they are written.  (If the table is full, /dev/null cannot be opened and
   the code goes on as if it were: `NullsOpen`.)
   `RawAtPrompt`: the terminal is raw at a prompt and never while a command runs.
 - `EachOnce`: back at the prompt where a line was typed, the right part of each `;` has
   been run once, and once more for each nested shell left behind in the left part.
 - `EndsMeanEnds`: an end of file or a broken pipe comes only when the neighbour
   is over.  It holds even for a neighbour that has been redirected away from the
   pipe, because `oldfd` is never closed.
 - `ShellClean`: the shell has its descriptors back, whatever has failed.
 - `WholeOutput`: what was typed comes out once, before the next prompt.
 - `IndicesInRange`, `DraftIsLast`, `JoinsOwnCommand`, `LosesOldestOnly`,
   `NoBlankCommand` for the history.  They say, in this order, that array and
   indices stay within bounds, that ending a search takes off the draft and
   nothing else, that a continued line is joined to its own command, that only
   the oldest commands are lost, and that a blank line is not kept.  A draft
   that Ctrl-C or Ctrl-D leaves behind (`leaked`) may be blank; so the code behaves.
   If Ctrl-D leaves it under the prompt of a here-document that another follows, it
   lies above the command being continued (`behind`), and the next one above it: the
   command is then no longer last, which is harmless as only a quotation joins.

 - `WholeCharacters` and `InBounds` for the line editor: buffer and clipboard are made
   of whole characters, cursor and selection lie between two, the moving end of a
   selection is at the cursor, and no loop or copy leaves the buffer, up to the two
   defects above.
 - `Promised`: the editor of bytes implements the editor of characters, as a whole and
   key by key (`KeysAsPromised`).
 - `LexesAsReference` and `PromptsForMore`: the tokens do not depend on how the
   command was broken into lines, and a prompt for more comes exactly when a
   quotation is open or the last token is a pipe.
 - `TreeOfGrammar` and `DocumentsInOrder`: a tree exactly for the commands of the
   grammar, and that tree; the here-documents are asked for in the order of the
   text, though the descent begins at the last separator.

 - `KeysInOrder`: unless a key comes at a bad moment each is acted on once, whole and
   in order, and no answer of the terminal is taken for a key; and after a pause this
   is so again.
 - `InterruptsPaid`, `SizeKnown`, `CursorKnown`: a stale `g_sigwinch` swallows no more
   Ctrl-C's than there were window changes; the editor knows the size of the
   window, or has the flag to tell it; it knows the cursor from an answer.
 - `ExpandsOnce`, `MeansWhatIsTyped`: the passes in place do what one look at each
   character would; no value is read again, and no quote that was typed survives.
 - `NamesUnique`, `DirectoriesKnown`, `AsPromised`: no name is entered twice, PWD and
   OLDPWD are right as long as nobody else sets them, and the array implements
   the function of `Variables`, command by command.
 - `CursorTrue`: `curpos` is where the terminal's cursor is, wherever rows are full.
 - `PrintsInPlace`: printing the line again overwrites nothing above it and leaves
   nothing of the old line behind.
 - `RowsKeepColumn`: Alt-Up and Alt-Down go to the nearest place in the same column.

### Liveness and fairness

`FairSpec` assumes weak fairness of each process's own steps, `Shells(p)`, which
is the kernel's scheduling, and of `ProgramExit(p)`: programs are assumed to end,
for a shell cannot come back from one that does not.  Nothing is assumed of the
user.  Under it the terminal is always given back (`Responsive`) and each zombie
is reaped (`ZombiesReaped`), by its parent or by init, but for the child of a
pipeline whose second fork failed.

The `FairSpec` of Pipeline assumes weak fairness of the steps of each process,
the reading and writing of the commands included; no command is assumed to stop
before its input does (`Quit` has no fairness).  Under it every pipeline comes to
its end (`Completes`): nobody waits for an end of file that depends on him.

The `FairSpec` of KeyReader assumes weak fairness of the shell's own steps
(`Reader`) and of the second piece of a key (`Rest`), and strong fairness of the
answer of the terminal, which a user who types without pause could otherwise keep
back for ever.  Nothing is assumed of keys and signals.  Under it the question for
the cursor ends (`QuestionEnds`).  That of Words assumes the loops to run on;
`Finishes` is then that they end.

## What is proved

For all values of the constants, from `PidAssumption` and `NodeAssumption` (ShellExec),
`DescriptorAssumption` and `TreeAssumption` (Descriptors), `SemiAssumption` (Reruns), `PipelineAssumption` (Pipeline), `TextAssumption` and `BoundAssumption` (History),
`ByteAssumption` (LineEditor), `KeyAssumption` (KeyReader), `EnvironmentAssumption` and `DirectoryNames`
(Environment), `CharacterAssumption` (Lexer) and `WordAssumption` (Words):

 - `TypeCorrect`: `Spec => []TypeOK`.  Inductive with `NodeInv`: a process that
   is in the middle of a call is at a node of the kind the call is for.
 - `WaitsHaveChildren`: `Spec => []WaitHasChild`.  Inductive with `Waits`, which
   ties `pid0` and `pid1` to the states they are set in and keeps them apart from
   each other: a child reaped or orphaned is nobody else's `pid`.
 - `OneShellAtATime`: `Spec => []ForegroundExclusive`.  The property says nothing
   about how the shells hang together, so it is not inductive.  The strengthening
   is that they form a chain: no two live shells have the same `depth`
   (`DepthUnique`), every one but the innermost is in `wait(0)` (`OuterWaits`),
   there is no gap in the depths (`NoGap`) and each has its parent one level above
   (`ParentAbove`); a process in `wait(0)` has one child (`Families`).  The lemma
   `StepEffects` classifies all actions by what they do to one process and the
   one it forks or reaps, so that the chain is treated once for each kind of
   step instead of once for each action.
 - `ShellsAreNested`: `Spec => ShellsNest`, the refinement of Nest.  The chain makes the
   active shell the innermost one (`ActiveInnermost`); each class of `StepEffects` is then an
   `Enter`, a `Leave`, a `Resume` or a stutter.
 - `PromptsAlone`: `Spec => []PromptAlone`.  Only Root has no parent, and it is at home
   (`Orphans`); each other process is one level below its parent (`Depths`); what
   prompts returns to main (`Prompters`).  If somebody under a prompt were no shell, the
   least deep one of those would have a shell for a parent, which is around the
   one that prompts and waits for it, and a shell in `wait(0)` has one child only
   (`ShellsOnly`).
 - `ReturnsSound`: `Spec => []ReturnsAsBigStep`.  `CallInv`: callers are of the kinds of their nodes,
   each redirection has called what is around the next caller; who is below a
   redirection is at the node under it, without need of a fork, and returns one of its
   outcomes.  It says little of a process with `needfork`, because what such a one
   returns to is no redirection.  `Outcomes` is a recursive function of the tree;
   that it has a solution is proved of the least map that is closed under one level of its
   definition (`OutcomesExist`), so the nodes may hang together in any way.
 - `PromptsRestored`, `RawOnlyAtPrompt`: `DSpec => []TablesAtPrompt` and `DSpec => []RawAtPrompt`, for
   tables of any size from 6 and any redirections of 0 to 5.  `DescInv` says of each shell that 0 to 5
   are open and no ends of a pipe, that the copies of what its redirections have replaced are
   open in descriptors of their own from 6 on, and for 3, 4 and 5 that the terminal is there, or in the copy kept
   by the outermost redirection of that descriptor, unless it is lost (`StackOk`, kept by
   `StackPush` and `StackPop`).  There are as many copies as redirections among
   the callers (`Deep`, `CountOk`): so a shell that returns to main has none left.  The first
   shell is never in a redirection itself (`First`).  Ends of a pipe are in a shell's table
   only between the two forks of its own pipeline; with `PromptAlone` nobody else has any at a
   prompt.  `TtyInv` ties the mode of the terminal to the one active shell (`ForegroundExclusive`).
 - `CommandsSeeRedirections`: `DSpec => []SeesRedirections`.  `Sight` is the property for each process
   that has returned from nothing yet: what is on 0 to 5 is the fold of its redirections
   over what it was forked with; one more redirection is one more step of that fold
   (`FoldPush`, `RedirectedLow`), and who is forked has none behind it (`ForksUnredirected`,
   from `TreeAssumption`: no ';' is below a redirection or a pipe, as the AST creator builds
   trees).  That the fold is over the parent's table makes two more invariants
   necessary.  The parent waits, and must not change what it has on 0 to 5 meanwhile: it does
   so only when it closes its own pipe, of which no end may be there.
   So `HeldInv` says whose pipe the ends on 0 to 5 belong to, namely to processes further
   out that still wait, and that all of 0 to 5 are open, without which a copy could land
   on one of them (`NoHolder`, `OwnerKeeps`).  `SideInv` is that the side of a pipeline evaluates
   in place and never forks but for pipelines of its own.
 - `PartsRunOnce`: `RSpec => []EachOnce`, for lines of any length and any number of nested shells.
   First, in ShellExec alone, `PlacedInv`: a process is where its callers say (`Linked`,
   `CalledBy`).  From `SemiAssumption` follows that the `;` whose right part it still has to run
   are those around it, each once (`SemiCaller`, `WaitingOnce`), and that it has not gone past an
   `exit` (`Survived`); and a process that will be a shell again is, between its fork and its return
   to its callers, inside a redirection it was forked for (`Forked`).  So for each process `Due` says
   which right parts it will run if nothing fails: all that are ahead of it, but none
   while it is a child that is to exit.  Then the log: in each line, for each `;` that does not
   end the process on its left, the number of times its right part was begun, and of processes
   that are still to begin it (`Owing`), is one more than the number of
   children that stayed (`Balanced`).  A right part begun moves one process from one number to
   the other (`LineRerun`); a child that stays adds one to both sides (`LineStay`), since nothing was due
   from it before; one that is forked adds none (`LineFork`), and who dies has
   nothing due but what an `exit` has cut off (`Dying`).  `Tracks` is that a process that may prompt has all of
   its line ahead or behind it, and is at least as deep as the shell the line was typed at.
   So at the prompt nothing is ahead, by `PromptAlone` all others are further out than
   that shell, hence in other lines, and nobody owes anything.
 - `ShellKeepsDescriptors`: `Spec => []ShellClean` for pipelines of any length,
   any table size from 6 and any redirections.  `ShellTable` says what the shell's
   table is at each place of `parse_ast_pipe`: that of the prompt, or that with the
   pipe in the two lowest free descriptors, which are those in `fdpipe` (`PipeGiven`).
   `ShellIsNoChild` keeps the shell apart from the processes that others fork.
 - `EndsAreTrue`: `Spec => []EndsMeanEnds`, again for any length, table size and redirections.
   `PipelineInv` says of every process what is in its table at each place of the code:
   that of a call is the prompt's with the write end of the next pipe as its output
   (`Base`), with or without its own pipe (`EvaluatorTable`); a child's is its parent's
   until it has closed the end it does not use (`ChildTable`); a command has its ends of the
   pipes beside it, in whatever descriptors, and the write end of no other
   (`CommandTable`).  `InOrder` is the order of forks and waits, so that who is over
   has nobody under him who is not.  So somebody in the subtree on the left holds the
   write end as long as the command on the left has not ended (`HolderOfChild`), and
   nobody else but the caller, before it closes it, needs to be looked at (`EndIsRight`).
   That nothing loses an end of a pipe by a redirection is `SavedIsKept`.
 - `OutputIsWhole`: `Spec => []WholeOutput`, for pipelines of any length.  Instead of sums over pipes
   and commands, `Conserved` gives each command two numbers, what it has
   read and what it has written, and ties neighbours together through the pipe between them
   (`Balanced`).  A command that is over has left nothing in itself or in its pipe, and the
   one on its left is over too (`Drained`): by `EndsMeanEnds` only that one's end can have
   ended it.  When the last is over, all numbers are the same.
 - `HistoryTyped`, `HistoryIndices`, `DraftOnly`, `JoinsOwn`, `BlanksStayOut`, `OldestOnly`: `TypeOK` and all
   five invariants of the run, for any `AM_HISTORY` of at least 2 and lines of any
   length.  `IndexInv` keeps `current` below the size of the array; `SettledStep`
   says that a step leaves the commands below the draft as they are, evicts the oldest,
   appends, joins, or, with Ctrl-C or Ctrl-D, leaves the draft.  For `OldestOnly` the
   commands are compared with those of the last prompt entry by entry (`LostInv`, kept
   by `LostStep`): below what was added since, which is the command being continued and
   the drafts left above it (`Added`), there is the end of what main's prompt found, and it
   is all of it until the history is full but for the place of a draft.  `LostSteps` says what a step does to both.
 - `EditorTyped`, `CharactersStayWhole`, `StaysInBounds`: `TypeOK` and both invariants of
   LineEditor, for characters of any number of bytes, lines of any length, and any text in
   the history.  Every loop stops at the border of a character, if it
   begins at one (`StopsAreBorders`, `AheadAreBorders`, `WordIsBorder`), and whole characters
   stay whole if they are cut and joined at borders (`CutIsWhole`, `JoinIsWhole`).  The invariants
   alone are not inductive: the cut of a selection needs both of its ends in the
   line even if characters have been torn, and the cursor then is where printing the line has left it
   for the moving end, which may be beyond it (`SelectionInv`).
 - `ImplementsEditor`: `Spec => Promised`, the refinement of Editor as a whole and key by key.
   Under the invariant, and up to the first torn character, the offsets where a
   loop may halt are exactly the borders of characters (`StopsAreAll`, `AheadIsBorders`),
   and `Index` is one to one and monotonic on borders (`IndexOrder`); so one step to either
   side is one character (`RightIsNext`, `LeftIsLast`), and the nearest word
   of the bytes is that of the characters (`BegWordIsNearest`, `EndWordIsNearest`).
   `Chars` turns cuts and joins at borders into cuts and joins of characters (`CharsJoin`,
   `CharsCut`, `CharsRest`, `CharsMore`).  A paste makes as many steps to the right as the
   clipboard has characters, and `StepsAhead` says where they lead.
 - `InterruptsArePaid`, `SizeIsKnown`: `InterruptsPaid` and `SizeKnown`, for any bytes,
   keys and numbers of signals.  Both come from `FlagInv`, which says of each place
   of the code what the flag stands for: a change not yet looked at, or, in the
   question of `le_reading`, one that is being looked at and no longer counts.
 - `KeysAreInOrder`: `KeysInOrder`, for any commands of which none is the beginning of another, any
   keys that send a command, a character or a control character, any number of keys, resizes and interrupts, and however late the second piece of a
   key or the answer comes.  `OrderInv` is that while the shell reads there is a sequence
   of keys whose bytes are just those in the letter, in the queue and on the wire, and whose
   meanings are just what `delivered` has beyond `acted` (`Flow`); that only the last of
   them can begin with an escape, since a key behind one would be hasty; and
   that while the shell asks nothing is there but its question or the answer (`Quiet`).
   A key pressed is appended to the sequence (`FlowAdd`), one acted on is taken from its
   front (`FlowDrop`): what a read takes is the whole first key (`ReadFirstOrder`,
   `ReadRestOrder`), and the command found in it is the key itself (`KeyTaken`).  An answer of 16 bytes, which
   `KeyAssumption` excludes, would break the property: if a signal has cut the first read
   short, the escape is read into `temp` too, and the last byte would be left for a key.
 - `CursorIsKnown`: `CursorKnown`, for any keys and any answer of at most 15 bytes that begins with
   an escape.  `AnswerInv`: as long as nothing crosses the question the queue holds its answer and
   nothing else, and `temp` has room for all of it behind the escape (`WholeAnswer`).
 - `NamesStayUnique`: `NamesUnique` for any names, values and directories.  `EnvInv` is
   that each entry has an '='; then an entry is found under its own name
   (`NameIsFound`, an argument about the first byte in which two strings differ), so that
   `set_env` appends only what is not there yet.
 - `DirectoriesAreKnown`: `DirectoriesKnown`.  The names that cd uses are made of
   letters which no byte of another name can be 61 above (`DirectoryNames`), so that what is
   found under them has that name (`FoundIsNamed`); `DirInv` is that the entries cd has
   written are still in the array.
 - `KeepsItsPromise`: `Spec => AsPromised`, the refinement of `Variables` command by command.
   `SetList` and `UnsetList` say what becomes of the listed variables when the array is
   changed; `TellList` uses the first of them twice.

   The assumptions here are that the shell is started with entries that have an '=' and no
   name twice, that HOME, PWD and OLDPWD are three names, and `DirectoryNames`, which
   their letters satisfy.
 - `LexerTyped`, `TokensAreReference`, `PromptsWhenUnfinished`: `TypeOK`, `LexesAsReference` and
   `PromptsForMore`, for commands of any length over any characters, on any number of lines.
   The only assumption is that plain characters, digits and the characters that mean
   something are different.  The reference looks at the whole text, the code has at each turn only what was
   read, so the invariant has to say what the tokens are in between.  `Cuts` gives each of
   them the places p[i] .. q[i] of its text: they are in order, each is a character that begins a
   token and those that go on with it, and all else is white space (`Covered`); a finished one
   has its whole text, and the one under construction may still grow.  The types lag behind: that of a
   word is open until the operator behind it is complete (`Typed`).  The turn that ends an operator does the
   rest of the word before it (`FinishOperator`), and is then one of three: a token is
   pushed (`PushWord`), begun (`BeginToken`) or extended (`ExtendToken`).  A further line changes
   nothing of what was known (`RolesGrow`, `Growth`).  At the end the p[i] are all the beginnings there are, in
   order, so that the i-th token of the reference is the i-th of the code (`TokensAre`).  `Open`
   and `Roles` are recursive functions of the text; that they exist is shown once (`RunsExist`).
 - `WordsTyped`, `NamesExpandedOnce`, `WordsMeant`: `TypeOK`, `ExpandsOnce` and
   `MeansWhatIsTyped`, for words of any length over any characters and for any environment.  The
   only assumption is that the five characters that mean something are different and that
   values are made of characters.  `Expansion(quotes)[k]` is what the first k characters of
   the word stand for; that it exists, and that the last of it is the reference, is shown
   once (`Joined`, `FlattenJoins`, `PiecesAre`).  `Walk` says where the loops are.  In
   env_expansion, at a character k of the word that was typed and that stands in no
   name: before the offset is `Expansion(TRUE)[k]`, behind it what was typed,
   and the two flags are the quotation the lexer knows (`AtCharacter`); or in the value of HOME
   (`InHome`).  A turn goes on by one character, or by a name and its dollar
   (`ValueReplaces`: the name that the code finds in the changed word is the one that stands in the
   word that was typed, and all of it becomes the value).  In quote_removing, behind a
   quotation: before `nextsearch` is `Expansion(FALSE)[k]`, behind it what env_expansion
   has made of the rest (`Removed`).  The next two quotes the code finds are the next
   two that enclose something (`NextQuotation`, `NextQuotes`): between the quotations
   there is none, since no value brings in any, and inside of one there is none of its
   own kind.

Only model-checked:

 - `TreeOfGrammar` and `DocumentsInOrder` of `AstCreator`, whose functions are recursive operators:
   that they compute what the reference does for every list of tokens would need an induction
   over data with an operator, which is out of the prover's reach;
 - `CursorTrue`, `PrintsInPlace` and `RowsKeepColumn` of `Screen`: arithmetic with quotients and
   remainders by the width of the window, summed over the lines of a text, which has not been attempted;
 - that the passes of `Words` end (`Finishes`) and the other liveness properties, which TLAPS
   does not reach.

## Not modelled

 - The search for a command in PATH and the tests of the file found (`msh_exec.c:15-85`):
   their outcome is a choice (`EvalNotFound`).
 - The arithmetic on paths of `cd a b`: it works in memory that is never cleared
   (`msh_cd.c:88`), so any directory may come out; what `echo`, `pwd` and `env` print.
 - `term_associate` and the termcap look-ups, which are done once; colours, wording and
   messages, `error.c` among them.
 - Whose memory strings are in.  At the `|> ` prompt the finished line is freed before
   the editor has done with it (`lexer_other.c:28`).
 - Environment entries without an '=', on which `get_env` spins (`msh_get_printenv.c:24`): no
   builtin makes one, but the shell may be started with one.  Names with bytes above 127.
 - Words with a double quote inside of single quotes are in `Words`, but the properties
   except them (`Misleads`): the code does not do there what the lexer has seen.
 - Redirections of descriptors above 5 in `Descriptors`.
 - What a here-document contains, and one that does not fit into a pipe.
 - That the terminal's driver throws away what was typed before a Ctrl-C and not yet read:
   in `KeyReader` it is read.
 - The insertion of several characters, or of a part of one, by a single `Insert` of
   `LineEditor`, which happens if keys come while `letter` still holds others.
 - The libraries libft and ft_printf: general helpers, modelled by what they do where a
   module needs them.
