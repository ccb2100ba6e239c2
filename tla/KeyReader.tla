------------------------------ MODULE KeyReader ------------------------------
(***************************************************************************)
(* How 21sh reads keys: input_command with le_reading, the letter being    *)
(* read, the trash behind an escape sequence, the flag g_sigwinch, and     *)
(* the question for the position of the cursor whose answer comes in on    *)
(* the same terminal as the keys.                                          *)
(*                                                                         *)
(* The terminal is a queue of bytes.  A letter is the string before the    *)
(* first 0 in the array of that name.  What a command does to the line is  *)
(* in LineEditor and History; here it only matters which strings are acted *)
(* on, in which order.                                                     *)
(***************************************************************************)
EXTENDS Integers, Sequences, SequencesExt, FiniteSets

CONSTANTS
  Byte,
  Extra,       \* how many bytes the first byte of a character announces
  Cont,        \* the bytes that follow one: 10xxxxxx
  Control,     \* below 040
  Esc, Newline, EOT,
  Command,     \* the strings of g_esc
  Key,         \* what the keys send
  Reply,       \* the terminal's answer to "\x1B[6n"
  READING_SIZE,
  MaxKeys, MaxResizes, MaxInterrupts, MaxPrompts  \* bounds on what the user does

High == Cont \cup {b \in Byte : Extra[b] > 0}

\* A key sends a character, a command, or a control character without a meaning.
\* No command is the beginning of another, and only the lone escape is the
\* beginning of one.  Rows and columns of a window have 16 bits, so that the answer
\* has less than 15 bytes.
ASSUME KeyAssumption ==
  /\ Extra \in [Byte -> 0 .. 3] /\ Cont \subseteq Byte /\ Control \subseteq Byte
  /\ \A b \in Cont \cup Control : Extra[b] = 0
  /\ Cont \cap Control = {}
  /\ {Esc, Newline, EOT} \subseteq Control /\ Esc \notin {Newline, EOT}
  /\ Key \subseteq Seq(Byte) \ {<<>>} /\ Command \subseteq Seq(Byte) \ {<<>>}
  /\ \A k \in Key \ Command :
       \/ Len(k) = 1 /\ k[1] \notin High
       \/ Extra[k[1]] = Len(k) - 1 /\ Len(k) > 1 /\ \A i \in 2 .. Len(k) : k[i] \in Cont
  /\ \A c \in Command :
       /\ Len(c) < READING_SIZE
       /\ Len(c) = 1 => c[1] \notin (Control \ {EOT}) \cup High
       /\ Len(c) > 1 => c[1] = Esc \/ Extra[c[1]] = Len(c) - 1
       /\ \A d \in Command : IsPrefix(c, d) => c = d
  /\ Reply \in Seq(Byte) /\ 1 < Len(Reply) /\ Len(Reply) <= 15 /\ Reply[1] = Esc
  /\ READING_SIZE \in Nat \ {0}

VARIABLES
  pc,           \* where the shell is: between two prompts, reading, or asking
  from,         \* who asks for the cursor: input_command_prep or le_reading
  queue,        \* bytes that have arrived and are not read
  wire,         \* the rest of a key that comes in two pieces
  letter,
  trash,
  g_sigwinch,
  ws,           \* the size of the window as the editor knows it ...
  size,         \* ... and as it is: the number of changes so far
  curpos,       \* whether the position of the cursor was read from a Reply
  asked,        \* questions the terminal has not answered
  prompts, interrupts,
  keys,         \* keys pressed so far, for the bound
  delivered,    \* auxiliary: the keys since the prompt began, or since a pause, but
                \* for those without a meaning
  acted,        \* auxiliary: the strings acted on since then
  disturbed,    \* auxiliary: see below
  crossed,      \* auxiliary: a signal or a key has come during the last question,
                \* or an earlier key or answer was still on its way
  outdated,     \* auxiliary: the window has changed during le_reading's question
  swallowed     \* auxiliary: Ctrl-C's taken for a window change

typing == <<wire, keys, delivered, asked, crossed>>
user == <<size, prompts, interrupts>>
screen == <<ws, curpos, outdated>>
vars == <<pc, from, queue, letter, trash, g_sigwinch, acted, disturbed, swallowed,
          typing, user, screen>>

Asking == {"query", "skip", "answer"}

TypeOK ==
  /\ pc \in {"between", "read", "rest"} \cup Asking
  /\ from \in {"prep", "reading"}
  /\ queue \in Seq(Byte) /\ wire \in Seq(Byte)
  /\ letter \in Seq(Byte) /\ Len(letter) <= READING_SIZE
  /\ trash \in Seq(Byte) /\ Len(trash) < READING_SIZE
  /\ g_sigwinch \in BOOLEAN
  /\ size \in 0 .. MaxResizes /\ ws \in 0 .. size
  /\ curpos \in BOOLEAN
  /\ asked \in Nat
  /\ prompts \in 0 .. MaxPrompts /\ interrupts \in 0 .. MaxInterrupts
  /\ keys \in 0 .. MaxKeys
  /\ delivered \in Seq(Key) /\ acted \in Seq(Seq(Byte))
  /\ disturbed \in BOOLEAN /\ crossed \in BOOLEAN /\ outdated \in BOOLEAN
  /\ swallowed \in 0 .. MaxInterrupts

Init ==
  /\ pc = "between" /\ from = "prep"
  /\ queue = <<>> /\ wire = <<>> /\ letter = <<>> /\ trash = <<>>
  /\ g_sigwinch = FALSE
  /\ ws = 0 /\ size = 0 /\ curpos = FALSE /\ asked = 0
  /\ prompts = 0 /\ interrupts = 0
  /\ keys = 0 /\ delivered = <<>> /\ acted = <<>>
  /\ disturbed = FALSE /\ crossed = FALSE /\ outdated = FALSE
  /\ swallowed = 0

-----------------------------------------------------------------------------
(* The user and the terminal                                               *)

\* le_ignore_special_chars; char is signed, so that a byte of a wide character
\* by itself is below 040.
Ignored(l) == Len(l) = 1 /\ l[1] \in (Control \cup High) \ {EOT, Newline}

Effective(k) == k \in Command \/ ~Ignored(k)

Has(s, b) == \E i \in DOMAIN s : s[i] = b

\* A key that comes now is read together with an escape sequence before it, or
\* while the shell looks for the answer of the terminal.
Hasty ==
  \/ pc \in Asking
  \/ Has(queue, Esc)
  \/ pc = "rest" /\ letter[1] = Esc

\* The user has paused until all is read.
Calm == pc = "read" /\ queue = <<>> /\ wire = <<>> /\ trash = <<>> /\ asked = 0

\* A key arrives as a whole, or in two pieces of which the second may be late.
\* A piece of two bytes or more may be taken for a key.  After a pause the count of
\* what is delivered and acted on begins anew, whatever has gone wrong before.
Press(k) ==
  /\ wire = <<>>
  /\ keys < MaxKeys
  /\ keys' = keys + 1
  /\ LET anew == disturbed /\ Calm
     IN /\ delivered' = (IF anew THEN <<>> ELSE delivered)
                        \o (IF Effective(k) THEN <<k>> ELSE <<>>)
        /\ acted' = IF anew THEN <<>> ELSE acted
        /\ \E n \in 1 .. Len(k) :
             /\ queue' = queue \o SubSeq(k, 1, n)
             /\ wire' = SubSeq(k, n + 1, Len(k))
             /\ disturbed' = ((disturbed /\ ~anew) \/ Hasty \/ n \in 2 .. Len(k) - 1)
  /\ crossed' = (crossed \/ pc \in Asking)
  /\ UNCHANGED <<pc, from, letter, trash, g_sigwinch, swallowed, asked, user, screen>>

Rest ==
  /\ wire # <<>>
  /\ queue' = queue \o wire
  /\ wire' = <<>>
  /\ UNCHANGED <<pc, from, letter, trash, g_sigwinch, acted, disturbed, swallowed,
                 keys, delivered, asked, crossed, user, screen>>

Answered ==
  /\ asked > 0 /\ wire = <<>>
  /\ asked' = asked - 1
  /\ queue' = queue \o Reply
  /\ UNCHANGED <<pc, from, letter, trash, g_sigwinch, acted, disturbed, swallowed,
                 wire, keys, delivered, crossed, user, screen>>

-----------------------------------------------------------------------------
(* Acting on a letter                                                      *)

\* ft_strnstr over the length of the command finds it at the beginning only.
Matching(l) == {c \in Command : IsPrefix(c, l)}

Acts(l) ==
  /\ l # <<>> /\ ~Ignored(l)
  /\ Matching(l) # {} \/ l[1] # Esc

\* le_line_editing: the command the letter begins with; otherwise the letter is
\* Enter or is inserted into the line as it is.
Taken(l) == IF Matching(l) = {} THEN l ELSE CHOOSE c \in Matching(l) : TRUE

\* check_trash: what was read behind the command.
Kept(l) == IF Matching(l) = {} THEN <<>> ELSE SubSeq(l, Len(Taken(l)) + 1, Len(l))

\* Enter ends the prompt; so does EOT, if the line is empty.
EndsPrompt(l) ==
  CASE Taken(l) = <<Newline>> -> {TRUE}
    [] Taken(l) = <<EOT>> -> BOOLEAN
    [] OTHER -> {FALSE}

ActOn(l) ==
  /\ acted' = IF Acts(l) THEN Append(acted, Taken(l)) ELSE acted
  /\ trash' = Kept(l)
  /\ letter' = <<>>
  /\ \E e \in EndsPrompt(l) : pc' = IF e THEN "between" ELSE "read"

-----------------------------------------------------------------------------
(* input_command_kernel                                                    *)

\* Fault: one more byte, however many are announced.
WantedOne(b) == IF b = Esc THEN READING_SIZE - 1 ELSE IF Extra[b] > 0 THEN 1 ELSE 0

\* How many bytes after_read_unicode asks for after the first.
Wanted(b) == IF b = Esc THEN READING_SIZE - 1 ELSE Extra[b]

\* A read takes what is there.
Took(n) == SubSeq(queue, 1, IF n < Len(queue) THEN n ELSE Len(queue))
Left(n) == SubSeq(queue, n + 1, Len(queue))

ReadFirst ==
  /\ pc = "read" /\ trash = <<>> /\ queue # <<>>
  /\ queue' = Tail(queue)
  /\ IF Wanted(Head(queue)) > 0
     THEN /\ letter' = <<Head(queue)>>
          /\ pc' = "rest"
          /\ UNCHANGED <<trash, acted>>
     ELSE ActOn(<<Head(queue)>>)
  /\ UNCHANGED <<from, g_sigwinch, disturbed, swallowed, typing, user, screen>>

ReadRest ==
  /\ pc = "rest" /\ queue # <<>>
  /\ LET n == Wanted(letter[1])
     IN /\ ActOn(letter \o Took(n))
        /\ queue' = Left(n)
  /\ UNCHANGED <<from, g_sigwinch, disturbed, swallowed, typing, user, screen>>

\* le_is_trash_exist makes the trash the letter and forgets it; its length is
\* then 0, and the next bytes are read over its beginning.
ReadOver ==
  /\ pc = "read" /\ trash # <<>> /\ queue # <<>>
  /\ LET got == Took(READING_SIZE)
     IN ActOn(got \o SubSeq(trash, Len(got) + 1, Len(trash)))
  /\ queue' = Left(READING_SIZE)
  /\ UNCHANGED <<from, g_sigwinch, disturbed, swallowed, typing, user, screen>>

-----------------------------------------------------------------------------
(* get_cursor_position, and its two callers                                *)

\* What is still to come will be mixed up with the answer.
Pursued == queue # <<>> \/ wire # <<>> \/ asked > 0

\* Fault: the question is not written.
AskNothing(caller) ==
  /\ pc' = "query" /\ from' = caller
  /\ crossed' = Pursued /\ outdated' = FALSE
  /\ UNCHANGED asked

Ask(caller) ==
  /\ pc' = "query" /\ from' = caller
  /\ asked' = asked + 1
  /\ crossed' = Pursued /\ outdated' = FALSE

\* ft_bzero
NewEditor == letter' = <<>> /\ trash' = <<>>

\* input_command_prep
Prompt ==
  /\ pc = "between" /\ prompts < MaxPrompts
  /\ prompts' = prompts + 1
  /\ Ask("prep")
  /\ NewEditor
  /\ delivered' = <<>> /\ acted' = <<>>
  /\ disturbed' = Pursued
  /\ ws' = size
  /\ UNCHANGED <<queue, wire, keys, curpos, g_sigwinch, size, interrupts, swallowed>>

\* Everything before the first escape is thrown away.
Skip ==
  /\ pc \in {"query", "skip"} /\ queue # <<>>
  /\ queue' = Tail(queue)
  /\ pc' = IF Head(queue) = Esc THEN "answer" ELSE "skip"
  /\ UNCHANGED <<from, letter, trash, g_sigwinch, acted, disturbed, swallowed,
                 typing, user, screen>>

\* Fault: le_reading does not clear the flag.
GoOnFlagged(flag) ==
  /\ g_sigwinch' = flag
  /\ \/ from = "prep" /\ pc' = "read" /\ UNCHANGED <<letter, trash, acted>>
     \/ from = "reading" /\ ActOn(letter)

\* Fault: get_cursor_position clears it, for both callers.
GoOnCleared(flag) ==
  /\ g_sigwinch' = FALSE
  /\ \/ from = "prep" /\ pc' = "read" /\ UNCHANGED <<letter, trash, acted>>
     \/ from = "reading" /\ ActOn(letter)

\* le_reading clears the flag and returns 0, as after a key.
GoOn(flag) ==
  \/ /\ from = "prep"
     /\ pc' = "read" /\ g_sigwinch' = flag
     /\ UNCHANGED <<letter, trash, acted>>
  \/ /\ from = "reading"
     /\ g_sigwinch' = FALSE
     /\ ActOn(letter)

\* Fault: the buffer is too short for the answer.
ShortAnswer == 2

\* The room in temp behind the escape.
AnswerSize == 15

Position ==
  /\ pc = "answer" /\ queue # <<>>
  /\ curpos' = (Took(AnswerSize) = Tail(Reply))
  /\ queue' = Left(AnswerSize)
  /\ GoOn(g_sigwinch)
  /\ UNCHANGED <<from, disturbed, swallowed, typing, user, ws, outdated>>

-----------------------------------------------------------------------------
(* Signals                                                                 *)

Blocked == queue = <<>> /\ pc # "between"

\* The read of a key fails.  With trash, the letter is the trash.
ReadFails ==
  /\ Blocked /\ pc \in {"read", "rest"}
  /\ letter' = IF trash # <<>> THEN trash ELSE letter
  /\ trash' = <<>>
  /\ disturbed' = (disturbed \/ wire # <<>>)

Resize ==
  /\ size < MaxResizes
  /\ size' = size + 1
  /\ UNCHANGED <<prompts, interrupts>>

Interrupt ==
  /\ interrupts < MaxInterrupts
  /\ interrupts' = interrupts + 1
  /\ UNCHANGED <<size, prompts>>

\* SIGWINCH during the read of a key: le_reading asks for the size and the cursor.
WindowChange ==
  /\ Resize /\ ReadFails
  /\ g_sigwinch' = TRUE
  /\ Ask("reading")
  /\ ws' = size'
  /\ UNCHANGED <<queue, wire, keys, delivered, curpos, acted, swallowed>>

\* SIGWINCH elsewhere, also just before a read: only the flag is set, and
\* le_reading, if it is asking, will clear it.
WindowChangeUnseen ==
  /\ Resize
  /\ g_sigwinch' = TRUE
  /\ outdated' = (outdated \/ (pc \in Asking /\ from = "reading"))
  /\ UNCHANGED <<pc, from, queue, letter, trash, acted, disturbed, swallowed, typing,
                 ws, curpos>>

\* Ctrl-C during the read of a key: input_command returns NULL.
CtrlC ==
  /\ Interrupt /\ ReadFails
  /\ ~g_sigwinch
  /\ pc' = "between"
  /\ UNCHANGED <<from, queue, g_sigwinch, acted, swallowed, typing, screen>>

\* The flag is still set from an earlier change.
CtrlCForResize ==
  /\ Interrupt /\ ReadFails
  /\ g_sigwinch
  /\ swallowed' = swallowed + 1
  /\ Ask("reading")
  /\ ws' = size
  /\ UNCHANGED <<queue, wire, keys, delivered, curpos, g_sigwinch, acted>>

\* A signal during get_cursor_position.
Cross(flag) ==
  /\ Blocked /\ pc \in Asking
  /\ crossed' = TRUE
  /\ \/ Interrupt /\ flag = g_sigwinch /\ UNCHANGED outdated
     \/ Resize /\ flag = TRUE /\ outdated' = (outdated \/ from = "reading")
  /\ UNCHANGED <<from, queue, wire, keys, delivered, asked, ws, swallowed>>

\* The loop goes on after a failed read; but as long as it has read nothing it
\* then looks at memory that nobody has written, and may end.
CrossFirst ==
  /\ pc = "query" /\ pc' = "answer"
  /\ Cross(g_sigwinch')
  /\ UNCHANGED <<letter, trash, acted, disturbed, curpos>>

\* The second read fails: the answer will be read as a key.
CrossSecond ==
  /\ pc = "answer"
  /\ \E flag \in BOOLEAN : Cross(flag) /\ GoOn(flag)
  /\ curpos' = FALSE
  /\ disturbed' = TRUE

-----------------------------------------------------------------------------
Reader == ReadFirst \/ ReadRest \/ ReadOver \/ Skip \/ Position

User == Prompt \/ \E k \in Key : Press(k)

Signal ==
  \/ WindowChange \/ WindowChangeUnseen \/ CtrlC \/ CtrlCForResize
  \/ CrossFirst \/ CrossSecond

Next == Reader \/ User \/ Rest \/ Answered \/ Signal

Spec == Init /\ [][Next]_vars

\* The shell is scheduled, what has been sent arrives, and the terminal answers.
\* The user owes nothing.
FairSpec == Spec /\ WF_vars(Reader) /\ WF_vars(Rest) /\ SF_vars(Answered)

-----------------------------------------------------------------------------
(* Properties                                                              *)

\* A user who is not hasty finds each key acted on once and in order, whatever
\* signals come between: no answer of the terminal is taken for a key, no key for
\* an answer, no character is cut, and Escape or a control character has no
\* effect.  disturbed stands for: a key has come right behind an escape sequence
\* or while the shell asked for the cursor, in two pieces of which the first could
\* be taken for a key or with a signal between them, or the answer was given up.
\* It does not outlast a pause: what such keys have left behind spoils no later one.
KeysInOrder ==
  pc # "between" /\ ~disturbed =>
    /\ IsPrefix(acted, delivered)
    /\ pc = "read" /\ queue = <<>> => acted = delivered

\* A Ctrl-C has no effect only if a window change has left its flag behind, and
\* each change excuses one: the flag does not outlast the question it leads to.
InterruptsPaid ==
  LET pending == g_sigwinch /\ ~(pc \in Asking /\ from = "reading")
  IN swallowed + (IF pending THEN 1 ELSE 0) <= size

\* The editor knows the size of the window, or the flag will make it look at the
\* next signal; but le_reading clears the flag only after its question, and
\* with it that of a change in the meantime.
SizeKnown == pc \in {"read", "rest"} /\ ~g_sigwinch /\ ~outdated => ws = size

\* The editor's idea of where the cursor is comes from an answer of the terminal, if
\* neither the user nor a signal has come in between.
CursorKnown == pc \in {"read", "rest"} /\ ~crossed => curpos

\* The question for the cursor ends, whatever else is in the queue and whoever
\* has taken an earlier answer.
QuestionEnds == pc \in Asking ~> pc \notin Asking

=============================================================================
