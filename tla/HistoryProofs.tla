---------------------------- MODULE HistoryProofs ----------------------------
(***************************************************************************)
(* Proofs about History, for histories of any size of at least two and     *)
(* lines, commands and sessions of any length.                             *)
(***************************************************************************)
EXTENDS History, SequenceTheorems, TLAPS

-----------------------------------------------------------------------------
(* The operations of history.c                                             *)

\* Appending a command: the array does not grow beyond its size, and the new
\* command is last.
LEMMA HistoryAppendType ==
  ASSUME NEW cmds \in Seq(Lines), Len(cmds) <= MaxHistory, NEW l \in Lines
  PROVE  LET new == HistoryAppend(cmds, l)
         IN /\ new \in Seq(Lines)
            /\ Len(new) = IF Len(cmds) = MaxHistory THEN MaxHistory ELSE Len(cmds) + 1
            /\ new[Len(new)] = l
<1>1. CASE Len(cmds) = MaxHistory
  <2>1. cmds # <<>>
    BY <1>1, BoundAssumption
  <2>2. Tail(cmds) \in Seq(Lines) /\ Len(Tail(cmds)) = MaxHistory - 1
    BY <1>1, <2>1
  <2> QED
    BY <1>1, <2>2, BoundAssumption DEF HistoryAppend
<1>2. CASE Len(cmds) # MaxHistory
  BY <1>2 DEF HistoryAppend
<1> QED
  BY <1>1, <1>2

\* Dropping the last command keeps the others where they are.
LEMMA DropLastType ==
  ASSUME NEW cmds \in Seq(Lines), cmds # <<>>
  PROVE  /\ DropLast(cmds) \in Seq(Lines)
         /\ Len(DropLast(cmds)) = Len(cmds) - 1
         /\ \A i \in 1 .. Len(cmds) - 1 : DropLast(cmds)[i] = cmds[i]
<1> DEFINE n == Len(cmds) - 1
<1>1. n \in Nat /\ \A i \in 1 .. n : cmds[i] \in Lines
  OBVIOUS
<1> HIDE DEF n
<1>2. /\ SubSeq(cmds, 1, n) \in Seq(Lines)
      /\ Len(SubSeq(cmds, 1, n)) = n
      /\ \A i \in 1 .. n : SubSeq(cmds, 1, n)[i] = cmds[i]
  BY <1>1, SubSeqProperties
<1> QED
  BY <1>1, <1>2 DEF DropLast, n

\* A line appended and taken off again costs the oldest command at most.
LEMMA AppendDropped ==
  ASSUME NEW cmds \in Seq(Lines), Len(cmds) <= MaxHistory, NEW l \in Lines
  PROVE  DropLast(HistoryAppend(cmds, l)) =
           IF Len(cmds) = MaxHistory THEN Tail(cmds) ELSE cmds
<1> DEFINE old == IF Len(cmds) = MaxHistory THEN Tail(cmds) ELSE cmds
           new == Append(old, l)
<1>1. old \in Seq(Lines)
  <2>1. Len(cmds) = MaxHistory => cmds # <<>>
    BY BoundAssumption
  <2> QED
    BY <2>1
<1>2. HistoryAppend(cmds, l) = new
  BY DEF HistoryAppend
<1> HIDE DEF old
<1>3. new \in Seq(Lines) /\ Len(new) = Len(old) + 1
  BY <1>1, AppendProperties
<1>4. \A i \in 1 .. Len(old) : new[i] = old[i]
  BY <1>1, AppendProperties
<1> HIDE DEF new
<1>5. /\ DropLast(new) \in Seq(Lines) /\ Len(DropLast(new)) = Len(old)
      /\ \A i \in 1 .. Len(old) : DropLast(new)[i] = old[i]
  <2>1. Len(old) \in Nat
    BY <1>1
  <2>2. new # <<>> /\ Len(new) - 1 = Len(old)
    BY <1>3, <2>1
  <2> QED
    BY <1>3, <1>4, <2>2, DropLastType
<1>6. DropLast(new) = old
  BY <1>1, <1>5, SeqEqual
<1> QED
  BY <1>2, <1>6 DEF old

\* Joining a line to the last command changes that one only, at its end.
LEMMA HistoryJoinType ==
  ASSUME NEW cmds \in Seq(Lines), cmds # <<>>, NEW l \in Lines
  PROVE  LET new == HistoryJoin(cmds, l)
         IN /\ new \in Seq(Lines)
            /\ Len(new) = Len(cmds)
            /\ new[Len(new)] = cmds[Len(cmds)] \o l
<1>1. cmds[Len(cmds)] \in Lines
  OBVIOUS
<1>2. cmds[Len(cmds)] \o l \in Lines
  <2>1. \A a, b \in Seq(Text) : a # <<>> => a \o b \in Seq(Text) /\ a \o b # <<>>
    OBVIOUS
  <2> QED
    BY <1>1, <2>1 DEF Lines
<1> QED
  BY <1>2 DEF HistoryJoin

-----------------------------------------------------------------------------
(* Types and indices                                                       *)

\* The indices, with what makes them inductive: current stays below the size of
\* the array, so that an eviction never leaves it beyond the end.
IndexInv ==
  /\ IndicesInRange
  /\ current < MaxHistory

\* The command under continuation, if there is one.
OwnInv ==
  /\ mode \in Continuation => line # <<>>
  /\ mode = "pipe" => \E i \in DOMAIN line : nature[line[i]] = "pipe"
  /\ mode # "heredoc" => behind = 0
  /\ JoinsOwnCommand

\* What every search leaves when it ends.
LEMMA SettledType ==
  ASSUME TypeOK, IndexInv
  PROVE  /\ Settled \in Seq(Lines) /\ Len(Settled) <= MaxHistory
         /\ SettledCurrent \in Nat /\ SettledCurrent < MaxHistory
         /\ SettledCurrent <= Len(Settled)
         /\ Settled = <<>> => SettledCurrent = 0
<1>1. CASE searched
  <2>1. commands \in Seq(Lines) /\ Len(commands) >= 2
    BY <1>1 DEF TypeOK, IndexInv, IndicesInRange
  <2>2. Settled = DropLast(commands) /\ SettledCurrent = Len(commands) - 1
    BY <1>1 DEF Settled, SettledCurrent
  <2>3. Settled \in Seq(Lines) /\ Len(Settled) = Len(commands) - 1
    BY <2>1, <2>2, DropLastType
  <2> QED
    BY <2>1, <2>2, <2>3, BoundAssumption DEF IndexInv, IndicesInRange
<1>2. CASE ~searched
  BY <1>2 DEF Settled, SettledCurrent, TypeOK, IndexInv, IndicesInRange
<1> QED
  BY <1>1, <1>2

\* Lines are non-empty sequences of pieces.
LEMMA LineType ==
  /\ EmptyLine \in Lines
  /\ \A a \in Seq(Text), b \in Lines : a \o b \in Lines
  /\ Lines \subseteq Seq(Text)
<1>1. \A a, b \in Seq(Text) : b # <<>> => a \o b \in Seq(Text) /\ a \o b # <<>>
  OBVIOUS
<1>2. <<Empty>> \in Seq(Text) /\ <<Empty>> # <<>>
  BY TextAssumption
<1> QED
  BY <1>1, <1>2 DEF Lines, EmptyLine

\* An edited buffer is a line.
LEMMA ChangeBufferType ==
  ASSUME TypeOK, ChangeBuffer
  PROVE  buffer' \in Lines
<1>1. PICK k \in 1 .. Len(buffer), t \in Text : buffer' = SubSeq(buffer, 1, k - 1) \o <<t>>
  BY DEF ChangeBuffer
<1>2. buffer \in Seq(Text)
  BY LineType DEF TypeOK
<1>3. SubSeq(buffer, 1, k - 1) \in Seq(Text)
  <2>1. \A i \in 1 .. k - 1 : buffer[i] \in Text
    BY <1>2
  <2> QED
    BY <2>1, SubSeqProperties
<1>4. <<t>> \in Lines
  BY DEF Lines
<1> QED
  BY <1>1, <1>3, <1>4, LineType

\* main's prompt, after commands and current have been settled.
LEMMA MainPromptType ==
  ASSUME TypeOK, MainPrompt, commands' \in Seq(Lines), current' \in Nat, leaked' \in BOOLEAN
  PROVE  TypeOK'
<1>1. <<>> \in Seq(Text) /\ EmptyLine \in Lines
  BY LineType
<1>2. prompts' \in 0 .. MaxPrompts /\ docs' \in 0 .. MaxDocs /\ behind' \in Nat
  BY BoundAssumption DEF MainPrompt, TypeOK
<1> QED
  BY <1>1, <1>2 DEF MainPrompt, NewEditor, SearchOver, TypeOK, Modes

\* A continuation prompt, likewise.
LEMMA ContinuePromptType ==
  ASSUME TypeOK, NEW m \in Continuation, NEW l \in Lines, ContinuePrompt(m, l),
         commands' \in Seq(Lines), current' \in Nat,
         docs' \in 0 .. MaxDocs
  PROVE  TypeOK'
BY LineType DEF ContinuePrompt, NewEditor, SearchOver, TypeOK, Modes, Continuation, aux

\* The prompt of a further here-document.
LEMMA NextDocumentType ==
  ASSUME TypeOK, NextDocument, commands' \in Seq(Lines), current' \in Nat,
         leaked' \in BOOLEAN, behind' \in Nat
  PROVE  TypeOK'
<1>1. docs' \in 0 .. MaxDocs
  BY BoundAssumption DEF NextDocument, TypeOK
<1> QED
  BY <1>1, LineType DEF NextDocument, NewEditor, SearchOver, TypeOK

\* And so the lexer, which ends in one or the other.
LEMMA LexType ==
  ASSUME TypeOK, NEW l \in Lines, Lex(l), commands' \in Seq(Lines), current' \in Nat
  PROVE  TypeOK'
<1>1. CASE MainPrompt /\ UNCHANGED leaked
  BY <1>1, MainPromptType DEF TypeOK
<1>2. CASE \E m \in Continuation : ContinuePrompt(m, l) /\ (UNCHANGED docs \/ docs' = 1)
  <2>1. docs' \in 0 .. MaxDocs
    BY <1>2, BoundAssumption DEF TypeOK
  <2> QED
    BY <1>2, <2>1, ContinuePromptType
<1> QED
  BY <1>1, <1>2 DEF Lex, Continuation

\* Every step keeps the types and the indices.
LEMMA IndexStep ==
  ASSUME TypeOK, IndexInv, OwnInv, [Next]_vars
  PROVE  TypeOK' /\ IndexInv'
<1> USE SettledType, BoundAssumption DEF IndexInv, IndicesInRange
<1>1. CASE UNCHANGED vars
  BY <1>1 DEF vars, TypeOK
<1>2. CASE Edit \/ Resize
  <2>1. buffer' \in Lines
    BY <1>2, ChangeBufferType DEF Edit, Resize, TypeOK
  <2> QED
    BY <1>2, <2>1, LineType DEF Edit, Resize, SearchOver, TypeOK, aux
<1>3. CASE Delete
  BY <1>3, ChangeBufferType DEF Delete, TypeOK, aux
<1>4. CASE UpFirst
  <2>1. commands \in Seq(Lines) /\ buffer \in Lines /\ commands # <<>>
    BY <1>4 DEF UpFirst, TypeOK
  <2>2. /\ commands' \in Seq(Lines)
        /\ Len(commands') = IF Len(commands) = MaxHistory THEN MaxHistory
                            ELSE Len(commands) + 1
    BY <1>4, <2>1, HistoryAppendType DEF UpFirst
  <2>3. current' = Len(commands') - 2 /\ Len(commands') >= 2 /\ searched' = TRUE
    BY <1>4, <2>1, <2>2 DEF UpFirst
  <2>4. buffer' \in Lines
    <3>1. buffer' = commands'[current' + 1]
      BY <1>4 DEF UpFirst
    <3> QED
      BY <2>2, <2>3, <3>1
  <2> QED
    BY <1>4, <2>1, <2>2, <2>3, <2>4 DEF UpFirst, TypeOK
<1>5. CASE UpAgain
  <2>1. searched /\ current' \in Nat /\ current' < current
    BY <1>5 DEF UpAgain, TypeOK
  <2>2. buffer' \in Lines
    BY <1>5, <2>1 DEF UpAgain, TypeOK
  <2> QED
    BY <1>5, <2>1, <2>2 DEF UpAgain, TypeOK, aux
<1>6. CASE Down
  BY <1>6 DEF Down, TypeOK, aux
<1>7. CASE EnterEmpty
  BY <1>7, MainPromptType DEF EnterEmpty, MainPrompt, NewEditor, SearchOver, TypeOK
<1>8. CASE EnterBlank
  <2> DEFINE new == HistoryAppend(Settled, buffer)
  <2>1. /\ new \in Seq(Lines)
        /\ Len(new) = IF Len(Settled) = MaxHistory THEN MaxHistory ELSE Len(Settled) + 1
    BY HistoryAppendType DEF TypeOK
  <2>2. DropLast(new) \in Seq(Lines) /\ Len(DropLast(new)) = Len(new) - 1
    BY <2>1, DropLastType
  <2>3. commands' = DropLast(new) /\ current' = SettledCurrent /\ searched' = FALSE
    BY <1>8 DEF EnterBlank, MainPrompt, NewEditor, SearchOver
  <2>4. TypeOK'
    BY <1>8, <2>2, <2>3, MainPromptType DEF EnterBlank, TypeOK
  <2>5. commands' = <<>> => Settled = <<>>
    BY <2>1, <2>2, <2>3
  <2> QED
    BY <2>1, <2>2, <2>3, <2>4, <2>5
<1>9. CASE Enter
  <2>1. /\ commands' \in Seq(Lines)
        /\ Len(commands') = IF Len(Settled) = MaxHistory THEN MaxHistory
                            ELSE Len(Settled) + 1
    BY <1>9, HistoryAppendType DEF Enter, TypeOK
  <2>2. TypeOK' /\ searched' = FALSE
    BY <1>9, <2>1, LexType DEF Enter, TypeOK, Lex, MainPrompt, ContinuePrompt, NewEditor, SearchOver
  <2> QED
    BY <1>9, <2>1, <2>2 DEF Enter
<1>10. CASE EnterQuote
  <2>1. Settled # <<>> /\ line \o buffer \in Lines
    BY <1>10, LineType DEF EnterQuote, OwnInv, JoinsOwnCommand, Continuation, TypeOK
  <2>2. commands' \in Seq(Lines) /\ Len(commands') = Len(Settled)
    BY <1>10, <2>1, HistoryJoinType DEF EnterQuote, TypeOK
  <2>3. TypeOK' /\ searched' = FALSE
    BY <1>10, <2>1, <2>2, LexType
    DEF EnterQuote, Lex, MainPrompt, ContinuePrompt, NewEditor, SearchOver
  <2> QED
    BY <1>10, <2>1, <2>2, <2>3 DEF EnterQuote
<1>11. CASE EnterPipe
  <2>1. line \o buffer \in Lines
    BY LineType DEF TypeOK
  <2>2. TypeOK' /\ searched' = FALSE
    BY <1>11, <2>1, LexType DEF EnterPipe, Lex, MainPrompt, ContinuePrompt, NewEditor, SearchOver
  <2> QED
    BY <1>11, <2>2 DEF EnterPipe
<1>12. CASE EnterHeredoc
  <2>1. searched' = FALSE
    BY <1>12 DEF EnterHeredoc, MainPrompt, NextDocument, NewEditor, SearchOver
  <2>2. ASSUME MainPrompt, UNCHANGED leaked PROVE TypeOK'
    BY <1>12, <2>2, MainPromptType DEF EnterHeredoc, TypeOK
  <2>3. ASSUME NewEditor, UNCHANGED <<mode, line, docs, prompts, aux>> PROVE TypeOK'
    BY <1>12, <2>3, LineType DEF EnterHeredoc, NewEditor, SearchOver, TypeOK, aux
  <2>4. ASSUME NextDocument, UNCHANGED <<leaked, behind>> PROVE TypeOK'
    BY <1>12, <2>4, NextDocumentType DEF EnterHeredoc, TypeOK
  <2> QED
    BY <1>12, <2>1, <2>2, <2>3, <2>4 DEF EnterHeredoc
<1>13. CASE EndDocument
  <2>1. searched' = FALSE /\ leaked' \in BOOLEAN
    BY <1>13 DEF EndDocument, MainPrompt, NextDocument, NewEditor, SearchOver, TypeOK
  <2>2. CASE MainPrompt
    BY <1>13, <2>1, <2>2, MainPromptType DEF EndDocument, TypeOK
  <2>3. CASE NextDocument /\ behind' = behind + (IF searched THEN 1 ELSE 0)
    <3>1. behind' \in Nat
      BY <2>3 DEF TypeOK
    <3> QED
      BY <1>13, <2>1, <2>3, <3>1, NextDocumentType DEF EndDocument, TypeOK
  <2> QED
    BY <1>13, <2>1, <2>2, <2>3 DEF EndDocument, TypeOK
<1>14. CASE Abandon
  <2>1. TypeOK' /\ searched' = FALSE
    BY <1>14, MainPromptType DEF Abandon, MainPrompt, NewEditor, SearchOver, TypeOK
  <2> QED
    BY <1>14, <2>1 DEF Abandon, TypeOK
<1>15. CASE Exit
  BY <1>15 DEF Exit, TypeOK, Modes, aux
<1> QED
  BY <1>1, <1>2, <1>3, <1>4, <1>5, <1>6, <1>7, <1>8, <1>9, <1>10, <1>11, <1>12,
     <1>13, <1>14, <1>15 DEF Next

-----------------------------------------------------------------------------
(* The draft and the command under continuation                            *)

\* No step lets another entry than the draft be last during a search.
LEMMA DraftStep ==
  ASSUME TypeOK, IndexInv, DraftIsLast, [Next]_vars
  PROVE  DraftIsLast'
<1>1. CASE UpFirst
  <2>1. /\ commands' = HistoryAppend(commands, buffer)
        /\ draft' = buffer
        /\ commands \in Seq(Lines) /\ Len(commands) <= MaxHistory /\ buffer \in Lines
    BY <1>1 DEF UpFirst, TypeOK, IndexInv, IndicesInRange
  <2>2. commands'[Len(commands')] = buffer
    BY <2>1, HistoryAppendType
  <2> QED
    BY <2>1, <2>2 DEF DraftIsLast
<1>2. CASE UpAgain
  BY <1>2 DEF UpAgain, DraftIsLast, IndexInv, IndicesInRange, aux
<1>3. CASE Delete \/ Down \/ Exit \/ UNCHANGED vars
  BY <1>3 DEF Delete, Down, Exit, vars, aux, DraftIsLast
<1>4. CASE \/ Edit \/ Resize \/ EnterEmpty \/ EnterBlank \/ Enter \/ EnterQuote
           \/ EnterPipe \/ EnterHeredoc \/ EndDocument \/ Abandon
  <2>1. searched' = FALSE
    BY <1>4 DEF Edit, Resize, EnterEmpty, EnterBlank, Enter, EnterQuote, EnterPipe,
                EnterHeredoc, EndDocument, Abandon, Lex, MainPrompt, ContinuePrompt,
                NextDocument, NewEditor, SearchOver
  <2> QED
    BY <2>1 DEF DraftIsLast
<1> QED
  BY <1>1, <1>2, <1>3, <1>4 DEF Next

\* OwnInv about the command cmds[Len(cmds)] and the line l.
Owns(cmds, l) ==
  /\ cmds # <<>>
  /\ cmds[Len(cmds)][1] = l[1]
  /\ (\A i \in DOMAIN l : nature[l[i]] # "pipe") => cmds[Len(cmds)] = l

\* A prompt for more of l keeps OwnInv if l is owned.
LEMMA LexOwns ==
  ASSUME TypeOK, commands' \in Seq(Lines), NEW l \in Lines, Lex(l), Owns(commands', l), behind = 0
  PROVE  OwnInv'
<1>1. CASE MainPrompt
  BY <1>1 DEF MainPrompt, OwnInv, JoinsOwnCommand, Continuation
<1>2. CASE \E m \in Continuation : ContinuePrompt(m, l) /\ (m = "pipe" => EndsInPipe(l))
  <2>1. mode' \in Continuation /\ line' = l /\ searched' = FALSE /\ behind' = 0
    BY <1>2 DEF ContinuePrompt, NewEditor, SearchOver, aux
  <2>2. mode' = "pipe" => EndsInPipe(l)
    BY <1>2 DEF ContinuePrompt
  <2>3. Settled' = commands'
    BY <2>1 DEF Settled
  <2>4. line' # <<>>
    BY <2>1 DEF Lines
  <2>5. Len(Settled') - behind' = Len(commands') /\ Len(commands') > 0
    BY <2>1, <2>3 DEF Owns
  <2> QED
    BY <2>1, <2>2, <2>3, <2>4, <2>5 DEF OwnInv, JoinsOwnCommand, Owns, EndsInPipe
<1> QED
  BY <1>1, <1>2 DEF Lex, Continuation

\* No step turns the last command into another than the one under continuation.
LEMMA OwnStep ==
  ASSUME TypeOK, IndexInv, OwnInv, [Next]_vars
  PROVE  OwnInv'
<1>0. /\ mode \in {"quote", "pipe"} => Owns(Settled, line) /\ line \in Lines
      /\ Settled \in Seq(Lines) /\ Len(Settled) <= MaxHistory
      /\ mode # "heredoc" => behind = 0
  BY SettledType DEF OwnInv, JoinsOwnCommand, Owns, Continuation, TypeOK, Lines
<1>1. ASSUME mode' = mode, line' = line, behind' = behind, Settled' = Settled PROVE OwnInv'
  BY <1>1 DEF OwnInv, JoinsOwnCommand
<1>2. CASE Edit \/ Resize \/ Delete \/ UpAgain \/ Down \/ Exit \/ UNCHANGED vars
  <2>1. CASE Edit \/ Resize
    BY <1>1, <2>1 DEF Edit, Resize, SearchOver, Settled, aux
  <2>2. CASE Delete \/ Down \/ UNCHANGED vars
    BY <1>1, <2>2 DEF Delete, Down, vars, aux, Settled
  <2>3. CASE UpAgain
    BY <1>1, <2>3 DEF UpAgain, Settled, IndexInv, IndicesInRange, aux
  <2>4. CASE Exit
    BY <1>0, <2>4 DEF Exit, OwnInv, JoinsOwnCommand, Continuation, aux
  <2> QED
    BY <1>2, <2>1, <2>2, <2>3, <2>4
<1>3. CASE UpFirst
  <2>1. /\ commands \in Seq(Lines) /\ buffer \in Lines /\ ~searched /\ searched'
        /\ commands' = HistoryAppend(commands, buffer)
        /\ mode' = mode /\ line' = line /\ behind' = behind
    BY <1>3 DEF UpFirst, TypeOK
  <2>2. Settled = commands /\ Settled' = DropLast(HistoryAppend(commands, buffer))
    BY <2>1 DEF Settled
  <2>3. Settled' = IF Len(Settled) = MaxHistory THEN Tail(Settled) ELSE Settled
    BY <1>0, <2>1, <2>2, AppendDropped
  <2>4. CASE Len(Settled) = MaxHistory
    <3> DEFINE place == Len(Settled) - behind
    <3>1. /\ Len(Settled') = MaxHistory - 1 /\ MaxHistory - 1 > 0
          /\ \A i \in 1 .. MaxHistory - 1 : Settled'[i] = Settled[i + 1]
      <4>1. Settled' = Tail(Settled) /\ Settled # <<>>
        BY <2>3, <2>4, BoundAssumption
      <4> QED
        BY <1>0, <2>4, <4>1, BoundAssumption, HeadTailProperties
    <3>2. behind \in Nat /\ Len(Settled') - behind' = place - 1 /\ place \in Int
      BY <2>1, <2>4, <3>1, BoundAssumption DEF TypeOK
    <3>3. place - 1 > 0 => Settled'[place - 1] = Settled[place]
      BY <2>4, <3>1, <3>2, BoundAssumption
    <3>4. mode # "heredoc" => place - 1 > 0
      BY <1>0, <2>4, <3>1
    <3> QED
      BY <2>1, <3>2, <3>3, <3>4 DEF OwnInv, JoinsOwnCommand
  <2> QED
    BY <1>1, <2>1, <2>3, <2>4
<1>4. CASE MainPrompt
  BY <1>4 DEF MainPrompt, OwnInv, JoinsOwnCommand, Continuation
<1>5. CASE Enter
  <2>1. Settled \in Seq(Lines) /\ Len(Settled) <= MaxHistory /\ buffer \in Lines
    BY SettledType DEF TypeOK
  <2>2. Owns(commands', buffer)
    <3>1. commands' = HistoryAppend(Settled, buffer)
      BY <1>5 DEF Enter
    <3>2. Len(commands') > 0 /\ commands'[Len(commands')] = buffer
      BY <2>1, <3>1, HistoryAppendType, BoundAssumption
    <3> QED
      BY <3>2 DEF Owns
  <2> QED
    BY <1>0, <1>5, <2>1, <2>2, LexOwns, HistoryAppendType DEF Enter
<1>6. CASE EnterQuote
  <2>1. /\ Settled \in Seq(Lines) /\ Owns(Settled, line) /\ line \in Lines
        /\ buffer \in Lines
    BY <1>0, <1>6 DEF EnterQuote, TypeOK
  <2> DEFINE own == Settled[Len(Settled)]
  <2>2. /\ commands' = HistoryJoin(Settled, buffer)
        /\ commands' # <<>>
        /\ commands'[Len(commands')] = own \o buffer
    <3>1. Settled # <<>> /\ commands' = HistoryJoin(Settled, buffer)
      BY <1>6, <2>1 DEF EnterQuote, Owns
    <3>2. Len(commands') = Len(Settled) /\ Len(Settled) > 0
      BY <2>1, <3>1, HistoryJoinType
    <3>3. commands'[Len(commands')] = own \o buffer
      BY <2>1, <3>1, HistoryJoinType
    <3> QED
      BY <3>1, <3>2, <3>3
  <2>3. own \in Lines
    BY <2>1 DEF Owns
  <2>4. Owns(commands', line \o buffer)
    <3>1. (own \o buffer)[1] = own[1] /\ (line \o buffer)[1] = line[1]
      BY <2>1, <2>3 DEF Lines
    <3>2. \A i \in DOMAIN line :
            i \in DOMAIN (line \o buffer) /\ (line \o buffer)[i] = line[i]
      BY <2>1 DEF Lines
    <3> QED
      BY <2>1, <2>2, <3>1, <3>2 DEF Owns
  <2>5. commands' \in Seq(Lines)
    BY <2>1, <2>2, HistoryJoinType DEF Owns
  <2> QED
    BY <1>0, <1>6, <2>1, <2>4, <2>5, LineType, LexOwns DEF EnterQuote
<1>7. CASE EnterPipe
  <2>1. /\ Owns(Settled, line) /\ line \in Lines /\ buffer \in Lines
        /\ \E i \in DOMAIN line : nature[line[i]] = "pipe"
    BY <1>0, <1>7 DEF EnterPipe, TypeOK, OwnInv
  <2>2. Owns(commands', line \o buffer)
    <3>1. (line \o buffer)[1] = line[1]
      BY <2>1 DEF Lines
    <3>2. \A i \in DOMAIN line :
            i \in DOMAIN (line \o buffer) /\ (line \o buffer)[i] = line[i]
      BY <2>1 DEF Lines
    <3> QED
      BY <1>7, <2>1, <3>1, <3>2 DEF EnterPipe, Owns
  <2> QED
    BY <1>0, <1>7, <2>1, <2>2, LineType, LexOwns DEF EnterPipe
<1>8. CASE EnterHeredoc /\ ~MainPrompt
  <2>1. /\ mode' = mode /\ line' = line /\ behind' = behind /\ searched' = FALSE
        /\ commands' = Settled
    BY <1>8 DEF EnterHeredoc, NextDocument, NewEditor, SearchOver, aux
  <2>2. Settled' = Settled
    BY <2>1 DEF Settled
  <2> QED
    BY <1>1, <2>1, <2>2
<1>9. CASE EndDocument /\ ~MainPrompt
  <2>1. /\ mode = "heredoc" /\ mode' = mode /\ line' = line
        /\ searched' = FALSE /\ commands' = commands
        /\ behind' = behind + (IF searched THEN 1 ELSE 0)
        /\ behind \in Nat /\ commands \in Seq(Lines)
    BY <1>9 DEF EndDocument, NextDocument, NewEditor, SearchOver, TypeOK
  <2>2. Settled' = commands
    BY <2>1 DEF Settled
  <2>3. CASE ~searched
    BY <1>1, <2>1, <2>2, <2>3 DEF Settled
  <2>4. CASE searched
    <3> DEFINE place == Len(Settled) - behind
    <3>1. commands # <<>> /\ Settled = DropLast(commands)
      BY <2>4 DEF Settled, IndexInv, IndicesInRange
    <3>2. /\ Len(Settled) = Len(commands) - 1
          /\ \A i \in 1 .. Len(commands) - 1 : Settled[i] = commands[i]
      BY <2>1, <3>1, DropLastType
    <3>3. Len(Settled') - behind' = place /\ place \in Int
      BY <2>1, <2>2, <2>4, <3>2
    <3>4. place > 0 => Settled'[place] = Settled[place]
      BY <2>1, <2>2, <3>2, <3>3
    <3> QED
      BY <2>1, <3>3, <3>4 DEF OwnInv, JoinsOwnCommand
  <2> QED
    BY <2>3, <2>4
<1> QED
  BY <1>2, <1>3, <1>4, <1>5, <1>6, <1>7, <1>8, <1>9 DEF Next, EnterEmpty, EnterBlank, Abandon

-----------------------------------------------------------------------------

\* The invariant all of it rests on.
HistoryInv == TypeOK /\ IndexInv /\ DraftIsLast /\ OwnInv

\* It holds from the start and is kept.
LEMMA HistoryInvariant == Spec => []HistoryInv
<1>1. Init => HistoryInv
  <2> SUFFICES ASSUME Init PROVE HistoryInv
    OBVIOUS
  <2>1. <<>> \in Seq(Lines) /\ <<>> \in Seq(Text) /\ Len(<<>>) = 0
    OBVIOUS
  <2>2. TypeOK
    <3>1. commands = <<>> /\ line = <<>> /\ saved = <<>>
      BY DEF Init
    <3>2. /\ buffer \in Lines /\ draft \in Lines /\ mode \in Modes /\ prompts \in 0 .. MaxPrompts
          /\ docs \in 0 .. MaxDocs /\ behind \in Nat
      BY LineType, BoundAssumption DEF Init, Modes
    <3>3. searched \in BOOLEAN /\ leaked \in BOOLEAN /\ current \in Nat
      BY DEF Init
    <3> QED
      BY <2>1, <3>1, <3>2, <3>3 DEF TypeOK
  <2>3. IndexInv /\ DraftIsLast
    BY <2>1, BoundAssumption DEF Init, IndexInv, IndicesInRange, DraftIsLast
  <2>4. OwnInv
    BY DEF Init, OwnInv, JoinsOwnCommand, Continuation
  <2> QED
    BY <2>2, <2>3, <2>4 DEF HistoryInv
<1>2. HistoryInv /\ [Next]_vars => HistoryInv'
  BY IndexStep, DraftStep, OwnStep DEF HistoryInv
<1> QED
  BY <1>1, <1>2, PTL DEF Spec

\* The line, the commands and the draft are lines, and the flags flags, under every
\* key and prompt.
THEOREM HistoryTyped == Spec => []TypeOK
<1>1. HistoryInv => TypeOK
  BY DEF HistoryInv
<1> QED
  BY <1>1, HistoryInvariant, PTL

\* history->commands is never overrun and no entry beyond its last is read, for
\* an array of any size of at least two: history_append, Up, Down and
\* le_zero_hist_research agree on where it ends.
THEOREM HistoryIndices == Spec => []IndicesInRange
<1>1. HistoryInv => IndicesInRange
  BY DEF HistoryInv, IndexInv
<1> QED
  BY <1>1, HistoryInvariant, PTL

\* le_zero_hist_research only ever drops the draft of line_editing_up.
THEOREM DraftOnly == Spec => []DraftIsLast
<1>1. HistoryInv => DraftIsLast
  BY DEF HistoryInv
<1> QED
  BY <1>1, HistoryInvariant, PTL

\* The appendmode of history_append, which joins to whatever is last, always
\* finds the command that lexing_handling_quotes is reading; where drafts lie above
\* the command, after Ctrl-D under "h> ", nothing is joined.
THEOREM JoinsOwn == Spec => []JoinsOwnCommand
<1>1. HistoryInv => JoinsOwnCommand
  BY DEF HistoryInv, OwnInv
<1> QED
  BY <1>1, HistoryInvariant, PTL

-----------------------------------------------------------------------------
(* What is lost                                                            *)

\* What a step does to the commands below the draft: nothing; or it evicts the oldest,
\* appends a line, joins one to the last, or, with Ctrl-C or Ctrl-D, leaves the draft.
SettledCases ==
  \/ Settled' = Settled
  \/ Len(Settled) = MaxHistory /\ Settled' = Tail(Settled)
  \/ Enter /\ Settled' = HistoryAppend(Settled, buffer)
  \/ EnterQuote /\ Settled' = HistoryJoin(Settled, buffer)
  \/ (Abandon \/ EndDocument) /\ searched /\ Settled' = commands

LEMMA SettledStep ==
  ASSUME TypeOK, IndexInv, OwnInv, [Next]_vars
  PROVE  SettledCases
<1>0. Settled \in Seq(Lines) /\ Len(Settled) <= MaxHistory /\ buffer \in Lines
  BY SettledType DEF TypeOK
<1>1. CASE UpFirst
  <2>1. Settled = commands /\ Settled' = DropLast(HistoryAppend(commands, buffer))
    BY <1>1 DEF UpFirst, Settled
  <2> QED
    BY <1>0, <2>1, AppendDropped DEF SettledCases
<1>2. CASE EnterBlank
  <2>1. Settled' = DropLast(HistoryAppend(Settled, buffer))
    BY <1>2 DEF EnterBlank, MainPrompt, NewEditor, SearchOver, Settled
  <2> QED
    BY <1>0, <2>1, AppendDropped DEF SettledCases
<1>3. CASE Edit \/ Resize \/ Delete \/ UpAgain \/ Down \/ Exit \/ UNCHANGED vars
  BY <1>3 DEF Edit, Resize, SearchOver, Delete, UpAgain, Down, Exit, vars, aux, Settled,
              IndexInv, IndicesInRange, SettledCases
<1>4. CASE EnterEmpty \/ EnterPipe \/ EnterHeredoc
  <2>1. searched' = FALSE /\ commands' = Settled
    BY <1>4 DEF EnterEmpty, EnterPipe, EnterHeredoc, Lex, MainPrompt, ContinuePrompt,
                NextDocument, NewEditor, SearchOver
  <2> QED
    BY <2>1 DEF Settled, SettledCases
<1>5. CASE Enter
  <2>1. searched' = FALSE
    BY <1>5 DEF Enter, Lex, MainPrompt, ContinuePrompt, NewEditor, SearchOver
  <2>2. Settled' = commands' /\ commands' = HistoryAppend(Settled, buffer)
    BY <1>5, <2>1 DEF Enter, Settled
  <2> QED
    BY <1>5, <2>2 DEF SettledCases
<1>6. CASE EnterQuote
  <2>1. searched' = FALSE
    BY <1>6 DEF EnterQuote, Lex, MainPrompt, ContinuePrompt, NewEditor, SearchOver
  <2>2. Settled' = commands' /\ commands' = HistoryJoin(Settled, buffer)
    BY <1>6, <2>1 DEF EnterQuote, Settled
  <2> QED
    BY <1>6, <2>2 DEF SettledCases
<1>7. CASE Abandon \/ EndDocument
  <2>1. Settled' = commands /\ (~searched => Settled = commands)
    BY <1>7 DEF Abandon, EndDocument, MainPrompt, NextDocument, NewEditor, SearchOver, Settled
  <2> QED
    BY <1>7, <2>1 DEF SettledCases
<1> QED
  BY <1>1, <1>2, <1>3, <1>4, <1>5, <1>6, <1>7 DEF Next

\* No command is blank: one joined to another keeps what that has.
NoBlank(cmds) == \A i \in DOMAIN cmds : ~Blank(cmds[i])

LEMMA BlankStep ==
  ASSUME HistoryInv, NoBlankCommand, [Next]_vars
  PROVE  NoBlankCommand'
<1> SUFFICES ASSUME ~leaked' PROVE NoBlank(Settled')
  BY DEF NoBlankCommand, NoBlank
<1>0. /\ Settled \in Seq(Lines) /\ Len(Settled) <= MaxHistory /\ buffer \in Lines
      /\ SettledCases
  BY SettledType, SettledStep DEF HistoryInv, TypeOK
<1>1. ~leaked
  BY DEF Next, Edit, Delete, UpFirst, UpAgain, Down, Resize, EnterEmpty, EnterBlank, Enter,
         EnterQuote, EnterPipe, EnterHeredoc, EndDocument, Abandon, Exit, Lex,
         ContinuePrompt, vars, aux
<1>2. NoBlank(Settled)
  BY <1>1 DEF NoBlankCommand, NoBlank
<1>3. CASE Settled' = Settled
  BY <1>2, <1>3
<1>4. CASE Len(Settled) = MaxHistory /\ Settled' = Tail(Settled)
  BY <1>0, <1>2, <1>4, BoundAssumption DEF NoBlank
<1>5. CASE Enter /\ Settled' = HistoryAppend(Settled, buffer)
  <2>1. ~Blank(buffer)
    BY <1>5 DEF Enter
  <2>2. ASSUME NEW cmds \in Seq(Lines), NoBlank(cmds) PROVE NoBlank(Append(cmds, buffer))
    BY <1>0, <2>1, <2>2 DEF NoBlank
  <2>3. Len(Settled) = MaxHistory => Tail(Settled) \in Seq(Lines) /\ NoBlank(Tail(Settled))
    BY <1>0, <1>2, BoundAssumption DEF NoBlank
  <2> QED
    BY <1>0, <1>2, <1>5, <2>2, <2>3 DEF HistoryAppend
<1>6. CASE EnterQuote /\ Settled' = HistoryJoin(Settled, buffer)
  <2>1. Settled # <<>>
    BY <1>0, <1>6 DEF EnterQuote, HistoryInv, OwnInv, JoinsOwnCommand, Continuation
  <2> DEFINE own == Settled[Len(Settled)]
  <2>2. own \in Seq(Text) /\ ~Blank(own) /\ buffer \in Seq(Text)
    BY <1>0, <1>2, <2>1 DEF NoBlank, Lines
  <2> HIDE DEF own
  <2>3. ~Blank(own \o buffer)
    <3>1. PICK i \in DOMAIN own : nature[own[i]] # "blank"
      BY <2>2 DEF Blank
    <3>2. i \in DOMAIN (own \o buffer) /\ (own \o buffer)[i] = own[i]
      BY <2>2
    <3> QED
      BY <3>1, <3>2 DEF Blank
  <2>4. Settled' = [Settled EXCEPT ![Len(Settled)] = own \o buffer]
    BY <1>6 DEF HistoryJoin, own
  <2> QED
    BY <1>0, <1>2, <2>3, <2>4 DEF NoBlank
<1>7. CASE (Abandon \/ EndDocument) /\ searched
  BY <1>7 DEF Abandon, EndDocument
<1> QED
  BY <1>0, <1>3, <1>4, <1>5, <1>6, <1>7 DEF SettledCases

\* What a step does to the commands below the draft and to those remembered from
\* main's prompt.
LostCases ==
  \/ saved' = Settled' /\ Added' = 0
  \/ /\ saved' = saved
     /\ \/ Settled' = Settled /\ Added' = Added
        \/ Len(Settled) = MaxHistory /\ Settled' = Tail(Settled) /\ Added' = Added
        \/ Settled' = HistoryAppend(Settled, buffer) /\ Added = 0 /\ Added' = 1
        \/ /\ Settled' = HistoryJoin(Settled, buffer) /\ Settled # <<>>
           /\ Added = 1 /\ Added' = 1
        \/ searched /\ Settled' = commands /\ Added' = Added + 1

LEMMA LostSteps ==
  ASSUME HistoryInv, [Next]_vars
  PROVE  LostCases
<1>0. /\ TypeOK /\ IndexInv /\ OwnInv /\ SettledCases
      /\ mode # "heredoc" => behind = 0
      /\ behind \in Nat
  BY SettledStep DEF HistoryInv, OwnInv, TypeOK
<1>1. CASE MainPrompt
  <2>1. /\ saved' = commands' /\ searched' = FALSE
        /\ mode' = "basic" /\ behind' = 0
    BY <1>1 DEF MainPrompt, NewEditor, SearchOver
  <2>2. "basic" \notin Continuation
    BY DEF Continuation
  <2>3. Added' = 0
    BY <2>1, <2>2 DEF Added
  <2> QED
    BY <2>1, <2>3 DEF Settled, LostCases
<1>2. CASE ~MainPrompt
  <2>1. ASSUME NEW l, Lex(l)
        PROVE  saved' = saved /\ mode' \in Continuation /\ behind' = behind /\ searched' = FALSE
    BY <1>2, <2>1 DEF Lex, Continuation, ContinuePrompt, NewEditor, SearchOver, aux
  <2>2. CASE Enter
    <3>1. /\ saved' = saved /\ mode = "basic" /\ mode' \in Continuation
          /\ behind = 0 /\ behind' = 0
          /\ commands' = HistoryAppend(Settled, buffer) /\ searched' = FALSE
      BY <1>0, <2>1, <2>2 DEF Enter
    <3>2. Added = 0 /\ Added' = 1
      BY <3>1 DEF Added, Continuation
    <3> QED
      BY <3>1, <3>2 DEF LostCases, Settled
  <2>3. CASE EnterQuote
    <3>1. /\ saved' = saved /\ mode = "quote" /\ mode' \in Continuation
          /\ behind = 0 /\ behind' = 0
          /\ commands' = HistoryJoin(Settled, buffer) /\ searched' = FALSE
      BY <1>0, <2>1, <2>3 DEF EnterQuote
    <3>2. Settled \in Seq(Lines) /\ Len(Settled) - behind > 0
      BY <1>0, <3>1, SettledType DEF OwnInv, JoinsOwnCommand, Continuation
    <3>3. Settled # <<>> /\ Added = 1 /\ Added' = 1
      BY <3>1, <3>2 DEF Added, Continuation
    <3> QED
      BY <3>1, <3>3 DEF LostCases, Settled
  <2>4. CASE EnterPipe
    <3>1. /\ saved' = saved /\ mode = "pipe" /\ mode' \in Continuation /\ behind' = behind
          /\ commands' = Settled /\ searched' = FALSE
      BY <2>1, <2>4 DEF EnterPipe
    <3>2. Added' = Added
      BY <3>1 DEF Added, Continuation
    <3> QED
      BY <3>1, <3>2 DEF LostCases, Settled
  <2>5. CASE EndDocument
    <3>1. /\ saved' = saved /\ mode' = mode /\ commands' = commands /\ searched' = FALSE
          /\ behind' = behind + (IF searched THEN 1 ELSE 0)
      BY <1>2, <2>5 DEF EndDocument, NextDocument, NewEditor, SearchOver
    <3>2. Settled' = commands /\ Added' = Added + (IF searched THEN 1 ELSE 0) /\ Added \in Nat
      BY <1>0, <3>1 DEF Settled, Added
    <3> QED
      BY <3>1, <3>2 DEF LostCases, Settled
  <2>6. CASE ~(Enter \/ EnterQuote \/ EnterPipe \/ EndDocument)
    <3>1. /\ saved' = saved /\ behind' = behind
          /\ mode' = mode \/ (mode = "basic" /\ mode' = "exit")
      BY <1>2, <2>6 DEF Next, Edit, Delete, UpFirst, UpAgain, Down, Resize, EnterEmpty,
         EnterBlank, EnterHeredoc, NextDocument, Abandon, Exit, vars, aux
    <3>2. Added' = Added
      BY <3>1 DEF Added, Continuation
    <3>3. ~Abandon
      BY <1>2 DEF Abandon
    <3> QED
      BY <1>0, <2>6, <3>1, <3>2, <3>3 DEF LostCases, SettledCases
  <2> QED
    BY <2>2, <2>3, <2>4, <2>5, <2>6
<1> QED
  BY <1>1, <1>2

SettledOK == Settled \in Seq(Lines) /\ Len(Settled) <= MaxHistory

Lost == Len(saved) + Added - Len(Settled)

\* LosesOldestOnly entry by entry.
LostInv ==
  /\ Lost >= 0
  /\ \A i \in 1 .. Len(Settled) - Added : Settled[i] = saved[i + Lost]
  /\ Lost > 0 => Len(Settled) >= MaxHistory - 1

LEMMA LostStep ==
  ASSUME HistoryInv, LostInv, SettledOK', [Next]_vars
  PROVE  LostInv'
<1>0. /\ Settled \in Seq(Lines) /\ Len(Settled) <= MaxHistory /\ buffer \in Lines
      /\ saved \in Seq(Lines) /\ commands \in Seq(Lines)
      /\ LostCases
      /\ Settled' \in Seq(Lines) /\ Len(Settled') <= MaxHistory
      /\ MaxHistory \in Nat /\ MaxHistory >= 2
  BY SettledType, LostSteps, BoundAssumption DEF HistoryInv, SettledOK, TypeOK
<1>1. Added \in Nat
  BY DEF Added, HistoryInv, TypeOK
<1> DEFINE n == Len(Settled)
           m == Len(Settled')
<1>2. n \in Nat /\ m \in Nat /\ Len(saved) \in Nat
  BY <1>0
<1>3. Lost = Len(saved) + Added - n
  BY DEF Lost
<1>4. /\ Lost >= 0
      /\ \A i \in 1 .. n - Added : Settled[i] = saved[i + Lost]
      /\ Lost > 0 => n >= MaxHistory - 1
  BY DEF LostInv
<1>5. ASSUME NEW e \in Nat, Added' = e, saved' = saved,
             Len(saved) + e - m >= 0,
             \A i \in 1 .. m - e : Settled'[i] = saved[i + (Len(saved) + e - m)],
             Len(saved) + e - m > 0 => m >= MaxHistory - 1
      PROVE  LostInv'
  BY <1>5 DEF LostInv, Lost
<1>6. CASE saved' = Settled' /\ Added' = 0
  <2>1. Lost' = 0
    BY <1>2, <1>6 DEF Lost
  <2> QED
    BY <1>2, <1>6, <2>1 DEF LostInv
<1>7. CASE saved' = saved /\ Settled' = Settled /\ Added' = Added
  BY <1>7 DEF LostInv, Lost
<1>8. CASE /\ saved' = saved
           /\ Len(Settled) = MaxHistory /\ Settled' = Tail(Settled) /\ Added' = Added
  <2>1. m = n - 1 /\ n = MaxHistory /\ \A i \in 1 .. m : Settled'[i] = Settled[i + 1]
    <3>1. Settled # <<>>
      BY <1>0, <1>8
    <3> QED
      BY <1>0, <1>8, <3>1, HeadTailProperties
  <2>2. Len(saved) + Added - m = Lost + 1
    BY <1>1, <1>2, <1>3, <2>1
  <2> HIDE DEF n, m
  <2>3. ASSUME NEW i \in 1 .. m - Added
        PROVE  Settled'[i] = saved[i + (Lost + 1)]
    <3>1. i + 1 \in 1 .. n - Added /\ i \in 1 .. m
      BY <1>1, <1>2, <2>1
    <3>2. Settled'[i] = Settled[i + 1] /\ Settled[i + 1] = saved[(i + 1) + Lost]
      BY <1>4, <2>1, <3>1
    <3>3. (i + 1) + Lost = i + (Lost + 1)
      BY <1>1, <1>2, <1>3
    <3> QED
      BY <3>2, <3>3
  <2>4. Len(saved) + Added - m >= 0
    BY <1>1, <1>2, <1>3, <1>4, <2>2
  <2>5. m >= MaxHistory - 1
    BY <1>2, <2>1
  <2> QED
    BY <1>1, <1>5, <1>8, <2>2, <2>3, <2>4, <2>5
<1>9. CASE /\ saved' = saved
           /\ Settled' = HistoryAppend(Settled, buffer) /\ Added = 0 /\ Added' = 1
  <2>1. CASE n = MaxHistory
    <3>1. /\ Tail(Settled) \in Seq(Lines) /\ Len(Tail(Settled)) = n - 1
          /\ \A i \in 1 .. n - 1 : Tail(Settled)[i] = Settled[i + 1]
      <4>1. Settled # <<>>
        BY <1>0, <2>1
      <4> QED
        BY <1>0, <4>1, HeadTailProperties
    <3>2. Settled' = Append(Tail(Settled), buffer)
      BY <1>9, <2>1 DEF HistoryAppend
    <3>3. m = n /\ \A i \in 1 .. n - 1 : Settled'[i] = Settled[i + 1]
      BY <1>0, <3>1, <3>2, AppendProperties
    <3>4. Len(saved) + 1 - m = Lost + 1
      BY <1>2, <1>3, <1>9, <3>3
    <3> HIDE DEF n, m
    <3>5. ASSUME NEW i \in 1 .. m - 1
          PROVE  Settled'[i] = saved[i + (Lost + 1)]
      <4>1. i + 1 \in 1 .. n - Added /\ i \in 1 .. n - 1
        BY <1>2, <1>9, <3>3
      <4>2. Settled'[i] = Settled[i + 1] /\ Settled[i + 1] = saved[(i + 1) + Lost]
        BY <1>4, <3>3, <4>1
      <4>3. (i + 1) + Lost = i + (Lost + 1)
        BY <1>1, <1>2, <1>3
      <4> QED
        BY <4>2, <4>3
    <3>6. Len(saved) + 1 - m >= 0 /\ m >= MaxHistory - 1
      BY <1>0, <1>1, <1>2, <1>3, <1>4, <2>1, <3>3, <3>4
    <3> QED
      BY <1>5, <1>9, <3>4, <3>5, <3>6
  <2>2. CASE n # MaxHistory
    <3>1. Settled' = Append(Settled, buffer)
      BY <1>9, <2>2 DEF HistoryAppend
    <3>2. m = n + 1 /\ \A i \in 1 .. n : Settled'[i] = Settled[i]
      BY <1>0, <3>1, AppendProperties
    <3>3. Len(saved) + 1 - m = Lost
      BY <1>2, <1>3, <1>9, <3>2
    <3> HIDE DEF n, m
    <3>4. m - 1 = n /\ n - Added = n
      BY <1>2, <1>9, <3>2
    <3>5. \A i \in 1 .. m - 1 : Settled'[i] = saved[i + Lost]
      BY <1>4, <3>2, <3>4
    <3>6. Lost > 0 => m >= MaxHistory - 1
      BY <1>0, <1>2, <1>4, <3>2
    <3> QED
      BY <1>4, <1>5, <1>9, <3>3, <3>5, <3>6
  <2> QED
    BY <2>1, <2>2
<1>10. CASE /\ saved' = saved
            /\ Settled' = HistoryJoin(Settled, buffer) /\ Settled # <<>>
            /\ Added = 1 /\ Added' = 1
  <2>1. m = n /\ \A i \in 1 .. n - 1 : Settled'[i] = Settled[i]
    BY <1>0, <1>10 DEF HistoryJoin
  <2> HIDE DEF n, m
  <2>2. Len(saved) + 1 - m = Lost
    BY <1>3, <1>10, <2>1
  <2>3. \A i \in 1 .. m - 1 : Settled'[i] = saved[i + Lost]
    BY <1>4, <1>10, <2>1
  <2> QED
    BY <1>4, <1>5, <1>10, <2>1, <2>2, <2>3
<1>11. CASE saved' = saved /\ searched /\ Settled' = commands /\ Added' = Added + 1
  <2>1. m = n + 1 /\ \A i \in 1 .. n : Settled'[i] = Settled[i]
    <3>1. commands # <<>> /\ Settled = DropLast(commands)
      BY <1>11 DEF Settled, HistoryInv, IndexInv, IndicesInRange
    <3>2. /\ Len(DropLast(commands)) = Len(commands) - 1
          /\ \A i \in 1 .. Len(commands) - 1 : DropLast(commands)[i] = commands[i]
      BY <1>0, <3>1, DropLastType
    <3> QED
      BY <1>0, <1>11, <3>1, <3>2
  <2> HIDE DEF n, m
  <2>2. Len(saved) + (Added + 1) - m = Lost /\ m - (Added + 1) = n - Added
    BY <1>1, <1>2, <1>3, <2>1
  <2>3. \A i \in 1 .. m - (Added + 1) : Settled'[i] = saved[i + Lost]
    <3> SUFFICES ASSUME NEW i \in 1 .. n - Added PROVE Settled'[i] = saved[i + Lost]
      BY <2>2
    <3>1. i \in 1 .. n
      BY <1>1, <1>2
    <3> QED
      BY <1>4, <2>1, <3>1
  <2>4. Lost > 0 => m >= MaxHistory - 1
    BY <1>0, <1>2, <1>4, <2>1
  <2>5. Added + 1 \in Nat
    BY <1>1
  <2> QED
    BY <1>4, <1>5, <1>11, <2>2, <2>3, <2>4, <2>5
<1> QED
  BY <1>0, <1>6, <1>7, <1>8, <1>9, <1>10, <1>11 DEF LostCases

\* A line of blanks, which lexing takes off again, stays in no other way either: not by
\* an eviction, a search or a join.
THEOREM BlanksStayOut == Spec => []NoBlankCommand
<1>1. Init => NoBlankCommand
  BY DEF Init, NoBlankCommand, Settled
<1>2. HistoryInv /\ NoBlankCommand /\ [Next]_vars => NoBlankCommand'
  BY BlankStep
<1> QED
  BY <1>1, <1>2, HistoryInvariant, PTL DEF Spec

\* Whatever is edited, searched and continued under any of the prompts, and however
\* many drafts Ctrl-D leaves there, the commands that main's prompt found are lost from
\* the oldest on, and only from a history that is full but for the place of a draft.
THEOREM OldestOnly == Spec => []LosesOldestOnly
<1>1. Init => LostInv
  <2> SUFFICES ASSUME Init PROVE LostInv
    OBVIOUS
  <2>1. Settled = <<>> /\ saved = <<>> /\ Added = 0
    BY DEF Init, Settled, Added, Continuation
  <2> QED
    BY <2>1 DEF LostInv, Lost
<1>2. HistoryInv /\ LostInv /\ SettledOK' /\ [Next]_vars => LostInv'
  BY LostStep
<1>3. HistoryInv => SettledOK
  BY SettledType DEF HistoryInv, SettledOK
<1>4. HistoryInv /\ LostInv => LosesOldestOnly
  <2> SUFFICES ASSUME HistoryInv, LostInv PROVE LosesOldestOnly
    OBVIOUS
  <2> DEFINE k == Len(Settled) - Added
             below == SubSeq(Settled, 1, k)
             rest == SubSeq(saved, Lost + 1, Len(saved))
  <2>1. Settled \in Seq(Lines) /\ saved \in Seq(Lines) /\ Added \in Nat
    BY SettledType DEF HistoryInv, TypeOK, Added
  <2>2. /\ Lost \in Nat /\ Len(saved) - Lost = k /\ k \in Int /\ k <= Len(Settled)
        /\ \A i \in 1 .. k : Settled[i] = saved[i + Lost]
        /\ Lost > 0 => Len(Settled) >= MaxHistory - 1
    BY <2>1 DEF LostInv, Lost
  <2> HIDE DEF k
  <2>3. \A i \in 1 .. k : Settled[i] \in Lines
    BY <2>1, <2>2
  <2>4. /\ below \in Seq(Lines)
        /\ Len(below) = IF 1 <= k THEN k ELSE 0
        /\ \A i \in 1 .. k : below[i] = Settled[i]
    BY <2>2, <2>3, SubSeqProperties
  <2>5. \A i \in Lost + 1 .. Len(saved) : saved[i] \in Lines
    BY <2>1, <2>2
  <2>6. /\ rest \in Seq(Lines)
        /\ Len(rest) = IF 1 <= k THEN k ELSE 0
        /\ \A i \in 1 .. k : rest[i] = saved[Lost + i]
    BY <2>1, <2>2, <2>5, SubSeqProperties
  <2>7. below = rest
    <3> HIDE DEF below, rest
    <3>1. \A i \in 1 .. k : below[i] = rest[i]
      BY <2>2, <2>4, <2>6
    <3>2. Len(below) = Len(rest) /\ \A i \in 1 .. Len(below) : i \in 1 .. k
      BY <2>2, <2>4, <2>6
    <3> QED
      BY <2>4, <2>6, <3>1, <3>2, SeqEqual
  <2> QED
    BY <2>2, <2>7 DEF LosesOldestOnly, Lost, k
<1> QED
  BY <1>1, <1>2, <1>3, <1>4, HistoryInvariant, PTL DEF Spec

=============================================================================
