----------------------------- MODULE AstCreator -----------------------------
(***************************************************************************)
(* creating_ast: from the tokens of a command to its syntax tree, by       *)
(* recursive descent on ranges of tokens: ";" first, then "|", then the    *)
(* redirections, then the words.  A redirection is taken out of a range by *)
(* marking its tokens USED and descending into the same range again.       *)
(*                                                                         *)
(* Here-documents are read from the terminal on the way, so that a syntax  *)
(* error may come before or after some of them, and the user may break one *)
(* off, which drops the command.                                           *)
(***************************************************************************)
EXTENDS Integers, Sequences, FiniteSets, SequencesExt

CONSTANTS
  Word,      \* texts of words
  Number,    \* texts of IO_NUMBER tokens
  MaxTokens  \* bound: tokens of a command

IoOperator == {">", "<<"}
Separator == {";", "|"}

ASSUME TokenAssumption ==
  /\ (Word \cup Number) \cap (IoOperator \cup Separator) = {}
  /\ MaxTokens \in Nat

VARIABLES
  tokens,  \* shell->lexer->tokens, with their types
  stop,    \* which here-document the user breaks off, or 0
  result   \* the tree and what the descent has left behind

vars == <<tokens, stop, result>>

Token ==
  [type : {"WORD"}, str : Word \cup Number]
    \cup [type : {"IO_NUMBER"}, str : Number]
    \cup [type : {"OPERATOR"}, str : IoOperator \cup Separator]

IsOperator(t, names) == t.type = "OPERATOR" /\ t.str \in names

\* What lexer_creating leaves: numbers only before ">", no "|" at the end.
Lexed(t) ==
  /\ t # <<>>
  /\ \A i \in DOMAIN t :
       t[i].type = "IO_NUMBER" => i < Len(t) /\ IsOperator(t[i + 1], {">"})
  /\ ~IsOperator(Last(t), {"|"})

\* t_ast: type, content, left and right; Null is also the value of a failure.
Null == <<>>
Tree(type, content, l, r) == <<type, content, l, r>>

\* The descent threads the marks on the tokens and the here-documents read.
Failure(t, docs) == [ok |-> FALSE, ast |-> Null, t |-> t, docs |-> docs]
Success(ast, t, docs) == [ok |-> TRUE, ast |-> ast, t |-> t, docs |-> docs]

-----------------------------------------------------------------------------
\* Fault: the search for the first goes on to the last.
FinalTokenPos(t, beg, end, names) ==
  LET found == {i \in beg .. end : IsOperator(t[i], names)}
  IN IF found = {} THEN 0 ELSE CHOOSE i \in found : \A j \in found : i >= j

\* first_token_pos and last_token_pos; 0 if there is none.
FirstTokenPos(t, beg, end, names) ==
  LET found == {i \in beg .. end : IsOperator(t[i], names)}
  IN IF found = {} THEN 0 ELSE CHOOSE i \in found : \A j \in found : i <= j

LastTokenPos(t, beg, end, names) ==
  LET found == {i \in beg .. end : IsOperator(t[i], names)}
  IN IF found = {} THEN 0 ELSE CHOOSE i \in found : \A j \in found : j <= i

\* create_command
CreateCommand(t, beg, end) ==
  LET words == SelectSeq(SubSeq(t, beg, end), LAMBDA x : x.type = "WORD")
  IN Tree("COMMAND", [i \in DOMAIN words |-> words[i].str], Null, Null)

\* Fault: the words a redirection takes keep their type.
UseOperator(t, i) ==
  IF t[i].type = "WORD" THEN t ELSE [t EXCEPT ![i].type = "USED"]

Use(t, i) == [t EXCEPT ![i].type = "USED"]

\* create_redirection_ast and create_redirection_ast_content
RECURSIVE CreateRedirection(_, _, _, _)
CreateRedirection(t, beg, end, docs) ==
  LET pos == FirstTokenPos(t, beg, end, IoOperator)
      file == t[pos + 1].str
      read == IF t[pos].str = "<<" THEN Append(docs, file) ELSE docs
      broken == Len(read) > Len(docs) /\ Len(read) = stop
      numbered == pos > 1 /\ t[pos - 1].type = "IO_NUMBER"
      used == Use(Use(t, pos), pos + 1)
      below == CreateRedirection(IF numbered THEN Use(used, pos - 1) ELSE used,
                                 beg, end, read)
  IN IF pos = 0 THEN Success(CreateCommand(t, beg, end), t, docs)
     ELSE IF pos + 1 > end \/ t[pos + 1].type = "OPERATOR" THEN Failure(t, docs)
     ELSE IF broken THEN Failure(Use(t, pos), read)
     ELSE IF ~below.ok THEN below
     ELSE [below EXCEPT !.ast =
             Tree("REDIRECTION",
                  <<t[pos].str, file, IF numbered THEN t[pos - 1].str ELSE "">>,
                  @, Null)]

\* create_separator_ast_pipe
RECURSIVE CreatePipe(_, _, _, _)
CreatePipe(t, beg, end, docs) ==
  LET pos == LastTokenPos(t, beg, end, {"|"})
      l == CreatePipe(t, beg, pos - 1, docs)
      r == CreateRedirection(l.t, pos + 1, end, l.docs)
  IN IF pos = 0 THEN CreateRedirection(t, beg, end, docs)
     ELSE IF pos = beg \/ pos + 1 > end THEN Failure(t, docs)
     ELSE IF ~l.ok THEN l
     ELSE IF ~r.ok THEN r
     ELSE [r EXCEPT !.ast = Tree("OPERATOR", "|", l.ast, r.ast)]

\* create_separator_ast: an empty side of ";" is a NULL pointer.
RECURSIVE CreateSeparator(_, _, _, _)
CreateSeparator(t, beg, end, docs) ==
  LET pos == LastTokenPos(t, beg, end, {";"})
      l == IF pos # beg THEN CreateSeparator(t, beg, pos - 1, docs)
           ELSE Success(Null, t, docs)
      r == IF pos + 1 <= end THEN CreatePipe(l.t, pos + 1, end, l.docs)
           ELSE Success(Null, l.t, l.docs)
  IN IF pos = 0 THEN CreatePipe(t, beg, end, docs)
     ELSE IF ~l.ok THEN l
     ELSE IF ~r.ok THEN r
     ELSE [r EXCEPT !.ast = Tree("OPERATOR", ";", l.ast, r.ast)]

-----------------------------------------------------------------------------
Pending == Failure(<<>>, <<>>)

Init ==
  /\ tokens \in {t \in BoundedSeq(Token, MaxTokens) : Lexed(t)}
  /\ stop \in 0 .. Cardinality({i \in DOMAIN tokens : IsOperator(tokens[i], {"<<"})})
  /\ result = Pending

\* creating_ast
CreateAst ==
  /\ result = Pending
  /\ result' = CreateSeparator(tokens, 1, Len(tokens), <<>>)
  /\ UNCHANGED <<tokens, stop>>

Spec == Init /\ [][CreateAst]_vars

-----------------------------------------------------------------------------
(* The grammar                                                             *)

\* The pieces of s between its members that satisfy a test, the empty ones too.
Split(s, names) ==
  LET cuts == {0, Len(s) + 1} \cup {i \in DOMAIN s : IsOperator(s[i], names)}
      nth(n) == CHOOSE i \in cuts : Cardinality({j \in cuts : j <= i}) = n
  IN [n \in 1 .. Cardinality(cuts) - 1 |-> SubSeq(s, nth(n) + 1, nth(n + 1) - 1)]

\* A simple command: each redirection is followed by its file.
Redirections(s) == {i \in DOMAIN s : IsOperator(s[i], IoOperator)}

SimpleIsValid(s) ==
  /\ s # <<>>
  /\ \A i \in Redirections(s) : i < Len(s) /\ s[i + 1].type # "OPERATOR"

\* A number that is the file of one redirection is not the descriptor of the next.
SimpleTree(s) ==
  LET ops == Redirections(s)
      files == {i + 1 : i \in ops}
      numbers == {i \in DOMAIN s : s[i].type = "IO_NUMBER"}
      arguments == {i \in DOMAIN s : i \notin ops \cup files \cup numbers}
      nth(set, n) == CHOOSE i \in set : Cardinality({j \in set : j <= i}) = n
      words == [n \in 1 .. Cardinality(arguments) |-> s[nth(arguments, n)].str]
      around(n) == LET i == nth(ops, Cardinality(ops) + 1 - n)
                   IN <<s[i].str, s[i + 1].str,
                        IF i - 1 \in numbers \ files THEN s[i - 1].str ELSE "">>
      tree[n \in 0 .. Cardinality(ops)] ==
        IF n = 0 THEN Tree("COMMAND", words, Null, Null)
        ELSE Tree("REDIRECTION", around(n), tree[n - 1], Null)
  IN tree[Cardinality(ops)]

\* A pipeline leans to the left and has no empty member.
PipelineIsValid(s) ==
  LET parts == Split(s, {"|"}) IN \A i \in DOMAIN parts : SimpleIsValid(parts[i])

PipelineTree(s) ==
  LET parts == Split(s, {"|"})
      tree[n \in 1 .. Len(parts)] ==
        IF n = 1 THEN SimpleTree(parts[1])
        ELSE Tree("OPERATOR", "|", tree[n - 1], SimpleTree(parts[n]))
  IN tree[Len(parts)]

\* A list leans to the left; any of its pipelines may be empty.
IsValid(t) ==
  LET parts == Split(t, {";"})
  IN \A i \in DOMAIN parts : parts[i] = <<>> \/ PipelineIsValid(parts[i])

ListTree(t) ==
  LET parts == Split(t, {";"})
      member(n) == IF parts[n] = <<>> THEN Null ELSE PipelineTree(parts[n])
      tree[n \in 1 .. Len(parts)] ==
        IF n = 1 THEN member(1) ELSE Tree("OPERATOR", ";", tree[n - 1], member(n))
  IN tree[Len(parts)]

\* The delimiters of the here-documents, in the order of the text.
Delimiters(t) ==
  LET at == {i \in 1 .. Len(t) - 1 : IsOperator(t[i], {"<<"})}
      nth(n) == CHOOSE i \in at : Cardinality({j \in at : j <= i}) = n
  IN [n \in 1 .. Cardinality(at) |-> t[nth(n) + 1].str]

-----------------------------------------------------------------------------
(* Properties                                                              *)

Created == result # Pending

\* The tree is the one the grammar gives, and there is none exactly if the
\* tokens are not in the grammar or a here-document is broken off: marking the
\* tokens USED loses no word and gives none twice.
TreeOfGrammar ==
  Created =>
    /\ result.ok <=> IsValid(tokens) /\ stop = 0
    /\ result.ok => result.ast = ListTree(tokens)

\* Here-documents are asked for in the order they are written in, each once, also
\* if the command turns out to be wrong; for a good command all of them are, up to
\* the one broken off.
DocumentsInOrder ==
  Created =>
    /\ IsPrefix(result.docs, Delimiters(tokens))
    /\ IsValid(tokens) =>
         Len(result.docs) = IF stop = 0 THEN Len(Delimiters(tokens)) ELSE stop

=============================================================================
