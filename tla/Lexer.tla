-------------------------------- MODULE Lexer --------------------------------
(***************************************************************************)
(* lexer_creating: a command line is cut into tokens in one pass, which    *)
(* prompts for more when the line ends in a quotation or in a pipe.        *)
(*                                                                         *)
(* One action is one turn of the loop of lexer_creating_cycle, or of the   *)
(* loop of lexing_handling_quotes once a quotation is open.  Characters    *)
(* are one-letter strings; what a token's text means is left to the later  *)
(* stages.                                                                 *)
(***************************************************************************)
EXTENDS Integers, Sequences, FiniteSets

CONSTANTS
  Plain,      \* characters with no meaning of their own
  Digit,
  MaxChars    \* bound: characters read for one command

Quote == {"'", "\""}
White == {" ", "\t"}
Character == Plain \cup Digit \cup Quote \cup White \cup {">", "<", "&", "|", ";"}

\* g_operators
Operator ==
  {<<">">>, <<">", "&">>, <<">", ">">>, <<"<">>, <<"<", "&">>, <<"<", "<">>,
   <<"|">>, <<";">>}

\* Those before which a number is a file descriptor: "<<" is not among them.
NumberedOperator == Operator \ {<<"<", "<">>, <<"|">>, <<";">>}

ASSUME CharacterAssumption ==
  /\ Plain \cap (Digit \cup Quote \cup White \cup {">", "<", "&", "|", ";"}) = {}
  /\ Digit \cap (Quote \cup White \cup {">", "<", "&", "|", ";"}) = {}
  /\ MaxChars \in Nat

VARIABLES
  rest,    \* *command from last + 1 on; its end is the terminating NUL
  tokens,  \* lexer->tokens
  token,   \* the token under construction
  delim,   \* the quote lexing_handling_quotes was called for, or ""
  status,  \* "scan", a prompt for more ("quote", "pipe"), "done" or "failed"
  input    \* auxiliary: all that was read, each prompt's newline included

vars == <<rest, tokens, token, delim, status, input>>

Token == [type : {"UKNOWN", "WORD", "OPERATOR", "IO_NUMBER"}, str : Seq(Character \cup {"\n"})]
NoToken == [type |-> "UKNOWN", str |-> <<>>]

TypeOK ==
  /\ rest \in Seq(Character)
  /\ tokens \in Seq(Token)
  /\ token \in Token
  /\ delim \in Quote \cup {""}
  /\ status \in {"scan", "quote", "pipe", "done", "failed"}
  /\ input \in Seq(Character \cup {"\n"})

Init ==
  /\ rest \in UNION {[1 .. n -> Character] : n \in 1 .. MaxChars}
  /\ tokens = <<>>
  /\ token = NoToken
  /\ delim = ""
  /\ status = "scan"
  /\ input = rest

-----------------------------------------------------------------------------
Scanning == status = "scan" /\ delim = ""
Quoting == status = "scan" /\ delim # ""
AtEnd == rest = <<>>
Next1 == Head(rest)

Advance == rest' = Tail(rest)

\* lexing_try_append_operator
TryAppend == ~AtEnd /\ Append(token.str, Next1) \in Operator

\* lexing_handling_appword
Extended(t, c) == [t EXCEPT !.str = Append(@, c)]

IsNumber(s) == s # <<>> /\ \A i \in DOMAIN s : s[i] \in Digit

\* lexing_divide_operator: the operator is complete, so that the type of the word
\* just before it can be told.
Divided ==
  LET n == Len(tokens)
      typed == IF n > 0 /\ tokens[n].type = "UKNOWN"
               THEN [tokens EXCEPT ![n].type =
                       IF IsNumber(tokens[n].str) /\ token.str \in NumberedOperator
                       THEN "IO_NUMBER" ELSE "WORD"]
               ELSE tokens
  IN Append(typed, token)

InOperator == token.type = "OPERATOR"

\* The finished tokens and the one under construction when the cycle has dealt
\* with an operator that ends here.
Finished == IF InOperator THEN Divided ELSE tokens
Current == IF InOperator THEN NoToken ELSE token

\* A word that ends here is pushed as it is, or as a WORD.
Pushed(type) ==
  IF Current = NoToken THEN Finished
  ELSE Append(Finished, [Current EXCEPT !.type = type])

\* The next character does not go on with an operator.
Fresh == Scanning /\ ~(InOperator /\ TryAppend)

-----------------------------------------------------------------------------
(* The cycle                                                               *)

AppendOperator ==
  /\ Scanning
  /\ InOperator /\ TryAppend
  /\ token' = Extended(token, Next1)
  /\ Advance
  /\ UNCHANGED <<tokens, delim, status, input>>

\* lexing_init_operator_token
BeginOperator ==
  /\ Fresh
  /\ ~AtEnd /\ \E o \in Operator : o[1] = Next1
  /\ tokens' = Pushed("UKNOWN")
  /\ token' = [type |-> "OPERATOR", str |-> <<Next1>>]
  /\ Advance
  /\ UNCHANGED <<delim, status, input>>

\* lexing_handling_quotes
OpenQuote ==
  /\ Fresh
  /\ ~AtEnd /\ Next1 \in Quote
  /\ tokens' = Finished
  /\ token' = Extended(Current, Next1)
  /\ delim' = Next1
  /\ Advance
  /\ UNCHANGED <<status, input>>

\* lexing_handling_separator
Separator ==
  /\ Fresh
  /\ ~AtEnd /\ Next1 \in White
  /\ tokens' = Pushed("WORD")
  /\ token' = NoToken
  /\ Advance
  /\ UNCHANGED <<delim, status, input>>

\* lexing_handling_appword and lexing_handling_initword
WordCharacter ==
  /\ Fresh
  /\ ~AtEnd /\ Next1 \in Plain \cup Digit \cup {"&"}
  /\ tokens' = Finished
  /\ token' = Extended(Current, Next1)
  /\ Advance
  /\ UNCHANGED <<delim, status, input>>

\* Fault: the test for a token under construction is missing.
EndAfterBar ==
  /\ Fresh
  /\ AtEnd
  /\ tokens' = Pushed("WORD")
  /\ token' = NoToken
  /\ status' = IF Finished # <<>> /\ Finished[Len(Finished)].str = <<"|">>
               THEN "pipe" ELSE "done"
  /\ UNCHANGED <<rest, delim, input>>

\* lexing_handling_end
End ==
  /\ Fresh
  /\ AtEnd
  /\ tokens' = Pushed("WORD")
  /\ token' = NoToken
  /\ status' = IF Current = NoToken /\ Finished # <<>>
                  /\ Finished[Len(Finished)].str = <<"|">>
               THEN "pipe" ELSE "done"
  /\ UNCHANGED <<rest, delim, input>>

-----------------------------------------------------------------------------
(* Inside a quotation                                                      *)

\* Fault: either quote closes a quotation.
QuotedEither ==
  /\ Quoting
  /\ ~AtEnd
  /\ token' = Extended(token, Next1)
  /\ delim' = IF Next1 \in Quote THEN "" ELSE delim
  /\ Advance
  /\ UNCHANGED <<tokens, status, input>>

QuotedCharacter ==
  /\ Quoting
  /\ ~AtEnd
  /\ token' = Extended(token, Next1)
  /\ delim' = IF Next1 = delim THEN "" ELSE delim
  /\ Advance
  /\ UNCHANGED <<tokens, status, input>>

\* lexing_handling_quotes_ifnull
EndInQuote ==
  /\ Quoting
  /\ AtEnd
  /\ token' = Extended(token, "\n")
  /\ status' = "quote"
  /\ input' = Append(input, "\n")
  /\ UNCHANGED <<rest, tokens, delim>>

-----------------------------------------------------------------------------
(* The prompts for more                                                    *)

More ==
  /\ status \in {"quote", "pipe"}
  /\ \E n \in 0 .. MaxChars - Len(input) :
       rest' \in [1 .. n -> Character]
  /\ input' = (IF status = "pipe" THEN Append(input, " ") ELSE input) \o rest'
  /\ status' = "scan"
  /\ UNCHANGED <<tokens, token, delim>>

\* Ctrl-C, or Ctrl-D on an empty line: the command is dropped.
GiveUp ==
  /\ status \in {"quote", "pipe"}
  /\ status' = "failed"
  /\ token' = NoToken /\ delim' = "" /\ rest' = <<>>
  /\ UNCHANGED <<tokens, input>>

Next ==
  \/ AppendOperator \/ BeginOperator \/ OpenQuote \/ Separator \/ WordCharacter
  \/ End \/ QuotedCharacter \/ EndInQuote \/ More \/ GiveUp

Spec == Init /\ [][Next]_vars

-----------------------------------------------------------------------------
(* What the tokens of a command should be, position by position            *)

\* The quotation open before each character: "" or its quote.
Open(s) ==
  LET open[i \in 1 .. Len(s) + 1] ==
        IF i = 1 THEN ""
        ELSE IF open[i - 1] = "" THEN IF s[i - 1] \in Quote THEN s[i - 1] ELSE ""
        ELSE IF s[i - 1] = open[i - 1] THEN "" ELSE open[i - 1]
  IN open

\* What each character is: white space, the first or second character of an
\* operator, or a part of a word.
Roles(s) ==
  LET open == Open(s)
      role[i \in 1 .. Len(s)] ==
        IF open[i] # "" THEN "word"
        ELSE IF i > 1 /\ role[i - 1] = "first" /\ <<s[i - 1], s[i]>> \in Operator
        THEN "second"
        ELSE IF <<s[i]>> \in Operator THEN "first"
        ELSE IF s[i] \in White THEN "white"
        ELSE "word"
  IN role

Reference(s) ==
  LET role == Roles(s)
      begins == {i \in DOMAIN s : \/ role[i] = "first"
                                  \/ role[i] = "word" /\ (i = 1 \/ role[i - 1] # "word")}
      last(i) == CHOOSE j \in i .. Len(s) :
        /\ \A k \in i + 1 .. j : role[k] = IF role[i] = "first" THEN "second" ELSE "word"
        /\ j = Len(s) \/ role[j + 1] # IF role[i] = "first" THEN "second" ELSE "word"
      text(i) == SubSeq(s, i, last(i))
      type(i) ==
        IF role[i] = "first" THEN "OPERATOR"
        ELSE IF IsNumber(text(i)) /\ last(i) < Len(s) /\ role[last(i) + 1] = "first"
                /\ text(last(i) + 1) \in NumberedOperator
        THEN "IO_NUMBER" ELSE "WORD"
      nth(n) == CHOOSE i \in begins : Cardinality({j \in begins : j <= i}) = n
  IN [n \in 1 .. Cardinality(begins) |->
        [type |-> type(nth(n)), str |-> text(nth(n))]]

-----------------------------------------------------------------------------
(* Properties                                                              *)

\* The tokens of a finished command are those of the text as a whole, however
\* many lines it was typed on and wherever they were broken.
LexesAsReference == status = "done" => tokens = Reference(input)

\* The prompts come when the command is unfinished, and only then.
PromptsForMore ==
  /\ status \in {"quote", "pipe", "done"} =>
       (status = "quote" <=> Open(input)[Len(input) + 1] # "")
  /\ status \in {"pipe", "done"} =>
       LET all == Reference(input)
           bar == all # <<>> /\ all[Len(all)].str = <<"|">>
       IN status = "pipe" <=> bar

=============================================================================
