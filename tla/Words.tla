-------------------------------- MODULE Words --------------------------------
(***************************************************************************)
(* What becomes of a word before a command is run: tilde_expansion,        *)
(* env_expansion and quote_removing, each a pass over the word in place.   *)
(* One action is one turn of a loop.                                       *)
(*                                                                         *)
(* A word is what the lexer makes one: its quotes are closed, and blanks   *)
(* stand inside of quotes only.  Offsets count from 0, as in C: the        *)
(* character at offset i is word[i + 1].                                   *)
(***************************************************************************)
EXTENDS Integers, Sequences, SequencesExt, FiniteSets, FiniteSetsExt, Functions

CONSTANTS
  Char,
  Dollar, SQuote, DQuote, Tilde, Blank,   \* the characters that mean something
  HOME,                                   \* a name
  Environments,  \* functions from names to values
  MaxLen         \* bound: characters of a word

Quotes == {SQuote, DQuote}
EndsName == {Dollar, SQuote, DQuote, Blank}

ASSUME WordAssumption ==
  /\ {Dollar, SQuote, DQuote, Tilde, Blank} \subseteq Char
  /\ Cardinality({Dollar, SQuote, DQuote, Tilde, Blank}) = 5
  /\ MaxLen \in Nat
  /\ \A e \in Environments : Range(e) \subseteq Seq(Char)

\* Modes(s)[i] is the quotation that is open behind the character i, "plain" if
\* there is none.
Mode(mode, c) ==
  CASE mode = "plain" /\ c = SQuote -> "single"
    [] mode = "plain" /\ c = DQuote -> "double"
    [] mode = "single" /\ c = SQuote -> "plain"
    [] mode = "double" /\ c = DQuote -> "plain"
    [] OTHER -> mode

Modes(s) ==
  LET at[i \in 0 .. Len(s)] == IF i = 0 THEN "plain" ELSE Mode(at[i - 1], s[i])
  IN at

Word ==
  {w \in BoundedSeq(Char, MaxLen) :
     /\ w # <<>>
     /\ Modes(w)[Len(w)] = "plain"
     /\ \A i \in DOMAIN w : w[i] = Blank => Modes(w)[i] # "plain"}

VARIABLES
  given,       \* the word as it was typed
  env,
  word,
  phase,       \* the pass
  j,           \* env_expansion's offset, or quote_removing_str's nextsearch
  squotemode, dquotemode,
  expanded     \* auxiliary: the word between the two last passes

vars == <<given, env, word, phase, j, squotemode, dquotemode, expanded>>

TypeOK ==
  /\ given \in Word /\ env \in Environments
  /\ word \in Seq(Char) /\ expanded \in Seq(Char)
  /\ phase \in {"tilde", "env", "quotes", "done"}
  /\ j \in 0 .. Len(word)
  /\ squotemode \in BOOLEAN /\ dquotemode \in BOOLEAN

Init ==
  /\ given \in Word /\ env \in Environments
  /\ word = given
  /\ phase = "tilde"
  /\ j = 0 /\ squotemode = FALSE /\ dquotemode = FALSE
  /\ expanded = <<>>

\* get_env; a variable that is not set joins as the empty string.
GetEnv(n) == IF n \in DOMAIN env THEN env[n] ELSE <<>>

Before(n) == SubSeq(word, 1, n)
From(n) == SubSeq(word, n + 1, Len(word))
Here == word[j + 1]

-----------------------------------------------------------------------------
TildeExpansion ==
  /\ phase = "tilde"
  /\ word' = IF word[1] = Tilde THEN GetEnv(HOME) \o From(1) ELSE word
  /\ phase' = "env"
  /\ UNCHANGED <<given, env, j, squotemode, dquotemode, expanded>>

-----------------------------------------------------------------------------
(* env_expansion_kernel                                                    *)

InEnv == phase = "env" /\ j < Len(word)

\* Fault: ++j is missing.
Stay == UNCHANGED <<j, given, env, word, phase, expanded>>

Forward ==
  /\ j' = j + 1
  /\ UNCHANGED <<given, env, word, phase, expanded>>

\* Also inside of single quotes.
DoubleQuote ==
  /\ InEnv /\ Here = DQuote
  /\ dquotemode' = ~dquotemode
  /\ Forward
  /\ UNCHANGED squotemode

SingleQuotes == Here = SQuote /\ ~dquotemode

SingleQuote ==
  /\ InEnv /\ SingleQuotes
  /\ squotemode' = ~squotemode
  /\ Forward
  /\ UNCHANGED dquotemode

\* The first character behind offset n that cannot belong to a name, or the end.
NameEnd(n) == Min({i \in n .. Len(word) : i = Len(word) \/ word[i + 1] \in EndsName})

Names == Here = Dollar /\ ~squotemode /\ NameEnd(j + 1) > j + 1

OtherCharacter ==
  /\ InEnv
  /\ Here # DQuote /\ ~SingleQuotes /\ ~Names
  /\ Forward
  /\ UNCHANGED <<squotemode, dquotemode>>

\* Fault: the value is read again.
BackToValue(value) == j

\* The value itself is not read again.
BehindValue(value) == j + Len(value)

\* replace_env_variable_repl.  A name that goes to the end of the word ends the
\* pass.
Replace ==
  /\ InEnv /\ Names
  /\ LET end == NameEnd(j + 1)
         value == GetEnv(SubSeq(word, j + 2, end))
     IN /\ word' = Before(j) \o value \o From(end)
        /\ j' = IF end = Len(word) THEN Len(word') ELSE BehindValue(value)
  /\ UNCHANGED <<given, env, phase, squotemode, dquotemode, expanded>>

EnvExpanded ==
  /\ phase = "env" /\ j = Len(word)
  /\ phase' = "quotes"
  /\ j' = 0
  /\ expanded' = word
  /\ UNCHANGED <<given, env, word, squotemode, dquotemode>>

-----------------------------------------------------------------------------
(* quote_removing_str                                                      *)

\* The next quote, and the one that closes it; Len(word) is none.
Opening == Min({i \in j .. Len(word) : i = Len(word) \/ word[i + 1] \in Quotes})
Closing ==
  Min({i \in Opening + 1 .. Len(word) + 1 :
         i >= Len(word) \/ word[i + 1] = word[Opening + 1]})

\* Fault: the search goes on from the beginning.
FromBeginning == 0

\* Behind what the two quotes have enclosed.
NextSearch == Closing - 1

RemoveQuotes ==
  /\ phase = "quotes" /\ Closing < Len(word)
  /\ word' = Before(Opening) \o SubSeq(word, Opening + 2, Closing) \o From(Closing + 1)
  /\ j' = NextSearch
  /\ UNCHANGED <<given, env, phase, squotemode, dquotemode, expanded>>

QuotesRemoved ==
  /\ phase = "quotes" /\ Closing >= Len(word)
  /\ phase' = "done"
  /\ UNCHANGED <<given, env, word, j, squotemode, dquotemode, expanded>>

Done == phase = "done" /\ UNCHANGED vars

Pass ==
  \/ TildeExpansion
  \/ DoubleQuote \/ SingleQuote \/ OtherCharacter \/ Replace \/ EnvExpanded
  \/ RemoveQuotes \/ QuotesRemoved

Next == Pass \/ Done

Spec == Init /\ [][Next]_vars
FairSpec == Spec /\ WF_vars(Pass)

-----------------------------------------------------------------------------
(* The reference: each character of the word that was typed is looked at   *)
(* once, in the quotation it is in.                                        *)

\* The name that a dollar at place i begins ends before this place.
Behind(s, i) == Min({n \in i + 1 .. Len(s) + 1 : n = Len(s) + 1 \/ s[n] \in EndsName})

Begins(s, i) == s[i] = Dollar /\ Modes(s)[i] # "single" /\ Behind(s, i) > i + 1

InName(s, i) == \E n \in 1 .. i - 1 : Begins(s, n) /\ i < Behind(s, n)

IsQuote(s, i) == s[i] \in Quotes /\ Modes(s)[i] # Modes(s)[i - 1]

\* What stands for character i, with the quotes or without them.
Piece(s, i, quotes) ==
  CASE i = 1 /\ s[i] = Tilde -> GetEnv(HOME)
    [] Begins(s, i) -> GetEnv(SubSeq(s, i + 1, Behind(s, i) - 1))
    [] InName(s, i) \/ (IsQuote(s, i) /\ ~quotes) -> <<>>
    [] OTHER -> <<s[i]>>

Reference(s, quotes) == FlattenSeq([i \in DOMAIN s |-> Piece(s, i, quotes)])

-----------------------------------------------------------------------------
(* Properties                                                              *)

\* A double quote inside of single quotes, which the pass takes for one that
\* counts.
Misleads == \E i \in DOMAIN given : given[i] = DQuote /\ Modes(given)[i] = "single"

\* HOME is read again by env_expansion.
HomeReread == given[1] = Tilde /\ ToSet(GetEnv(HOME)) \cap (Quotes \cup {Dollar}) # {}

\* env_expansion replaces the names that stand outside of single quotes as the
\* lexer understands them, each once, and nothing that a value has brought in.
ExpandsOnce ==
  phase \in {"quotes", "done"} /\ ~Misleads /\ ~HomeReread =>
    expanded = Reference(given, TRUE)

\* Both passes together leave what was meant: quotes disappear that the user has
\* typed to enclose something, and all else stays, as long as no value has a quote.
MeansWhatIsTyped ==
  phase = "done" /\ ~Misleads /\ ~HomeReread /\
  (\A n \in DOMAIN env : ToSet(env[n]) \cap Quotes = {}) =>
    word = Reference(given, FALSE)

\* The passes come to an end, whatever the values are.
Finishes == <>(phase = "done")

=============================================================================
