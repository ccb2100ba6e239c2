----------------------------- MODULE MCKeyReader -----------------------------
(* A letter, a character of two bytes and one of three, a command, Escape, *)
(* Enter, EOT, and a control character without a meaning.                  *)
EXTENDS KeyReader

MCByte == {"a", "lead2", "lead3", "cont", "esc", "[", "A", "R", "newline", "EOT", "ctrl"}
MCExtra == [b \in MCByte |-> CASE b = "lead2" -> 1 [] b = "lead3" -> 2 [] OTHER -> 0]
MCControl == {"esc", "newline", "EOT", "ctrl"}
Up == <<"esc", "[", "A">>
MCCommand == {Up, <<"EOT">>}
MCKey == MCCommand \cup
  {<<"a">>, <<"lead2", "cont">>, <<"lead3", "cont", "cont">>, <<"esc">>, <<"newline">>, <<"ctrl">>}
MCReply == <<"esc", "[", "a", "R">>

=============================================================================
