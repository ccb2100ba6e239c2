------------------------------- MODULE MCWords -------------------------------
(* Every word over two letters and the characters with a meaning; values   *)
(* without quotes, and values that bring in quotes, dollars and names.     *)
EXTENDS Words

MCHome == <<"h">>
Set == {<<"a">>, <<"h">>}
Harmless == [n \in Set |-> IF n = MCHome THEN <<"h">> ELSE <<"a", "~">>]
Quoting == [n \in Set |-> IF n = MCHome THEN <<"$", "a">> ELSE <<"single", "$", "h">>]
Unset == [n \in {} |-> <<>>]

MCEnvironments == {Harmless, Quoting, Unset}

=============================================================================
